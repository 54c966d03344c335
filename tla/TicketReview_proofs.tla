------------------------ MODULE TicketReview_proofs ------------------------
(***************************************************************************)
(* Proofs about the way from an approved ticket to a comparison, for any   *)
(* tickets, any proposals of the model and any answers of the service.     *)
(* ReviewInv says what a review and a comparison were made of; what is     *)
(* left is about functions of sequences, by induction along their courses. *)
(***************************************************************************)
EXTENDS TicketReview, SequenceFacts

-----------------------------------------------------------------------------
(* What a review has on its way *)

\* What was accepted was valid for the packet, and the issues were made of it.
AcceptedInv ==
  IF review = "accepted"
  THEN /\ SubmissionError(packet, accepted) = "none"
       /\ projected = Projected(packet, accepted)
       /\ \E p \in Proposals(packet) : accepted = NormalizedProposal(p)
  ELSE accepted = NoProposal /\ projected = NoProjection

\* A comparison has an answer of the service.
ComparedInv ==
  \/ compared = 0 /\ evidence = NoEvidence
  \/ /\ review = "accepted" /\ compared \in DOMAIN projected.issues
     /\ evidence \in Answers
     /\ evidence.named =
          ConfirmedArticle(Candidate(projected.issues[compared]), Approved(ticket))

ReviewInv ==
  /\ ticket \in Tickets
  /\ IF review = "none" THEN packet = <<>> ELSE packet = SelectedExcerpts(ticket)
  /\ AcceptedInv /\ ComparedInv

LEMMA InitReviewInv == Init => ReviewInv
BY DEF Init, ReviewInv, AcceptedInv, ComparedInv

LEMMA BeginStep == ReviewInv /\ Begin => ReviewInv'
<1> SUFFICES ASSUME ReviewInv, Begin PROVE ReviewInv'
  OBVIOUS
<1>1. /\ review = "none" /\ packet' = SelectedExcerpts(ticket)
      /\ review' \in {"unavailable", "pending"}
      /\ UNCHANGED <<ticket, accepted, projected, compared, evidence>>
  BY DEF Begin
<1>2. accepted = NoProposal /\ projected = NoProjection
  BY <1>1 DEF ReviewInv, AcceptedInv
<1>3. compared = 0 /\ evidence = NoEvidence
  BY <1>1 DEF ReviewInv, ComparedInv
<1> QED
  BY <1>1, <1>2, <1>3 DEF ReviewInv, AcceptedInv, ComparedInv

LEMMA SubmitStep == ReviewInv /\ Submit => ReviewInv'
<1> SUFFICES ASSUME ReviewInv, Submit PROVE ReviewInv'
  OBVIOUS
<1>1. review = "pending" /\ UNCHANGED <<ticket, packet, compared, evidence>>
  BY DEF Submit
<1>2. /\ accepted = NoProposal /\ projected = NoProjection
      /\ packet = SelectedExcerpts(ticket) /\ ticket \in Tickets
      /\ compared = 0 /\ evidence = NoEvidence
  BY <1>1 DEF ReviewInv, AcceptedInv, ComparedInv
<1>3. PICK q \in Proposals(packet) :
        LET p == NormalizedProposal(q)
            error == SubmissionError(packet, p)
        IN IF error = "none" THEN Taken(p) ELSE Refused(error)
  BY DEF Submit
<1> DEFINE p == NormalizedProposal(q)
           error == SubmissionError(packet, p)
<1>4. CASE error # "none"
  <2>1. Refused(error)
    BY <1>3, <1>4
  <2>2. review' \in {"pending", "ended"} /\ UNCHANGED <<accepted, projected>>
    BY <1>1, <2>1 DEF Refused
  <2> QED
    BY <1>1, <1>2, <2>2 DEF ReviewInv, AcceptedInv, ComparedInv
<1>5. CASE error = "none"
  <2>1. Taken(p)
    BY <1>3, <1>5
  <2>2. \/ review' = "ended" /\ UNCHANGED <<accepted, projected>>
        \/ review' = "accepted" /\ accepted' = p /\ projected' = Projected(packet, p)
    BY <2>1 DEF Taken
  <2>3. CASE review' = "ended" /\ UNCHANGED <<accepted, projected>>
    BY <1>1, <1>2, <2>3 DEF ReviewInv, AcceptedInv, ComparedInv
  <2>4. CASE review' = "accepted" /\ accepted' = p /\ projected' = Projected(packet, p)
    <3> HIDE DEF p
    <3> QED
      BY <1>1, <1>2, <1>5, <2>4 DEF ReviewInv, AcceptedInv, ComparedInv, p
  <2> QED
    BY <2>2, <2>3, <2>4
<1> QED
  BY <1>4, <1>5

LEMMA CompareStep ==
  ASSUME ReviewInv, NEW n \in DOMAIN projected.issues, Compare(n)
  PROVE  ReviewInv'
<1>1. /\ review = "accepted" /\ compared' = n
      /\ evidence' \in Answers
      /\ evidence'.named = ConfirmedArticle(Candidate(projected.issues[n]), Approved(ticket))
      /\ UNCHANGED <<ticket, packet, review, accepted, projected>>
  BY DEF Compare
<1> QED
  BY <1>1 DEF ReviewInv, AcceptedInv, ComparedInv, Answers

LEMMA AnswerStep ==
  ASSUME ReviewInv, NEW outcome, NEW shown, Answer(outcome, shown)
  PROVE  ReviewInv'
<1>1. /\ compared' = 0 /\ evidence' = NoEvidence
      /\ UNCHANGED <<ticket, packet, review, accepted, projected>>
  BY DEF Answer
<1> QED
  BY <1>1 DEF ReviewInv, AcceptedInv, ComparedInv

LEMMA ReviewNext == ReviewInv /\ [Next]_vars => ReviewInv'
<1> SUFFICES ASSUME ReviewInv, [Next]_vars PROVE ReviewInv'
  OBVIOUS
<1>1. CASE Begin
  BY <1>1, BeginStep
<1>2. CASE Submit
  BY <1>2, SubmitStep
<1>3. CASE \E n \in DOMAIN projected.issues : Compare(n)
  BY <1>3, CompareStep
<1>4. CASE \E outcome \in Outcomes, shown \in 0 .. MaxShown : Answer(outcome, shown)
  BY <1>4, AnswerStep
<1>5. CASE UNCHANGED vars
  BY <1>5 DEF vars, ReviewInv, AcceptedInv, ComparedInv, Answers
<1> QED
  BY <1>1, <1>2, <1>3, <1>4, <1>5 DEF Next

\* The packet is what the excerpts of the ticket are; what was accepted was
\* valid for it, the issues were made of what was accepted, and a comparison
\* under way has an answer of the service for the article its issue confirms
\* (desktop_workflow.py, desktop_reuse_comparison.py).
THEOREM SpecReviewInv == Spec => []ReviewInv
BY InitReviewInv, ReviewNext, PTL DEF Spec

-----------------------------------------------------------------------------
(* The errors of a submission *)

Codes == {"semantic_issue_submission_invalid", "semantic_review_forbidden_field",
  "semantic_issue_case_ref_mismatch", "semantic_issue_top_level_source_refs_mismatch",
  "semantic_issue_candidate_limit_exceeded", "semantic_observation_shape_invalid",
  "semantic_issue_proposal_shape_invalid", "semantic_coverage_reason_invalid",
  "semantic_coverage_shape_invalid", "semantic_issue_coverage_incomplete",
  "semantic_observation_text_not_extractive", "semantic_issue_entry_speaker_incompatible"}

LEMMA ErrorTable ==
  ASSUME NEW k, NEW p
  PROVE  /\ DOMAIN SubmissionErrors(k, p) = 1 .. 16
         /\ \A n \in 1 .. 16 : SubmissionErrors(k, p)[n][1] \in Codes
BY DEF SubmissionErrors, Codes

LEMMA ValidSubmission ==
  ASSUME NEW k, NEW p, SubmissionError(k, p) = "none"
  PROVE  \A n \in 1 .. 16 : ~ SubmissionErrors(k, p)[n][2]
<1> DEFINE table == SubmissionErrors(k, p)
           raised == {n \in DOMAIN table : table[n][2]}
<1>1. IF raised = {} THEN TRUE ELSE table[Min(raised)][1] = "none"
  BY DEF SubmissionError
<1>2. DOMAIN table = 1 .. 16 /\ \A n \in 1 .. 16 : table[n][1] \in Codes
  BY ErrorTable
<1>3. "none" \notin Codes
  BY DEF Codes
<1> HIDE DEF table
<1>4. raised \subseteq 1 .. 16 /\ raised \subseteq Nat
  BY <1>2
<1>5. raised = {}
  <2> SUFFICES ASSUME raised # {} PROVE FALSE
    OBVIOUS
  <2>1. Min(raised) \in raised
    BY <1>4, MinFacts
  <2> HIDE DEF raised
  <2> QED
    BY <1>1, <1>2, <1>3, <1>4, <2>1
<1> QED
  BY <1>2, <1>5 DEF table

LEMMA LastErrors ==
  ASSUME NEW k, NEW p
  PROVE  /\ (\E i \in DOMAIN p.issues : NotExtractive(k, p.issues[i]))
              => SubmissionErrors(k, p)[15][2]
         /\ (\E i \in DOMAIN p.issues : EntryOfSupport(k, p.issues[i]))
              => SubmissionErrors(k, p)[16][2]
BY DEF SubmissionErrors

-----------------------------------------------------------------------------
(* The issues that were accepted *)

LEMMA NormalizedLists ==
  ASSUME NEW t \in Tickets, NEW q \in Proposals(SelectedExcerpts(t))
  PROVE  LET p == NormalizedProposal(q)
         IN /\ p.issues \in Seq(Range(p.issues))
            /\ p.coverage \in Seq(Range(p.coverage))
<1> DEFINE issues == q.issues
           made == [i \in DOMAIN issues |-> Normalized(issues[i])]
           p == NormalizedProposal(q)
<1>1. /\ DOMAIN q = {"form", "case", "refs", "issues", "coverage"}
      /\ issues \in Seq(Range(issues)) /\ q.coverage \in Seq(Range(q.coverage))
  BY ProposalsAssumption
<1>2. p = [q EXCEPT !.issues = made]
  BY DEF NormalizedProposal
<1>3. p.issues = made /\ p.coverage = q.coverage
  <2> HIDE DEF made
  <2> QED
    BY <1>1, <1>2
<1>4. made \in Seq(Range(made))
  <2> HIDE DEF issues
  <2>1. Len(issues) \in Nat /\ DOMAIN made = 1 .. Len(issues)
    BY <1>1
  <2>2. \A i \in 1 .. Len(issues) : made[i] \in Range(made)
    BY <2>1 DEF Range
  <2>3. made = [i \in 1 .. Len(issues) |-> made[i]]
    BY <2>1
  <2> HIDE DEF made
  <2> QED
    BY <2>1, <2>2, <2>3
<1> QED
  BY <1>1, <1>3, <1>4

\* Every issue that is left was accepted, and what was accepted is valid.
AcceptedIssues ==
  /\ accepted.issues \in Seq(Range(accepted.issues))
  /\ accepted.coverage \in Seq(Range(accepted.coverage))
  /\ projected.issues \in Seq(Range(accepted.issues))
  /\ \A i \in DOMAIN projected.issues :
       \E j \in DOMAIN accepted.issues : projected.issues[i] = accepted.issues[j]
  /\ \A i \in DOMAIN accepted.issues : ~ NotExtractive(packet, accepted.issues[i])
                                       /\ ~ EntryOfSupport(packet, accepted.issues[i])

LEMMA IssuesAccepted ==
  ASSUME ReviewInv
  PROVE  AcceptedIssues
<1>1. CASE review # "accepted"
  <2>1. accepted.issues = <<>> /\ accepted.coverage = <<>> /\ projected.issues = <<>>
    BY <1>1 DEF ReviewInv, AcceptedInv, NoProposal, NoProjection
  <2> QED
    BY <2>1 DEF AcceptedIssues, Range
<1>2. CASE review = "accepted"
  <2>1. /\ SubmissionError(packet, accepted) = "none"
        /\ projected = Projected(packet, accepted)
        /\ packet = SelectedExcerpts(ticket) /\ ticket \in Tickets
    BY <1>2 DEF ReviewInv, AcceptedInv
  <2>2. PICK q \in Proposals(packet) : accepted = NormalizedProposal(q)
    BY <1>2 DEF ReviewInv, AcceptedInv
  <2> DEFINE issues == accepted.issues
             S == Range(issues)
             at == {i \in DOMAIN issues : IssueBlocker(packet, issues[i]) = "none"}
  <2>3. issues \in Seq(S) /\ accepted.coverage \in Seq(Range(accepted.coverage))
    BY <2>1, <2>2, NormalizedLists
  <2>4. projected.issues = KeptAt(issues, at)
    BY <2>1 DEF Projected, Matching
  <2>5. at \subseteq DOMAIN issues
    OBVIOUS
  <2>6. \A i \in DOMAIN issues : ~ NotExtractive(packet, issues[i])
                                 /\ ~ EntryOfSupport(packet, issues[i])
    BY <2>1, ValidSubmission, LastErrors
  <2> HIDE DEF issues, S, at
  <2>7. /\ KeptAt(issues, at) \in Seq(S)
        /\ \A j \in DOMAIN KeptAt(issues, at) :
             \E i \in at : KeptAt(issues, at)[j] = issues[i]
    BY <2>3, <2>5, KeptElements
  <2> QED
    BY <2>3, <2>4, <2>5, <2>6, <2>7 DEF AcceptedIssues, issues, S
<1> QED
  BY <1>1, <1>2

LEMMA EntryObserved ==
  ASSUME NEW issue, NEW o \in Range(issue.symptoms) \cup Range(issue.question)
  PROVE  o \in Observations(issue)
<1>1. Range(issue["symptoms"]) \in {Range(issue[field]) : field \in ListFields}
  BY DEF ListFields
<1>2. Range(issue.symptoms) \subseteq Observations(issue)
  BY <1>1, Zenon DEF Observations
<1>3. Range(issue.question) \subseteq Observations(issue)
  BY DEF Observations
<1> QED
  BY <1>2, <1>3, Zenon

\* Whatever a model submits: no issue that is left is opened by words only
\* support has said, however many excerpts its observation cites
\* (_reject_incompatible_issue_entry_speakers).
THEOREM SpecEntryNotSupportOnly == Spec => []EntryNotSupportOnly
<1>1. ReviewInv => EntryNotSupportOnly
  <2> SUFFICES ASSUME ReviewInv, NEW i \in DOMAIN projected.issues,
                      NEW o \in Range(projected.issues[i].symptoms)
                                  \cup Range(projected.issues[i].question)
               PROVE  \E r \in DOMAIN packet :
                        packet[r].by # "support" /\ Quotes(packet[r].text, o.text)
    BY DEF EntryNotSupportOnly
  <2> DEFINE issue == projected.issues[i]
             G == Grounds(packet, o)
  <2>1. ~ NotExtractive(packet, issue) /\ ~ EntryOfSupport(packet, issue)
    BY IssuesAccepted DEF AcceptedIssues
  <2>2. o \in Observations(issue)
    BY EntryObserved
  <2>3. G # {} /\ {packet[r].by : r \in G} # {"support"}
    BY <2>1, <2>2 DEF NotExtractive, EntryOfSupport
  <2>4. \E r \in G : packet[r].by # "support"
    BY <2>3
  <2> QED
    BY <2>4 DEF Grounds
<1> QED
  BY <1>1, SpecReviewInv, PTL

-----------------------------------------------------------------------------
(* The articles the operator is shown *)

LEMMA Shortened ==
  ASSUME NEW S, NEW s \in Seq(S), NEW n \in Nat
  PROVE  /\ Upto(n, s) \in Seq(S) /\ DOMAIN Upto(n, s) \subseteq DOMAIN s
         /\ Len(Upto(n, s)) <= n
         /\ \A i \in DOMAIN Upto(n, s) : Upto(n, s)[i] = s[i]
<1> DEFINE m == IF Len(s) < n THEN Len(s) ELSE n
<1>1. Len(s) \in Nat /\ m \in Nat /\ m <= Len(s) /\ m <= n
  OBVIOUS
<1>2. Upto(n, s) = SubSeq(s, 1, m)
  BY DEF Upto
<1>3. DOMAIN s = 1 .. Len(s)
  OBVIOUS
<1> HIDE DEF m
<1>4. SubSeq(s, 1, m) = [i \in 1 .. m |-> s[i]]
  BY <1>1
<1>5. SubSeq(s, 1, m) \in Seq(S) /\ Len(SubSeq(s, 1, m)) = m
  BY <1>1, <1>4
<1> QED
  BY <1>1, <1>2, <1>3, <1>4, <1>5

LEMMA DifferentElements ==
  ASSUME NEW S, NEW s \in Seq(S),
         \A n, m \in DOMAIN s : n # m => s[n].article # s[m].article
  PROVE  Cardinality({s[n].article : n \in DOMAIN s}) = Len(s)
<1> DEFINE T == {s[n].article : n \in DOMAIN s}
           l == Len(s)
           f == [n \in 1 .. l |-> s[n].article]
<1>1. l \in Nat /\ DOMAIN s = 1 .. l
  OBVIOUS
<1>2. f \in [1 .. l -> T]
  BY <1>1
<1>3. \A n, m \in 1 .. l : n # m => f[n] # f[m]
  BY <1>1
<1>4. \A x \in T : \E n \in 1 .. l : f[n] = x
  BY <1>1
<1> HIDE DEF f
<1>5. f \in Bijection(1 .. l, T)
  BY <1>2, <1>3, <1>4 DEF Bijection, Injection, Surjection, IsInjective
<1>6. ExistsBijection(1 .. l, T)
  BY <1>5 DEF ExistsBijection
<1> HIDE DEF T, l
<1>7. Cardinality(T) = l
  BY <1>1, <1>6, FS_CountingElements
<1> QED
  BY <1>7 DEF T, l

\* What is found is a sequence, and so is what is shown with the named article.
LEMMA FoundListed ==
  ASSUME NEW search, search \in Seq(Range(search))
  PROVE  FoundArticles(search) \in Seq(Range(FoundArticles(search)))
<1> DEFINE all == Matching(search, Offered)
           first == {n \in DOMAIN all : \A m \in 1 .. n - 1 : all[m].doc # all[n].doc}
           S == Range(search)
           at == {n \in DOMAIN search : Offered(search[n])}
           groups == Groups(search)
           G == Range(groups)
           shown == Upto(MaxShown, groups)
           found == FoundArticles(search)
<1>1. all = KeptAt(search, at) /\ at \subseteq DOMAIN search
  BY DEF Matching
<1>2. all \in Seq(S)
  <2> HIDE DEF all, at
  <2> QED
    BY <1>1, KeptElements
<1>3. Cardinality(first) \in Nat
  <2>1. DOMAIN all = 1 .. Len(all) /\ Len(all) \in Nat
    BY <1>2
  <2>2. IsFiniteSet(1 .. Len(all)) /\ first \in SUBSET (1 .. Len(all))
    BY <2>1, FS_Interval
  <2> HIDE DEF first, all
  <2>3. IsFiniteSet(first)
    BY <2>2, FS_Subset
  <2> QED
    BY <2>3, FS_CardinalityType
<1>4. DOMAIN groups = 1 .. Cardinality(first)
  BY DEF Groups, Ordered
<1>5. groups = [n \in DOMAIN groups |-> groups[n]]
  BY DEF Groups
<1> HIDE DEF all, first, at
<1>6. groups \in Seq(G)
  <2> DEFINE c == Cardinality(first)
  <2>1. c \in Nat /\ groups = [n \in 1 .. c |-> groups[n]]
    BY <1>3, <1>4, <1>5
  <2>2. \A n \in 1 .. c : groups[n] \in G
    BY <1>4 DEF Range
  <2> HIDE DEF c, groups, G
  <2> QED
    BY <2>1, <2>2
<1>7. found = [n \in DOMAIN shown |-> found[n]] /\ DOMAIN found = DOMAIN shown
  BY DEF FoundArticles
<1>8. shown \in Seq(G)
  <2> HIDE DEF G, groups
  <2> QED
    BY <1>6, Shortened, NoArticleAssumption
<1> HIDE DEF shown, found
<1>9. Len(shown) \in Nat /\ DOMAIN shown = 1 .. Len(shown)
  BY <1>8
<1>10. \A n \in 1 .. Len(shown) : found[n] \in Range(found)
  BY <1>7, <1>9 DEF Range
<1>11. found \in Seq(Range(found))
  BY <1>7, <1>9, <1>10
<1> QED
  BY <1>11 DEF found

\* The articles of an answer, if there are any, are valid evidence.
ShownArticles(ev) ==
  \/ ev.articles = <<>>
  \/ /\ ev.articles \in Seq(Range(ev.articles))
     /\ \E first : ValidEvidence(ev.articles, first)

LEMMA FailureShown ==
  ASSUME NEW status, NEW named
  PROVE  ShownArticles(Failure(status, named)) /\ ShownArticles(InvalidResponse(named))
BY DEF ShownArticles, Failure, InvalidResponse

LEMMA EvidenceShown ==
  ASSUME NEW articles, articles \in Seq(Range(articles)), NEW named, NEW reference,
         NEW first, ValidEvidence(articles, first)
  PROVE  ShownArticles(Evidence(articles, named, reference))
<1>1. Evidence(articles, named, reference).articles = articles
  BY DEF Evidence
<1> QED
  BY <1>1 DEF ShownArticles

LEMMA CombinedListed ==
  ASSUME NEW exact, exact \in Seq(Range(exact)), NEW found, found \in Seq(Range(found)),
         NEW named
  PROVE  Combined(exact, found, named) \in Seq(Range(Combined(exact, found, named)))
<1> DEFINE S == Range(exact) \cup Range(found)
           at == {n \in DOMAIN found : found[n].article # named}
           both == exact \o KeptAt(found, at)
           all == Upto(MaxShown, both)
<1>1. KeptAt(found, at) \in Seq(Range(found))
  BY KeptElements
<1>2. both \in Seq(S)
  <2>1. exact \in Seq(S) /\ KeptAt(found, at) \in Seq(S)
    BY <1>1
  <2> HIDE DEF at, S
  <2> QED
    BY <2>1
<1>3. Combined(exact, found, named) = all
  BY DEF Combined, Matching
<1>4. all \in Seq(S)
  <2> HIDE DEF both, S
  <2> QED
    BY <1>2, Shortened, NoArticleAssumption
<1> HIDE DEF all, S
<1>5. all \in Seq(Range(all))
  <2>1. Len(all) \in Nat /\ DOMAIN all = 1 .. Len(all)
        /\ all = [n \in 1 .. Len(all) |-> all[n]]
    BY <1>4
  <2>2. \A n \in 1 .. Len(all) : all[n] \in Range(all)
    BY <2>1 DEF Range
  <2> QED
    BY <2>1, <2>2
<1> QED
  BY <1>3, <1>5

LEMMA AnswerListed ==
  ASSUME NEW search \in SearchAnswers, search # "lost", search # "malformed"
  PROVE  search \in Seq(Range(search))
BY ServiceAssumption

LEMMA SearchShown ==
  ASSUME NEW search \in SearchAnswers
  PROVE  ShownArticles(Searched(search))
<1>1. CASE search \in Failures
  BY <1>1, FailureShown DEF Searched, Failures
<1>2. CASE search \notin Failures
  <2>1. search \in Seq(Range(search))
    BY <1>2, AnswerListed DEF Failures
  <2>2. CASE ~ ValidSearch(search)
    BY <1>2, <2>2, FailureShown DEF Searched, Failures
  <2>3. CASE ValidSearch(search)
    <3>1. ValidEvidence(FoundArticles(search), <<>>)
      BY <2>3 DEF ValidSearch
    <3>2. Searched(search) = Evidence(FoundArticles(search), NoArticle, "not_provided")
      BY <1>2, <2>3 DEF Searched, Failures
    <3> QED
      BY <2>1, <3>1, <3>2, FoundListed, EvidenceShown
  <2> QED
    BY <2>2, <2>3
<1> QED
  BY <1>1, <1>2

LEMMA NamedShown ==
  ASSUME NEW exact, NEW search \in SearchAnswers, NEW named
  PROVE  ShownArticles(SearchedWithNamed(exact, search, named))
<1> DEFINE first == IF exact = "lost" THEN <<>> ELSE <<ExactArticle(exact)>>
           found == IF search = "lost" THEN <<>> ELSE FoundArticles(search)
           articles == Combined(first, found, named)
           reference == IF exact = "lost" THEN "context_missing" ELSE "context_ready"
           ev == SearchedWithNamed(exact, search, named)
<1>1. \/ ev = InvalidResponse(named)
      \/ ev = Failure("comparison_provider_unavailable", named)
      \/ /\ search # "malformed" /\ ValidEvidence(articles, first)
         /\ ev = Evidence(articles, named, reference)
  BY DEF SearchedWithNamed
<1>2. CASE search # "malformed" /\ ValidEvidence(articles, first)
           /\ ev = Evidence(articles, named, reference)
  <2>1. first \in Seq(Range(first))
    <3>1. <<>> \in Seq(Range(<<>>))
      OBVIOUS
    <3>2. \A x : <<x>> \in Seq(Range(<<x>>))
      BY DEF Range
    <3> QED
      BY <3>1, <3>2
  <2>2. found \in Seq(Range(found))
    <3>1. <<>> \in Seq(Range(<<>>))
      OBVIOUS
    <3>2. search # "lost" => search \in Seq(Range(search))
      BY <1>2, AnswerListed
    <3> QED
      BY <3>1, <3>2, FoundListed
  <2> HIDE DEF first, found, reference, ev
  <2>3. articles \in Seq(Range(articles))
    BY <2>1, <2>2, CombinedListed
  <2> HIDE DEF articles
  <2> QED
    BY <1>2, <2>3, EvidenceShown DEF ev
<1> HIDE DEF first, articles, reference
<1> QED
  BY <1>1, <1>2, FailureShown

\* Whatever the service answers: no article is shown twice, whether it was
\* named by the ticket, found or both, and none that may not be reused
\* (reuse_comparison.py).
THEOREM SpecDisplayedOnceEach == Spec => []DisplayedOnceEach
<1>1. ReviewInv => DisplayedOnceEach
  <2> SUFFICES ASSUME ReviewInv
               PROVE  LET shown == evidence.articles
                      IN /\ {shown[n].article : n \in DOMAIN shown} \subseteq Reusable
                         /\ Cardinality({shown[n].article : n \in DOMAIN shown}) = Len(shown)
    BY DEF DisplayedOnceEach
  <2> DEFINE shown == evidence.articles
  <2>1. ShownArticles(evidence)
    <3>1. CASE evidence = NoEvidence
      BY <3>1, FailureShown DEF NoEvidence
    <3>2. CASE evidence \in Answers
      <4>1. PICK named \in Reusable \cup {NoArticle}, readiness \in Readiness,
                 exact \in ExactAnswers, search \in SearchAnswers :
              evidence = Lookup(named, readiness, exact, search)
        BY <3>2 DEF Answers
      <4>2. \/ \E status : evidence = Failure(status, named)
            \/ evidence = InvalidResponse(named)
            \/ evidence = Searched(search)
            \/ evidence = SearchedWithNamed(exact, search, named)
        BY <4>1 DEF Lookup
      <4> QED
        BY <4>2, FailureShown, SearchShown, NamedShown
    <3> QED
      BY <3>1, <3>2 DEF ReviewInv, ComparedInv
  <2>2. CASE shown = <<>>
    <3>1. {shown[n].article : n \in DOMAIN shown} = {} /\ Len(shown) = 0
      BY <2>2
    <3> QED
      BY <3>1, FS_EmptySet
  <2>3. CASE shown \in Seq(Range(shown)) /\ \E first : ValidEvidence(shown, first)
    <3>1. /\ \A n \in DOMAIN shown : shown[n].article \in Reusable
          /\ \A n, m \in DOMAIN shown : n # m => shown[n].article # shown[m].article
      BY <2>3 DEF ValidEvidence, Wellformed
    <3> HIDE DEF shown
    <3>2. Cardinality({shown[n].article : n \in DOMAIN shown}) = Len(shown)
      BY <2>3, <3>1, DifferentElements
    <3> QED
      BY <3>1, <3>2 DEF shown
  <2> QED
    BY <2>1, <2>2, <2>3 DEF ShownArticles
<1> QED
  BY <1>1, SpecReviewInv, PTL

-----------------------------------------------------------------------------
(* The picks of a text that is no transcript *)

PickRoles == Scored \cup Range(LabelRole)
SegmentsOf == Seq([s : Sentences, role : PickRoles \cup {"none"}])
PicksOf(g) == Seq([i : DOMAIN g, role : PickRoles])

\* The order of numbers, and that of the sentences found for a role.
Increasing(S) == {p \in S \X S : p[1] < p[2]}
BestFirst(g, role, S) ==
  {p \in S \X S : \/ Score(g, role, p[1]) > Score(g, role, p[2])
                  \/ Score(g, role, p[1]) = Score(g, role, p[2]) /\ p[1] > p[2]}

LEMMA NumbersOrdered ==
  ASSUME NEW S, S \subseteq Nat, IsFiniteSet(S)
  PROVE  StrictOrder(Increasing(S), S) /\ RanksIn(Ordered(S, <), Increasing(S), S)
<1> DEFINE R == Increasing(S)
           o == Ordered(S, <)
           c == Cardinality(S)
<1>1. \A x, y \in S : <<x, y>> \in R <=> x < y
  BY DEF Increasing
<1>2. \A x \in S : x \in Nat
  OBVIOUS
<1>3. \A x \in S : {y \in S : y < x} = Below(R, S, x)
  BY <1>1 DEF Below
<1> DEFINE F(n) == CHOOSE x \in S : Cardinality({y \in S : y < x}) = n - 1
<1>4. o = [n \in 1 .. c |-> F(n)]
  BY DEF Ordered
<1> HIDE DEF R, o, c
<1>5. StrictOrder(R, S)
  BY <1>1, <1>2 DEF StrictOrder
<1>6. ASSUME NEW n \in 1 .. c PROVE o[n] \in S /\ Rank(R, S, o[n]) = n - 1
  <2>1. PICK x \in S : Rank(R, S, x) = n - 1
    BY <1>5, RankExists DEF c
  <2>2. Cardinality({y \in S : y < x}) = n - 1
    BY <1>3, <2>1 DEF Rank
  <2>3. F(n) \in S /\ Cardinality({y \in S : y < F(n)}) = n - 1
    BY <2>2
  <2>4. o[n] = F(n)
    BY <1>4
  <2> QED
    BY <1>3, <2>3, <2>4 DEF Rank
<1> HIDE DEF F
<1>7. o = [n \in 1 .. c |-> o[n]]
  BY <1>4
<1> QED
  BY <1>5, <1>6, <1>7 DEF RanksIn, R, o, c

LEMMA RankedOrdered ==
  ASSUME NEW g, NEW role, NEW S, S \subseteq Nat, IsFiniteSet(S),
         \A x \in S : Score(g, role, x) \in Nat
  PROVE  /\ StrictOrder(BestFirst(g, role, S), S)
         /\ RanksIn(Ranked(g, role, S), BestFirst(g, role, S), S)
<1> DEFINE R == BestFirst(g, role, S)
           o == Ranked(g, role, S)
           c == Cardinality(S)
           Before(i, j) == \/ Score(g, role, i) > Score(g, role, j)
                           \/ Score(g, role, i) = Score(g, role, j) /\ i > j
<1>1. \A x, y \in S : <<x, y>> \in R <=> Before(x, y)
  BY DEF BestFirst
<1>2. \A x \in S : x \in Nat /\ Score(g, role, x) \in Nat
  OBVIOUS
<1> DEFINE F(n) == CHOOSE x \in S : Cardinality({y \in S : Before(y, x)}) = n - 1
<1>3. o = [n \in 1 .. c |-> F(n)]
  BY DEF Ranked, Ordered
<1>4. StrictOrder(R, S)
  <2> DEFINE f == [x \in S |-> Score(g, role, x)]
  <2>1. \A x, y \in S : <<x, y>> \in R <=> (f[x] > f[y] \/ (f[x] = f[y] /\ x > y))
    BY <1>1
  <2>2. \A x \in S : x \in Nat /\ f[x] \in Nat
    BY <1>2
  <2> HIDE DEF R, f
  <2> QED
    BY <2>1, <2>2 DEF StrictOrder
<1> HIDE DEF R, o, c, Before
<1>5. \A x \in S : {y \in S : Before(y, x)} = Below(R, S, x)
  BY <1>1 DEF Below
<1>6. ASSUME NEW n \in 1 .. c PROVE o[n] \in S /\ Rank(R, S, o[n]) = n - 1
  <2>1. PICK x \in S : Rank(R, S, x) = n - 1
    BY <1>4, RankExists DEF c
  <2>2. Cardinality({y \in S : Before(y, x)}) = n - 1
    BY <1>5, <2>1 DEF Rank
  <2>3. F(n) \in S /\ Cardinality({y \in S : Before(y, F(n))}) = n - 1
    BY <2>2
  <2>4. o[n] = F(n)
    BY <1>3
  <2> QED
    BY <1>5, <2>3, <2>4 DEF Rank
<1> HIDE DEF F
<1>7. o = [n \in 1 .. c |-> o[n]]
  BY <1>3
<1> QED
  BY <1>4, <1>6, <1>7 DEF RanksIn, R, o, c

-----------------------------------------------------------------------------
(* Nothing is lost when a turn is cut *)

PiecesOf == [done : Seq(Seq(Words)), current : Seq(Words)]
Content(p) == FlattenSeq(p.done) \o p.current

LEMMA PiecesTyped ==
  ASSUME NEW p \in PiecesOf
  PROVE  /\ p.done \in Seq(Seq(Words)) /\ p.current \in Seq(Words)
         /\ FlattenSeq(p.done) \in Seq(Words) /\ Content(p) \in Seq(Words)
<1>1. p.done \in Seq(Seq(Words)) /\ p.current \in Seq(Words)
  BY DEF PiecesOf
<1>2. FlattenSeq(p.done) \in Seq(Words)
  BY <1>1, RangeFlatten
<1> QED
  BY <1>1, <1>2, ConcatFacts DEF Content

LEMMA FlushKeeps ==
  ASSUME NEW p \in PiecesOf
  PROVE  /\ Flush(p) \in PiecesOf /\ Flush(p).current = <<>>
         /\ FlattenSeq(Flush(p).done) = Content(p) /\ Content(Flush(p)) = Content(p)
<1> DEFINE d == p.done
           c == p.current
           f == Flush(p)
<1>1. d \in Seq(Seq(Words)) /\ c \in Seq(Words) /\ FlattenSeq(d) \in Seq(Words)
  BY PiecesTyped
<1>2. f.done = (IF c = <<>> THEN d ELSE Append(d, c)) /\ f.current = <<>>
      /\ f = [done |-> f.done, current |-> <<>>]
  BY DEF Flush
<1>3. Content(p) = FlattenSeq(d) \o c
  BY DEF Content
<1> HIDE DEF d, c, f
<1>4. Append(d, c) \in Seq(Seq(Words)) /\ <<>> \in Seq(Words)
  BY <1>1
<1>5. f.done \in Seq(Seq(Words))
  BY <1>1, <1>2, <1>4
<1>6. f \in PiecesOf
  BY <1>2, <1>4, <1>5 DEF PiecesOf
<1>7. FlattenSeq(Append(d, c)) = FlattenSeq(d) \o c
  BY <1>1, FlattenAppend
<1>8. FlattenSeq(d) \o <<>> = FlattenSeq(d)
  BY <1>1, ConcatFacts
<1>9. FlattenSeq(f.done) = Content(p)
  BY <1>2, <1>3, <1>7, <1>8
<1>10. FlattenSeq(f.done) \in Seq(Words)
  BY <1>5, RangeFlatten
<1>11. FlattenSeq(f.done) \o <<>> = FlattenSeq(f.done)
  BY <1>10, ConcatFacts
<1>12. Content(f) = FlattenSeq(f.done)
  BY <1>2, <1>11 DEF Content
<1> QED
  BY <1>2, <1>6, <1>9, <1>12 DEF f

LEMMA PartKeeps ==
  ASSUME NEW p \in PiecesOf, NEW part \in Seq(Words)
  PROVE  AddPart(p, part) \in PiecesOf /\ Content(AddPart(p, part)) = Content(p) \o part
<1> DEFINE a == AddPart(p, part)
           d == p.done
           c == p.current
<1>1. d \in Seq(Seq(Words)) /\ c \in Seq(Words) /\ FlattenSeq(d) \in Seq(Words)
  BY PiecesTyped
<1>2. p = [done |-> d, current |-> c]
  BY DEF PiecesOf
<1>3. Content(p) = FlattenSeq(d) \o c
  BY DEF Content
<1>4. CASE Len(c \o part) <= MaxExcerpt
  <2>1. a = [done |-> d, current |-> c \o part]
    BY <1>2, <1>4 DEF AddPart
  <2> HIDE DEF a, c, d
  <2>2. c \o part \in Seq(Words)
        /\ (FlattenSeq(d) \o c) \o part = FlattenSeq(d) \o (c \o part)
    BY <1>1, ConcatFacts
  <2>3. a \in PiecesOf
    BY <1>1, <2>1, <2>2 DEF PiecesOf
  <2>4. Content(a) = FlattenSeq(d) \o (c \o part)
    BY <2>1 DEF Content
  <2> QED
    BY <1>3, <2>2, <2>3, <2>4 DEF a
<1>5. CASE ~ (Len(c \o part) <= MaxExcerpt)
  <2> DEFINE f == Flush(p)
  <2>1. f \in PiecesOf /\ FlattenSeq(f.done) = Content(p)
    BY FlushKeeps
  <2>2. a = [f EXCEPT !.current = part]
    BY <1>5 DEF AddPart
  <2> HIDE DEF f, a
  <2>3. a \in PiecesOf /\ a.done = f.done /\ a.current = part
    BY <2>1, <2>2 DEF PiecesOf
  <2>4. Content(a) = FlattenSeq(f.done) \o part
    BY <2>3 DEF Content
  <2> QED
    BY <2>1, <2>3, <2>4 DEF a
<1> QED
  BY <1>4, <1>5

\* Steps that each add a part to the content add them all.
LEMMA ContentGathered ==
  ASSUME NEW parts \in Seq(Seq(Words)), NEW h \in [0 .. Len(parts) -> PiecesOf],
         \A i \in 1 .. Len(parts) : Content(h[i]) = Content(h[i - 1]) \o parts[i]
  PROVE  /\ h[Len(parts)] \in PiecesOf
         /\ Content(h[Len(parts)]) = Content(h[0]) \o FlattenSeq(parts)
<1> DEFINE n == Len(parts)
           V == Seq(Words)
           c0 == Content(h[0])
<1>1. n \in Nat /\ \A i \in 1 .. n : parts[i] \in V
  OBVIOUS
<1>2. PICK k : FlatThrough(k, parts, Words)
  BY FlatCourse
<1>3. /\ k \in [0 .. n -> V] /\ k[0] = <<>> /\ k[n] = FlattenSeq(parts)
      /\ \A i \in 1 .. n : k[i] = k[i - 1] \o parts[i]
  BY <1>2 DEF FlatThrough
<1>4. \A i \in 0 .. n : h[i] \in PiecesOf /\ k[i] \in V
  BY <1>3
<1>5. 0 \in 0 .. n /\ n \in 0 .. n /\ h[n] \in PiecesOf
  BY <1>1, <1>4
<1>6. c0 \in V
  BY <1>4, <1>5, PiecesTyped
<1>7. /\ \A x \in V : x \o <<>> = x
      /\ \A x, y, z \in V : (x \o y) \o z = x \o (y \o z)
  BY ConcatLaws DEF V
<1>8. \A i \in 1 .. n : Content(h[i]) = Content(h[i - 1]) \o parts[i]
  OBVIOUS
<1> DEFINE Q(i) == Content(h[i]) = c0 \o k[i]
           T == {i \in Nat : i <= n => Q(i)}
<1>9. Q(0)
  BY <1>3, <1>6, <1>7
<1> HIDE DEF Q, n, V, c0
<1>10. 0 \in T
  BY <1>9
<1>11. ASSUME NEW i \in Nat, i \in T PROVE i + 1 \in T
  <2> SUFFICES ASSUME i + 1 <= n PROVE Q(i + 1)
    OBVIOUS
  <2>1. PICK m \in 1 .. n : m = i + 1 /\ m - 1 = i
    BY <1>1
  <2>2. Q(i)
    BY <1>1, <1>11, <2>1
  <2>3. k[i] \in V /\ parts[m] \in V
    <3>1. i \in 0 .. n
      BY <1>1, <2>1
    <3> QED
      BY <1>1, <1>4, <3>1
  <2>4. Content(h[m]) = Content(h[i]) \o parts[m] /\ k[m] = k[i] \o parts[m]
    BY <1>3, <1>8, <2>1
  <2>5. (c0 \o k[i]) \o parts[m] = c0 \o (k[i] \o parts[m])
    <3> DEFINE y == k[i]
               z == parts[m]
    <3>1. c0 \in V /\ y \in V /\ z \in V
      BY <1>6, <2>3
    <3> HIDE DEF y, z
    <3>2. (c0 \o y) \o z = c0 \o (y \o z)
      BY <1>7, <3>1
    <3> QED
      BY <3>2 DEF y, z
  <2> QED
    BY <2>1, <2>2, <2>4, <2>5 DEF Q
<1>12. n \in T
  <2> HIDE DEF T
  <2> QED
    BY <1>1, <1>10, <1>11, SetInduction
<1>13. Q(n)
  BY <1>1, <1>12
<1> QED
  BY <1>3, <1>5, <1>13 DEF Q, n, c0

LEMMA PartsKeep ==
  ASSUME NEW p \in PiecesOf, NEW parts \in Seq(Seq(Words))
  PROVE  /\ FoldLeft(AddPart, p, parts) \in PiecesOf
         /\ Content(FoldLeft(AddPart, p, parts)) = Content(p) \o FlattenSeq(parts)
<1> DEFINE n == Len(parts)
           V == PiecesOf
           Op(v, i) == AddPart(v, parts[i])
           g == [q \in (1 .. n) \X V |-> Op(q[2], q[1])]
           F(it) == [t \in SUBSET (1 .. n) |->
                       IF t = {} THEN p ELSE Op(it[t \ {Max(t)}], Max(t))]
           C == CHOOSE it : it = F(it)
<1>1. n \in Nat /\ DOMAIN parts = 1 .. n /\ \A i \in 1 .. n : parts[i] \in Seq(Words)
  OBVIOUS
<1>2. FoldLeft(AddPart, p, parts) = C[1 .. n]
  BY <1>1 DEF FoldLeft, MapThenFoldSet
<1>3. g \in Steps(n, V)
  BY <1>1, PartKeeps DEF Steps
<1>4. \A v, i : Op(v, i) = AddPart(v, parts[i])
  OBVIOUS
<1> HIDE DEF n, V, Op
<1>5. \A i \in 1 .. n, v \in V : g[<<i, v>>] = Op(v, i)
  OBVIOUS
<1> HIDE DEF g
<1>6. \A t \in SUBSET (1 .. n) : t # {} => Max(t) \in 1 .. n /\ t \ {Max(t)} \in SUBSET (1 .. n)
  BY <1>1, MaxFacts
<1>7. C = F(C)
  <2>1. PICK it : IsFold(it, p, n, g, V)
    BY <1>1, <1>3, FoldExists DEF V
  <2>2. ASSUME NEW t \in SUBSET (1 .. n)
        PROVE  it[t] = IF t = {} THEN p ELSE Op(it[t \ {Max(t)}], Max(t))
    <3>1. CASE t = {}
      BY <2>1, <3>1 DEF IsFold
    <3>2. CASE t # {}
      BY <2>1, <3>2, <1>5, <1>6 DEF IsFold
    <3> QED
      BY <3>1, <3>2
  <2>3. it = F(it)
    BY <2>1, <2>2 DEF IsFold
  <2> QED
    BY <2>3
<1> HIDE DEF C
<1>8. C[{}] = p
  BY <1>7
<1>9. \A t \in SUBSET (1 .. n) : t # {} /\ C[t \ {Max(t)}] \in V =>
         C[t] = g[<<Max(t), C[t \ {Max(t)}]>>]
  BY <1>7, <1>5, <1>6
<1> HIDE DEF F
<1> DEFINE h == CourseOf(C, n)
<1>10. FoldOn(C, p, n, g, V)
  BY <1>8, <1>9 DEF FoldOn
<1>11. Course(h, p, n, g, V)
  BY <1>1, <1>3, <1>10, FoldCourse DEF V
<1>12. h[n] = FoldLeft(AddPart, p, parts)
  BY <1>1, <1>2 DEF CourseOf
<1> HIDE DEF h
<1>13. h \in [0 .. n -> V] /\ h[0] = p /\ \A i \in 1 .. n : h[i - 1] \in V
  BY <1>1, <1>11 DEF Course
<1>14. \A i \in 1 .. n : h[i] = AddPart(h[i - 1], parts[i])
  BY <1>4, <1>5, <1>11, <1>13 DEF Course
<1>15. \A i \in 1 .. n : Content(h[i]) = Content(h[i - 1]) \o parts[i]
  BY <1>1, <1>13, <1>14, PartKeeps DEF V
<1>16. h[n] \in V /\ Content(h[n]) = Content(p) \o FlattenSeq(parts)
  BY <1>13, <1>15, ContentGathered DEF n, V
<1> QED
  BY <1>12, <1>16 DEF V

LEMMA SentenceKeeps ==
  ASSUME NEW p \in PiecesOf, NEW s \in Sentences
  PROVE  /\ AddSentence(p, s) \in PiecesOf
         /\ Content(AddSentence(p, s)) = Content(p) \o About[s].words
<1> DEFINE words == About[s].words
           ones == [i \in DOMAIN words |-> <<words[i]>>]
           f == Flush(p)
           all == FoldLeft(AddPart, f, ones)
<1>1. words \in Seq(Words)
  BY AboutAssumption
<1>2. f \in PiecesOf /\ Content(f) = Content(p)
  BY FlushKeeps
<1>3. ones \in Seq(Seq(Words)) /\ FlattenSeq(ones) = words
  BY <1>1, FlattenOnes
<1>4. AddSentence(p, s) = IF Len(words) > MaxExcerpt THEN Flush(all) ELSE AddPart(p, words)
  BY DEF AddSentence, BoundedWords
<1>5. all \in PiecesOf /\ Content(all) = Content(p) \o words
  <2> HIDE DEF f, ones, words
  <2> QED
    BY <1>2, <1>3, PartsKeep
<1>6. AddPart(p, words) \in PiecesOf /\ Content(AddPart(p, words)) = Content(p) \o words
  BY <1>1, PartKeeps
<1> HIDE DEF all, words
<1>7. Flush(all) \in PiecesOf /\ Content(Flush(all)) = Content(p) \o words
  BY <1>5, FlushKeeps
<1> QED
  BY <1>4, <1>6, <1>7 DEF words

LEMMA TurnKeeps ==
  ASSUME NEW says \in Seq(Sentences)
  PROVE  /\ BoundedTurn(says) \in Seq(Seq(Words)) /\ Text(says) \in Seq(Words)
         /\ FlattenSeq(BoundedTurn(says)) = Text(says)
<1> DEFINE n == Len(says)
           V == PiecesOf
           parts == [i \in DOMAIN says |-> About[says[i]].words]
           Op(v, i) == AddSentence(v, says[i])
           g == [q \in (1 .. n) \X V |-> Op(q[2], q[1])]
           F(it) == [t \in SUBSET (1 .. n) |->
                       IF t = {} THEN NoPieces ELSE Op(it[t \ {Max(t)}], Max(t))]
           C == CHOOSE it : it = F(it)
           last == FoldLeft(AddSentence, NoPieces, says)
<1>1. n \in Nat /\ DOMAIN says = 1 .. n /\ \A i \in 1 .. n : says[i] \in Sentences
  OBVIOUS
<1>2. last = C[1 .. n]
  BY <1>1 DEF FoldLeft, MapThenFoldSet
<1>3. g \in Steps(n, V)
  BY <1>1, SentenceKeeps DEF Steps
<1>4. \A v, i : Op(v, i) = AddSentence(v, says[i])
  OBVIOUS
<1>17. parts = [i \in 1 .. n |-> parts[i]] /\ \A i \in 1 .. n : parts[i] \in Seq(Words)
  BY <1>1, AboutAssumption
<1>18. \A i \in 1 .. n : parts[i] = About[says[i]].words
  BY <1>1
<1>19. Text(says) = FlattenSeq(parts) /\ BoundedTurn(says) = Flush(last).done
  BY DEF Text, BoundedTurn
<1> HIDE DEF n, V, Op, parts, last
<1>20. parts \in Seq(Seq(Words)) /\ Len(parts) = n /\ Text(says) \in Seq(Words)
  BY <1>1, <1>17, <1>19, RangeFlatten
<1>21. NoPieces \in V /\ Content(NoPieces) = <<>>
  <2>1. <<>> \in Seq(Words) /\ <<>> \in Seq(Seq(Words))
    OBVIOUS
  <2>2. <<>> \o <<>> = <<>>
    BY <2>1, ConcatFacts
  <2> QED
    BY <2>1, <2>2, FlattenEmpty DEF NoPieces, PiecesOf, V, Content
<1>5. \A i \in 1 .. n, v \in V : g[<<i, v>>] = Op(v, i)
  OBVIOUS
<1> HIDE DEF g
<1>6. \A t \in SUBSET (1 .. n) : t # {} => Max(t) \in 1 .. n /\ t \ {Max(t)} \in SUBSET (1 .. n)
  BY <1>1, MaxFacts
<1>7. C = F(C)
  <2>1. PICK it : IsFold(it, NoPieces, n, g, V)
    BY <1>1, <1>3, <1>21, FoldExists
  <2>2. ASSUME NEW t \in SUBSET (1 .. n)
        PROVE  it[t] = IF t = {} THEN NoPieces ELSE Op(it[t \ {Max(t)}], Max(t))
    <3>1. CASE t = {}
      BY <2>1, <3>1 DEF IsFold
    <3>2. CASE t # {}
      BY <2>1, <3>2, <1>5, <1>6 DEF IsFold
    <3> QED
      BY <3>1, <3>2
  <2>3. it = F(it)
    BY <2>1, <2>2 DEF IsFold
  <2> QED
    BY <2>3
<1> HIDE DEF C
<1>8. C[{}] = NoPieces
  BY <1>7
<1>9. \A t \in SUBSET (1 .. n) : t # {} /\ C[t \ {Max(t)}] \in V =>
         C[t] = g[<<Max(t), C[t \ {Max(t)}]>>]
  BY <1>7, <1>5, <1>6
<1> HIDE DEF F
<1> DEFINE h == CourseOf(C, n)
<1>10. FoldOn(C, NoPieces, n, g, V)
  BY <1>8, <1>9 DEF FoldOn
<1>11. Course(h, NoPieces, n, g, V)
  BY <1>1, <1>3, <1>10, <1>21, FoldCourse
<1>12. h[n] = last
  BY <1>1, <1>2 DEF CourseOf
<1> HIDE DEF h
<1>13. h \in [0 .. n -> V] /\ h[0] = NoPieces /\ \A i \in 1 .. n : h[i - 1] \in V
  BY <1>1, <1>11 DEF Course
<1>14. \A i \in 1 .. n : h[i] = AddSentence(h[i - 1], says[i])
  BY <1>4, <1>5, <1>11, <1>13 DEF Course
<1>15. \A i \in 1 .. n : Content(h[i]) = Content(h[i - 1]) \o parts[i]
  <2> SUFFICES ASSUME NEW i \in 1 .. n
               PROVE  Content(h[i]) = Content(h[i - 1]) \o parts[i]
    OBVIOUS
  <2>1. h[i - 1] \in PiecesOf /\ says[i] \in Sentences
    BY <1>1, <1>13 DEF V
  <2>2. Content(AddSentence(h[i - 1], says[i])) = Content(h[i - 1]) \o About[says[i]].words
    BY <2>1, SentenceKeeps
  <2> QED
    BY <2>2, <1>14, <1>18
<1>16. h[n] \in V /\ Content(h[n]) = <<>> \o FlattenSeq(parts)
  BY <1>13, <1>15, <1>20, <1>21, ContentGathered DEF V
<1>22. last \in PiecesOf /\ Content(last) = Text(says)
  BY <1>12, <1>16, <1>19, <1>20, ConcatFacts DEF V
<1>23. Flush(last).done \in Seq(Seq(Words)) /\ FlattenSeq(Flush(last).done) = Text(says)
  BY <1>22, FlushKeeps, PiecesTyped
<1> QED
  BY <1>19, <1>20, <1>23

-----------------------------------------------------------------------------
(* The packet of a transcript *)

ExcerptsOf == Seq([text : Seq(Words), by : Speakers, role : {"unclassified_evidence"}])
WordsOf(by, text) == [w \in DOMAIN text |-> <<by, text[w]>>]
Spoken == Speakers \X Words
Said(turns) == FlattenSeq([n \in DOMAIN turns |-> WordsOf(turns[n].by, turns[n].text)])
PiecesBy(by, pieces) ==
  [j \in DOMAIN pieces |-> [text |-> pieces[j], by |-> by, role |-> "unclassified_evidence"]]

LEMMA WordsTogether ==
  ASSUME NEW by \in Speakers, NEW x \in Seq(Words), NEW y \in Seq(Words)
  PROVE  /\ WordsOf(by, x) \in Seq(Spoken)
         /\ WordsOf(by, x \o y) = WordsOf(by, x) \o WordsOf(by, y)
<1> DEFINE m == Len(x)
           n == Len(y)
           z == x \o y
           a == WordsOf(by, x)
           b == WordsOf(by, y)
           c == WordsOf(by, z)
<1>1. /\ m \in Nat /\ n \in Nat /\ DOMAIN x = 1 .. m /\ DOMAIN y = 1 .. n
      /\ \A i \in 1 .. m : x[i] \in Words
      /\ \A i \in 1 .. n : y[i] \in Words
  OBVIOUS
<1>2. /\ z \in Seq(Words) /\ Len(z) = m + n
      /\ \A i \in 1 .. m + n : z[i] = IF i <= m THEN x[i] ELSE y[i - m]
  BY ConcatProperties
<1>3. DOMAIN z = 1 .. m + n
  BY <1>2
<1> HIDE DEF z, m, n
<1>4. a \in Seq(Spoken) /\ Len(a) = m /\ \A i \in 1 .. m : a[i] = <<by, x[i]>>
  BY <1>1 DEF WordsOf, Spoken
<1>5. b \in Seq(Spoken) /\ Len(b) = n /\ \A i \in 1 .. n : b[i] = <<by, y[i]>>
  BY <1>1 DEF WordsOf, Spoken
<1>6. c = [i \in 1 .. m + n |-> c[i]] /\ \A i \in 1 .. m + n : c[i] = <<by, z[i]>>
  BY <1>3 DEF WordsOf
<1> HIDE DEF a, b, c
<1>7. /\ a \o b \in Seq(Spoken) /\ Len(a \o b) = m + n
      /\ \A i \in 1 .. m + n : (a \o b)[i] = IF i <= m THEN a[i] ELSE b[i - m]
  BY <1>4, <1>5, ConcatProperties
<1> DEFINE ab == a \o b
<1>11. ab \in Seq(Spoken) /\ Len(ab) = m + n
  BY <1>7
<1> HIDE DEF ab
<1>8. ab = [i \in 1 .. m + n |-> ab[i]]
  BY <1>11
<1>9. ASSUME NEW i \in 1 .. m + n PROVE ab[i] = c[i]
  <2>1. CASE i <= m
    <3>1. i \in 1 .. m
      BY <1>1, <2>1
    <3>2. c[i] = <<by, x[i]>>
      BY <1>2, <1>6, <2>1
    <3>3. ab[i] = a[i]
      BY <1>7, <2>1 DEF ab
    <3> QED
      BY <1>4, <3>1, <3>2, <3>3
  <2>2. CASE ~ (i <= m)
    <3>1. i - m \in 1 .. n
      BY <1>1, <2>2
    <3>2. c[i] = <<by, y[i - m]>>
      BY <1>2, <1>6, <2>2
    <3>3. ab[i] = b[i - m]
      BY <1>7, <2>2 DEF ab
    <3> QED
      BY <1>5, <3>1, <3>2, <3>3
  <2> QED
    BY <2>1, <2>2
<1>10. ab = c
  BY <1>6, <1>8, <1>9
<1> QED
  BY <1>4, <1>10 DEF ab, a, b, c, z

LEMMA SaidTyped ==
  ASSUME NEW a \in ExcerptsOf
  PROVE  /\ [n \in DOMAIN a |-> WordsOf(a[n].by, a[n].text)] \in Seq(Seq(Spoken))
         /\ Said(a) \in Seq(Spoken)
<1> DEFINE l == [n \in DOMAIN a |-> WordsOf(a[n].by, a[n].text)]
<1>1. DOMAIN a = 1 .. Len(a) /\ Len(a) \in Nat
      /\ \A n \in 1 .. Len(a) : a[n].by \in Speakers /\ a[n].text \in Seq(Words)
  <2> DEFINE E == [text : Seq(Words), by : Speakers, role : {"unclassified_evidence"}]
  <2>1. \A x \in E : x.by \in Speakers /\ x.text \in Seq(Words)
    OBVIOUS
  <2>2. a \in Seq(E)
    BY DEF ExcerptsOf
  <2> HIDE DEF E
  <2> QED
    BY <2>1, <2>2
<1>2. l = [n \in 1 .. Len(a) |-> l[n]] /\ \A n \in 1 .. Len(a) : l[n] \in Seq(Spoken)
  BY <1>1, WordsTogether
<1>3. Said(a) = FlattenSeq(l)
  BY DEF Said
<1> HIDE DEF l
<1>4. l \in Seq(Seq(Spoken))
  BY <1>1, <1>2
<1> QED
  BY <1>3, <1>4, RangeFlatten DEF l

LEMMA SaidConcat ==
  ASSUME NEW a \in ExcerptsOf, NEW b \in ExcerptsOf
  PROVE  a \o b \in ExcerptsOf /\ Said(a \o b) = Said(a) \o Said(b)
<1> DEFINE L(x) == [n \in DOMAIN x |-> WordsOf(x[n].by, x[n].text)]
           W(e) == WordsOf(e.by, e.text)
           m == Len(a)
           k == Len(b)
           c == a \o b
           la == L(a)
           lb == L(b)
           lc == L(c)
<1>1. /\ m \in Nat /\ k \in Nat /\ DOMAIN a = 1 .. m /\ DOMAIN b = 1 .. k
      /\ c \in ExcerptsOf /\ DOMAIN c = 1 .. m + k
      /\ \A i \in 1 .. m + k : c[i] = IF i <= m THEN a[i] ELSE b[i - m]
  <2> DEFINE E == [text : Seq(Words), by : Speakers, role : {"unclassified_evidence"}]
  <2>1. a \in Seq(E) /\ b \in Seq(E) /\ ExcerptsOf = Seq(E)
    BY DEF ExcerptsOf
  <2> HIDE DEF E
  <2>2. /\ c \in Seq(E) /\ Len(c) = m + k
        /\ \A i \in 1 .. m + k : c[i] = IF i <= m THEN a[i] ELSE b[i - m]
    BY <2>1, ConcatProperties
  <2>3. m \in Nat /\ k \in Nat /\ DOMAIN a = 1 .. m /\ DOMAIN b = 1 .. k
    BY <2>1
  <2> HIDE DEF c
  <2> QED
    BY <2>1, <2>2, <2>3
<1>2. la \in Seq(Seq(Spoken)) /\ lb \in Seq(Seq(Spoken)) /\ lc \in Seq(Seq(Spoken))
  BY <1>1, SaidTyped
<1>3. Said(a) = FlattenSeq(la) /\ Said(b) = FlattenSeq(lb) /\ Said(c) = FlattenSeq(lc)
  BY DEF Said
<1> HIDE DEF c
<1>4. /\ la = [n \in 1 .. m |-> W(a[n])] /\ lb = [n \in 1 .. k |-> W(b[n])]
      /\ lc = [n \in 1 .. m + k |-> W(c[n])]
  BY <1>1
<1> HIDE DEF m, k, la, lb, lc, W
<1>5. /\ Len(la) = m /\ Len(lb) = k
      /\ \A n \in 1 .. m : la[n] = W(a[n])
      /\ \A n \in 1 .. k : lb[n] = W(b[n])
      /\ \A n \in 1 .. m + k : lc[n] = W(c[n])
  BY <1>1, <1>2, <1>4
<1> DEFINE lab == la \o lb
<1>6. /\ lab \in Seq(Seq(Spoken)) /\ Len(lab) = m + k
      /\ \A i \in 1 .. m + k : lab[i] = IF i <= m THEN la[i] ELSE lb[i - m]
  <2> DEFINE V == Seq(Spoken)
  <2>1. la \in Seq(V) /\ lb \in Seq(V) /\ Len(la) = m /\ Len(lb) = k
    BY <1>2, <1>5
  <2> HIDE DEF V
  <2>2. /\ lab \in Seq(V) /\ Len(lab) = Len(la) + Len(lb)
        /\ \A i \in 1 .. Len(la) + Len(lb) :
             lab[i] = IF i <= Len(la) THEN la[i] ELSE lb[i - Len(la)]
    BY <2>1, ConcatProperties
  <2> QED
    BY <2>1, <2>2 DEF V
<1> HIDE DEF lab
<1>7. lab = [i \in 1 .. m + k |-> lab[i]] /\ lc = [i \in 1 .. m + k |-> lc[i]]
  BY <1>4, <1>6
<1>8. ASSUME NEW i \in 1 .. m + k PROVE lab[i] = lc[i]
  <2>1. CASE i <= m
    <3>1. i \in 1 .. m
      BY <1>1, <2>1
    <3> QED
      BY <1>1, <1>5, <1>6, <2>1, <3>1
  <2>2. CASE ~ (i <= m)
    <3>1. i - m \in 1 .. k
      BY <1>1, <2>2
    <3> QED
      BY <1>1, <1>5, <1>6, <2>2, <3>1
  <2> QED
    BY <2>1, <2>2
<1>9. lab = lc
  BY <1>7, <1>8
<1>10. FlattenSeq(lab) = FlattenSeq(la) \o FlattenSeq(lb)
  BY <1>2, FlattenConcat DEF lab
<1> QED
  BY <1>1, <1>3, <1>9, <1>10 DEF c

LEMMA PiecesSaid ==
  ASSUME NEW by \in Speakers, NEW pieces \in Seq(Seq(Words))
  PROVE  /\ PiecesBy(by, pieces) \in ExcerptsOf
         /\ Said(PiecesBy(by, pieces)) = WordsOf(by, FlattenSeq(pieces))
<1> DEFINE n == Len(pieces)
           b == PiecesBy(by, pieces)
           l == [i \in DOMAIN b |-> WordsOf(b[i].by, b[i].text)]
<1>1. n \in Nat /\ DOMAIN pieces = 1 .. n /\ \A i \in 1 .. n : pieces[i] \in Seq(Words)
  OBVIOUS
<1> DEFINE E == [text : Seq(Words), by : Speakers, role : {"unclassified_evidence"}]
<1>2. b = [i \in 1 .. n |-> b[i]] /\ \A i \in 1 .. n : b[i] \in E
  BY <1>1 DEF PiecesBy
<1>16. ExcerptsOf = Seq(E)
  BY DEF ExcerptsOf
<1>3. \A i \in 1 .. n : b[i].by = by /\ b[i].text = pieces[i]
  BY <1>1 DEF PiecesBy
<1> HIDE DEF b, n, E
<1>4. b \in ExcerptsOf /\ DOMAIN b = 1 .. n
  BY <1>1, <1>2, <1>16, MadeSeq
<1>5. l \in Seq(Seq(Spoken)) /\ Said(b) = FlattenSeq(l)
  BY <1>4, SaidTyped DEF Said
<1>6. Len(l) = n /\ \A i \in 1 .. n : l[i] = WordsOf(by, pieces[i])
  BY <1>1, <1>3, <1>4, <1>5
<1> HIDE DEF l
<1>7. PICK k : FlatThrough(k, pieces, Words)
  BY FlatCourse
<1>8. /\ k \in [0 .. n -> Seq(Words)] /\ k[0] = <<>> /\ k[n] = FlattenSeq(pieces)
      /\ \A i \in 1 .. n : k[i] = k[i - 1] \o pieces[i]
  BY <1>7 DEF FlatThrough, n
<1>9. PICK h : FlatThrough(h, l, Spoken)
  BY <1>5, FlatCourse
<1>10. /\ h[0] = <<>> /\ h[n] = FlattenSeq(l)
       /\ \A i \in 1 .. n : h[i] = h[i - 1] \o l[i]
  BY <1>6, <1>9 DEF FlatThrough
<1> DEFINE Q(i) == h[i] = WordsOf(by, k[i])
           T == {i \in Nat : i <= n => Q(i)}
<1>11. Q(0)
  BY <1>8, <1>10 DEF WordsOf
<1> HIDE DEF Q
<1>12. 0 \in T
  BY <1>11
<1>13. ASSUME NEW i \in Nat, i \in T PROVE i + 1 \in T
  <2> SUFFICES ASSUME i + 1 <= n PROVE Q(i + 1)
    OBVIOUS
  <2>1. PICK m \in 1 .. n : m = i + 1 /\ m - 1 = i
    BY <1>1
  <2>2. Q(i)
    BY <1>1, <1>13, <2>1
  <2>3. k[i] \in Seq(Words) /\ pieces[m] \in Seq(Words)
    <3>1. i \in 0 .. n
      BY <1>1, <2>1
    <3> QED
      BY <1>1, <1>8, <3>1
  <2>4. k[m] = k[i] \o pieces[m] /\ h[m] = h[i] \o WordsOf(by, pieces[m])
    BY <1>6, <1>8, <1>10, <2>1
  <2>5. WordsOf(by, k[m]) = WordsOf(by, k[i]) \o WordsOf(by, pieces[m])
    BY <2>3, <2>4, WordsTogether
  <2> QED
    BY <2>1, <2>2, <2>4, <2>5 DEF Q
<1>14. n \in T
  <2> HIDE DEF T
  <2> QED
    BY <1>1, <1>12, <1>13, SetInduction
<1>15. Q(n)
  BY <1>1, <1>14
<1> QED
  BY <1>4, <1>5, <1>8, <1>10, <1>15 DEF Q, b

LEMMA EligibleTyped ==
  ASSUME NEW t \in Tickets
  PROVE  LET turns == Eligible(t)
         IN /\ turns \in Seq(Range(t))
            /\ \A i \in DOMAIN turns : turns[i].by \in {"customer", "support"}
                                       /\ turns[i].says \in Seq(Sentences)
<1> DEFINE S == Range(t)
           at == {i \in DOMAIN t : t[i].by \in {"customer", "support"}}
<1>1. t \in Seq(S) /\ at \subseteq DOMAIN t
  BY TicketsAssumption
<1>2. \A i \in at : t[i].by \in {"customer", "support"} /\ t[i].says \in Seq(Sentences)
  BY TicketsAssumption
<1>3. Eligible(t) = KeptAt(t, at)
  BY DEF Eligible, Matching
<1> HIDE DEF S, at
<1>4. /\ KeptAt(t, at) \in Seq(S)
      /\ \A j \in DOMAIN KeptAt(t, at) : \E i \in at : KeptAt(t, at)[j] = t[i]
  BY <1>1, KeptElements
<1> QED
  BY <1>2, <1>3, <1>4 DEF S

LEMMA SpeakersSaid ==
  ASSUME NEW t \in Tickets
  PROVE  LET turns == Eligible(t)
         IN /\ SpeakerExcerpts(t) \in ExcerptsOf
            /\ Said(SpeakerExcerpts(t)) =
                 FlattenSeq([i \in DOMAIN turns |-> WordsOf(turns[i].by, Text(turns[i].says))])
<1> DEFINE turns == Eligible(t)
           n == Len(turns)
           P(i) == PiecesBy(turns[i].by, BoundedTurn(turns[i].says))
           M(i) == WordsOf(turns[i].by, Text(turns[i].says))
           e == [i \in DOMAIN turns |-> P(i)]
           l == [i \in DOMAIN turns |-> M(i)]
<1>1. SpeakerExcerpts(t) = FlattenSeq(e)
  BY DEF SpeakerExcerpts, PiecesBy
<1>2. /\ turns \in Seq(Range(t))
      /\ \A i \in DOMAIN turns : turns[i].by \in Speakers /\ turns[i].says \in Seq(Sentences)
  BY EligibleTyped DEF Speakers
<1> HIDE DEF turns
<1>3. n \in Nat /\ DOMAIN turns = 1 .. n
  BY <1>2
<1>4. ASSUME NEW i \in 1 .. n
      PROVE  P(i) \in ExcerptsOf /\ M(i) \in Seq(Spoken) /\ Said(P(i)) = M(i)
  <2> DEFINE by == turns[i].by
             says == turns[i].says
  <2>1. by \in Speakers /\ says \in Seq(Sentences)
    BY <1>2, <1>3
  <2> HIDE DEF by, says
  <2>2. /\ BoundedTurn(says) \in Seq(Seq(Words)) /\ Text(says) \in Seq(Words)
        /\ FlattenSeq(BoundedTurn(says)) = Text(says)
    BY <2>1, TurnKeeps
  <2>3. /\ PiecesBy(by, BoundedTurn(says)) \in ExcerptsOf
        /\ Said(PiecesBy(by, BoundedTurn(says))) = WordsOf(by, Text(says))
    BY <2>1, <2>2, PiecesSaid
  <2>4. WordsOf(by, Text(says)) \in Seq(Spoken)
    BY <2>1, <2>2, WordsTogether
  <2> QED
    BY <2>3, <2>4 DEF by, says
<1>5. /\ e = [i \in 1 .. n |-> e[i]] /\ l = [i \in 1 .. n |-> l[i]]
      /\ \A i \in 1 .. n : e[i] = P(i) /\ l[i] = M(i)
  BY <1>3
<1> DEFINE E == [text : Seq(Words), by : Speakers, role : {"unclassified_evidence"}]
<1>6. ExcerptsOf = Seq(E)
  BY DEF ExcerptsOf
<1> HIDE DEF n, e, l, P, M, E
<1>7. e \in Seq(Seq(E)) /\ Len(e) = n /\ l \in Seq(Seq(Spoken)) /\ Len(l) = n
  <2>1. \A i \in 1 .. n : e[i] \in Seq(E) /\ l[i] \in Seq(Spoken)
    BY <1>4, <1>5, <1>6
  <2>2. e \in Seq(Seq(E)) /\ Len(e) = n
    BY <1>3, <1>5, <2>1, MadeSeq
  <2>3. l \in Seq(Seq(Spoken)) /\ Len(l) = n
    BY <1>3, <1>5, <2>1, MadeSeq
  <2> QED
    BY <2>2, <2>3
<1>8. PICK k : FlatThrough(k, e, E)
  BY <1>7, FlatCourse
<1>9. /\ k \in [0 .. n -> ExcerptsOf] /\ k[0] = <<>> /\ k[n] = FlattenSeq(e)
      /\ \A i \in 1 .. n : k[i] = k[i - 1] \o P(i)
  BY <1>5, <1>6, <1>7, <1>8 DEF FlatThrough
<1>10. PICK h : FlatThrough(h, l, Spoken)
  BY <1>7, FlatCourse
<1>11. /\ h[0] = <<>> /\ h[n] = FlattenSeq(l)
       /\ \A i \in 1 .. n : h[i] = h[i - 1] \o M(i)
  BY <1>5, <1>7, <1>10 DEF FlatThrough
<1> DEFINE Q(i) == Said(k[i]) = h[i]
           T == {i \in Nat : i <= n => Q(i)}
<1>12. Q(0)
  <2>1. Said(<<>>) = FlattenSeq(<<>>)
    BY DEF Said
  <2> QED
    BY <1>9, <1>11, <2>1, FlattenEmpty
<1> HIDE DEF Q
<1>13. 0 \in T
  BY <1>12
<1>14. ASSUME NEW i \in Nat, i \in T PROVE i + 1 \in T
  <2> SUFFICES ASSUME i + 1 <= n PROVE Q(i + 1)
    OBVIOUS
  <2>1. PICK m \in 1 .. n : m = i + 1 /\ m - 1 = i
    BY <1>3
  <2>2. Q(i)
    BY <1>3, <1>14, <2>1
  <2>3. k[i] \in ExcerptsOf /\ P(m) \in ExcerptsOf
    <3>1. i \in 0 .. n
      BY <1>3, <2>1
    <3> QED
      BY <1>4, <1>9, <3>1
  <2>4. k[m] = k[i] \o P(m) /\ h[m] = h[i] \o M(m)
    BY <1>9, <1>11, <2>1
  <2>5. Said(k[m]) = Said(k[i]) \o M(m)
    BY <1>4, <2>3, <2>4, SaidConcat
  <2> QED
    BY <2>1, <2>2, <2>4, <2>5 DEF Q
<1>15. n \in T
  <2> HIDE DEF T
  <2> QED
    BY <1>3, <1>13, <1>14, SetInduction
<1>16. Q(n)
  BY <1>3, <1>15
<1>17. FlattenSeq(e) \in ExcerptsOf
  BY <1>6, <1>7, RangeFlatten
<1> QED
  BY <1>1, <1>9, <1>11, <1>16, <1>17 DEF Q, l, M, turns

\* For any sentences and bounds: the packet of a transcript holds every word of
\* the customer and of support, in order and under its speaker, wherever a turn
\* or a sentence was cut (_speaker_turn_excerpts, _bounded_turn_excerpts).
THEOREM SpecEligibleTurnsComplete == Spec => []EligibleTurnsComplete
<1>1. ReviewInv => EligibleTurnsComplete
  <2> SUFFICES ASSUME ReviewInv, IsTranscript(ticket), packet # <<>>
               PROVE  LET turns == Eligible(ticket)
                      IN Said(packet) = FlattenSeq([n \in DOMAIN turns |->
                           WordsOf(turns[n].by, Text(turns[n].says))])
    BY DEF EligibleTurnsComplete, Said, WordsOf
  <2>1. ticket \in Tickets /\ packet = SelectedExcerpts(ticket)
    BY DEF ReviewInv
  <2>2. packet = SpeakerExcerpts(ticket)
    BY <2>1 DEF SelectedExcerpts, CompleteInventory
  <2> QED
    BY <2>1, <2>2, SpeakersSaid
<1> QED
  BY <1>1, SpecReviewInv, PTL

LEMMA SegmentsTyped ==
  ASSUME NEW t \in Tickets
  PROVE  /\ Segments(t) \in SegmentsOf
         /\ Range(Segments(t)) =
              UNION {{[s |-> x, role |-> InheritedRole(t, t[i])] : x \in Range(t[i].says)} :
                       i \in DOMAIN t}
<1> DEFINE E == [s : Sentences, role : PickRoles \cup {"none"}]
           m == Len(t)
           C(i) == [j \in DOMAIN t[i].says |->
                      [s |-> t[i].says[j], role |-> InheritedRole(t, t[i])]]
           R(i) == {[s |-> x, role |-> InheritedRole(t, t[i])] : x \in Range(t[i].says)}
           c == [i \in DOMAIN t |-> C(i)]
<1>1. /\ t \in Seq(Range(t))
      /\ \A i \in DOMAIN t : t[i].says \in Seq(Sentences) /\ t[i].says # <<>>
  BY TicketsAssumption
<1>2. m \in Nat /\ DOMAIN t = 1 .. m
  BY <1>1
<1>3. Segments(t) = FlattenSeq(c)
  BY DEF Segments
<1>4. ASSUME NEW i \in 1 .. m PROVE C(i) \in Seq(E) /\ Range(C(i)) = R(i)
  <2> DEFINE says == t[i].says
             role == InheritedRole(t, t[i])
             n == Len(says)
  <2>1. n \in Nat /\ DOMAIN says = 1 .. n /\ \A j \in 1 .. n : says[j] \in Sentences
    BY <1>1, <1>2
  <2>2. Head(says) \in Sentences
    BY <1>1, <1>2
  <2>3. role \in PickRoles \cup {"none"}
    <3>1. About[Head(says)].label \in DOMAIN LabelRole \cup {"none"}
      BY <2>2, AboutAssumption
    <3>2. \A l \in DOMAIN LabelRole : LabelRole[l] \in PickRoles
      BY DEF PickRoles, Range
    <3> QED
      BY <3>1, <3>2 DEF InheritedRole
  <2> HIDE DEF role
  <2>4. C(i) = [j \in 1 .. n |-> [s |-> says[j], role |-> role]]
    BY <2>1 DEF role
  <2> HIDE DEF says
  <2>5. C(i) = [j \in 1 .. n |-> C(i)[j]] /\ \A j \in 1 .. n : C(i)[j] \in E
    BY <2>1, <2>3, <2>4
  <2>6. DOMAIN C(i) = 1 .. n /\ \A j \in 1 .. n : C(i)[j] = [s |-> says[j], role |-> role]
    BY <2>4
  <2>7. Range(C(i)) = {[s |-> x, role |-> role] : x \in Range(says)}
    <3> HIDE DEF C, n
    <3> QED
      BY <2>1, <2>6 DEF Range
  <2>8. C(i) \in Seq(E)
    <3> HIDE DEF C, E, n
    <3> QED
      BY <2>1, <2>5, MadeSeq
  <2> QED
    BY <2>7, <2>8 DEF says, role
<1> HIDE DEF C, R, E
<1>5. c = [i \in 1 .. m |-> c[i]] /\ \A i \in 1 .. m : c[i] = C(i)
  BY <1>2
<1> HIDE DEF c, m
<1>6. c \in Seq(Seq(E)) /\ DOMAIN c = 1 .. m
  BY <1>2, <1>4, <1>5, MadeSeq
<1>7. /\ FlattenSeq(c) \in Seq(E)
      /\ Range(FlattenSeq(c)) = UNION {Range(c[i]) : i \in DOMAIN c}
  BY <1>6, RangeFlatten
<1>8. {Range(c[i]) : i \in DOMAIN c} = {R(i) : i \in DOMAIN t}
  BY <1>2, <1>4, <1>5, <1>6
<1>9. Range(Segments(t)) = UNION {R(i) : i \in DOMAIN t}
  BY <1>3, <1>7, <1>8
<1> QED
  BY <1>3, <1>7, <1>9 DEF E, R, SegmentsOf

LEMMA ScoresTyped ==
  ASSUME NEW g \in SegmentsOf, NEW role \in Scored
  PROVE  /\ \A i \in DOMAIN g : Score(g, role, i) \in Nat
         /\ Hits(g, role) \subseteq DOMAIN g
         /\ DOMAIN g = 1 .. Len(g) /\ Len(g) \in Nat /\ IsFiniteSet(DOMAIN g)
<1> DEFINE E == [s : Sentences, role : PickRoles \cup {"none"}]
<1>1. g \in Seq(E)
  BY DEF SegmentsOf
<1>2. \A x \in E : About[x.s].score[role] \in Nat
  BY AboutAssumption
<1> HIDE DEF E
<1>3. DOMAIN g = 1 .. Len(g) /\ Len(g) \in Nat /\ \A i \in DOMAIN g : g[i] \in E
  BY <1>1
<1>4. \A i \in DOMAIN g : Score(g, role, i) \in Nat
  BY <1>2, <1>3 DEF Score
<1>5. IsFiniteSet(1 .. Len(g))
  BY <1>3, FS_Interval
<1> QED
  BY <1>3, <1>4, <1>5 DEF Hits

LEMMA Picked ==
  ASSUME NEW g, NEW role \in PickRoles, NEW s \in Seq(DOMAIN g)
  PROVE  /\ Pick(role, s) \in PicksOf(g) /\ Len(Pick(role, s)) = Len(s)
         /\ \A n \in DOMAIN s : Pick(role, s)[n].i = s[n]
<1> DEFINE p == Pick(role, s)
           n == Len(s)
           D == DOMAIN g
           E == [i : D, role : PickRoles]
<1>1. n \in Nat /\ DOMAIN s = 1 .. n /\ \A k \in 1 .. n : s[k] \in D
  OBVIOUS
<1>2. p = [k \in 1 .. n |-> [i |-> s[k], role |-> role]]
  BY <1>1 DEF Pick
<1> HIDE DEF n, p, D
<1>3. p = [k \in 1 .. n |-> p[k]] /\ \A k \in 1 .. n : p[k] \in E /\ p[k].i = s[k]
  BY <1>1, <1>2
<1>4. PicksOf(g) = Seq(E)
  BY DEF PicksOf, D
<1> HIDE DEF E
<1>5. p \in Seq(E) /\ Len(p) = n
  BY <1>1, <1>3, MadeSeq
<1> QED
  BY <1>1, <1>3, <1>4, <1>5 DEF p, n

LEMMA SubSeqTyped ==
  ASSUME NEW S, NEW T, T \subseteq S, NEW s \in Seq(T)
  PROVE  s \in Seq(S)
OBVIOUS

LEMMA RankedTyped ==
  ASSUME NEW g \in SegmentsOf, NEW role \in Scored, NEW S, S \subseteq DOMAIN g
  PROVE  Ranked(g, role, S) \in Seq(DOMAIN g)
<1>1. /\ \A x \in S : Score(g, role, x) \in Nat
      /\ S \subseteq Nat /\ IsFiniteSet(S)
  BY ScoresTyped, FS_Subset
<1>2. /\ StrictOrder(BestFirst(g, role, S), S)
      /\ RanksIn(Ranked(g, role, S), BestFirst(g, role, S), S)
  BY <1>1, RankedOrdered
<1>3. Ranked(g, role, S) \in Seq(S)
  BY <1>1, <1>2, RankedFacts
<1> QED
  BY <1>3, SubSeqTyped

LEMMA TopTyped ==
  ASSUME NEW g \in SegmentsOf, NEW role \in Scored
  PROVE  Top(g, role) \in PicksOf(g)
<1>1. Ranked(g, role, Hits(g, role)) \in Seq(DOMAIN g)
  BY ScoresTyped, RankedTyped
<1>2. MaxHits \in Nat
  BY BoundsAssumption
<1>3. Upto(MaxHits, Ranked(g, role, Hits(g, role))) \in Seq(DOMAIN g)
  BY <1>1, <1>2, Shortened
<1>4. role \in PickRoles
  BY DEF PickRoles
<1> QED
  BY <1>3, <1>4, Picked DEF Top

LEMMA AnchoredTyped ==
  ASSUME NEW g \in SegmentsOf, NEW role \in Scored
  PROVE  EdgeAnchored(g, role) \in Seq(DOMAIN g)
<1> DEFINE D == DOMAIN g
           hits == Hits(g, role)
           good == {i \in hits : Score(g, role, i) >= AnchorScore}
           edge == IF good = {} THEN <<>>
                   ELSE IF Cardinality(good) = 1 THEN <<Min(good)>>
                   ELSE <<Min(good), Max(good)>>
           rest == Ranked(g, role, hits \ Range(edge))
<1>1. hits \subseteq D /\ D = 1 .. Len(g) /\ Len(g) \in Nat
  BY ScoresTyped
<1>2. hits \ Range(edge) \subseteq D
  BY <1>1
<1>3. rest \in Seq(D)
  BY <1>2, RankedTyped
<1>4. EdgeAnchored(g, role) = edge \o rest
  BY DEF EdgeAnchored
<1>5. good \subseteq D
  BY <1>1
<1> HIDE DEF good, D, rest
<1>6. good # {} => Min(good) \in D /\ Max(good) \in D
  <2> SUFFICES ASSUME good # {} PROVE Min(good) \in D /\ Max(good) \in D
    OBVIOUS
  <2>1. good \subseteq Nat /\ good \subseteq 1 .. Len(g)
    BY <1>1, <1>5
  <2>2. Min(good) \in good /\ Max(good) \in good
    BY <1>1, <2>1, MinFacts, MaxFacts
  <2> QED
    BY <1>5, <2>2
<1>7. edge \in Seq(D)
  <2>1. \A x, y \in D : <<x>> \in Seq(D) /\ <<x, y>> \in Seq(D)
    OBVIOUS
  <2>2. <<>> \in Seq(D)
    OBVIOUS
  <2> QED
    BY <1>6, <2>1, <2>2
<1> HIDE DEF edge
<1>8. edge \o rest \in Seq(D)
  BY <1>3, <1>7
<1> QED
  BY <1>4, <1>8 DEF D

LEMMA CoreTyped ==
  ASSUME NEW g \in SegmentsOf
  PROVE  BalancedCore(g) \in PicksOf(g)
<1> DEFINE E == [i : DOMAIN g, role : PickRoles]
           V == Seq(E)
           top == [n \in 1 .. 3 |->
                     Pick(CoreRoles[n], Upto(CoreHits, EdgeAnchored(g, CoreRoles[n])))]
           Place(rank, n) == IF rank <= Len(top[n]) THEN <<top[n][rank]>> ELSE <<>>
           row == [rank \in 1 .. CoreHits |-> [n \in 1 .. 3 |-> Place(rank, n)]]
           rows == [rank \in 1 .. CoreHits |-> FlattenSeq(row[rank])]
<1>1. CoreHits \in Nat
  <2> DEFINE c == MaxRanked \div 3
  <2>1. MaxRanked \in Nat
    BY BoundsAssumption
  <2>2. c \in Nat
    BY <2>1
  <2> QED
    BY <2>2 DEF CoreHits
<1>2. \A n \in 1 .. 3 : CoreRoles[n] \in Scored
  BY DEF CoreRoles, Scored, Range
<1>3. ASSUME NEW n \in 1 .. 3 PROVE top[n] \in V
  <2> DEFINE role == CoreRoles[n]
  <2>1. role \in Scored /\ role \in PickRoles
    BY <1>2 DEF PickRoles
  <2> HIDE DEF role
  <2>2. Upto(CoreHits, EdgeAnchored(g, role)) \in Seq(DOMAIN g)
    BY <1>1, <2>1, AnchoredTyped, Shortened
  <2>3. Pick(role, Upto(CoreHits, EdgeAnchored(g, role))) \in PicksOf(g)
    BY <2>1, <2>2, Picked
  <2>4. top[n] = Pick(role, Upto(CoreHits, EdgeAnchored(g, role)))
    BY DEF role
  <2> QED
    BY <2>3, <2>4 DEF PicksOf
<1>4. BalancedCore(g) = FlattenSeq(rows)
  BY DEF BalancedCore
<1> HIDE DEF top, E
<1>5. ASSUME NEW rank \in 1 .. CoreHits, NEW n \in 1 .. 3 PROVE Place(rank, n) \in V
  <2>1. top[n] \in V
    BY <1>3
  <2> DEFINE s == top[n]
  <2> HIDE DEF s
  <2>2. s \in Seq(E) /\ rank \in Nat \ {0}
    BY <1>1, <2>1 DEF s
  <2>3. rank <= Len(s) => s[rank] \in E
    BY <2>2
  <2>4. \A x \in E : <<x>> \in V
    OBVIOUS
  <2>5. <<>> \in V
    OBVIOUS
  <2> QED
    BY <2>3, <2>4, <2>5 DEF s
<1> HIDE DEF Place, V
<1>6. \A rank \in 1 .. CoreHits : row[rank] \in Seq(V)
  <2> SUFFICES ASSUME NEW rank \in 1 .. CoreHits PROVE row[rank] \in Seq(V)
    OBVIOUS
  <2> DEFINE w == row[rank]
  <2>1. w = [n \in 1 .. 3 |-> w[n]] /\ \A n \in 1 .. 3 : w[n] \in V
    BY <1>5
  <2> HIDE DEF w
  <2> QED
    BY <2>1, MadeSeq DEF w
<1> HIDE DEF row
<1>7. \A rank \in 1 .. CoreHits : rows[rank] \in V
  BY <1>6, RangeFlatten DEF V
<1>8. rows = [rank \in 1 .. CoreHits |-> rows[rank]]
  OBVIOUS
<1> HIDE DEF rows
<1>9. rows \in Seq(V)
  BY <1>1, <1>7, <1>8, MadeSeq
<1>10. FlattenSeq(rows) \in V
  BY <1>9, RangeFlatten DEF V
<1> QED
  BY <1>4, <1>10 DEF V, E, PicksOf

LEMMA NumbersListed ==
  ASSUME NEW g \in SegmentsOf, NEW S, S \subseteq DOMAIN g
  PROVE  /\ Ordered(S, <) \in Seq(S) /\ Ordered(S, <) \in Seq(DOMAIN g)
         /\ \A x \in S : \E n \in DOMAIN Ordered(S, <) : Ordered(S, <)[n] = x
<1> DEFINE o == Ordered(S, <)
<1>1. DOMAIN g \subseteq Nat /\ IsFiniteSet(DOMAIN g)
  <2>1. "reported_symptom" \in Scored
    BY DEF Scored, CoreRoles, Range
  <2>2. DOMAIN g = 1 .. Len(g) /\ Len(g) \in Nat /\ IsFiniteSet(DOMAIN g)
    BY <2>1, ScoresTyped
  <2> QED
    BY <2>2
<1>2. S \subseteq Nat /\ IsFiniteSet(S)
  BY <1>1, FS_Subset
<1>3. StrictOrder(Increasing(S), S) /\ RanksIn(o, Increasing(S), S)
  BY <1>2, NumbersOrdered
<1> HIDE DEF o
<1>4. o \in Seq(S) /\ \A x \in S : \E n \in DOMAIN o : o[n] = x
  BY <1>2, <1>3, RankedFacts
<1>5. o \in Seq(DOMAIN g)
  BY <1>4, SubSeqTyped
<1> QED
  BY <1>4, <1>5 DEF o

\* The sentence that names an article is one that does.
LEMMA ReferenceTyped ==
  ASSUME NEW g \in SegmentsOf
  PROVE  /\ PublicReference(g) \in PicksOf(g)
         /\ \A n \in DOMAIN PublicReference(g) : About[g[PublicReference(g)[n].i].s].url
<1> DEFINE role == "supported_resolution"
           hits == {i \in Hits(g, role) : About[g[i].s].url}
           best == {i \in hits : \A j \in hits : Score(g, role, j) <= Score(g, role, i)}
           s == IF best = {} THEN <<>> ELSE <<Min(best)>>
<1>1. role \in Scored /\ role \in PickRoles
  BY DEF Scored, PickRoles, CoreRoles, Range
<1>2. PublicReference(g) = Pick(role, s)
  BY DEF PublicReference
<1>3. Hits(g, role) \subseteq DOMAIN g /\ DOMAIN g = 1 .. Len(g) /\ Len(g) \in Nat
  BY <1>1, ScoresTyped
<1>4. best \subseteq DOMAIN g /\ best \subseteq Nat /\ \A i \in best : About[g[i].s].url
  BY <1>3
<1> HIDE DEF best
<1>5. s \in Seq(DOMAIN g) /\ \A n \in DOMAIN s : About[g[s[n]].s].url
  <2>1. CASE best = {}
    <3>1. s = <<>> /\ <<>> \in Seq(DOMAIN g) /\ DOMAIN <<>> = {}
      BY <2>1
    <3> QED
      BY <3>1
  <2>2. CASE best # {}
    <3> DEFINE m == Min(best)
    <3>1. m \in best
      BY <1>4, <2>2, MinFacts
    <3> HIDE DEF m
    <3>2. s = <<m>>
      BY <2>2 DEF m
    <3>3. m \in DOMAIN g /\ About[g[m].s].url
      BY <1>4, <3>1
    <3>4. <<m>> \in Seq(DOMAIN g) /\ DOMAIN <<m>> = {1} /\ <<m>>[1] = m
      BY <3>3
    <3> QED
      BY <3>2, <3>3, <3>4
  <2> QED
    BY <2>1, <2>2
<1> DEFINE p == Pick(role, s)
<1> HIDE DEF s, p
<1>6. /\ p \in PicksOf(g) /\ Len(p) = Len(s)
      /\ \A n \in DOMAIN s : p[n].i = s[n]
  BY <1>1, <1>5, Picked DEF p
<1>7. DOMAIN p = DOMAIN s
  <2>1. DOMAIN s = 1 .. Len(s) /\ DOMAIN p = 1 .. Len(p)
    BY <1>5, <1>6 DEF PicksOf
  <2> QED
    BY <1>6, <2>1
<1> QED
  BY <1>2, <1>5, <1>6, <1>7 DEF p

LabelledAt(g) == {i \in DOMAIN g : g[i].role # "none"}

LEMMA InheritedTyped ==
  ASSUME NEW g \in SegmentsOf
  PROVE  /\ Inherited(g) \in PicksOf(g)
         /\ \A n \in DOMAIN Inherited(g) : Inherited(g)[n].i \in LabelledAt(g)
         /\ \A i \in LabelledAt(g) : \E n \in DOMAIN Inherited(g) : Inherited(g)[n].i = i
<1> DEFINE S == LabelledAt(g)
           own == Ordered(S, <)
           p == Inherited(g)
           E == [i : DOMAIN g, role : PickRoles]
<1>1. S \subseteq DOMAIN g
  BY DEF LabelledAt
<1>2. own \in Seq(S) /\ \A x \in S : \E n \in DOMAIN own : own[n] = x
  BY <1>1, NumbersListed
<1>3. p = [n \in DOMAIN own |-> [i |-> own[n], role |-> g[own[n]].role]]
  BY DEF Inherited, LabelledAt
<1>4. \A i \in S : i \in DOMAIN g /\ g[i].role \in PickRoles
  <2> DEFINE G == [s : Sentences, role : PickRoles \cup {"none"}]
  <2>1. \A x \in G : x.role \in PickRoles \cup {"none"}
    OBVIOUS
  <2>2. g \in Seq(G)
    BY DEF SegmentsOf
  <2> HIDE DEF G
  <2>3. \A i \in DOMAIN g : g[i] \in G
    BY <2>2
  <2> QED
    BY <2>1, <2>3 DEF LabelledAt
<1> HIDE DEF own, S, p
<1>5. DOMAIN own = 1 .. Len(own) /\ Len(own) \in Nat /\ \A n \in DOMAIN own : own[n] \in S
  BY <1>2
<1>6. /\ p = [n \in 1 .. Len(own) |-> p[n]]
      /\ \A n \in 1 .. Len(own) : p[n] \in E /\ p[n].i = own[n]
  BY <1>3, <1>4, <1>5
<1> HIDE DEF E
<1>7. p \in Seq(E) /\ DOMAIN p = DOMAIN own
  BY <1>5, <1>6, MadeSeq
<1> QED
  BY <1>2, <1>5, <1>6, <1>7 DEF p, S, E, PicksOf

\* The sentences that come before all others: the article, and the labelled.
Foremost(g) == PublicReference(g) \o Inherited(g)
Others(g) ==
  BalancedCore(g) \o Top(g, "customer_question")
    \o Labelled(g, "answer", "supported_resolution")
    \o Labelled(g, "note", "internal_workflow_note") \o Top(g, "confirmed_fact")

LEMMA LabelledTyped ==
  ASSUME NEW g \in SegmentsOf, NEW label, NEW role \in PickRoles
  PROVE  Labelled(g, label, role) \in PicksOf(g)
<1> DEFINE S == {i \in DOMAIN g : About[g[i].s].label = label}
<1>1. S \subseteq DOMAIN g
  OBVIOUS
<1>2. Labelled(g, label, role) = Pick(role, Ordered(S, <))
  BY DEF Labelled
<1> HIDE DEF S
<1>3. Ordered(S, <) \in Seq(DOMAIN g)
  BY <1>1, NumbersListed
<1> QED
  BY <1>2, <1>3, Picked

LEMMA SelectedTyped ==
  ASSUME NEW g \in SegmentsOf
  PROVE  /\ Foremost(g) \in PicksOf(g) /\ Others(g) \in PicksOf(g)
         /\ Selected(g) \in PicksOf(g) /\ Selected(g) = Foremost(g) \o Others(g)
<1> DEFINE E == [i : DOMAIN g, role : PickRoles]
           V == Seq(E)
           a == PublicReference(g)
           b == Inherited(g)
           c == BalancedCore(g)
           d == Top(g, "customer_question")
           e == Labelled(g, "answer", "supported_resolution")
           f == Labelled(g, "note", "internal_workflow_note")
           k == Top(g, "confirmed_fact")
<1>1. /\ "customer_question" \in Scored /\ "confirmed_fact" \in Scored
      /\ "supported_resolution" \in PickRoles /\ "internal_workflow_note" \in PickRoles
  <2>1. "supported_resolution" \in Scored
    BY DEF Scored, CoreRoles, Range
  <2>2. LabelRole["note"] = "internal_workflow_note" /\ "note" \in DOMAIN LabelRole
    BY DEF LabelRole
  <2>3. "internal_workflow_note" \in Range(LabelRole)
    BY <2>2 DEF Range
  <2> QED
    BY <2>1, <2>3 DEF Scored, PickRoles
<1>2. a \in V /\ b \in V /\ c \in V
  BY ReferenceTyped, InheritedTyped, CoreTyped DEF PicksOf
<1>3. d \in V /\ e \in V /\ f \in V /\ k \in V
  BY <1>1, TopTyped, LabelledTyped DEF PicksOf
<1>4. /\ Foremost(g) = a \o b /\ Others(g) = (((c \o d) \o e) \o f) \o k
      /\ Selected(g) = (((((a \o b) \o c) \o d) \o e) \o f) \o k
  BY DEF Foremost, Others, Selected
<1> HIDE DEF a, b, c, d, e, f, k, E
<1> DEFINE J(x, y) == x \o y
           ab == J(a, b)
           cd == J(c, d)
           ce == J(cd, e)
           cf == J(ce, f)
<1>5. \A x, y, z \in V : J(x, y) \in V /\ J(J(x, y), z) = J(x, J(y, z))
  <2>1. \A x, y \in V : J(x, y) \in V
    BY ConcatFacts DEF V
  <2>2. \A x, y, z \in V : J(J(x, y), z) = J(x, J(y, z))
    BY ConcatLaws DEF V
  <2> QED
    BY <2>1, <2>2
<1>13. /\ Foremost(g) = ab /\ Others(g) = J(cf, k)
       /\ Selected(g) = J(J(J(J(J(ab, c), d), e), f), k)
  BY <1>4
<1> HIDE DEF V, J
<1>6. ab \in V /\ cd \in V
  BY <1>2, <1>3, <1>5
<1>7. ce \in V /\ J(J(ab, c), d) = J(ab, cd)
  BY <1>2, <1>3, <1>5, <1>6
<1> HIDE DEF ab, cd
<1>8. cf \in V /\ J(J(ab, cd), e) = J(ab, ce)
  BY <1>3, <1>5, <1>6, <1>7
<1> HIDE DEF ce
<1>9. J(cf, k) \in V /\ J(J(ab, ce), f) = J(ab, cf)
  BY <1>3, <1>5, <1>6, <1>7, <1>8
<1> HIDE DEF cf
<1>10. J(J(ab, cf), k) = J(ab, J(cf, k)) /\ J(ab, J(cf, k)) \in V
  BY <1>3, <1>5, <1>6, <1>8, <1>9
<1>11. /\ Foremost(g) \in V /\ Others(g) \in V /\ Selected(g) \in V
       /\ Selected(g) = J(Foremost(g), Others(g))
  BY <1>6, <1>7, <1>8, <1>9, <1>10, <1>13
<1> QED
  BY <1>11 DEF V, E, PicksOf, J

-----------------------------------------------------------------------------
(* One pick per text *)

TextAt(g, pick) == Cleaned(g[pick.i].s)
SameText(g, kept, pick) == {n \in DOMAIN kept : TextAt(g, kept[n]) = TextAt(g, pick)}
\* The step of Deduped.
Keep(g, kept, pick) ==
  LET same == SameText(g, kept, pick)
      n == Min(same)
  IN IF same = {} THEN Append(kept, pick)
     ELSE [kept EXCEPT ![n].role = PreferredRole(@, pick.role, g[kept[n].i].s)]

TextsDiffer(g, kept) ==
  \A m, n \in DOMAIN kept : TextAt(g, kept[m]) = TextAt(g, kept[n]) => m = n

LEMMA KeepStep ==
  ASSUME NEW g, NEW kept \in PicksOf(g), NEW pick \in [i : DOMAIN g, role : PickRoles]
  PROVE  LET new == Keep(g, kept, pick)
         IN /\ new \in PicksOf(g) /\ DOMAIN kept \subseteq DOMAIN new
            /\ \A n \in DOMAIN kept : new[n].i = kept[n].i
            /\ \A n \in DOMAIN new : n \in DOMAIN kept \/ new[n].i = pick.i
            /\ \E n \in DOMAIN new : TextAt(g, new[n]) = TextAt(g, pick)
            /\ TextsDiffer(g, kept) => TextsDiffer(g, new)
<1> DEFINE E == [i : DOMAIN g, role : PickRoles]
           new == Keep(g, kept, pick)
           same == SameText(g, kept, pick)
           l == Len(kept)
<1>1. kept \in Seq(E) /\ pick \in E
  BY DEF PicksOf
<1>2. \A x \in E : x.i \in DOMAIN g /\ x.role \in PickRoles
                   /\ \A r \in PickRoles : [x EXCEPT !.role = r] \in E
                                           /\ [x EXCEPT !.role = r].i = x.i
  OBVIOUS
<1> HIDE DEF E
<1>3. l \in Nat /\ DOMAIN kept = 1 .. l /\ \A n \in 1 .. l : kept[n] \in E
  BY <1>1
<1>4. CASE same = {}
  <2>1. new = Append(kept, pick)
    BY <1>4 DEF Keep
  <2> HIDE DEF new, l
  <2>2. /\ new \in Seq(E) /\ DOMAIN new = 1 .. l + 1 /\ new[l + 1] = pick
        /\ \A n \in 1 .. l : new[n] = kept[n]
    <3>1. new \in Seq(E) /\ Len(new) = l + 1 /\ new[l + 1] = pick
          /\ \A n \in 1 .. l : new[n] = kept[n]
      BY <1>1, <2>1, AppendProperties DEF l
    <3>2. DOMAIN new = 1 .. l + 1
      BY <3>1
    <3> QED
      BY <3>1, <3>2
  <2>3. \A n \in 1 .. l + 1 : n = l + 1 \/ n \in 1 .. l
    BY <1>3
  <2>4. \A n \in 1 .. l : TextAt(g, kept[n]) # TextAt(g, pick)
    BY <1>3, <1>4 DEF SameText
  <2>5. l + 1 \in 1 .. l + 1 /\ 1 .. l \subseteq 1 .. l + 1
    BY <1>3
  <2>6. TextsDiffer(g, kept) => TextsDiffer(g, new)
    BY <1>3, <2>2, <2>3, <2>4 DEF TextsDiffer
  <2> QED
    BY <1>3, <2>2, <2>3, <2>5, <2>6 DEF new, E, PicksOf
<1>5. CASE same # {}
  <2> DEFINE m == Min(same)
             role == PreferredRole(kept[m].role, pick.role, g[kept[m].i].s)
  <2>1. same \subseteq Nat /\ same \subseteq 1 .. l
    BY <1>3 DEF SameText
  <2>2. m \in same
    BY <1>5, <2>1, MinFacts
  <2>3. new = [kept EXCEPT ![m].role = role]
    BY <1>5 DEF Keep
  <2> HIDE DEF m, l
  <2>4. m \in 1 .. l /\ TextAt(g, kept[m]) = TextAt(g, pick)
    BY <2>1, <2>2 DEF SameText
  <2>5. kept[m] \in E /\ kept[m].role \in PickRoles
    BY <1>2, <1>3, <2>4
  <2>6. role \in PickRoles
    <3>1. "supported_resolution" \in PickRoles /\ "customer_question" \in PickRoles
          /\ "confirmed_fact" \in PickRoles
      BY DEF PickRoles, Scored, CoreRoles, Range
    <3>2. "internal_workflow_note" \in PickRoles
      <4>1. LabelRole["note"] = "internal_workflow_note" /\ "note" \in DOMAIN LabelRole
        BY DEF LabelRole
      <4> QED
        BY <4>1 DEF PickRoles, Range
    <3> QED
      BY <2>5, <3>1, <3>2 DEF PreferredRole
  <2> HIDE DEF role, new
  <2> DEFINE x == [kept[m] EXCEPT !.role = role]
  <2>7. x \in E /\ x.i = kept[m].i
    BY <1>2, <2>5, <2>6
  <2>8. new = [kept EXCEPT ![m] = x]
    BY <2>3
  <2> HIDE DEF x
  <2>9. new \in Seq(E) /\ DOMAIN new = 1 .. l
        /\ \A n \in 1 .. l : new[n] = IF n = m THEN x ELSE kept[n]
    BY <1>1, <1>3, <2>4, <2>7, <2>8 DEF l
  <2>10. \A n \in 1 .. l : new[n].i = kept[n].i
    BY <2>7, <2>9
  <2>11. \A n \in 1 .. l : TextAt(g, new[n]) = TextAt(g, kept[n])
    BY <2>10 DEF TextAt
  <2>12. TextsDiffer(g, kept) => TextsDiffer(g, new)
    BY <1>3, <2>9, <2>11 DEF TextsDiffer
  <2> QED
    BY <1>3, <2>4, <2>9, <2>10, <2>11, <2>12 DEF new, E, PicksOf
<1> QED
  BY <1>4, <1>5

KeptByText(h, g, picks) ==
  /\ h \in [0 .. Len(picks) -> PicksOf(g)]
  /\ h[0] = <<>> /\ h[Len(picks)] = Deduped(g, picks)
  /\ \A i \in 1 .. Len(picks) : h[i] = Keep(g, h[i - 1], picks[i])

LEMMA KeepCourse ==
  ASSUME NEW g, NEW picks \in PicksOf(g)
  PROVE  \E h : KeptByText(h, g, picks)
<1> DEFINE E == [i : DOMAIN g, role : PickRoles]
           V == PicksOf(g)
           n == Len(picks)
           Op(v, i) == Keep(g, v, picks[i])
           s == [q \in (1 .. n) \X V |-> Op(q[2], q[1])]
           F(it) == [t \in SUBSET (1 .. n) |->
                       IF t = {} THEN <<>> ELSE Op(it[t \ {Max(t)}], Max(t))]
           C == CHOOSE it : it = F(it)
<1>1. picks \in Seq(E) /\ V = Seq(E) /\ <<>> \in V
  BY DEF PicksOf
<1>2. n \in Nat /\ DOMAIN picks = 1 .. n /\ \A i \in 1 .. n : picks[i] \in E
  <2> HIDE DEF E
  <2> QED
    BY <1>1
<1>3. Deduped(g, picks) = C[1 .. n]
  BY <1>2 DEF Deduped, FoldLeft, MapThenFoldSet, Keep, SameText, TextAt
<1>4. s \in Steps(n, V)
  <2>1. \A i \in 1 .. n, v \in V : Op(v, i) \in V
    BY <1>2, KeepStep
  <2> HIDE DEF Op, V
  <2> QED
    BY <2>1 DEF Steps
<1>5. \A v, i : Op(v, i) = Keep(g, v, picks[i])
  OBVIOUS
<1> HIDE DEF n, V, Op, E
<1>6. \A i \in 1 .. n, v \in V : s[<<i, v>>] = Op(v, i)
  OBVIOUS
<1> HIDE DEF s
<1>7. \A t \in SUBSET (1 .. n) : t # {} => Max(t) \in 1 .. n /\ t \ {Max(t)} \in SUBSET (1 .. n)
  BY <1>2, MaxFacts
<1>8. C = F(C)
  <2>1. PICK it : IsFold(it, <<>>, n, s, V)
    BY <1>1, <1>2, <1>4, FoldExists
  <2>2. ASSUME NEW t \in SUBSET (1 .. n)
        PROVE  it[t] = IF t = {} THEN <<>> ELSE Op(it[t \ {Max(t)}], Max(t))
    <3>1. CASE t = {}
      BY <2>1, <3>1 DEF IsFold
    <3>2. CASE t # {}
      BY <2>1, <3>2, <1>6, <1>7 DEF IsFold
    <3> QED
      BY <3>1, <3>2
  <2>3. it = F(it)
    BY <2>1, <2>2 DEF IsFold
  <2> QED
    BY <2>3
<1> HIDE DEF C
<1>9. C[{}] = <<>>
  BY <1>8
<1>10. \A t \in SUBSET (1 .. n) : t # {} /\ C[t \ {Max(t)}] \in V =>
         C[t] = s[<<Max(t), C[t \ {Max(t)}]>>]
  BY <1>8, <1>6, <1>7
<1> HIDE DEF F
<1> DEFINE h == CourseOf(C, n)
<1>11. FoldOn(C, <<>>, n, s, V)
  BY <1>9, <1>10 DEF FoldOn
<1>12. Course(h, <<>>, n, s, V)
  BY <1>1, <1>2, <1>4, <1>11, FoldCourse
<1>13. h[n] = Deduped(g, picks)
  BY <1>2, <1>3 DEF CourseOf
<1> HIDE DEF h
<1>14. h \in [0 .. n -> V] /\ h[0] = <<>> /\ \A i \in 1 .. n : h[i - 1] \in V
  BY <1>2, <1>12 DEF Course
<1>15. \A i \in 1 .. n : h[i] = Keep(g, h[i - 1], picks[i])
  BY <1>5, <1>6, <1>12, <1>14 DEF Course
<1>16. KeptByText(h, g, picks)
  BY <1>13, <1>14, <1>15 DEF KeptByText, n, V
<1> QED
  BY <1>16

\* What has been kept of the first i picks, and that what was kept of the first
\* p of them still is.
KeptOf(g, picks, i, kept) ==
  /\ TextsDiffer(g, kept)
  /\ \A n \in DOMAIN kept : \E j \in 1 .. i : kept[n].i = picks[j].i
  /\ \A j \in 1 .. i : \E n \in DOMAIN kept : TextAt(g, kept[n]) = TextAt(g, picks[j])
StillKept(old, kept) ==
  DOMAIN old \subseteq DOMAIN kept /\ \A n \in DOMAIN old : kept[n].i = old[n].i

LEMMA KeptThroughout ==
  ASSUME NEW g, NEW picks \in PicksOf(g), NEW h, KeptByText(h, g, picks),
         NEW p \in 0 .. Len(picks)
  PROVE  \A i \in 0 .. Len(picks) :
           /\ h[i] \in PicksOf(g) /\ KeptOf(g, picks, i, h[i])
           /\ p <= i => StillKept(h[p], h[i])
<1> DEFINE E == [i : DOMAIN g, role : PickRoles]
           n == Len(picks)
           V == PicksOf(g)
           P(i) == KeptOf(g, picks, i, h[i]) /\ (p <= i => StillKept(h[p], h[i]))
           T == {i \in Nat : i <= n => P(i)}
<1>1. n \in Nat /\ p \in Nat /\ \A i \in 1 .. n : picks[i] \in E
  <2>1. picks \in Seq(E)
    BY DEF PicksOf
  <2> HIDE DEF E
  <2> QED
    BY <2>1
<1>2. /\ h \in [0 .. n -> V] /\ h[0] = <<>>
      /\ \A i \in 1 .. n : h[i] = Keep(g, h[i - 1], picks[i])
  BY DEF KeptByText
<1>3. P(0)
  <2>1. DOMAIN h[0] = {}
    BY <1>2
  <2>2. KeptOf(g, picks, 0, h[0])
    <3>1. \A j \in 1 .. 0 : FALSE
      OBVIOUS
    <3> QED
      BY <2>1, <3>1 DEF KeptOf, TextsDiffer
  <2>3. p <= 0 => p = 0
    BY <1>1
  <2>4. StillKept(h[0], h[0])
    BY DEF StillKept
  <2> QED
    BY <2>2, <2>3, <2>4
<1> HIDE DEF P, V, n, E
<1>4. 0 \in T
  BY <1>3
<1>5. ASSUME NEW i \in Nat, i \in T PROVE i + 1 \in T
  <2> SUFFICES ASSUME i + 1 <= n PROVE P(i + 1)
    OBVIOUS
  <2>1. PICK m \in 1 .. n : m = i + 1 /\ m - 1 = i
    BY <1>1
  <2>2. P(i)
    BY <1>1, <1>5, <2>1
  <2>3. h[i] \in V /\ picks[m] \in E
    <3>1. i \in 0 .. n
      BY <1>1, <2>1
    <3> QED
      BY <1>1, <1>2, <3>1
  <2> DEFINE new == h[m]
             kept == h[i]
             pick == picks[m]
  <2>4. new = Keep(g, kept, pick)
    BY <1>2, <2>1
  <2>5. KeptOf(g, picks, i, kept) /\ (p <= i => StillKept(h[p], kept))
    BY <2>2 DEF P
  <2>6. /\ DOMAIN kept \subseteq DOMAIN new
        /\ \A k \in DOMAIN kept : new[k].i = kept[k].i
        /\ \A k \in DOMAIN new : k \in DOMAIN kept \/ new[k].i = pick.i
        /\ \E k \in DOMAIN new : TextAt(g, new[k]) = TextAt(g, pick)
        /\ TextsDiffer(g, kept) => TextsDiffer(g, new)
    BY <2>3, <2>4, KeepStep DEF V, E
  <2>7. \A j \in 1 .. m : j = m \/ j \in 1 .. i
    BY <2>1
  <2>8. m \in 1 .. m /\ \A j \in 1 .. i : j \in 1 .. m
    BY <2>1
  <2>9. \A k \in DOMAIN kept : TextAt(g, new[k]) = TextAt(g, kept[k])
    BY <2>6 DEF TextAt
  <2>10. p <= m => p <= i \/ p = m
    BY <1>1, <2>1
  <2>11. StillKept(new, new)
    BY DEF StillKept
  <2> HIDE DEF new, kept, pick
  <2>12. \A k \in DOMAIN new : \E j \in 1 .. m : new[k].i = picks[j].i
    <3> SUFFICES ASSUME NEW k \in DOMAIN new
                 PROVE  \E j \in 1 .. m : new[k].i = picks[j].i
      OBVIOUS
    <3>1. CASE k \in DOMAIN kept
      <4>1. PICK j \in 1 .. i : kept[k].i = picks[j].i
        BY <2>5, <3>1 DEF KeptOf
      <4> QED
        BY <2>6, <2>8, <3>1, <4>1
    <3>2. CASE new[k].i = pick.i
      BY <2>8, <3>2 DEF pick
    <3> QED
      BY <2>6, <3>1, <3>2
  <2>13. \A j \in 1 .. m : \E k \in DOMAIN new : TextAt(g, new[k]) = TextAt(g, picks[j])
    <3> SUFFICES ASSUME NEW j \in 1 .. m
                 PROVE  \E k \in DOMAIN new : TextAt(g, new[k]) = TextAt(g, picks[j])
      OBVIOUS
    <3>1. CASE j = m
      BY <2>6, <3>1 DEF pick
    <3>2. CASE j \in 1 .. i
      <4>1. PICK k \in DOMAIN kept : TextAt(g, kept[k]) = TextAt(g, picks[j])
        BY <2>5, <3>2 DEF KeptOf
      <4> QED
        BY <2>6, <2>9, <4>1
    <3> QED
      BY <2>7, <3>1, <3>2
  <2>14. KeptOf(g, picks, m, new)
    BY <2>5, <2>6, <2>12, <2>13 DEF KeptOf
  <2>15. p <= m => StillKept(h[p], new)
    <3>1. p <= i => StillKept(h[p], new)
      BY <2>5, <2>6 DEF StillKept
    <3>2. p = m => StillKept(h[p], new)
      BY <2>11 DEF new
    <3> QED
      BY <2>10, <3>1, <3>2
  <2> QED
    BY <2>1, <2>14, <2>15 DEF P, new
<1>6. Nat \subseteq T
  <2> HIDE DEF T
  <2> QED
    BY <1>4, <1>5, SetInduction
<1>7. ASSUME NEW i \in 0 .. n PROVE P(i) /\ h[i] \in V
  BY <1>1, <1>2, <1>6
<1> QED
  BY <1>7 DEF P, V, n

ByPlace(picks) ==
  {p \in (DOMAIN picks) \X (DOMAIN picks) : picks[p[1]].i < picks[p[2]].i}

Arranges(o, sorted, picks) ==
  /\ DOMAIN sorted = DOMAIN picks
  /\ \A n \in DOMAIN sorted : o[n] \in DOMAIN picks /\ sorted[n] = picks[o[n]]
  /\ \A m, n \in DOMAIN sorted : m # n => o[m] # o[n]
  /\ \A a \in DOMAIN picks : \E n \in DOMAIN sorted : o[n] = a

\* The order of the ticket leaves the picks what they are.
LEMMA TicketOrder ==
  ASSUME NEW g, DOMAIN g \subseteq Nat, NEW picks \in PicksOf(g), TextsDiffer(g, picks)
  PROVE  \E o : Arranges(o, InTicketOrder(picks), picks)
<1> DEFINE E == [i : DOMAIN g, role : PickRoles]
           D == DOMAIN picks
           R == ByPlace(picks)
           c == Cardinality(D)
           Before(m, n) == picks[m].i < picks[n].i
           F(n) == CHOOSE x \in D : Cardinality({y \in D : Before(y, x)}) = n - 1
           o == [n \in 1 .. c |-> F(n)]
           l == Len(picks)
<1>1. l \in Nat /\ D = 1 .. l /\ \A n \in D : picks[n].i \in Nat
  <2>1. picks \in Seq(E)
    BY DEF PicksOf
  <2>2. \A x \in E : x.i \in Nat
    OBVIOUS
  <2> HIDE DEF E
  <2> QED
    BY <2>1, <2>2
<1>2. IsFiniteSet(D) /\ c = l
  <2> HIDE DEF l, D
  <2>1. IsFiniteSet(1 .. l) /\ Cardinality(1 .. l) = l
    BY <1>1, FS_Interval
  <2> QED
    BY <1>1, <2>1
<1>3. \A x, y \in D : <<x, y>> \in R <=> Before(x, y)
  BY DEF ByPlace
<1>4. \A x, y \in D : x # y => picks[x].i # picks[y].i
  BY DEF TextsDiffer, TextAt
<1>5. StrictOrder(R, D)
  <2> DEFINE f == [n \in D |-> picks[n].i]
  <2>1. \A x, y \in D : <<x, y>> \in R <=> f[x] < f[y]
    BY <1>3
  <2>2. \A x, y \in D : f[x] \in Nat /\ (x # y => f[x] # f[y])
    BY <1>1, <1>4
  <2> HIDE DEF R, f, D
  <2> QED
    BY <2>1, <2>2 DEF StrictOrder
<1>6. InTicketOrder(picks) = [n \in 1 .. c |-> picks[o[n]]]
  BY DEF InTicketOrder, Ordered
<1> HIDE DEF R, c, Before
<1>7. \A x \in D : {y \in D : Before(y, x)} = Below(R, D, x)
  BY <1>3 DEF Below
<1> HIDE DEF D
<1>8. ASSUME NEW n \in 1 .. c PROVE o[n] \in D /\ Rank(R, D, o[n]) = n - 1
  <2>1. PICK x \in D : Rank(R, D, x) = n - 1
    BY <1>2, <1>5, RankExists DEF c
  <2>2. Cardinality({y \in D : Before(y, x)}) = n - 1
    BY <1>7, <2>1 DEF Rank
  <2>3. F(n) \in D /\ Cardinality({y \in D : Before(y, F(n))}) = n - 1
    BY <2>2
  <2>4. o[n] = F(n)
    OBVIOUS
  <2> QED
    BY <1>7, <2>3, <2>4 DEF Rank
<1> HIDE DEF F
<1>9. o = [n \in 1 .. c |-> o[n]]
  OBVIOUS
<1> HIDE DEF o
<1>10. RanksIn(o, R, D)
  BY <1>8, <1>9 DEF RanksIn, c
<1>11. /\ o \in Seq(D) /\ DOMAIN o = 1 .. c
       /\ \A m, n \in DOMAIN o : m # n => o[m] # o[n]
       /\ \A x \in D : \E n \in DOMAIN o : o[n] = x
  BY <1>2, <1>5, <1>10, RankedFacts DEF c
<1> DEFINE sorted == InTicketOrder(picks)
<1>13. DOMAIN sorted = 1 .. c /\ D = 1 .. c /\ \A n \in 1 .. c : sorted[n] = picks[o[n]]
  BY <1>1, <1>2, <1>6
<1> HIDE DEF sorted
<1>14. Arranges(o, sorted, picks)
  BY <1>8, <1>11, <1>13 DEF Arranges, D
<1> QED
  BY <1>14 DEF sorted

\* Every pick that is kept has a text of its own, and they come from the picks.
RankedPicks(t) == RankedCut(Deduped(Segments(t), Selected(Segments(t))))

LEMMA RankedOnce ==
  ASSUME NEW t \in Tickets
  PROVE  LET g == Segments(t)
             picks == RankedPicks(t)
             first == Foremost(g)
         IN /\ g \in SegmentsOf
            /\ \A m, n \in DOMAIN picks : TextAt(g, picks[m]) = TextAt(g, picks[n]) => m = n
            /\ \/ \A j \in DOMAIN first :
                    \E n \in DOMAIN picks : TextAt(g, picks[n]) = TextAt(g, first[j])
               \/ \A n \in DOMAIN picks : \E j \in DOMAIN first : picks[n].i = first[j].i
<1> DEFINE g == Segments(t)
           E == [i : DOMAIN g, role : PickRoles]
           first == Foremost(g)
           all == Selected(g)
           kept == Deduped(g, all)
           cut == Upto(MaxRanked, kept)
           picks == InTicketOrder(cut)
           p == Len(first)
           n == Len(all)
<1>1. g \in SegmentsOf
  BY SegmentsTyped
<1>2. RankedPicks(t) = picks
  BY DEF RankedPicks, RankedCut
<1>3. DOMAIN g \subseteq Nat
  <2>1. DOMAIN g = 1 .. Len(g) /\ Len(g) \in Nat
    BY <1>1 DEF SegmentsOf
  <2> QED
    BY <2>1
<1>4. first \in Seq(E) /\ Others(g) \in Seq(E) /\ all = first \o Others(g) /\ all \in Seq(E)
  BY <1>1, SelectedTyped DEF PicksOf
<1>5. PicksOf(g) = Seq(E)
  BY DEF PicksOf
<1> HIDE DEF g, E, first, all
<1>6. /\ p \in 0 .. n /\ n \in Nat /\ DOMAIN first = 1 .. p
      /\ \A j \in 1 .. p : all[j] = first[j]
  <2> DEFINE q == Len(Others(g))
  <2>1. p \in Nat /\ q \in Nat /\ DOMAIN first = 1 .. p
    BY <1>4
  <2>2. n = p + q /\ \A j \in 1 .. p + q : all[j] = IF j <= p THEN first[j]
                                                   ELSE Others(g)[j - p]
    BY <1>4, ConcatProperties
  <2> HIDE DEF p, q, n
  <2>3. p \in 0 .. n /\ n \in Nat /\ \A j \in 1 .. p : j \in 1 .. p + q /\ j <= p
    BY <2>1, <2>2
  <2> QED
    BY <2>1, <2>2, <2>3
<1>7. PICK h : KeptByText(h, g, all)
  BY <1>4, <1>5, KeepCourse
<1> HIDE DEF p, n
<1>8. \A i \in 0 .. n : /\ h[i] \in PicksOf(g) /\ KeptOf(g, all, i, h[i])
                        /\ p <= i => StillKept(h[p], h[i])
  BY <1>4, <1>5, <1>6, <1>7, KeptThroughout DEF n
<1>9. n \in 0 .. n /\ p <= n
  BY <1>6
<1>10. h[n] = kept
  BY <1>7 DEF KeptByText, n
<1> HIDE DEF kept
<1>11. kept \in Seq(E) /\ TextsDiffer(g, kept) /\ StillKept(h[p], kept)
  BY <1>5, <1>8, <1>9, <1>10 DEF KeptOf
<1>12. h[p] \in Seq(E) /\ KeptOf(g, all, p, h[p])
  BY <1>5, <1>6, <1>8
<1>13. MaxRanked \in Nat
  BY BoundsAssumption
<1>14. /\ cut \in Seq(E) /\ DOMAIN cut \subseteq DOMAIN kept
       /\ \A i \in DOMAIN cut : cut[i] = kept[i]
  BY <1>11, <1>13, Shortened
<1>15. TextsDiffer(g, cut)
  BY <1>11, <1>14 DEF TextsDiffer
<1>16. \/ DOMAIN h[p] \subseteq DOMAIN cut
       \/ DOMAIN cut \subseteq DOMAIN h[p]
  <2> DEFINE a == Len(cut)
             b == Len(h[p])
  <2>1. a \in Nat /\ b \in Nat /\ DOMAIN cut = 1 .. a /\ DOMAIN h[p] = 1 .. b
    BY <1>12, <1>14
  <2> HIDE DEF a, b
  <2> QED
    BY <2>1
<1> HIDE DEF cut
<1>21. PICK o : Arranges(o, picks, cut)
  BY <1>3, <1>5, <1>14, <1>15, TicketOrder
<1> HIDE DEF picks
<1>17. /\ DOMAIN picks = DOMAIN cut
       /\ \A i \in DOMAIN picks : o[i] \in DOMAIN cut /\ picks[i] = cut[o[i]]
       /\ \A i, k \in DOMAIN picks : i # k => o[i] # o[k]
       /\ \A a \in DOMAIN cut : \E i \in DOMAIN picks : o[i] = a
  BY <1>21 DEF Arranges
<1>18. \A i, k \in DOMAIN picks : TextAt(g, picks[i]) = TextAt(g, picks[k]) => i = k
  <2> SUFFICES ASSUME NEW i \in DOMAIN picks, NEW k \in DOMAIN picks,
                      TextAt(g, picks[i]) = TextAt(g, picks[k])
               PROVE  i = k
    OBVIOUS
  <2>1. o[i] \in DOMAIN cut /\ o[k] \in DOMAIN cut
        /\ picks[i] = cut[o[i]] /\ picks[k] = cut[o[k]]
    BY <1>17
  <2>2. o[i] = o[k]
    BY <1>15, <2>1 DEF TextsDiffer
  <2> QED
    BY <1>17, <2>2
<1>19. CASE DOMAIN h[p] \subseteq DOMAIN cut
  <2>1. ASSUME NEW j \in DOMAIN first
        PROVE  \E i \in DOMAIN picks : TextAt(g, picks[i]) = TextAt(g, first[j])
    <3>1. PICK a \in DOMAIN h[p] : TextAt(g, h[p][a]) = TextAt(g, all[j])
      BY <1>6, <1>12 DEF KeptOf
    <3>2. PICK i \in DOMAIN picks : o[i] = a
      BY <1>17, <1>19
    <3>3. picks[i] = kept[a] /\ kept[a].i = h[p][a].i
      BY <1>11, <1>14, <1>17, <1>19, <3>2 DEF StillKept
    <3>4. TextAt(g, picks[i]) = TextAt(g, first[j])
      BY <1>6, <3>1, <3>3 DEF TextAt
    <3> QED
      BY <3>4
  <2> QED
    BY <1>1, <1>2, <1>18, <2>1 DEF g, first
<1>20. CASE DOMAIN cut \subseteq DOMAIN h[p]
  <2>1. ASSUME NEW i \in DOMAIN picks
        PROVE  \E j \in DOMAIN first : picks[i].i = first[j].i
    <3> DEFINE a == o[i]
    <3>1. a \in DOMAIN cut /\ a \in DOMAIN h[p] /\ picks[i] = kept[a]
      BY <1>14, <1>17, <1>20
    <3>2. kept[a].i = h[p][a].i
      BY <1>11, <3>1 DEF StillKept
    <3>3. PICK j \in 1 .. p : h[p][a].i = all[j].i
      BY <1>12, <3>1 DEF KeptOf
    <3> QED
      BY <1>6, <3>1, <3>2, <3>3
  <2> QED
    BY <1>1, <1>2, <1>18, <2>1 DEF g, first
<1> QED
  BY <1>16, <1>19, <1>20

\* The sentences of a ticket under a label, and the sentence of an excerpt.
UnderLabel(t, s) ==
  {InheritedRole(t, t[i]) : i \in {j \in DOMAIN t : s \in Range(t[j].says)}} \ {"none"} # {}
AllOf(t) == UNION {Range(t[i].says) : i \in DOMAIN t}

LEMMA SegmentsLabelled ==
  ASSUME NEW t \in Tickets
  PROVE  /\ \A i \in DOMAIN Segments(t) : Segments(t)[i].s \in AllOf(t)
         /\ \A i \in LabelledAt(Segments(t)) : UnderLabel(t, Segments(t)[i].s)
         /\ \A s \in AllOf(t) : UnderLabel(t, s) =>
              \E i \in LabelledAt(Segments(t)) : Segments(t)[i].s = s
<1> DEFINE g == Segments(t)
           Role(k) == InheritedRole(t, t[k])
           Of(x, k) == [s |-> x, role |-> Role(k)]
           R(k) == {Of(x, k) : x \in Range(t[k].says)}
<1>1. Range(g) = UNION {R(k) : k \in DOMAIN t}
  BY SegmentsTyped
<1>2. \A s : UnderLabel(t, s) <=> \E k \in DOMAIN t : s \in Range(t[k].says) /\ Role(k) # "none"
  BY DEF UnderLabel
<1> HIDE DEF g, Role
<1>3. ASSUME NEW i \in DOMAIN g
      PROVE  \E k \in DOMAIN t : g[i].s \in Range(t[k].says) /\ g[i].role = Role(k)
  <2>1. g[i] \in Range(g)
    BY DEF Range
  <2>2. PICK k \in DOMAIN t : g[i] \in R(k)
    BY <1>1, <2>1
  <2>3. PICK x \in Range(t[k].says) : g[i] = [s |-> x, role |-> Role(k)]
    BY <2>2
  <2> QED
    BY <2>3
<1>4. ASSUME NEW k \in DOMAIN t, NEW s \in Range(t[k].says)
      PROVE  \E i \in DOMAIN g : g[i].s = s /\ g[i].role = Role(k)
  <2> HIDE DEF Of
  <2>3. Of(s, k) \in R(k)
    OBVIOUS
  <2>1. Of(s, k) \in Range(g)
    BY <1>1, <2>3
  <2>2. PICK i \in DOMAIN g : g[i] = Of(s, k)
    BY <2>1 DEF Range
  <2> QED
    BY <2>2 DEF Of
<1>5. \A i \in DOMAIN g : g[i].s \in AllOf(t)
  BY <1>3 DEF AllOf
<1>6. \A i \in LabelledAt(g) : UnderLabel(t, g[i].s)
  BY <1>2, <1>3 DEF LabelledAt
<1>7. \A s \in AllOf(t) : UnderLabel(t, s) => \E i \in LabelledAt(g) : g[i].s = s
  BY <1>2, <1>4 DEF LabelledAt
<1> QED
  BY <1>5, <1>6, <1>7 DEF g

LEMMA RankedShown ==
  ASSUME NEW t \in Tickets
  PROVE  LET g == Segments(t)
             picks == RankedPicks(t)
             packed == RankedExcerpts(t)
         IN /\ DOMAIN packed = DOMAIN picks
            /\ \A n \in DOMAIN packed : packed[n].text = TextAt(g, picks[n])
BY DEF RankedExcerpts, RankedPicks, TextAt

LEMMA ForemostOf ==
  ASSUME NEW g \in SegmentsOf
  PROVE  LET first == Foremost(g)
         IN /\ \A j \in DOMAIN first : /\ first[j].i \in DOMAIN g
                                       /\ \/ first[j].i \in LabelledAt(g)
                                          \/ About[g[first[j].i].s].url
            /\ \A i \in LabelledAt(g) : \E j \in DOMAIN first : first[j].i = i
<1> DEFINE E == [i : DOMAIN g, role : PickRoles]
           a == PublicReference(g)
           b == Inherited(g)
           first == a \o b
<1>1. a \in Seq(E) /\ b \in Seq(E)
  BY ReferenceTyped, InheritedTyped DEF PicksOf
<1>2. /\ \A n \in DOMAIN a : About[g[a[n].i].s].url
      /\ \A n \in DOMAIN b : b[n].i \in LabelledAt(g)
      /\ \A i \in LabelledAt(g) : \E n \in DOMAIN b : b[n].i = i
  BY ReferenceTyped, InheritedTyped
<1>3. \A x \in E : x.i \in DOMAIN g
  OBVIOUS
<1> HIDE DEF a, b, E
<1>4. first \in Seq(E) /\ Range(first) = Range(a) \cup Range(b)
  BY <1>1, RangeConcat
<1> HIDE DEF first
<1>5. ASSUME NEW j \in DOMAIN first
      PROVE  /\ first[j].i \in DOMAIN g
             /\ first[j].i \in LabelledAt(g) \/ About[g[first[j].i].s].url
  <2>1. first[j] \in E
    BY <1>4
  <2>2. first[j] \in Range(a) \cup Range(b)
    BY <1>4 DEF Range
  <2>3. \/ \E n \in DOMAIN a : first[j] = a[n]
        \/ \E n \in DOMAIN b : first[j] = b[n]
    BY <2>2 DEF Range
  <2> QED
    BY <1>2, <1>3, <2>1, <2>3
<1>6. ASSUME NEW i \in LabelledAt(g)
      PROVE  \E j \in DOMAIN first : first[j].i = i
  <2>1. PICK n \in DOMAIN b : b[n].i = i
    BY <1>2
  <2>2. b[n] \in Range(first)
    BY <1>4 DEF Range
  <2>3. PICK j \in DOMAIN first : first[j] = b[n]
    BY <2>2 DEF Range
  <2> QED
    BY <2>1, <2>3
<1> QED
  BY <1>5, <1>6 DEF Foremost, first, a, b

\* For any ticket that is no transcript and any number of ranked excerpts: when
\* a sentence under a label is left out, every excerpt is one under a label or
\* names the public article of a resolution (_unlabeled_ranked_excerpts and the
\* cut to twelve).
THEOREM SpecLabelledNotDisplaced == Spec => []LabelledNotDisplaced
<1>1. ReviewInv => LabelledNotDisplaced
  <2> DEFINE Shown(s) == \E n \in DOMAIN packet : packet[n].text = Cleaned(s)
  <2> SUFFICES ASSUME ReviewInv, ~ IsTranscript(ticket), packet # <<>>,
                      NEW left \in AllOf(ticket), ~ Shown(left), UnderLabel(ticket, left),
                      NEW n \in DOMAIN packet
               PROVE  \E s \in AllOf(ticket) :
                        packet[n].text = Cleaned(s) /\ (UnderLabel(ticket, s) \/ About[s].url)
    BY DEF LabelledNotDisplaced, UnderLabel, AllOf
  <2> DEFINE g == Segments(ticket)
             picks == RankedPicks(ticket)
             first == Foremost(g)
  <2>1. ticket \in Tickets /\ packet = RankedExcerpts(ticket)
    BY DEF ReviewInv, SelectedExcerpts
  <2>2. DOMAIN packet = DOMAIN picks /\ \A k \in DOMAIN packet : packet[k].text = TextAt(g, picks[k])
    BY <2>1, RankedShown
  <2>3. /\ g \in SegmentsOf
        /\ \/ \A j \in DOMAIN first :
                \E k \in DOMAIN picks : TextAt(g, picks[k]) = TextAt(g, first[j])
           \/ \A k \in DOMAIN picks : \E j \in DOMAIN first : picks[k].i = first[j].i
    BY <2>1, RankedOnce
  <2>4. /\ \A i \in DOMAIN g : g[i].s \in AllOf(ticket)
        /\ \A i \in LabelledAt(g) : UnderLabel(ticket, g[i].s)
    BY <2>1, SegmentsLabelled
  <2>5. PICK i \in LabelledAt(g) : g[i].s = left
    BY <2>1, SegmentsLabelled
  <2>6. /\ \A j \in DOMAIN first : /\ first[j].i \in DOMAIN g
                                   /\ \/ first[j].i \in LabelledAt(g)
                                      \/ About[g[first[j].i].s].url
        /\ \E j \in DOMAIN first : first[j].i = i
    BY <2>3, ForemostOf
  <2> HIDE DEF g, picks, first
  <2>7. PICK j \in DOMAIN first : picks[n].i = first[j].i
    <3>1. PICK k \in DOMAIN first : first[k].i = i
      BY <2>6
    <3>2. TextAt(g, first[k]) = Cleaned(left)
      BY <2>5, <3>1 DEF TextAt
    <3>3. ~ \E m \in DOMAIN picks : TextAt(g, picks[m]) = TextAt(g, first[k])
      BY <2>2, <3>2
    <3> QED
      BY <2>2, <2>3, <3>3
  <2> DEFINE s == g[first[j].i].s
  <2>8. packet[n].text = Cleaned(s)
    BY <2>2, <2>7 DEF TextAt
  <2>9. s \in AllOf(ticket) /\ (UnderLabel(ticket, s) \/ About[s].url)
    BY <2>4, <2>6
  <2> QED
    BY <2>8, <2>9
<1> QED
  BY <1>1, SpecReviewInv, PTL

-----------------------------------------------------------------------------
(* What is set aside *)

\* Excerpts with the same text have the same role.
OneRole(k) == \A m, n \in DOMAIN k : k[m].text = k[n].text => k[m].role = k[n].role

LEMMA PacketRoles ==
  ASSUME NEW t \in Tickets
  PROVE  OneRole(SelectedExcerpts(t))
<1>1. CASE IsTranscript(t)
  <2> DEFINE k == SelectedExcerpts(t)
             all == SpeakerExcerpts(t)
  <2>1. k = all \/ k = <<>>
    BY <1>1 DEF SelectedExcerpts, CompleteInventory
  <2>2. all \in ExcerptsOf
    BY SpeakersSaid
  <2>3. <<>> \in ExcerptsOf
    BY DEF ExcerptsOf
  <2> HIDE DEF k, all
  <2>4. k \in ExcerptsOf
    BY <2>1, <2>2, <2>3
  <2>5. \A n \in DOMAIN k : k[n].role = "unclassified_evidence"
    <3> DEFINE E == [text : Seq(Words), by : Speakers, role : {"unclassified_evidence"}]
    <3>1. \A e \in E : e.role = "unclassified_evidence"
      OBVIOUS
    <3>2. k \in Seq(E)
      BY <2>4 DEF ExcerptsOf
    <3> HIDE DEF E
    <3>3. \A n \in DOMAIN k : k[n] \in E
      BY <3>2
    <3> QED
      BY <3>1, <3>3
  <2> QED
    BY <2>5 DEF OneRole, k
<1>2. CASE ~ IsTranscript(t)
  <2> DEFINE g == Segments(t)
             picks == RankedPicks(t)
             packed == RankedExcerpts(t)
  <2>1. SelectedExcerpts(t) = packed
    BY <1>2 DEF SelectedExcerpts
  <2>2. \A m, n \in DOMAIN picks : TextAt(g, picks[m]) = TextAt(g, picks[n]) => m = n
    BY RankedOnce
  <2>3. DOMAIN packed = DOMAIN picks /\ \A n \in DOMAIN packed : packed[n].text = TextAt(g, picks[n])
    BY RankedShown
  <2> HIDE DEF g, picks, packed
  <2> QED
    BY <2>1, <2>2, <2>3 DEF OneRole
<1> QED
  BY <1>1, <1>2

\* The places the proposal names are places of the packet.
LEMMA CoverageErrors ==
  ASSUME NEW k, NEW p
  PROVE  /\ (\E i \in DOMAIN p.coverage : p.coverage[i].reason \notin Reasons)
              => SubmissionErrors(k, p)[8][2]
         /\ (\E i \in DOMAIN p.issues : ~ IssueRefs(p.issues[i]) \subseteq AllRefs(k))
              => SubmissionErrors(k, p)[12][2]
         /\ (\E i \in DOMAIN p.coverage :
               ~ p.coverage[i].refs \cup ({p.coverage[i].of} \ {0}) \subseteq AllRefs(k))
              => SubmissionErrors(k, p)[13][2]
BY DEF SubmissionErrors

\* An excerpt set aside that is no note has the text of one that is cited.
Shown(k, cited, setAside) ==
  \A r \in setAside : k[r].role = "unclassified_evidence" =>
    \E q \in cited : k[q].text = k[r].text
Cited(p) == UNION {IssueRefs(p.issues[i]) : i \in DOMAIN p.issues}

LEMMA RecordAdded ==
  ASSUME NEW k, OneRole(k), NEW cited, cited \subseteq DOMAIN k,
         NEW taken, taken \subseteq DOMAIN k, Shown(k, cited, taken),
         NEW record, record.reason \in Reasons, record.refs \subseteq DOMAIN k,
         Accepts(k, record, cited \cup taken)
  PROVE  Shown(k, cited, taken \cup record.refs)
<1> SUFFICES ASSUME NEW r \in record.refs, k[r].role = "unclassified_evidence"
             PROVE  \E q \in cited : k[q].text = k[r].text
  BY DEF Shown
<1>1. "unclassified_evidence" \notin Reasons
  BY DEF Reasons
<1>2. k[r].role \in Roles(k, record.refs)
  BY DEF Roles
<1>3. record.reason = "duplicate_excerpt"
  BY <1>1, <1>2 DEF Accepts
<1>4. record.of \in cited \cup taken /\ k[r].text = k[record.of].text
  BY <1>3 DEF Accepts
<1>5. CASE record.of \in cited
  BY <1>4, <1>5
<1>6. CASE record.of \in taken
  <2>1. k[record.of].role = "unclassified_evidence"
    BY <1>4, <1>6 DEF OneRole
  <2>2. \E q \in cited : k[q].text = k[record.of].text
    BY <1>6, <2>1 DEF Shown
  <2> QED
    BY <1>4, <2>2
<1> QED
  BY <1>4, <1>5, <1>6

LEMMA CoverageShown ==
  ASSUME NEW k, OneRole(k), NEW p, p.coverage \in Seq(Range(p.coverage)),
         Cited(p) \subseteq DOMAIN k,
         \A i \in DOMAIN p.coverage :
           p.coverage[i].reason \in Reasons /\ p.coverage[i].refs \subseteq DOMAIN k
  PROVE  Shown(k, Cited(p), AcceptedCoverage(k, p))
<1> DEFINE records == p.coverage
           cited == Cited(p)
           n == Len(records)
           V == {taken \in SUBSET DOMAIN k : Shown(k, cited, taken)}
           Add(taken, record) == IF Accepts(k, record, cited \cup taken)
                                 THEN taken \cup record.refs ELSE taken
           Op(v, i) == Add(v, records[i])
           g == [q \in (1 .. n) \X V |-> Op(q[2], q[1])]
           F(it) == [t \in SUBSET (1 .. n) |->
                       IF t = {} THEN {} ELSE Op(it[t \ {Max(t)}], Max(t))]
           C == CHOOSE it : it = F(it)
<1>1. n \in Nat /\ DOMAIN records = 1 .. n
  OBVIOUS
<1>2. AcceptedCoverage(k, p) = C[1 .. n]
  BY <1>1 DEF AcceptedCoverage, FoldLeft, MapThenFoldSet, Cited
<1>3. \A i \in 1 .. n, v \in V : Op(v, i) \in V
  <2> SUFFICES ASSUME NEW i \in 1 .. n, NEW v \in V, Accepts(k, records[i], cited \cup v)
               PROVE  v \cup records[i].refs \in V
    OBVIOUS
  <2>1. records[i].reason \in Reasons /\ records[i].refs \subseteq DOMAIN k
    BY <1>1
  <2> HIDE DEF records, cited
  <2>2. Shown(k, cited, v \cup records[i].refs)
    BY <2>1, RecordAdded DEF cited
  <2> QED
    BY <2>1, <2>2
<1>4. {} \in V
  BY DEF Shown
<1> HIDE DEF n, V, Op, Add, cited, records
<1>5. \A i \in 1 .. n, v \in V : g[<<i, v>>] = Op(v, i)
  OBVIOUS
<1>6. g \in Steps(n, V)
  BY <1>3 DEF Steps
<1> HIDE DEF g
<1>7. \A t \in SUBSET (1 .. n) : t # {} => Max(t) \in 1 .. n /\ t \ {Max(t)} \in SUBSET (1 .. n)
  BY <1>1, MaxFacts
<1>8. C = F(C)
  <2>1. PICK it : IsFold(it, {}, n, g, V)
    BY <1>1, <1>4, <1>6, FoldExists
  <2>2. ASSUME NEW t \in SUBSET (1 .. n)
        PROVE  it[t] = IF t = {} THEN {} ELSE Op(it[t \ {Max(t)}], Max(t))
    <3>1. CASE t = {}
      BY <2>1, <3>1 DEF IsFold
    <3>2. CASE t # {}
      BY <2>1, <3>2, <1>5, <1>7 DEF IsFold
    <3> QED
      BY <3>1, <3>2
  <2>3. it = F(it)
    BY <2>1, <2>2 DEF IsFold
  <2> QED
    BY <2>3
<1> HIDE DEF C
<1>9. C[{}] = {}
  BY <1>8
<1>10. \A t \in SUBSET (1 .. n) : t # {} /\ C[t \ {Max(t)}] \in V =>
         C[t] = g[<<Max(t), C[t \ {Max(t)}]>>]
  <2> SUFFICES ASSUME NEW t \in SUBSET (1 .. n), t # {}, C[t \ {Max(t)}] \in V
               PROVE  C[t] = g[<<Max(t), C[t \ {Max(t)}]>>]
    OBVIOUS
  <2>1. Max(t) \in 1 .. n
    BY <1>7
  <2>2. C[t] = Op(C[t \ {Max(t)}], Max(t))
    BY <1>8
  <2> QED
    BY <1>5, <2>1, <2>2
<1> HIDE DEF F
<1> DEFINE h == CourseOf(C, n)
<1>11. FoldOn(C, {}, n, g, V)
  BY <1>9, <1>10 DEF FoldOn
<1>12. Course(h, {}, n, g, V)
  BY <1>1, <1>4, <1>6, <1>11, FoldCourse
<1>13. n \in 0 .. n
  BY <1>1
<1>14. h[n] = AcceptedCoverage(k, p) /\ h[n] \in V
  BY <1>2, <1>12, <1>13 DEF CourseOf, Course
<1> QED
  BY <1>14 DEF V, cited

\* Whatever a model submits, in any number of records: what is set aside as a
\* duplicate has the text of an excerpt an issue uses, so no chain of records
\* sets an excerpt aside that is nowhere else (_accepted_coverage_refs).
THEOREM SpecSetAsideIsDuplicate == Spec => []SetAsideIsDuplicate
<1>1. ReviewInv => SetAsideIsDuplicate
  <2> SUFFICES ASSUME ReviewInv PROVE Shown(packet, Cited(accepted), projected.setAside)
    BY DEF SetAsideIsDuplicate, Shown, Cited
  <2>1. CASE review # "accepted"
    <3>1. projected.setAside = {}
      BY <2>1 DEF ReviewInv, AcceptedInv, NoProjection
    <3> QED
      BY <3>1 DEF Shown
  <2>2. CASE review = "accepted"
    <3>1. /\ SubmissionError(packet, accepted) = "none"
          /\ projected = Projected(packet, accepted)
          /\ packet = SelectedExcerpts(ticket) /\ ticket \in Tickets
      BY <2>2 DEF ReviewInv, AcceptedInv
    <3>2. projected.setAside = AcceptedCoverage(packet, accepted)
      BY <3>1 DEF Projected
    <3>3. /\ \A i \in DOMAIN accepted.issues : IssueRefs(accepted.issues[i]) \subseteq DOMAIN packet
          /\ \A i \in DOMAIN accepted.coverage :
               /\ accepted.coverage[i].reason \in Reasons
               /\ accepted.coverage[i].refs \subseteq DOMAIN packet
      BY <3>1, ValidSubmission, CoverageErrors DEF AllRefs
    <3>4. Cited(accepted) \subseteq DOMAIN packet
      BY <3>3 DEF Cited
    <3>5. accepted.coverage \in Seq(Range(accepted.coverage))
      BY IssuesAccepted DEF AcceptedIssues
    <3>6. OneRole(packet)
      BY <3>1, PacketRoles
    <3> QED
      BY <3>2, <3>3, <3>4, <3>5, <3>6, CoverageShown
  <2> QED
    BY <2>1, <2>2
<1> QED
  BY <1>1, SpecReviewInv, PTL

-----------------------------------------------------------------------------
(* The article that the ticket says helped *)

AnyWord == Words \cup {Ellipsis, Gap} \cup Speakers

ConfirmsOf(s, a) == \E n \in DOMAIN s : Helps(s, n) /\ Names[s[n]] = a

QuotedText(S, s, p) == s \in Seq(S) /\ p \in Seq(S) /\ Quotes(s, p)

\* A quotation confirms no more than the text it is from.
LEMMA QuotedConfirms ==
  ASSUME NEW S, NEW s, NEW p, QuotedText(S, s, p), NEW a, ConfirmsOf(p, a)
  PROVE  ConfirmsOf(s, a)
<1>1. /\ Len(s) \in Nat /\ Len(p) \in Nat
      /\ DOMAIN s = 1 .. Len(s) /\ DOMAIN p = 1 .. Len(p)
  BY DEF QuotedText
<1>2. PICK k \in 0 .. Len(s) - Len(p) : SubSeq(s, k + 1, k + Len(p)) = p
  BY DEF QuotedText, Quotes
<1>3. \A i \in 1 .. Len(p) : k + i \in 1 .. Len(s) /\ p[i] = s[k + i]
  <2> SUFFICES ASSUME NEW i \in 1 .. Len(p) PROVE k + i \in 1 .. Len(s) /\ p[i] = s[k + i]
    OBVIOUS
  <2>1. k + i \in 1 .. Len(s)
    BY <1>1
  <2>2. SubSeq(s, k + 1, k + Len(p))[i] = s[k + i]
    BY <1>1, <2>1 DEF QuotedText
  <2> QED
    BY <1>2, <2>1, <2>2
<1>4. PICK n \in DOMAIN p : Helps(p, n) /\ Names[p[n]] = a
  BY DEF ConfirmsOf
<1>5. PICK m \in DOMAIN p : /\ p[m] \in Confirming
                            /\ m = n + 1 \/ (m = n + 2 /\ p[n + 1] = Gap)
  BY <1>4 DEF Helps
<1>6. p[n] = s[k + n] /\ p[m] = s[k + m] /\ k + n \in DOMAIN s /\ k + m \in DOMAIN s
  BY <1>1, <1>3
<1>7. \/ k + m = (k + n) + 1
      \/ k + m = (k + n) + 2 /\ s[(k + n) + 1] = Gap
  <2>1. CASE m = n + 1
    BY <1>1, <2>1
  <2>2. CASE m = n + 2 /\ p[n + 1] = Gap
    <3>1. n + 1 \in 1 .. Len(p) /\ k + (n + 1) = (k + n) + 1 /\ k + m = (k + n) + 2
      BY <1>1, <2>2
    <3>2. p[n + 1] = s[k + (n + 1)]
      BY <1>3, <3>1
    <3> QED
      BY <2>2, <3>1, <3>2, Zenon
  <2> QED
    BY <1>5, <2>1, <2>2
<1>8. Helps(s, k + n)
  BY <1>4, <1>5, <1>6, <1>7 DEF Helps
<1> QED
  BY <1>4, <1>6, <1>8 DEF ConfirmsOf

\* No address is on one side of the line that opens a turn and its outcome on
\* the other.
LEMMA HeaderApart ==
  ASSUME NEW S, NEW x \in Seq(S), NEW by \in Speakers, NEW z, z \in Seq(S),
         Len(z) = Len(x) + 1, z[1] = by, \A i \in 1 .. Len(x) : z[1 + i] = x[i],
         NEW a, ConfirmsOf(z, a)
  PROVE  ConfirmsOf(x, a)
<1>1. /\ Len(x) \in Nat /\ DOMAIN x = 1 .. Len(x) /\ DOMAIN z = 1 .. Len(x) + 1
  OBVIOUS
<1>2. PICK n \in DOMAIN z : Helps(z, n) /\ Names[z[n]] = a
  BY DEF ConfirmsOf
<1>3. PICK m \in DOMAIN z : /\ z[m] \in Confirming
                            /\ m = n + 1 \/ (m = n + 2 /\ z[n + 1] = Gap)
  BY <1>2 DEF Helps
<1>4. n # 1
  BY <1>2, WordsAssumption DEF Helps
<1>5. PICK i \in 1 .. Len(x) : n = 1 + i
  <2>1. n - 1 \in 1 .. Len(x) /\ n = 1 + (n - 1)
    BY <1>1, <1>4
  <2> QED
    BY <2>1
<1>6. PICK j \in 1 .. Len(x) : m = 1 + j
  <2>1. m - 1 \in 1 .. Len(x) /\ m = 1 + (m - 1)
    BY <1>1, <1>3, <1>5
  <2> QED
    BY <2>1
<1>7. j = i + 1 \/ (j = i + 2 /\ x[i + 1] = Gap)
  <2>1. CASE m = n + 1
    BY <2>1, <1>5, <1>6
  <2>2. CASE m = n + 2 /\ z[n + 1] = Gap
    <3>1. j = i + 2 /\ i + 1 \in 1 .. Len(x) /\ n + 1 = 1 + (i + 1)
      BY <1>1, <2>2, <1>5, <1>6
    <3> QED
      BY <2>2, <3>1
  <2> QED
    BY <1>3, <2>1, <2>2
<1>8. Helps(x, i)
  BY <1>1, <1>2, <1>3, <1>5, <1>6, <1>7 DEF Helps
<1> QED
  BY <1>1, <1>2, <1>5, <1>8 DEF ConfirmsOf

NextTurn(S, z, y, by, x) ==
  /\ y \in Seq(S) /\ x \in Seq(S) /\ z \in Seq(S)
  /\ Len(z) = Len(y) + Len(x) + 2
  /\ \A i \in 1 .. Len(y) : z[i] = y[i]
  /\ z[Len(y) + 1] = Gap /\ z[Len(y) + 2] = by
  /\ \A i \in 1 .. Len(x) : z[Len(y) + 2 + i] = x[i]

LEMMA TurnsApart ==
  ASSUME NEW S, NEW y, NEW x, NEW by \in Speakers, NEW z, NextTurn(S, z, y, by, x),
         NEW a, ConfirmsOf(z, a)
  PROVE  ConfirmsOf(y, a) \/ ConfirmsOf(x, a)
<1> DEFINE L == Len(y)
           K == Len(x)
<1>1. /\ L \in Nat /\ K \in Nat /\ DOMAIN y = 1 .. L /\ DOMAIN x = 1 .. K
      /\ DOMAIN z = 1 .. L + K + 2
  BY DEF NextTurn
<1>2. PICK n \in DOMAIN z : Helps(z, n) /\ Names[z[n]] = a
  BY DEF ConfirmsOf
<1>3. PICK m \in DOMAIN z : /\ z[m] \in Confirming
                            /\ m = n + 1 \/ (m = n + 2 /\ z[n + 1] = Gap)
  BY <1>2 DEF Helps
<1>4. z[n] \in DOMAIN Names
  BY <1>2 DEF Helps
<1>5. /\ z[L + 1] \notin (DOMAIN Names) \cup Confirming
      /\ z[L + 2] \notin (DOMAIN Names) \cup Confirming
  BY WordsAssumption DEF NextTurn
<1>6. /\ \A i \in 1 .. L : z[i] = y[i]
      /\ \A i \in 1 .. K : z[L + 2 + i] = x[i]
  BY DEF NextTurn
<1> HIDE DEF L, K
<1>7. CASE n \in 1 .. L
  <2>1. m \in 1 .. L
    BY <1>1, <1>3, <1>5, <1>7
  <2>2. m = n + 2 => n + 1 \in 1 .. L
    BY <1>1, <1>7, <2>1
  <2>3. Helps(y, n)
    BY <1>1, <1>3, <1>4, <1>6, <1>7, <2>1, <2>2 DEF Helps
  <2> QED
    BY <1>1, <1>2, <1>6, <1>7, <2>3 DEF ConfirmsOf
<1>8. CASE n \notin 1 .. L
  <2>1. PICK i \in 1 .. K : n = L + 2 + i
    <3>1. n # L + 1 /\ n # L + 2
      BY <1>4, <1>5
    <3>2. n \in Int /\ n > L + 2 /\ n <= L + K + 2
      BY <1>1, <1>8, <3>1
    <3>3. n - L - 2 \in 1 .. K /\ n = L + 2 + (n - L - 2)
      <4>1. L \in Nat /\ K \in Nat
        BY <1>1
      <4>2. n - L - 2 \in Int /\ n - L - 2 >= 1 /\ n - L - 2 <= K
        BY <3>2, <4>1
      <4>3. n = L + 2 + (n - L - 2)
        BY <3>2, <4>1
      <4> QED
        BY <4>2, <4>3
    <3> QED
      BY <3>3
  <2>2. PICK j \in 1 .. K : m = L + 2 + j
    <3>1. m \in 1 .. L + K + 2
      BY <1>1, <1>3
    <3>2. L \in Nat /\ K \in Nat
      BY <1>1
    <3>3. m > L + 2
      BY <1>3, <2>1, <3>2
    <3>4. m - L - 2 \in 1 .. K /\ m = L + 2 + (m - L - 2)
      BY <3>1, <3>2, <3>3
    <3> QED
      BY <3>4
  <2>3. j = i + 1 \/ (j = i + 2 /\ x[i + 1] = Gap)
    <3>1. CASE m = n + 1
      BY <1>1, <3>1, <2>1, <2>2
    <3>2. CASE m = n + 2 /\ z[n + 1] = Gap
      <4>1. j = i + 2 /\ i + 1 \in 1 .. K /\ n + 1 = L + 2 + (i + 1)
        BY <1>1, <3>2, <2>1, <2>2
      <4> QED
        BY <1>6, <3>2, <4>1
    <3> QED
      BY <1>3, <3>1, <3>2
  <2>4. z[n] = x[i] /\ z[m] = x[j]
    BY <1>6, <2>1, <2>2
  <2>5. Helps(x, i)
    BY <1>1, <1>3, <1>4, <2>3, <2>4 DEF Helps
  <2> QED
    BY <1>1, <1>2, <2>4, <2>5 DEF ConfirmsOf
<1> QED
  BY <1>7, <1>8

LEMMA TextTyped ==
  ASSUME NEW t \in Tickets, NEW n \in DOMAIN t
  PROVE  Text(t[n].says) \in Seq(AnyWord)
<1> DEFINE says == t[n].says
           parts == [i \in DOMAIN says |-> About[says[i]].words]
<1>1. says \in Seq(Sentences)
  BY TicketsAssumption
<1>2. \A s \in Sentences : About[s].words \in Seq(AnyWord)
  BY AboutAssumption DEF AnyWord
<1>3. parts \in Seq(Seq(AnyWord))
  BY <1>1, <1>2
<1> HIDE DEF parts
<1>4. FlattenSeq(parts) \in Seq(AnyWord)
  BY <1>3, RangeFlatten
<1> QED
  BY <1>4 DEF Text, parts

\* What the approved text of a transcript confirms, one of its turns does.
LEMMA ApprovedTurns ==
  ASSUME NEW t \in Tickets, IsTranscript(t)
  PROVE  /\ Approved(t) \in Seq(AnyWord)
         /\ \A a : ConfirmsOf(Approved(t), a) =>
              \E i \in DOMAIN t : ConfirmsOf(Text(t[i].says), a)
<1> DEFINE S == AnyWord
           Part(i) == (IF i > 1 THEN <<Gap>> ELSE <<>>) \o Header(t, i) \o Text(t[i].says)
           parts == [i \in DOMAIN t |-> Part(i)]
           n == Len(t)
<1>1. /\ n \in Nat /\ DOMAIN t = 1 .. n
      /\ \A i \in 1 .. n : t[i].by \in Speakers
  BY TicketsAssumption
<1>2. Gap \in S /\ Speakers \subseteq S
  BY DEF AnyWord
<1>3. \A i \in 1 .. n : Text(t[i].says) \in Seq(S)
  BY <1>1, TextTyped
<1>4. \A i \in 1 .. n : Header(t, i) = IF t[i].by = "unknown" /\ i = 1 THEN <<>>
                                       ELSE <<t[i].by>>
  BY DEF Header
<1> DEFINE Turned(z, i) ==
             /\ z \in Seq(S) /\ Len(z) = Len(Text(t[i].says)) + 1 /\ z[1] = t[i].by
             /\ \A k \in 1 .. Len(Text(t[i].says)) : z[1 + k] = Text(t[i].says)[k]
           Parted(z, i) ==
             /\ z \in Seq(S) /\ Len(z) = Len(Text(t[i].says)) + 2
             /\ z[1] = Gap /\ z[2] = t[i].by
             /\ \A k \in 1 .. Len(Text(t[i].says)) : z[2 + k] = Text(t[i].says)[k]
<1>5. \A i \in 1 .. n : i = 1 => Part(i) = Text(t[i].says) \/ Turned(Part(i), i)
  <2> SUFFICES ASSUME NEW i \in 1 .. n, i = 1
               PROVE  Part(i) = Text(t[i].says) \/ Turned(Part(i), i)
    OBVIOUS
  <2> DEFINE x == Text(t[i].says)
             by == t[i].by
  <2>1. x \in Seq(S) /\ by \in S
    BY <1>1, <1>2, <1>3
  <2>2. Part(i) = <<>> \o <<>> \o x \/ Part(i) = <<>> \o <<by>> \o x
    <3> DEFINE gap == IF i > 1 THEN <<Gap>> ELSE <<>>
               head == Header(t, i)
    <3>1. Part(i) = gap \o head \o x
      OBVIOUS
    <3>2. gap = <<>> /\ (head = <<>> \/ head = <<by>>)
      BY <1>4
    <3> HIDE DEF gap, head, Part, x, by
    <3> QED
      BY <3>1, <3>2
  <2> HIDE DEF Part, x, by
  <2>3. <<>> \o <<>> \o x = x
    BY <2>1
  <2>4. /\ <<>> \o <<by>> \o x \in Seq(S)
        /\ Len(<<>> \o <<by>> \o x) = Len(x) + 1
        /\ (<<>> \o <<by>> \o x)[1] = by
        /\ \A k \in 1 .. Len(x) : (<<>> \o <<by>> \o x)[1 + k] = x[k]
    BY <2>1
  <2> QED
    BY <2>2, <2>3, <2>4 DEF x, by
<1>6. \A i \in 1 .. n : i # 1 => Parted(Part(i), i)
  <2> SUFFICES ASSUME NEW i \in 1 .. n, i # 1 PROVE Parted(Part(i), i)
    OBVIOUS
  <2> DEFINE x == Text(t[i].says)
             by == t[i].by
  <2>1. x \in Seq(S) /\ by \in S
    BY <1>1, <1>2, <1>3
  <2>2. Part(i) = <<Gap>> \o <<by>> \o x
    <3> DEFINE gap == IF i > 1 THEN <<Gap>> ELSE <<>>
               head == Header(t, i)
    <3>1. Part(i) = gap \o head \o x
      OBVIOUS
    <3>2. i > 1
      BY <1>1
    <3>3. gap = <<Gap>> /\ head = <<by>>
      BY <1>4, <3>2
    <3> HIDE DEF gap, head, Part, x, by
    <3> QED
      BY <3>1, <3>3
  <2> HIDE DEF Part, x, by
  <2>3. /\ <<Gap>> \o <<by>> \o x \in Seq(S)
        /\ Len(<<Gap>> \o <<by>> \o x) = Len(x) + 2
        /\ (<<Gap>> \o <<by>> \o x)[1] = Gap /\ (<<Gap>> \o <<by>> \o x)[2] = by
        /\ \A k \in 1 .. Len(x) : (<<Gap>> \o <<by>> \o x)[2 + k] = x[k]
    BY <1>2, <2>1
  <2> QED
    BY <2>2, <2>3 DEF x, by
<1>7. parts \in Seq(Seq(S)) /\ Len(parts) = n /\ \A i \in 1 .. n : parts[i] = Part(i)
  <2>1. \A i \in 1 .. n : Part(i) \in Seq(S)
    BY <1>3, <1>5, <1>6
  <2> HIDE DEF Part
  <2> QED
    BY <1>1, <2>1
<1>8. Approved(t) = FlattenSeq(parts)
  BY DEF Approved
<1> HIDE DEF parts, Part, n, S
<1>9. PICK h : FlatThrough(h, parts, S)
  BY <1>7, FlatCourse
<1>10. /\ h \in [0 .. n -> Seq(S)] /\ h[0] = <<>> /\ h[n] = FlattenSeq(parts)
       /\ \A i \in 1 .. n : h[i] = h[i - 1] \o Part(i)
  BY <1>7, <1>9 DEF FlatThrough
<1> DEFINE Told(a, i) == \E j \in 1 .. i : ConfirmsOf(Text(t[j].says), a)
           Q(i) == \A a : ConfirmsOf(h[i], a) => Told(a, i)
           T == {i \in Nat : i <= n => Q(i)}
<1>11. 0 \in T
  <2>1. \A a : ~ ConfirmsOf(h[0], a)
    BY <1>10 DEF ConfirmsOf
  <2> QED
    BY <2>1
<1>12. ASSUME NEW k \in Nat, k \in T PROVE k + 1 \in T
  <2> SUFFICES ASSUME k + 1 <= n PROVE Q(k + 1)
    OBVIOUS
  <2>1. PICK i \in 1 .. n : i = k + 1 /\ i - 1 = k
    BY <1>1
  <2> SUFFICES ASSUME NEW a, ConfirmsOf(h[i], a) PROVE Told(a, i)
    BY <2>1
  <2> DEFINE x == Text(t[i].says)
             y == h[k]
             z == h[i]
  <2>2. x \in Seq(S) /\ y \in Seq(S) /\ t[i].by \in Speakers /\ z = y \o Part(i)
    <3>1. k \in 0 .. n
      BY <1>1, <2>1
    <3>2. y \in Seq(S)
      BY <1>10, <3>1
    <3> QED
      BY <1>1, <1>3, <1>10, <2>1, <3>2
  <2>3. ConfirmsOf(y, a) => Told(a, k)
    BY <1>1, <1>12, <2>1
  <2>4. Told(a, k) => Told(a, i)
    BY <2>1
  <2>5. ConfirmsOf(x, a) => Told(a, i)
    BY <2>1
  <2>6. CASE i = 1
    <3>1. y = <<>>
      BY <1>10, <2>1, <2>6
    <3>2. Part(i) \in Seq(S)
      BY <2>2, <2>6, <1>5
    <3>3. z = Part(i)
      <4> HIDE DEF y, z
      <4> QED
        BY <2>2, <3>1, <3>2
    <3>4. CASE Part(i) = x
      BY <2>5, <3>3, <3>4
    <3>5. CASE Turned(Part(i), i)
      <4> HIDE DEF Told
      <4>1. ConfirmsOf(x, a)
        BY <2>2, <3>3, <3>5, HeaderApart
      <4> QED
        BY <2>5, <4>1
    <3> QED
      BY <1>5, <2>6, <3>4, <3>5
  <2>7. CASE i # 1
    <3>1. Parted(Part(i), i)
      BY <1>6, <2>7
    <3> DEFINE p == Part(i)
               by == t[i].by
    <3> HIDE DEF Told, p, y, z, x, by
    <3>2. /\ p \in Seq(S) /\ Len(p) = Len(x) + 2 /\ p[1] = Gap /\ p[2] = by
          /\ \A j \in 1 .. Len(x) : p[2 + j] = x[j]
      BY <3>1 DEF p, x, by
    <3>3. /\ z = y \o p /\ x \in Seq(S) /\ y \in Seq(S) /\ by \in Speakers
          /\ ConfirmsOf(z, a)
      BY <2>2 DEF p, by, z
    <3>4. /\ z \in Seq(S) /\ Len(z) = Len(y) + Len(p)
          /\ \A j \in 1 .. Len(y) : z[j] = y[j]
          /\ \A j \in 1 .. Len(p) : z[Len(y) + j] = p[j]
      <4> HIDE DEF S
      <4>1. y \in Seq(S) /\ p \in Seq(S)
        BY <3>2, <3>3
      <4>2. /\ y \o p \in Seq(S) /\ Len(y \o p) = Len(y) + Len(p)
            /\ \A j \in 1 .. Len(y) : (y \o p)[j] = y[j]
        BY <4>1
      <4>3. \A j \in 1 .. Len(p) : (y \o p)[Len(y) + j] = p[j]
        BY <4>1, ConcatAt
      <4> QED
        BY <3>3, <4>2, <4>3
    <3>5. ConfirmsOf(y, a) \/ ConfirmsOf(x, a)
      <4>1. Len(y) \in Nat /\ Len(x) \in Nat
        BY <3>3
      <4>2. \A j \in 1 .. Len(x) : z[Len(y) + 2 + j] = x[j]
        <5> SUFFICES ASSUME NEW j \in 1 .. Len(x) PROVE z[Len(y) + 2 + j] = x[j]
          OBVIOUS
        <5>1. 2 + j \in 1 .. Len(p) /\ Len(y) + (2 + j) = Len(y) + 2 + j
          BY <3>2, <4>1
        <5> QED
          BY <3>2, <3>4, <5>1
      <4>3. z[Len(y) + 1] = Gap /\ z[Len(y) + 2] = by
        BY <3>2, <3>4, <4>1
      <4>4. Len(z) = Len(y) + Len(x) + 2
        BY <3>2, <3>4, <4>1
      <4>5. NextTurn(S, z, y, by, x)
        BY <3>3, <3>4, <4>2, <4>3, <4>4 DEF NextTurn
      <4> QED
        BY <3>3, <3>4, <4>5, TurnsApart
    <3> QED
      BY <2>3, <2>4, <2>5, <3>5 DEF x, y
  <2> QED
    BY <2>6, <2>7
<1>13. n \in T
  <2> HIDE DEF T
  <2> QED
    BY <1>1, <1>11, <1>12, SetInduction
<1>14. Q(n)
  BY <1>1, <1>13
<1>15. h[n] \in Seq(S)
  <2>1. n \in 0 .. n
    BY <1>1
  <2> QED
    BY <1>10, <2>1
<1> QED
  BY <1>1, <1>8, <1>10, <1>14, <1>15 DEF S

\* The texts of a candidate are texts.
LEMMA UniqueTyped ==
  ASSUME NEW S, NEW O, \A o \in O : o.text \in S, NEW list \in Seq(O)
  PROVE  UniqueTexts(list) \in Seq(S)
<1> DEFINE n == Len(list)
           V == Seq(S)
           Add(texts, o) == IF o.text \in Range(texts) THEN texts ELSE Append(texts, o.text)
           Op(v, i) == Add(v, list[i])
           g == [q \in (1 .. n) \X V |-> Op(q[2], q[1])]
           F(it) == [t \in SUBSET (1 .. n) |->
                       IF t = {} THEN <<>> ELSE Op(it[t \ {Max(t)}], Max(t))]
           C == CHOOSE it : it = F(it)
<1>1. n \in Nat /\ DOMAIN list = 1 .. n
  OBVIOUS
<1>2. UniqueTexts(list) = C[1 .. n]
  BY <1>1 DEF UniqueTexts, FoldLeft, MapThenFoldSet
<1>3. \A i \in 1 .. n, v \in V : Op(v, i) \in V
  <2> SUFFICES ASSUME NEW i \in 1 .. n, NEW v \in V PROVE Op(v, i) \in V
    OBVIOUS
  <2>1. list[i].text \in S
    BY <1>1
  <2> QED
    BY <2>1
<1>4. <<>> \in V
  OBVIOUS
<1> HIDE DEF n, V, Op, Add
<1>5. \A i \in 1 .. n, v \in V : g[<<i, v>>] = Op(v, i)
  OBVIOUS
<1>6. g \in Steps(n, V)
  BY <1>3 DEF Steps
<1> HIDE DEF g
<1>7. \A t \in SUBSET (1 .. n) : t # {} => Max(t) \in 1 .. n /\ t \ {Max(t)} \in SUBSET (1 .. n)
  BY <1>1, MaxFacts
<1>8. C = F(C)
  <2>1. PICK it : IsFold(it, <<>>, n, g, V)
    BY <1>1, <1>4, <1>6, FoldExists
  <2>2. ASSUME NEW t \in SUBSET (1 .. n)
        PROVE  it[t] = IF t = {} THEN <<>> ELSE Op(it[t \ {Max(t)}], Max(t))
    <3>1. CASE t = {}
      BY <2>1, <3>1 DEF IsFold
    <3>2. CASE t # {}
      BY <2>1, <3>2, <1>5, <1>7 DEF IsFold
    <3> QED
      BY <3>1, <3>2
  <2>3. it = F(it)
    BY <2>1, <2>2 DEF IsFold
  <2> QED
    BY <2>3
<1> HIDE DEF C
<1>9. C[{}] = <<>>
  BY <1>8
<1>10. \A t \in SUBSET (1 .. n) : t # {} /\ C[t \ {Max(t)}] \in V =>
         C[t] = g[<<Max(t), C[t \ {Max(t)}]>>]
  <2> SUFFICES ASSUME NEW t \in SUBSET (1 .. n), t # {}, C[t \ {Max(t)}] \in V
               PROVE  C[t] = g[<<Max(t), C[t \ {Max(t)}]>>]
    OBVIOUS
  <2>1. Max(t) \in 1 .. n
    BY <1>7
  <2>2. C[t] = Op(C[t \ {Max(t)}], Max(t))
    BY <1>8
  <2> QED
    BY <1>5, <2>1, <2>2
<1> HIDE DEF F
<1> DEFINE h == CourseOf(C, n)
<1>11. FoldOn(C, <<>>, n, g, V)
  BY <1>9, <1>10 DEF FoldOn
<1>12. Course(h, <<>>, n, g, V)
  BY <1>1, <1>4, <1>6, <1>11, FoldCourse
<1>13. n \in 0 .. n
  BY <1>1
<1>14. h[n] = UniqueTexts(list) /\ h[n] \in V
  BY <1>2, <1>12, <1>13 DEF CourseOf, Course
<1> QED
  BY <1>14 DEF V

LEMMA JoinedTyped ==
  ASSUME NEW S, NEW list \in Seq(Seq(S)), NEW gap \in Seq(S)
  PROVE  Joined(list, gap) \in Seq(S)
<1> DEFINE n == Len(list)
           V == Seq(S)
           Add(all, text) == IF all = <<>> THEN text ELSE all \o gap \o text
           Op(v, i) == Add(v, list[i])
           g == [q \in (1 .. n) \X V |-> Op(q[2], q[1])]
           F(it) == [t \in SUBSET (1 .. n) |->
                       IF t = {} THEN <<>> ELSE Op(it[t \ {Max(t)}], Max(t))]
           C == CHOOSE it : it = F(it)
<1>1. n \in Nat /\ DOMAIN list = 1 .. n
  OBVIOUS
<1>2. Joined(list, gap) = C[1 .. n]
  BY <1>1 DEF Joined, FoldLeft, MapThenFoldSet
<1>3. \A i \in 1 .. n, v \in V : Op(v, i) \in V
  <2> SUFFICES ASSUME NEW i \in 1 .. n, NEW v \in V PROVE Op(v, i) \in V
    OBVIOUS
  <2>1. list[i] \in V
    BY <1>1
  <2> QED
    BY <2>1
<1>4. <<>> \in V
  OBVIOUS
<1> HIDE DEF n, V, Op, Add
<1>5. \A i \in 1 .. n, v \in V : g[<<i, v>>] = Op(v, i)
  OBVIOUS
<1>6. g \in Steps(n, V)
  BY <1>3 DEF Steps
<1> HIDE DEF g
<1>7. \A t \in SUBSET (1 .. n) : t # {} => Max(t) \in 1 .. n /\ t \ {Max(t)} \in SUBSET (1 .. n)
  BY <1>1, MaxFacts
<1>8. C = F(C)
  <2>1. PICK it : IsFold(it, <<>>, n, g, V)
    BY <1>1, <1>4, <1>6, FoldExists
  <2>2. ASSUME NEW t \in SUBSET (1 .. n)
        PROVE  it[t] = IF t = {} THEN <<>> ELSE Op(it[t \ {Max(t)}], Max(t))
    <3>1. CASE t = {}
      BY <2>1, <3>1 DEF IsFold
    <3>2. CASE t # {}
      BY <2>1, <3>2, <1>5, <1>7 DEF IsFold
    <3> QED
      BY <3>1, <3>2
  <2>3. it = F(it)
    BY <2>1, <2>2 DEF IsFold
  <2> QED
    BY <2>3
<1> HIDE DEF C
<1>9. C[{}] = <<>>
  BY <1>8
<1>10. \A t \in SUBSET (1 .. n) : t # {} /\ C[t \ {Max(t)}] \in V =>
         C[t] = g[<<Max(t), C[t \ {Max(t)}]>>]
  <2> SUFFICES ASSUME NEW t \in SUBSET (1 .. n), t # {}, C[t \ {Max(t)}] \in V
               PROVE  C[t] = g[<<Max(t), C[t \ {Max(t)}]>>]
    OBVIOUS
  <2>1. Max(t) \in 1 .. n
    BY <1>7
  <2>2. C[t] = Op(C[t \ {Max(t)}], Max(t))
    BY <1>8
  <2> QED
    BY <1>5, <2>1, <2>2
<1> HIDE DEF F
<1> DEFINE h == CourseOf(C, n)
<1>11. FoldOn(C, <<>>, n, g, V)
  BY <1>9, <1>10 DEF FoldOn
<1>12. Course(h, <<>>, n, g, V)
  BY <1>1, <1>4, <1>6, <1>11, FoldCourse
<1>13. n \in 0 .. n
  BY <1>1
<1>14. h[n] = Joined(list, gap) /\ h[n] \in V
  BY <1>2, <1>12, <1>13 DEF CourseOf, Course
<1> QED
  BY <1>14 DEF V

LEMMA TextsTyped ==
  ASSUME NEW S, NEW O, \A o \in O : o.text \in S, NEW list \in Seq(O)
  PROVE  TextsOf(list) \in Seq(S)
BY DEF TextsOf

LEMMA StepsTyped ==
  ASSUME NEW S, NEW list \in Seq(S)
  PROVE  ResolutionSteps(list) \in Seq(S)
<1> DEFINE at == {i \in DOMAIN list : HasCommand(list[i])}
<1>1. ResolutionSteps(list) \in {list, KeptAt(list, at)}
  BY DEF ResolutionSteps, Matching
<1> HIDE DEF at
<1>2. KeptAt(list, at) \in Seq(S)
  BY KeptElements DEF at
<1> QED
  BY <1>1, <1>2

\* The lists of observations of an issue, of the set O, and its summary.
ListsOf(issue, O) ==
  /\ \A field \in ListFields \cup {"question"} : issue[field] \in Seq(O)
  /\ issue.summary \in Seq(AnyWord)

LEMMA CandidateTyped ==
  ASSUME NEW O, \A o \in O : o.text \in Seq(AnyWord), NEW issue, ListsOf(issue, O)
  PROVE  CandidateTexts(Candidate(issue)) \in Seq(Seq(AnyWord))
<1> DEFINE S == Seq(AnyWord)
           observed == UniqueTexts(issue.resolution \o issue.verification)
           symptoms == UniqueTexts(issue.symptoms \o issue.errors)
           facts == UniqueTexts(issue.context \o issue.cause \o issue.answer)
           answer == IF issue.answer # <<>> THEN TextsOf(issue.answer)
                     ELSE IF ArticleType(issue) = "howto_qa" THEN observed ELSE <<>>
           summary == issue.summary
           question == TextsOf(issue.question)
           cause == Joined(TextsOf(issue.cause), <<>>)
           resolution == Joined(observed, <<Gap>>)
           told == Joined(answer, <<>>)
           chosen == IF facts # <<>> THEN facts
                     ELSE IF symptoms # <<>> THEN symptoms ELSE question
           steps == IF observed # <<>> THEN ResolutionSteps(observed) ELSE answer
<1>1. /\ issue.resolution \in Seq(O) /\ issue.verification \in Seq(O)
      /\ issue.symptoms \in Seq(O) /\ issue.errors \in Seq(O) /\ issue.context \in Seq(O)
      /\ issue.cause \in Seq(O) /\ issue.answer \in Seq(O) /\ issue.question \in Seq(O)
  BY DEF ListsOf, ListFields
<1>2. /\ issue.resolution \o issue.verification \in Seq(O)
      /\ issue.symptoms \o issue.errors \in Seq(O)
      /\ issue.context \o issue.cause \o issue.answer \in Seq(O)
  BY <1>1
<1>3. <<>> \in S /\ <<Gap>> \in S
  BY DEF AnyWord
<1>14. summary \in S
  BY DEF ListsOf
<1> HIDE DEF S, summary
<1>4. \A o \in O : o.text \in S
  BY DEF S
<1>5. observed \in Seq(S) /\ symptoms \in Seq(S) /\ facts \in Seq(S)
  BY <1>2, <1>4, UniqueTyped
<1>6. /\ TextsOf(issue.answer) \in Seq(S) /\ question \in Seq(S)
      /\ TextsOf(issue.cause) \in Seq(S)
  BY <1>1, <1>4, TextsTyped
<1> HIDE DEF observed, symptoms, facts, question
<1>7. answer \in Seq(S)
  BY <1>5, <1>6
<1>8. chosen \in Seq(S)
  BY <1>5, <1>6
<1> HIDE DEF answer
<1>9. steps \in Seq(S)
  BY <1>5, <1>7, StepsTyped
<1>10. cause \in S /\ resolution \in S /\ told \in S
  BY <1>3, <1>5, <1>6, <1>7, JoinedTyped DEF S
<1> HIDE DEF cause, resolution, told, chosen, steps
<1>11. CandidateTexts(Candidate(issue)) =
         <<summary>> \o question \o symptoms \o chosen \o <<cause, resolution, told>> \o steps
  BY DEF summary, CandidateTexts, Candidate, observed, symptoms, facts, answer, question, cause,
         resolution, told, chosen, steps
<1>12. <<cause, resolution, told>> \in Seq(S)
  BY <1>10
<1>13. <<summary>> \o question \o symptoms \o chosen \o <<cause, resolution, told>> \o steps
         \in Seq(S)
  <2> DEFINE three == <<cause, resolution, told>>
  <2> HIDE DEF three
  <2>1. <<summary>> \o question \o symptoms \in Seq(S)
    <3>1. <<summary>> \in Seq(S)
      BY <1>14
    <3>2. <<summary>> \o question \in Seq(S)
      BY <1>6, <3>1, ConcatFacts
    <3> QED
      BY <1>5, <3>2, ConcatFacts
  <2>2. <<summary>> \o question \o symptoms \o chosen \in Seq(S)
    BY <2>1, <1>8, ConcatFacts
  <2>3. three \in Seq(S)
    BY <1>12 DEF three
  <2>4. <<summary>> \o question \o symptoms \o chosen \o three \in Seq(S)
    BY <2>2, <2>3, ConcatFacts
  <2> QED
    BY <2>4, <1>9, ConcatFacts DEF three
<1> QED
  BY <1>11, <1>13 DEF S

-----------------------------------------------------------------------------
(* The article of a comparison *)

LEMMA ConfirmedFrom ==
  ASSUME NEW S, NEW text \in Seq(S)
  PROVE  /\ Confirmed(text) \in Seq(Reusable)
         /\ \A a \in Range(Confirmed(text)) : ConfirmsOf(text, a)
<1> DEFINE A == {Names[w] : w \in DOMAIN Names} \cup {NoArticle}
           marks == [n \in DOMAIN text |-> IF Helps(text, n) THEN Names[text[n]] ELSE NoArticle]
           at == {n \in DOMAIN marks : marks[n] \in Reusable}
           k == KeptAt(marks, at)
<1>1. Confirmed(text) \in {<<>>, k}
  BY DEF Confirmed, Matching
<1>2. marks \in Seq(A) /\ DOMAIN marks = DOMAIN text
  <2>1. \A n \in DOMAIN text : Helps(text, n) => Names[text[n]] \in A
    BY DEF Helps
  <2>2. \A n \in DOMAIN text : marks[n] \in A
    BY <2>1
  <2>3. Len(text) \in Nat /\ DOMAIN text = 1 .. Len(text)
    OBVIOUS
  <2> HIDE DEF A
  <2> QED
    BY <2>2, <2>3
<1>3. \A n \in at : marks[n] \in Reusable /\ ConfirmsOf(text, marks[n])
  BY NoArticleAssumption DEF ConfirmsOf
<1> HIDE DEF marks, at, A
<1>4. at \subseteq DOMAIN marks
  BY DEF at
<1>5. k \in Seq(A) /\ \A j \in DOMAIN k : \E n \in at : k[j] = marks[n]
  BY <1>2, <1>4, KeptElements
<1> HIDE DEF k
<1>6. \A j \in DOMAIN k : k[j] \in Reusable /\ ConfirmsOf(text, k[j])
  BY <1>3, <1>5
<1>7. k \in Seq(Reusable)
  BY <1>5, <1>6
<1>8. \A a \in Range(k) : ConfirmsOf(text, a)
  BY <1>6 DEF Range
<1>9. <<>> \in Seq(Reusable) /\ Range(<<>>) = {}
  BY DEF Range
<1> QED
  BY <1>1, <1>7, <1>8, <1>9

LEMMA FirstConfirmedFrom ==
  ASSUME NEW S, NEW texts \in Seq(Seq(S)), FirstConfirmed(texts) # NoArticle
  PROVE  \E n \in DOMAIN texts : ConfirmsOf(texts[n], FirstConfirmed(texts))
<1> DEFINE parts == [n \in DOMAIN texts |-> Confirmed(texts[n])]
           found == FlattenSeq(parts)
           a == FirstConfirmed(texts)
<1>1. Len(texts) \in Nat /\ DOMAIN texts = 1 .. Len(texts)
      /\ \A n \in DOMAIN texts : texts[n] \in Seq(S)
  OBVIOUS
<1>2. parts \in Seq(Seq(Reusable)) /\ DOMAIN parts = DOMAIN texts
  <2>1. \A n \in DOMAIN texts : Confirmed(texts[n]) \in Seq(Reusable)
    BY <1>1, ConfirmedFrom
  <2> QED
    BY <1>1, <2>1
<1>3. \A n \in DOMAIN texts : parts[n] = Confirmed(texts[n])
  OBVIOUS
<1>4. a = IF found = <<>> THEN NoArticle ELSE Head(found)
  BY DEF FirstConfirmed
<1> HIDE DEF parts
<1>5. found \in Seq(Reusable) /\ Range(found) = UNION {Range(parts[n]) : n \in DOMAIN parts}
  BY <1>2, RangeFlatten
<1> HIDE DEF found, a
<1>6. found # <<>> /\ a = Head(found)
  BY <1>4 DEF a
<1>7. a \in Range(found)
  <2>1. 1 \in DOMAIN found /\ Head(found) = found[1]
    BY <1>5, <1>6
  <2> QED
    BY <1>6, <2>1 DEF Range
<1>8. PICK n \in DOMAIN texts : a \in Range(Confirmed(texts[n]))
  BY <1>2, <1>3, <1>5, <1>7
<1>9. ConfirmsOf(texts[n], a)
  BY <1>1, <1>8, ConfirmedFrom
<1> QED
  BY <1>9 DEF a

LEMMA ConfirmedOnTicket ==
  ASSUME NEW t \in Tickets, IsTranscript(t), NEW c,
         CandidateTexts(c) \in Seq(Seq(AnyWord)),
         ConfirmedArticle(c, Approved(t)) # NoArticle
  PROVE  \E i \in DOMAIN t : ConfirmsOf(Text(t[i].says), ConfirmedArticle(c, Approved(t)))
<1> DEFINE approved == Approved(t)
           all == CandidateTexts(c)
           at == {n \in DOMAIN all : Quotes(approved, all[n])}
           quoted == KeptAt(all, at)
           a == ConfirmedArticle(c, Approved(t))
<1>1. a = FirstConfirmed(quoted)
  BY DEF ConfirmedArticle, Matching
<1>2. \A n \in at : n \in DOMAIN all /\ Quotes(approved, all[n])
  OBVIOUS
<1> HIDE DEF all, at
<1>3. all \in Seq(Seq(AnyWord)) /\ at \subseteq DOMAIN all
  BY DEF all, at
<1>4. quoted \in Seq(Seq(AnyWord)) /\ \A j \in DOMAIN quoted : \E n \in at : quoted[j] = all[n]
  BY <1>3, KeptElements
<1> HIDE DEF quoted
<1>5. FirstConfirmed(quoted) # NoArticle
  BY <1>1
<1>6. PICK j \in DOMAIN quoted : ConfirmsOf(quoted[j], FirstConfirmed(quoted))
  BY <1>4, <1>5, FirstConfirmedFrom
<1>7. PICK n \in at : quoted[j] = all[n]
  BY <1>4
<1>8. ConfirmsOf(all[n], a) /\ Quotes(approved, all[n]) /\ all[n] \in Seq(AnyWord)
  BY <1>1, <1>2, <1>3, <1>6, <1>7
<1>9. approved \in Seq(AnyWord)
  BY ApprovedTurns
<1> HIDE DEF a, approved
<1>10. ConfirmsOf(approved, a)
  BY <1>8, <1>9, QuotedConfirms DEF QuotedText
<1> QED
  BY <1>10, ApprovedTurns DEF a, approved

\* The issues that were accepted hold lists of observations.
LEMMA AcceptedLists ==
  ASSUME NEW t \in Tickets, NEW q \in Proposals(SelectedExcerpts(t)),
         NEW i \in DOMAIN NormalizedProposal(q).issues
  PROVE  LET issue == NormalizedProposal(q).issues[i]
         IN \E O : ListsOf(issue, O) /\ \A o \in O : o.text \in Seq(AnyWord)
<1> DEFINE issues == q.issues
           made == [j \in DOMAIN issues |-> Normalized(issues[j])]
           old == issues[i]
           issue == NormalizedProposal(q).issues[i]
           Fields == ListFields \cup {"question"}
           O == UNION {Range(old[field]) : field \in Fields}
<1>1. DOMAIN q = {"form", "case", "refs", "issues", "coverage"}
  BY ProposalsAssumption
<1>2. NormalizedProposal(q) = [q EXCEPT !.issues = made]
  BY DEF NormalizedProposal
<1>3. NormalizedProposal(q).issues = made
  <2> HIDE DEF made
  <2> QED
    BY <1>1, <1>2
<1>4. i \in DOMAIN issues /\ issue = Normalized(old)
  BY <1>3
<1>5. /\ Fields \cup {"summary"} \subseteq DOMAIN old
      /\ old.summary \in Seq(Words \cup {Ellipsis})
      /\ \A field \in Fields :
           /\ old[field] \in Seq(Range(old[field]))
           /\ \A o \in Range(old[field]) : o.text \in Seq(Words \cup {Ellipsis})
  BY <1>4, ProposalsAssumption
<1>6. "cites" \notin Fields \cup {"summary"}
  BY DEF ListFields
<1> HIDE DEF old, issue, Fields
<1>7. \A field \in Fields : issue[field] = old[field]
  BY <1>4, <1>5, <1>6 DEF Normalized
<1>8. \A field \in Fields : issue[field] \in Seq(O)
  <2> SUFFICES ASSUME NEW field \in Fields PROVE issue[field] \in Seq(O)
    OBVIOUS
  <2>1. Range(old[field]) \subseteq O
    OBVIOUS
  <2> HIDE DEF O
  <2>2. old[field] \in Seq(Range(old[field]))
    BY <1>5
  <2>3. old[field] \in Seq(O)
    BY <2>1, <2>2
  <2> QED
    BY <1>7, <2>3
<1>9. \A o \in O : o.text \in Seq(AnyWord)
  <2>1. \A o \in O : o.text \in Seq(Words \cup {Ellipsis})
    BY <1>5
  <2> QED
    BY <2>1 DEF AnyWord
<1> HIDE DEF O
<1>10. issue.summary \in Seq(AnyWord)
  <2>1. issue.summary = old.summary
    BY <1>4, <1>5, <1>6 DEF Normalized
  <2> QED
    BY <1>5, <2>1 DEF AnyWord
<1>11. ListsOf(issue, O)
  BY <1>8, <1>10 DEF ListsOf, Fields
<1> QED
  BY <1>9, <1>11 DEF issue

\* Whatever a model submits and the service answers: the article asked for
\* first is one that a turn of the ticket names and says at once that it
\* helped; no joining of texts from several turns makes one
\* (confirmed_helpful_public_article).
THEOREM SpecNamedIsOnTicket == Spec => []NamedIsOnTicket
<1>1. ReviewInv => NamedIsOnTicket
  <2> SUFFICES ASSUME ReviewInv, evidence.named # NoArticle, IsTranscript(ticket)
               PROVE  \E i \in DOMAIN ticket : ConfirmsOf(Text(ticket[i].says), evidence.named)
    BY DEF NamedIsOnTicket, ConfirmsOf
  <2>1. evidence # NoEvidence
    BY DEF NoEvidence, Failure
  <2> DEFINE issue == projected.issues[compared]
             c == Candidate(issue)
  <2>2. /\ review = "accepted" /\ compared \in DOMAIN projected.issues
        /\ evidence.named = ConfirmedArticle(c, Approved(ticket))
    BY <2>1 DEF ReviewInv, ComparedInv
  <2>3. PICK j \in DOMAIN accepted.issues : issue = accepted.issues[j]
    BY <2>2, IssuesAccepted DEF AcceptedIssues
  <2>4. /\ ticket \in Tickets
        /\ \E q \in Proposals(SelectedExcerpts(ticket)) : accepted = NormalizedProposal(q)
    BY <2>2 DEF ReviewInv, AcceptedInv
  <2> HIDE DEF issue
  <2>5. \E O : ListsOf(issue, O) /\ \A o \in O : o.text \in Seq(AnyWord)
    BY <2>3, <2>4, AcceptedLists
  <2>6. CandidateTexts(c) \in Seq(Seq(AnyWord))
    BY <2>5, CandidateTyped
  <2> HIDE DEF c
  <2> QED
    BY <2>2, <2>4, <2>6, ConfirmedOnTicket
<1> QED
  BY <1>1, SpecReviewInv, PTL
=============================================================================
