------------------------ MODULE KcsAuthoring_proofs ------------------------
(***************************************************************************)
(* Proofs about the runs of KcsAuthoring, for any inputs and any answers   *)
(* of a model. Traced says of every packet what it was computed from, so   *)
(* what is left to prove is about the functions that compute it: two of    *)
(* them agree, a walk over a list finds or keeps what it should. IInv adds *)
(* what the input goes on to be.                                           *)
(***************************************************************************)
EXTENDS KcsAuthoring, SequenceFacts

-----------------------------------------------------------------------------
(* Tables of errors and of blockers *)

LEMMA RaisedNone ==
  ASSUME NEW table, Raised(table) = {}
  PROVE  \A row \in table : ~ row[2]
BY DEF Raised

LEMMA NoneRaised ==
  ASSUME NEW a, NEW b, NEW c, NEW d, NEW w, NEW x, NEW y, NEW z, ~ w, ~ x, ~ y, ~ z
  PROVE  /\ Raised({<<a, w>>}) = {}
         /\ Raised({<<a, w>>, <<b, x>>}) = {}
         /\ Raised({<<a, w>>, <<b, x>>, <<c, y>>, <<d, z>>}) = {}
BY DEF Raised

LEMMA NoFirstError ==
  ASSUME NEW rows, FirstError(rows) = <<>>
  PROVE  \A i \in DOMAIN rows : ~ rows[i][2]
BY DEF FirstError, FirstWhere

LEMMA EvidenceUnblocked ==
  ASSUME NEW e, EvidenceBlockers(e) = {}
  PROVE  SafetyBlockers(e) = {} /\ ~ e.questions /\ e.cands # <<>> /\ ~ (Len(e.cands) > 1)
<1> DEFINE table == {<<"unsafe_input", SafetyBlockers(e) # {}>>,
          <<"missing_source_ref", e.refs = {}>>,
          <<"missing_symptoms", ~ e.symptoms>>,
          <<"missing_confirmed_facts", ~ e.facts>>,
          <<"missing_supported_resolution", e.solution = NoText>>,
          <<"open_questions_present", e.questions>>}
<1>1. Raised(table) = {} /\ IssueCandidateBlockers(e.cands) = {}
  BY DEF EvidenceBlockers
<1> HIDE DEF table
<1>2. \A row \in table : ~ row[2]
  BY <1>1, RaisedNone
<1> USE DEF table
<1>3. SafetyBlockers(e) = {} /\ ~ e.questions
  BY <1>2
<1>4. e.cands # <<>> /\ ~ (Len(e.cands) > 1)
  BY <1>1 DEF IssueCandidateBlockers
<1> QED
  BY <1>3, <1>4

LEMMA SearchUnblocked ==
  ASSUME NEW reuse_,
         Raised({<<"possible_duplicate_not_checked", ~ reuse_.searched>>})
           \cup SafeReuseBlockers(reuse_.blockers) = {}
  PROVE  reuse_.searched /\ reuse_.blockers = {}
<1>1. ~ ~ reuse_.searched
  <2> DEFINE table == {<<"possible_duplicate_not_checked", ~ reuse_.searched>>}
  <2>1. \A row \in table : ~ row[2]
    BY RaisedNone
  <2> QED
    BY <2>1
<1>2. (reuse_.blockers \ {NotACode}) = {} /\ NotACode \notin reuse_.blockers
  <2> DEFINE table == {<<"unsafe_reuse_search_blocker", NotACode \in reuse_.blockers>>}
  <2>1. Raised(table) = {} /\ reuse_.blockers \ {NotACode} = {}
    BY DEF SafeReuseBlockers
  <2>2. \A row \in table : ~ row[2]
    BY <2>1, RaisedNone
  <2> QED
    BY <2>1, <2>2
<1> QED
  BY <1>1, <1>2

-----------------------------------------------------------------------------
(* What a decision looks like *)

LEMMA NoArticleReason ==
  ASSUME NEW c, NoArticleBlocker(c) # <<>>
  PROVE  NoArticleBlocker(c)[1] \in NoArticleCodes
<1> DEFINE Holds(reason) ==
             /\ reason \in c.marks
             /\ reason = "no_customer_reported_issue" => "support_discovered" \notin c.marks
           at == {i \in DOMAIN NoArticleReasons : Holds(NoArticleReasons[i])}
<1>1. NoArticleBlocker(c) = IF at = {} THEN <<>> ELSE <<NoArticleReasons[Min(at)]>>
  BY DEF NoArticleBlocker, FirstWhere
<1>2. DOMAIN NoArticleReasons = 1 .. 7
  BY DEF NoArticleReasons
<1>3. at \subseteq DOMAIN NoArticleReasons /\ at \subseteq Nat
  BY <1>2
<1> HIDE DEF at
<1>4. Min(at) \in at
  BY <1>1, <1>3, MinFacts
<1> QED
  BY <1>1, <1>3, <1>4 DEF NoArticleCodes

LEMMA PacketFields ==
  ASSUME NEW e, NEW c, NEW action, NEW type, NEW blockers, NEW match
  PROVE  LET d == Packet(e, c, action, type, blockers, match)
         IN /\ d.action = action /\ d.type = type /\ d.blockers = blockers
            /\ d.match = match /\ d.items = <<>>
            /\ d.cand = CandidateId(e, c, e.case)
            /\ d.status = IF action \in {"blocked", "split_required"} THEN action
                          ELSE "decision_ready"
BY DEF Packet

\* A decision on evidence that is ready: excluded, or made of a match, or new.
ReadyShape(d, e, c, matches) ==
  LET type == ArticleType(e, c)
      match == SelectMatch(e, c, type, matches)
  IN \/ /\ d.action = "no_article" /\ d.status = "decision_ready"
        /\ d.blockers \subseteq NoArticleCodes /\ d.match = <<>> /\ d.items = <<>>
     \/ /\ d.action = "blocked" /\ d.status = "blocked" /\ d.match = <<>> /\ d.items = <<>>
     \/ /\ Excluded(e, c, type) = <<>> /\ NoArticleBlocker(c) = <<>>
        /\ d.status = "decision_ready" /\ d.blockers = {} /\ d.items = <<>>
        /\ d.type = type /\ d.match = match
        /\ d.action = IF match # <<>> THEN ActionForMatch(match[1]) ELSE "create_candidate"

LEMMA ReadyDecisions ==
  ASSUME NEW e, NEW c, NEW matches
  PROVE  ReadyShape(DecisionForReadyEvidence(e, c, matches), e, c, matches)
<1> DEFINE type == ArticleType(e, c)
           match == SelectMatch(e, c, type, matches)
           d == DecisionForReadyEvidence(e, c, matches)
<1> HIDE DEF type, match
<1>1. d = IF Excluded(e, c, type) # <<>> THEN Excluded(e, c, type)[1]
          ELSE IF match # <<>> THEN Packet(e, c, ActionForMatch(match[1]), type, {}, match)
          ELSE Packet(e, c, "create_candidate", type, {}, <<>>)
  BY DEF DecisionForReadyEvidence, type, match
<1> HIDE DEF d
<1>2. \/ /\ d.action = "no_article" /\ d.status = "decision_ready"
         /\ d.blockers \subseteq NoArticleCodes /\ d.match = <<>> /\ d.items = <<>>
      \/ /\ d.action = "blocked" /\ d.status = "blocked" /\ d.match = <<>> /\ d.items = <<>>
      \/ /\ Excluded(e, c, type) = <<>> /\ NoArticleBlocker(c) = <<>>
         /\ d.status = "decision_ready" /\ d.blockers = {} /\ d.items = <<>>
         /\ d.type = type /\ d.match = match
         /\ d.action = IF match # <<>> THEN ActionForMatch(match[1]) ELSE "create_candidate"
  <2>1. CASE NoArticleBlocker(c) # <<>>
    <3>1. d = Packet(e, c, "no_article", type, {NoArticleBlocker(c)[1]}, <<>>)
      BY <2>1, <1>1 DEF Excluded
    <3> QED
      BY <3>1, <2>1, PacketFields, NoArticleReason
  <2>2. CASE NoArticleBlocker(c) = <<>> /\ InternalOnly(e, c)
    <3>1. d = Packet(e, c, "blocked", type, {"internal_only_solution"}, <<>>)
      BY <2>2, <1>1 DEF Excluded, Blocked
    <3> QED
      BY <3>1, PacketFields
  <2>3. CASE NoArticleBlocker(c) = <<>> /\ ~ InternalOnly(e, c)
    <3>1. Excluded(e, c, type) = <<>>
      BY <2>3 DEF Excluded
    <3>2. CASE match # <<>>
      <4>1. d = Packet(e, c, ActionForMatch(match[1]), type, {}, match)
        BY <3>1, <3>2, <1>1
      <4>2. ActionForMatch(match[1]) \notin {"blocked", "split_required"}
        BY DEF ActionForMatch
      <4> QED
        BY <4>1, <4>2, <3>1, <3>2, <2>3, PacketFields
    <3>3. CASE match = <<>>
      <4>1. d = Packet(e, c, "create_candidate", type, {}, <<>>)
        BY <3>1, <3>3, <1>1
      <4> QED
        BY <4>1, <3>1, <3>3, <2>3, PacketFields
    <3> QED
      BY <3>2, <3>3
  <2> QED
    BY <2>1, <2>2, <2>3
<1> QED
  BY <1>2 DEF ReadyShape, type, match, d

\* A decision on any evidence and search.
DecidedShape(d, e, search) ==
  \/ d.action = "split_required" /\ d.match = <<>>
  \/ d.action = "blocked" /\ d.match = <<>> /\ d.items = <<>>
  \/ /\ EvidenceBlockers(e) = {} /\ search.searched /\ search.blockers = {}
     /\ ReadyShape(d, e, e.cands[1], MatchesForCandidate(search.matches, e.cands[1]))

LEMMA Decisions ==
  ASSUME NEW e, NEW search
  PROVE  DecidedShape(DecideKcsAction(e, search), e, search)
<1> DEFINE blockers == EvidenceBlockers(e)
           c == IF e.cands = <<>> THEN NoCandidate ELSE e.cands[1]
           codes == SafeReuseBlockers(search.blockers)
           unchecked == Raised({<<"possible_duplicate_not_checked", ~ search.searched>>})
           splitting == "unsafe_input" \notin blockers /\ blockers \cap SplitBlockers # {}
           d == DecideKcsAction(e, search)
<1> HIDE DEF blockers, c, codes, unchecked, splitting
<1>1. d = IF splitting /\ Len(e.cands) > 1 THEN SplitRequiredPacket(e, search, blockers)
          ELSE IF splitting THEN Packet(e, c, "split_required", "none", blockers, <<>>)
          ELSE IF blockers \cup unchecked \cup codes # {}
          THEN Blocked(e, c, "none", IF blockers # {} THEN blockers ELSE unchecked \cup codes)
          ELSE DecisionForReadyEvidence(e, c, MatchesForCandidate(search.matches, c))
  BY DEF DecideKcsAction, blockers, c, codes, unchecked, splitting
<1> HIDE DEF d
<1>2. CASE splitting /\ Len(e.cands) > 1
  <2>1. d.action = "split_required" /\ d.match = <<>>
    BY <1>1, <1>2 DEF SplitRequiredPacket, Packet
  <2> QED
    BY <2>1 DEF DecidedShape, d
<1>3. CASE splitting /\ ~ (Len(e.cands) > 1)
  <2>1. d = Packet(e, c, "split_required", "none", blockers, <<>>)
    BY <1>1, <1>3
  <2>2. d.action = "split_required" /\ d.match = <<>>
    BY <2>1, PacketFields
  <2> QED
    BY <2>2 DEF DecidedShape, d
<1>4. CASE ~ splitting /\ blockers \cup unchecked \cup codes # {}
  <2>1. \E why : d = Packet(e, c, "blocked", "none", why, <<>>)
    BY <1>1, <1>4 DEF Blocked
  <2>2. d.action = "blocked" /\ d.match = <<>> /\ d.items = <<>>
    BY <2>1, PacketFields
  <2> QED
    BY <2>2 DEF DecidedShape, d
<1>5. CASE ~ splitting /\ blockers \cup unchecked \cup codes = {}
  <2>1. blockers = {} /\ unchecked \cup codes = {}
    BY <1>5
  <2>2. EvidenceBlockers(e) = {} /\ search.searched /\ search.blockers = {}
    BY <2>1, SearchUnblocked DEF blockers, unchecked, codes
  <2>3. c = e.cands[1]
    BY <2>2, EvidenceUnblocked DEF c
  <2>4. d = DecisionForReadyEvidence(e, c, MatchesForCandidate(search.matches, c))
    BY <1>1, <1>5
  <2>5. ReadyShape(d, e, c, MatchesForCandidate(search.matches, c))
    BY <2>4, ReadyDecisions
  <2> QED
    BY <2>2, <2>3, <2>5 DEF DecidedShape, d
<1> QED
  BY <1>2, <1>3, <1>4, <1>5

-----------------------------------------------------------------------------
(* What a run has made so far *)

BeforeDecision ==
  {"load", "validate", "gate", "propose", "extract", "input_validation",
   "evidence_builder", "evidence_validation", "decision"}

\* Every packet of the run is the one the stage before it calls for.
Traced ==
  /\ stage \in BeforeDecision => decision = <<>>
  /\ decision = <<>> => packet = <<>>
  /\ packet = <<>> => report = <<>>
  /\ stage = "renderer" => decision # <<>> /\ packet = <<>>
  /\ stage = "readiness" => packet # <<>> /\ report = <<>>
  /\ decision # <<>> => decision = <<DecideKcsAction(evidence[1], reuse[1])>>
  /\ packet # <<>> => /\ RenderError(evidence[1], decision[1]) = "none"
                      /\ packet = <<RenderReviewerPacket(evidence[1], decision[1])>>
  /\ report # <<>> => report = <<ValidationReport(evidence[1], decision[1], packet)>>

LEMMA InitTraced == Init => Traced
BY DEF Init, Traced, BeforeDecision

LEMMA NextTraced == Traced /\ [Next]_vars => Traced'
<1> SUFFICES ASSUME Traced, [Next]_vars PROVE Traced'
  OBVIOUS
<1>1. CASE Load
  BY <1>1 DEF Traced, Load, Ends, BeforeDecision
<1>2. CASE Validate
  BY <1>2 DEF Traced, Validate, Ends, BeforeDecision
<1>3. CASE Gate
  BY <1>3 DEF Traced, Gate, Ends, BeforeDecision
<1>4. CASE Propose
  BY <1>4 DEF Traced, Propose, Ends, BeforeDecision
<1>5. CASE ExtractNothing
  BY <1>5 DEF Traced, ExtractNothing, Ends, BeforeDecision
<1>6. CASE Extract
  <2>1. decision = <<>> /\ packet = <<>> /\ report = <<>>
    BY <1>6 DEF Traced, Extract, BeforeDecision
  <2>2. stage' = "input_validation" /\ UNCHANGED <<decision, packet, report>>
    BY <1>6 DEF Extract
  <2> QED
    BY <2>1, <2>2 DEF Traced, BeforeDecision
<1>7. CASE CheckPayload
  BY <1>7 DEF Traced, CheckPayload, Ends, BeforeDecision
<1>8. CASE BuildEvidence
  BY <1>8 DEF Traced, BuildEvidence, Ends, BeforeDecision
<1>9. CASE ValidateEvidence
  BY <1>9 DEF Traced, ValidateEvidence, Ends, BeforeDecision
<1>10. CASE Decide
  <2>1. packet = <<>> /\ report = <<>>
    BY <1>10 DEF Traced, Decide, BeforeDecision
  <2>2. /\ decision' = <<DecideKcsAction(evidence[1], reuse[1])>>
        /\ stage' \in {"done", "renderer"}
        /\ UNCHANGED <<evidence, reuse, packet, report>>
    BY <1>10 DEF Decide, Ends
  <2> QED
    BY <2>1, <2>2 DEF Traced, BeforeDecision
<1>11. CASE Render
  <2>1. decision # <<>> /\ packet = <<>> /\ report = <<>>
    BY <1>11 DEF Traced, Render
  <2>2. UNCHANGED <<evidence, reuse, decision, report>>
    BY <1>11 DEF Render
  <2>3. CASE RenderError(evidence[1], decision[1]) # "none"
    <3>1. stage' = "done" /\ packet' = packet
      BY <1>11, <2>3 DEF Render, Fails, Ends
    <3> QED
      BY <3>1, <2>1, <2>2 DEF Traced, BeforeDecision
  <2>4. CASE RenderError(evidence[1], decision[1]) = "none"
    <3>1. /\ stage' = "readiness"
          /\ packet' = <<RenderReviewerPacket(evidence[1], decision[1])>>
      BY <1>11, <2>4 DEF Render
    <3> QED
      BY <3>1, <2>1, <2>2, <2>4 DEF Traced, BeforeDecision
  <2> QED
    BY <2>3, <2>4
<1>12. CASE Report
  <2>1. decision # <<>> /\ packet # <<>> /\ report = <<>>
    BY <1>12 DEF Traced, Report
  <2>2. UNCHANGED <<evidence, reuse, decision, packet>>
    BY <1>12 DEF Report
  <2>3. CASE ReportRefused(evidence[1], decision[1], packet)
    <3>1. stage' = "done" /\ report' = report
      BY <1>12, <2>3 DEF Report, Fails, Ends
    <3> QED
      BY <3>1, <2>1, <2>2 DEF Traced, BeforeDecision
  <2>4. CASE ~ ReportRefused(evidence[1], decision[1], packet)
    <3>1. /\ stage' \in {"done", "draft_request_ready"}
          /\ report' = <<ValidationReport(evidence[1], decision[1], packet)>>
      BY <1>12, <2>4 DEF Report, Ends
    <3> QED
      BY <3>1, <2>1, <2>2 DEF Traced, BeforeDecision
  <2> QED
    BY <2>3, <2>4
<1>13. CASE Handoff
  <2>1. stage' = "done" /\ UNCHANGED <<evidence, reuse, decision, packet, report>>
    BY <1>13 DEF Handoff, Ends
  <2> QED
    BY <2>1 DEF Traced, BeforeDecision
<1>14. CASE UNCHANGED vars
  BY <1>14 DEF Traced, BeforeDecision, vars
<1> QED
  BY <1>1, <1>2, <1>3, <1>4, <1>5, <1>6, <1>7, <1>8, <1>9, <1>10, <1>11, <1>12, <1>13, <1>14
     DEF Next, Finished

\* A run holds the packets its stages made: the decision is that on its
\* evidence and search, the packet is rendered from the decision without an
\* error, the report is that of all three (cli.py, desktop_authoring_pipeline.py).
THEOREM SpecTraced == Spec => []Traced
BY InitTraced, NextTraced, PTL DEF Spec

-----------------------------------------------------------------------------
(* The report of a packet that was just rendered *)

LEMMA RenderedFields ==
  ASSUME NEW e, NEW d
  PROVE  LET p == RenderReviewerPacket(e, d)
         IN /\ p.case = e.case /\ p.action = d.action /\ p.status = RendererStatus(d)
            /\ p.blockers = d.blockers
            /\ p.article # <<>> <=> d.action \in ArticleActions
BY DEF RenderReviewerPacket

LEMMA ReportConsistent ==
  ASSUME NEW e, NEW search
  PROVE  LET d == DecideKcsAction(e, search)
         IN ReadinessOutcome(e, d, <<RenderReviewerPacket(e, d)>>).next
              \notin {"fix_reviewer_packet", "render_reviewer_packet"}
<1> DEFINE d == DecideKcsAction(e, search)
           p == RenderReviewerPacket(e, d)
           out == ReadinessOutcome(e, d, <<p>>)
<1>1. DecidedShape(d, e, search)
  BY Decisions
<1> HIDE DEF d
<1>2. /\ p.case = e.case /\ p.action = d.action /\ p.status = RendererStatus(d)
      /\ p.blockers = d.blockers
      /\ p.article # <<>> <=> d.action \in ArticleActions
  BY RenderedFields
<1> HIDE DEF p
<1>3. CASE d.action = "split_required"
  <2>1. out.next \in {"review_split_items", "fix_evidence"}
    BY <1>3 DEF ReadinessOutcome, SplitDecisionOutcome, Outcome
  <2> QED
    BY <2>1 DEF d, p
<1>4. CASE d.action = "blocked"
  <2>1. out.next \in {"run_reuse_search", "fix_evidence"}
    BY <1>4 DEF ReadinessOutcome, BlockedDecisionOutcome, Outcome
  <2> QED
    BY <2>1 DEF d, p
<1>5. CASE d.action \notin {"split_required", "blocked"}
  <2>1. /\ EvidenceBlockers(e) = {} /\ d.status = "decision_ready"
        /\ \/ d.action = "no_article" /\ d.blockers \subseteq NoArticleCodes
           \/ d.action # "no_article" /\ d.blockers = {}
    BY <1>1, <1>5 DEF DecidedShape, ReadyShape, ActionForMatch
  <2>2. ConsistencyBlockers(d) = {}
    <3> DEFINE unexpected == IF d.action = "no_article" THEN d.blockers \ NoArticleCodes
                             ELSE d.blockers
               table == {<<"decision_status_mismatch", d.status # "decision_ready">>,
                         <<"decision_blockers_present",
                           d.status = "decision_ready" /\ unexpected # {}>>}
    <3>1. unexpected = {} /\ d.status = "decision_ready"
      BY <2>1
    <3>2. ConsistencyBlockers(d) = Raised(table)
      BY DEF ConsistencyBlockers
    <3> HIDE DEF unexpected
    <3>3. Raised(table) = {}
      BY <3>1, NoneRaised
    <3> QED
      BY <3>2, <3>3
  <2>3. LongCode \notin NoArticleCodes
    BY DEF NoArticleCodes, NoArticleReasons, LongCode
  <2>4. PacketBlockers(e, d, p) = {}
    <3> DEFINE mismatch == /\ ~ DraftMissing(d, p)
                           /\ RendererStatusExpected(d)
                           /\ p.status # RendererStatus(d)
               table == {<<"reviewer_packet_case_ref_mismatch", p.case # e.case>>,
                         <<"reviewer_packet_decision_mismatch", p.action # d.action>>,
                         <<"unexpected_public_article_output",
                           d.action \notin ArticleActions /\ p.article # <<>> >>,
                         <<"renderer_status_mismatch", mismatch>>}
               rest == IF d.action = "no_article"
                       THEN IF LongCode \in p.blockers THEN SafeCodes(p.blockers)
                            ELSE p.blockers \ (d.blockers \cap NoArticleCodes)
                       ELSE p.blockers
    <3>1. PacketBlockers(e, d, p) = Raised(table) \cup rest
      BY DEF PacketBlockers
    <3>2. rest = {}
      BY <1>2, <2>1, <2>3
    <3>3. ~ mismatch
      BY <1>2
    <3> HIDE DEF mismatch, rest
    <3>4. Raised(table) = {}
      BY <1>2, <3>3, NoneRaised
    <3> QED
      BY <3>1, <3>2, <3>4
  <2>5. ~ DraftMissing(d, p)
    BY <1>2 DEF DraftMissing
  <2>6. out.next = "none"
    BY <1>5, <2>1, <2>2, <2>4, <2>5 DEF ReadinessOutcome, Outcome
  <2> QED
    BY <2>6 DEF d, p
<1> QED
  BY <1>3, <1>4, <1>5

\* A report never finds the packet it was made with wrong: whatever the
\* evidence and the search, the readiness checks and the renderer agree on the
\* decision (readiness.py against renderer.py).
THEOREM SpecRunPacketConsistent == Spec => []RunPacketConsistent
<1>1. Traced => RunPacketConsistent
  <2> SUFFICES ASSUME Traced, report # <<>>
               PROVE  report[1].next \notin {"fix_reviewer_packet", "render_reviewer_packet"}
    BY DEF RunPacketConsistent
  <2> DEFINE d == DecideKcsAction(evidence[1], reuse[1])
             p == <<RenderReviewerPacket(evidence[1], d)>>
  <2>1. decision[1] = d /\ packet = p /\ report[1] = ValidationReport(evidence[1], d, p)
    BY DEF Traced
  <2>2. ValidationReport(evidence[1], d, p).next = ReadinessOutcome(evidence[1], d, p).next
    BY DEF ValidationReport
  <2> QED
    BY <2>1, <2>2, ReportConsistent
<1> QED
  BY <1>1, SpecTraced, PTL

-----------------------------------------------------------------------------
(* What the packets of a run are *)

AnswerShape(answer) ==
  \/ answer = <<>>
  \/ answer = <<answer[1]>> /\ answer[1] \in Seq(Range(answer[1]))

\* A candidate the Desktop pipeline may be drafting.
Drafted(it) == ~ ItemInvalid(it) /\ Draftable(it)

\* Of the packets, that lists are lists, of candidates with lists of steps.
StepsShape(c) == c.steps \in Seq(StepKinds) /\ c.answers \in Seq(StepKinds)

EvidenceShape(e) ==
  /\ DOMAIN e = {"case", "knownClass", "sanitizer", "visibility", "visibilityField",
                 "internalApproved", "refs", "text", "symptoms", "facts", "questions",
                 "cause", "solution", "cands", "env"}
  /\ e.cands \in Seq(Range(e.cands))
  /\ \A i \in DOMAIN e.cands : StepsShape(e.cands[i])

ReuseShape(search) == search.matches \in Seq(Range(search.matches))

\* What each stage finds in the input, and what the evidence was made of.
InputKept ==
  /\ stage \in {"load", "validate", "gate"} => input \in CliInputs
  /\ stage \in {"propose", "extract"} =>
       input.command = stage /\ AnswerShape(input.answer)
  /\ stage \in {"input_validation", "evidence_builder", "evidence_validation"} => Desktop
  /\ Desktop => /\ StepsShape(input.item)
                /\ input.from # <<>> => \E it : input.from = <<it>> /\ Drafted(it)
  /\ input.command = "propose" /\ evidence # <<>> =>
       /\ ~ ExtractionInvalid(input.answer[1])
       /\ evidence = <<ExportEvidence(input.answer[1])>>

PacketsShaped ==
  /\ evidence # <<>> => EvidenceShape(evidence[1])
  /\ reuse # <<>> => ReuseShape(reuse[1])

PacketsThere ==
  /\ \/ stage \in {"validate", "gate", "evidence_validation", "decision"}
     \/ decision # <<>>
     => evidence # <<>>
  /\ stage = "decision" \/ decision # <<>> => reuse # <<>>

IInv == Traced /\ InputKept /\ PacketsShaped /\ PacketsThere

LEMMA PacketsShape ==
  /\ \A e \in NormalizedTicketEvidencePacket : EvidenceShape(e)
  /\ \A search \in ReuseSearchResultsPacket : ReuseShape(search)
  /\ \A item \in DesktopItem : StepsShape(item)
<1>1. ASSUME NEW e \in NormalizedTicketEvidencePacket PROVE EvidenceShape(e)
  <2>1. DOMAIN e = {"case", "knownClass", "sanitizer", "visibility", "visibilityField",
                    "internalApproved", "refs", "text", "symptoms", "facts", "questions",
                    "cause", "solution", "cands", "env"}
        /\ e.cands \in Seq(IssueCandidate)
    BY DEF NormalizedTicketEvidencePacket
  <2>2. \A i \in DOMAIN e.cands : e.cands[i] \in IssueCandidate
    BY <2>1
  <2>3. \A c \in IssueCandidate : StepsShape(c)
    BY DEF IssueCandidate, StepsShape
  <2>4. e.cands \in Seq(Range(e.cands))
    BY <2>1 DEF Range
  <2> QED
    BY <2>1, <2>2, <2>3, <2>4 DEF EvidenceShape
<1>2. ASSUME NEW search \in ReuseSearchResultsPacket PROVE ReuseShape(search)
  <2>1. search.matches \in Seq(ReuseMatch)
    BY DEF ReuseSearchResultsPacket
  <2> QED
    BY <2>1 DEF ReuseShape, Range
<1>3. ASSUME NEW item \in DesktopItem PROVE StepsShape(item)
  BY DEF DesktopItem, StepsShape
<1> QED
  BY <1>1, <1>2, <1>3

LEMMA ExportShape ==
  ASSUME NEW items, items \in Seq(Range(items)), ~ ExtractionInvalid(items)
  PROVE  EvidenceShape(ExportEvidence(items))
<1> DEFINE e == ExportEvidence(items)
           cands == [i \in DOMAIN items |-> ExportCandidate(items[i])]
<1>1. /\ Len(items) \in Nat /\ DOMAIN items = 1 .. Len(items)
      /\ \A i \in DOMAIN items : items[i] \in CandidateKcsItem
  BY DEF ExtractionInvalid, ItemInvalid
<1>2. e.cands = cands
      /\ DOMAIN e = {"case", "knownClass", "sanitizer", "visibility", "visibilityField",
                     "internalApproved", "refs", "text", "symptoms", "facts", "questions",
                     "cause", "solution", "cands", "env"}
  BY DEF ExportEvidence
<1>3. cands \in Seq(Range(cands))
  <2>1. \A i \in DOMAIN items : cands[i] \in Range(cands)
    BY DEF Range
  <2>2. cands \in [1 .. Len(items) -> Range(cands)]
    BY <1>1, <2>1
  <2> QED
    BY <1>1, <2>2
<1>4. ASSUME NEW i \in DOMAIN items PROVE StepsShape(cands[i])
  <2>1. items[i].steps \in Seq(StepKinds)
    BY <1>1 DEF CandidateKcsItem
  <2>2. ExportCandidate(items[i]).steps = items[i].steps
        /\ ExportCandidate(items[i]).answers = <<>>
    BY DEF ExportCandidate
  <2>3. cands[i] = ExportCandidate(items[i])
    OBVIOUS
  <2> HIDE DEF cands
  <2>4. cands[i].steps \in Seq(StepKinds) /\ cands[i].answers = <<>>
    BY <2>1, <2>2, <2>3
  <2> QED
    BY <2>4 DEF StepsShape
<1> QED
  BY <1>2, <1>3, <1>4 DEF EvidenceShape

LEMMA ItemShape ==
  ASSUME NEW item, StepsShape(item)
  PROVE  EvidenceShape(ItemEvidence(item)) /\ ReuseShape(ItemReuse(item))
<1> DEFINE c == ItemCandidate(item)
<1>1. StepsShape(c)
  BY DEF StepsShape, ItemCandidate
<1> HIDE DEF c
<1>2. <<c>> \in Seq(Range(<<c>>)) /\ DOMAIN <<c>> = {1} /\ <<c>>[1] = c
  BY DEF Range
<1>3. /\ ItemEvidence(item).cands = <<c>>
      /\ DOMAIN ItemEvidence(item) =
           {"case", "knownClass", "sanitizer", "visibility", "visibilityField",
            "internalApproved", "refs", "text", "symptoms", "facts", "questions",
            "cause", "solution", "cands", "env"}
  BY DEF ItemEvidence, c
<1>4. EvidenceShape(ItemEvidence(item))
  BY <1>1, <1>2, <1>3 DEF EvidenceShape
<1>5. ReuseShape(ItemReuse(item))
  <2> DEFINE m == NamedMatch(item)
             ms == IF NamesArticle(item) THEN <<m>> ELSE <<>>
  <2>1. ItemReuse(item).matches = ms
    BY DEF ItemReuse
  <2> HIDE DEF m
  <2>2. ms \in Seq(Range(ms))
    BY DEF Range
  <2> QED
    BY <2>1, <2>2 DEF ReuseShape
<1> QED
  BY <1>4, <1>5

LEMMA DesktopCandidateShape ==
  ASSUME NEW it \in CandidateKcsItem, NEW compared
  PROVE  StepsShape(DesktopCandidate(it, compared))
<1>1. it.steps \in Seq(StepKinds)
  BY DEF CandidateKcsItem
<1> QED
  BY <1>1 DEF StepsShape, DesktopCandidate

LEMMA SummaryAnswer ==
  ASSUME NEW summary \in Summaries
  PROVE  SummaryItems(summary) \in Seq(Range(SummaryItems(summary)))
<1> DEFINE sections == SummarySections(summary)
           at == {i \in DOMAIN sections : SectionHasItem(sections[i])}
           with == KeptAt(sections, at)
           items == SummaryItems(summary)
<1>1. sections \in Seq(Range(sections))
  <2> DEFINE whole == summary.whole
  <2>1. <<whole>> \in Seq(Range(<<whole>>))
    BY DEF Range
  <2>2. summary.headed \in Seq(Range(summary.headed))
    BY AnswersAssumption
  <2>3. sections = <<whole>> \/ sections = summary.headed
    BY DEF SummarySections
  <2> HIDE DEF whole, sections
  <2> QED
    BY <2>1, <2>2, <2>3
<1>2. items = [i \in DOMAIN with |-> SectionItem(with[i])]
  BY DEF SummaryItems, Matching
<1>3. at \subseteq DOMAIN sections
  OBVIOUS
<1> HIDE DEF sections, at
<1>4. with \in Seq(Range(sections))
  BY <1>1, <1>3, KeptElements
<1> HIDE DEF with, items
<1>5. DOMAIN items = 1 .. Len(with) /\ Len(with) \in Nat /\ items = [i \in DOMAIN items |-> items[i]]
  BY <1>2, <1>4
<1>6. \A i \in DOMAIN items : items[i] \in Range(items)
  BY DEF Range
<1> QED
  BY <1>5, <1>6 DEF items

LEMMA DraftableItem ==
  ASSUME NEW items, items \in Seq(Range(items)), ~ DesktopCandidatesInvalid(items),
         NEW it \in Range(Matching(items, Draftable))
  PROVE  Drafted(it)
<1> DEFINE at == {i \in DOMAIN items : Draftable(items[i])}
           kept == KeptAt(items, at)
<1>1. PICK j \in DOMAIN kept : it = kept[j]
  BY DEF Matching, Range
<1>2. at \subseteq DOMAIN items
  OBVIOUS
<1>3. PICK i \in at : it = items[i]
  <2> DEFINE S == Range(items)
  <2>1. items \in Seq(S)
    OBVIOUS
  <2> HIDE DEF at, S
  <2>2. \A k \in DOMAIN KeptAt(items, at) : \E i \in at : KeptAt(items, at)[k] = items[i]
    BY <2>1, <1>2, KeptElements
  <2> QED
    BY <1>1, <2>2
<1> QED
  BY <1>3 DEF DesktopCandidatesInvalid, ExtractionInvalid, Drafted

LEMMA InitKept == Init => InputKept /\ PacketsShaped /\ PacketsThere
<1> SUFFICES ASSUME Init PROVE InputKept /\ PacketsShaped /\ PacketsThere
  OBVIOUS
<1>1. evidence = <<>> /\ reuse = <<>> /\ decision = <<>>
  BY DEF Init
<1>2. PacketsShaped
  BY <1>1 DEF PacketsShaped
<1>3. CASE input \in CliInputs /\ stage = "load"
  <2>1. input.command \in {"run", "decide", "validate-evidence"}
    BY <1>3, InputsAssumption
  <2> QED
    BY <1>1, <1>2, <1>3, <2>1 DEF InputKept, PacketsThere, Desktop
<1>4. ASSUME NEW item \in Items,
             input = [command |-> "pipeline", item |-> item, from |-> <<>>],
             stage = "input_validation"
      PROVE  InputKept /\ PacketsThere
  <2>1. StepsShape(item)
    BY InputsAssumption, PacketsShape
  <2>2. input.command = "pipeline" /\ input.item = item /\ input.from = <<>>
    BY <1>4
  <2> QED
    BY <1>1, <1>4, <2>1, <2>2 DEF InputKept, PacketsThere, Desktop
<1>5. ASSUME NEW command \in {"propose", "extract"}, NEW answer \in Answers,
             NEW allowed \in BOOLEAN,
             input = [command |-> command, answer |-> answer, allowInternal |-> allowed],
             stage = command
      PROVE  InputKept /\ PacketsThere
  <2>1. AnswerShape(answer)
    BY AnswersAssumption DEF AnswerShape
  <2>2. input.command = command /\ input.answer = answer
    BY <1>5
  <2> QED
    BY <1>1, <1>5, <2>1, <2>2 DEF InputKept, PacketsThere, Desktop
<1>6. ASSUME NEW summary \in Summaries, stage = "extract",
             input = [command |-> "extract", answer |->
                        IF SummaryItems(summary) = <<>> THEN <<>>
                        ELSE <<SummaryItems(summary)>>]
      PROVE  InputKept /\ PacketsThere
  <2> DEFINE items == SummaryItems(summary)
             answer == IF items = <<>> THEN <<>> ELSE <<items>>
  <2>1. items \in Seq(Range(items))
    BY SummaryAnswer
  <2>2. input.command = "extract" /\ input.answer = answer
    BY <1>6
  <2> HIDE DEF items
  <2>3. AnswerShape(answer)
    BY <2>1 DEF AnswerShape
  <2> HIDE DEF answer
  <2> QED
    BY <1>1, <1>6, <2>2, <2>3 DEF InputKept, PacketsThere, Desktop
<1> QED
  BY <1>2, <1>3, <1>4, <1>5, <1>6 DEF Init

LEMMA NextKept ==
  Traced /\ InputKept /\ PacketsShaped /\ PacketsThere /\ [Next]_vars
    => InputKept' /\ PacketsShaped' /\ PacketsThere'
<1> SUFFICES ASSUME Traced, InputKept, PacketsShaped, PacketsThere, [Next]_vars
             PROVE  InputKept' /\ PacketsShaped' /\ PacketsThere'
  OBVIOUS
<1> USE DEF Desktop
<1>1. CASE Load
  <2>1. /\ input \in CliInputs /\ UNCHANGED <<input, reuse, decision>> /\ decision = <<>>
        /\ stage' \in {"done", "validate", "gate"}
        /\ (evidence' = evidence /\ stage' = "done") \/ evidence' = <<input.evidence>>
    BY <1>1 DEF Load, InputKept, Traced, Ends, BeforeDecision
  <2>2. input.command \in {"run", "decide", "validate-evidence"}
        /\ EvidenceShape(input.evidence)
    BY <2>1, InputsAssumption, PacketsShape
  <2> QED
    BY <2>1, <2>2 DEF InputKept, PacketsShaped, PacketsThere
<1>2. CASE Validate
  BY <1>2 DEF Validate, Ends, InputKept, PacketsShaped, PacketsThere
<1>3. CASE Gate
  <2>1. /\ input \in CliInputs /\ UNCHANGED <<input, evidence, decision>> /\ evidence # <<>>
        /\ stage' \in {"done", "decision"}
        /\ (reuse' = reuse /\ stage' = "done") \/ reuse' = <<input.reuse>>
    BY <1>3 DEF Gate, InputKept, PacketsThere, Ends
  <2>2. input.command \in {"run", "decide", "validate-evidence"} /\ ReuseShape(input.reuse)
    BY <2>1, InputsAssumption, PacketsShape
  <2>3. decision = <<>>
    BY <1>3 DEF Gate, Traced, BeforeDecision
  <2> QED
    BY <2>1, <2>2, <2>3 DEF InputKept, PacketsShaped, PacketsThere
<1>4. CASE Propose
  <2>1. /\ input.command = "propose" /\ AnswerShape(input.answer) /\ decision = <<>>
        /\ UNCHANGED <<input, decision>>
    BY <1>4 DEF Propose, InputKept, Traced, BeforeDecision
  <2>2. CASE stage' = "done" /\ UNCHANGED <<evidence, reuse>>
    BY <2>1, <2>2 DEF InputKept, PacketsShaped, PacketsThere
  <2>3. CASE /\ input.answer # <<>> /\ ~ ExtractionInvalid(input.answer[1])
             /\ evidence' = <<ExportEvidence(input.answer[1])>>
             /\ reuse' = <<NoReuse>> /\ stage' = "decision"
    <3>1. input.answer[1] \in Seq(Range(input.answer[1]))
      BY <2>1, <2>3 DEF AnswerShape
    <3>2. EvidenceShape(evidence'[1])
      BY <3>1, <2>3, ExportShape
    <3>3. ReuseShape(reuse'[1])
      BY <2>3, InputsAssumption, PacketsShape
    <3> QED
      BY <2>1, <2>3, <3>2, <3>3 DEF InputKept, PacketsShaped, PacketsThere
  <2> QED
    BY <1>4, <2>2, <2>3 DEF Propose, Ends
<1>5. CASE ExtractNothing
  <2>1. stage' = "done" /\ UNCHANGED <<input, evidence, reuse, decision>>
    BY <1>5 DEF ExtractNothing, Ends
  <2> QED
    BY <2>1 DEF InputKept, PacketsShaped, PacketsThere
<1>6. CASE Extract
  <2>1. /\ decision = <<>> /\ stage' = "input_validation"
        /\ UNCHANGED <<evidence, reuse, decision>>
        /\ AnswerShape(input.answer) /\ input.answer # <<>>
        /\ ~ DesktopCandidatesInvalid(input.answer[1])
    BY <1>6 DEF Extract, InputKept, Traced, BeforeDecision
  <2>2. PICK it \in Range(Matching(input.answer[1], Draftable)), compared \in BOOLEAN :
          input' = [command |-> "pipeline", from |-> <<it>>,
                    item |-> DesktopCandidate(it, compared)]
    BY <1>6 DEF Extract
  <2>3. Drafted(it)
    BY <2>1, DraftableItem DEF AnswerShape
  <2>4. StepsShape(DesktopCandidate(it, compared))
    BY <2>3, DesktopCandidateShape DEF Drafted, ItemInvalid
  <2>5. /\ input'.command = "pipeline" /\ input'.from = <<it>>
        /\ input'.item = DesktopCandidate(it, compared)
    BY <2>2
  <2>6. StepsShape(input'.item) /\ \E x : input'.from = <<x>> /\ Drafted(x)
    BY <2>3, <2>4, <2>5
  <2> QED
    BY <2>1, <2>5, <2>6 DEF InputKept, PacketsShaped, PacketsThere
<1>7. CASE CheckPayload
  <2>1. /\ input.command = "pipeline" /\ stage' \in {"done", "evidence_builder"}
        /\ UNCHANGED <<input, evidence, reuse, decision>>
    BY <1>7 DEF CheckPayload, Ends, InputKept
  <2> QED
    BY <2>1 DEF InputKept, PacketsShaped, PacketsThere
<1>8. CASE BuildEvidence
  <2>1. /\ input.command = "pipeline" /\ decision = <<>> /\ UNCHANGED <<input, reuse, decision>>
        /\ \/ stage' = "done" /\ evidence' = evidence
           \/ stage' = "evidence_validation" /\ evidence' = <<ItemEvidence(input.item)>>
    BY <1>8 DEF BuildEvidence, Ends, InputKept, Traced, BeforeDecision
  <2>2. EvidenceShape(ItemEvidence(input.item))
    BY <2>1, ItemShape DEF InputKept
  <2> QED
    BY <2>1, <2>2 DEF InputKept, PacketsShaped, PacketsThere
<1>9. CASE ValidateEvidence
  <2>1. /\ input.command = "pipeline" /\ decision = <<>> /\ evidence # <<>>
        /\ UNCHANGED <<input, evidence, decision>>
        /\ \/ stage' = "done" /\ reuse' = reuse
           \/ stage' = "decision" /\ reuse' = <<ItemReuse(input.item)>>
    BY <1>9 DEF ValidateEvidence, Ends, InputKept, PacketsThere, Traced, BeforeDecision
  <2>2. ReuseShape(ItemReuse(input.item))
    BY <2>1, ItemShape DEF InputKept
  <2> QED
    BY <2>1, <2>2 DEF InputKept, PacketsShaped, PacketsThere
<1>10. CASE Decide
  <2>1. /\ evidence # <<>> /\ reuse # <<>> /\ stage' \in {"done", "renderer"}
        /\ UNCHANGED <<input, evidence, reuse>>
    BY <1>10 DEF Decide, Ends, PacketsThere
  <2> QED
    BY <2>1 DEF InputKept, PacketsShaped, PacketsThere
<1>11. CASE Render
  <2>1. stage' \in {"done", "readiness"} /\ UNCHANGED <<input, evidence, reuse, decision>>
    BY <1>11 DEF Render, Fails, Ends
  <2> QED
    BY <2>1 DEF InputKept, PacketsShaped, PacketsThere
<1>12. CASE Report
  <2>1. /\ stage' \in {"done", "draft_request_ready"}
        /\ UNCHANGED <<input, evidence, reuse, decision>>
    BY <1>12 DEF Report, Fails, Ends
  <2> QED
    BY <2>1 DEF InputKept, PacketsShaped, PacketsThere
<1>13. CASE Handoff
  <2>1. stage' = "done" /\ UNCHANGED <<input, evidence, reuse, decision>>
    BY <1>13 DEF Handoff, Ends
  <2> QED
    BY <2>1 DEF InputKept, PacketsShaped, PacketsThere
<1>14. CASE UNCHANGED vars
  BY <1>14 DEF vars, InputKept, PacketsShaped, PacketsThere
<1> QED
  BY <1>1, <1>2, <1>3, <1>4, <1>5, <1>6, <1>7, <1>8, <1>9, <1>10, <1>11, <1>12, <1>13, <1>14
     DEF Next, Finished

\* The packets of a run come from its input and have its shape, at each stage.
THEOREM SpecIInv == Spec => []IInv
<1>1. Init => IInv
  BY InitTraced, InitKept DEF IInv
<1>2. IInv /\ [Next]_vars => IInv'
  BY NextTraced, NextKept DEF IInv
<1> QED
  BY <1>1, <1>2, PTL DEF Spec

-----------------------------------------------------------------------------
(* An article is grounded *)

\* What a run that rendered an article has.
Grounds(e, search, d, c) ==
  /\ EvidenceBlockers(e) = {} /\ search.searched /\ search.blockers = {}
  /\ Len(e.cands) = 1 /\ c = e.cands[1] /\ c.id # NoText /\ c.id = d.cand
  /\ SelectedCandidate(e, d) = <<c>>
  /\ NoArticleBlocker(c) = <<>> /\ d.type \in ArticleTypes
  /\ \A i \in 1 .. 4 : ~ ContentErrors(e, d, c)[i][2]

LEMMA FirstErrorRow ==
  ASSUME NEW S, NEW rows \in Seq(S), FirstError(rows) # <<>>
  PROVE  FirstError(rows)[1] \in S
<1> DEFINE at == {i \in DOMAIN rows : rows[i][2]}
<1>1. FirstError(rows) = IF at = {} THEN <<>> ELSE <<rows[Min(at)]>>
  BY DEF FirstError, FirstWhere
<1>2. at # {} /\ FirstError(rows)[1] = rows[Min(at)]
  BY <1>1
<1>3. at \subseteq DOMAIN rows /\ DOMAIN rows \subseteq Nat
  OBVIOUS
<1> HIDE DEF at
<1>4. Min(at) \in at
  BY <1>2, <1>3, MinFacts
<1> QED
  BY <1>2, <1>3, <1>4

Messages == {"unsafe code", "unsafe value", "match incomplete", "not ready", "no type",
             "not single", "match required", "visibility", "bound", "candidate mismatch"}

LEMMA FourRows ==
  ASSUME NEW S, NEW a \in S, NEW b \in S, NEW c \in S, NEW d \in S
  PROVE  <<a, b, c, d>> \in Seq(S)
OBVIOUS

LEMMA SecondRow ==
  ASSUME NEW a, NEW b, NEW c, NEW d,
         NEW w \in BOOLEAN, NEW x \in BOOLEAN, NEW y \in BOOLEAN, NEW z \in BOOLEAN
  PROVE  << <<a, w>>, <<b, x>>, <<c, y>>, <<d, z>> >>[2][2] = x
OBVIOUS

LEMMA ErrorRows ==
  ASSUME NEW e, NEW d, NEW c
  PROVE  /\ MetadataErrors(d) \in Seq(Messages \X BOOLEAN)
         /\ ArticleErrors(d) \in Seq(Messages \X BOOLEAN)
         /\ ContentErrors(e, d, c) \in Seq(Messages \X BOOLEAN)
<1>1. /\ "unsafe code" \in Messages /\ "unsafe value" \in Messages
      /\ "match incomplete" \in Messages /\ "not ready" \in Messages
      /\ "no type" \in Messages /\ "not single" \in Messages
      /\ "match required" \in Messages /\ "visibility" \in Messages /\ "bound" \in Messages
  BY DEF Messages
<1> DEFINE Row == Messages \X BOOLEAN
<1>5. \A m \in Messages, b \in BOOLEAN : <<m, b>> \in Row
  OBVIOUS
<1> HIDE DEF Row
<1>2. MetadataErrors(d) \in Seq(Row)
  <2> DEFINE w == LongCode \in d.blockers
             x == d.case # "plain" \/ "fragment" \in d.refs
             y == d.match # <<>> /\ d.match[1].ref = "fragment"
             z == d.match # <<>> /\ ~ SafeMetadata(d.match[1].ref)
  <2>1. w \in BOOLEAN /\ x \in BOOLEAN /\ y \in BOOLEAN /\ z \in BOOLEAN
    OBVIOUS
  <2>2. MetadataErrors(d) = << <<"unsafe code", w>>, <<"unsafe value", x>>,
                               <<"unsafe value", y>>, <<"match incomplete", z>> >>
    BY DEF MetadataErrors
  <2> HIDE DEF w, x, y, z
  <2>3. /\ <<"unsafe code", w>> \in Row /\ <<"unsafe value", x>> \in Row
        /\ <<"unsafe value", y>> \in Row /\ <<"match incomplete", z>> \in Row
    BY <1>1, <1>5, <2>1
  <2> QED
    BY <2>2, <2>3, FourRows
<1>3. ArticleErrors(d) \in Seq(Row)
  <2> DEFINE w == d.status # "decision_ready" \/ d.blockers # {}
             x == d.type = "none"
             y == d.items # <<>>
             z == d.action \in {"update_existing", "flag_existing"} /\ d.match = <<>>
  <2>1. w \in BOOLEAN /\ x \in BOOLEAN /\ y \in BOOLEAN /\ z \in BOOLEAN
    OBVIOUS
  <2>2. ArticleErrors(d) = << <<"not ready", w>>, <<"no type", x>>,
                              <<"not single", y>>, <<"match required", z>> >>
    BY DEF ArticleErrors
  <2> HIDE DEF w, x, y, z
  <2>3. /\ <<"not ready", w>> \in Row /\ <<"no type", x>> \in Row
        /\ <<"not single", y>> \in Row /\ <<"match required", z>> \in Row
    BY <1>1, <1>5, <2>1
  <2> QED
    BY <2>2, <2>3, FourRows
<1>4. ContentErrors(e, d, c) \in Seq(Row)
  <2> DEFINE w == e.visibility # {"public_customer_safe"}
             x == c.publicSafe # "yes"
             y == e.text = "doc_address" \/ d.cand \in NotMetadata
             z == Len(ArticleItems(e, d, c)) > MaxListItems
  <2>1. w \in BOOLEAN /\ x \in BOOLEAN /\ y \in BOOLEAN /\ z \in BOOLEAN
    OBVIOUS
  <2>2. ContentErrors(e, d, c) = << <<"visibility", w>>, <<"visibility", x>>,
                                    <<"unsafe value", y>>, <<"bound", z>> >>
    BY DEF ContentErrors
  <2> HIDE DEF w, x, y, z
  <2>3. /\ <<"visibility", w>> \in Row /\ <<"visibility", x>> \in Row
        /\ <<"unsafe value", y>> \in Row /\ <<"bound", z>> \in Row
    BY <1>1, <1>5, <2>1
  <2> QED
    BY <2>2, <2>3, FourRows
<1> QED
  BY <1>2, <1>3, <1>4 DEF Row

LEMMA RenderedGrounds ==
  ASSUME NEW e, EvidenceShape(e), NEW search, NEW d,
         d = DecideKcsAction(e, search), d.action \in ArticleActions,
         RenderError(e, d) = "none"
  PROVE  Grounds(e, search, d, e.cands[1])
<1> DEFINE c == e.cands[1]
<1>1. /\ EvidenceBlockers(e) = {} /\ search.searched /\ search.blockers = {}
      /\ NoArticleBlocker(c) = <<>>
  <2>1. DecidedShape(d, e, search)
    BY Decisions
  <2> QED
    BY <2>1 DEF DecidedShape, ReadyShape, ArticleActions
<1>2. Len(e.cands) = 1 /\ DOMAIN e.cands = {1}
  <2>1. e.cands # <<>> /\ ~ (Len(e.cands) > 1)
    BY <1>1, EvidenceUnblocked
  <2>2. e.cands \in Seq(Range(e.cands))
    BY DEF EvidenceShape
  <2> DEFINE cands == e.cands
             S == Range(cands)
  <2>3. cands \in Seq(S) /\ cands # <<>> /\ ~ (Len(cands) > 1)
    BY <2>1, <2>2
  <2> HIDE DEF cands, S
  <2>4. Len(cands) \in Nat \ {0}
    BY <2>3, EmptySeq
  <2>5. Len(cands) = 1 /\ DOMAIN cands = {1}
    <3>1. Len(cands) = 1
      <4> DEFINE k == Len(cands)
      <4>1. k \in Nat \ {0} /\ ~ (k > 1)
        BY <2>3, <2>4
      <4> HIDE DEF k
      <4>2. k = 1
        BY <4>1
      <4> QED
        BY <4>2 DEF k
    <3>2. DOMAIN cands = 1 .. Len(cands)
      BY <2>3
    <3> QED
      BY <3>1, <3>2
  <2> QED
    BY <2>5 DEF cands
<1> DEFINE selected == SelectedCandidate(e, d)
           rows == MetadataErrors(d)
                     \o (IF d.action \in ArticleActions THEN ArticleErrors(d) ELSE <<>>)
           early == FirstError(rows)
           content == ContentErrors(e, d, selected[1])
           late == IF d.action \notin ArticleActions THEN <<>>
                   ELSE IF selected = <<>> THEN << <<"candidate mismatch", TRUE>> >>
                   ELSE FirstError(content)
           R == Messages \X BOOLEAN
<1>3. "none" = IF early # <<>> THEN early[1][1] ELSE IF late # <<>> THEN late[1][1] ELSE "none"
  BY DEF RenderError
<1>4. rows \in Seq(R) /\ content \in Seq(R)
  <2> DEFINE a == MetadataErrors(d)
             b == IF d.action \in ArticleActions THEN ArticleErrors(d) ELSE <<>>
  <2>1. a \in Seq(R) /\ b \in Seq(R) /\ content \in Seq(R)
    BY ErrorRows
  <2> HIDE DEF a, b, R, content
  <2>2. a \o b \in Seq(R)
    BY <2>1
  <2> QED
    BY <2>1, <2>2 DEF a, b
<1>11. (d.type = "none" => rows[6][2]) /\ 6 \in DOMAIN rows
  <2> DEFINE a == MetadataErrors(d)
             b == ArticleErrors(d)
  <2>1. rows = a \o b
    OBVIOUS
  <2>2. a \in Seq(R) /\ b \in Seq(R)
    BY ErrorRows
  <2>3. Len(a) = 4 /\ Len(b) = 4
    BY DEF MetadataErrors, ArticleErrors
  <2>5. d.type = "none" => b[2][2]
    <3> DEFINE w == d.status # "decision_ready" \/ d.blockers # {}
               x == d.type = "none"
               y == d.items # <<>>
               z == d.action \in {"update_existing", "flag_existing"} /\ d.match = <<>>
    <3>1. w \in BOOLEAN /\ x \in BOOLEAN /\ y \in BOOLEAN /\ z \in BOOLEAN
      OBVIOUS
    <3>2. b = << <<"not ready", w>>, <<"no type", x>>, <<"not single", y>>,
                 <<"match required", z>> >>
      BY Zenon DEF ArticleErrors
    <3> HIDE DEF w, x, y, z
    <3> HIDE DEF b
    <3>3. b[2][2] = x
      BY <3>1, <3>2, SecondRow
    <3> QED
      BY <3>3 DEF x, b
  <2> HIDE DEF a, b, R, rows
  <2> HIDE DEF c, selected, early, content, late
  <2>4. rows[6] = b[2] /\ 6 \in DOMAIN rows
    <3>1. 2 \in 1 .. Len(b) /\ Len(a) + 2 = 6
      BY <2>3
    <3>2. 6 \in 1 .. Len(rows) /\ rows[6] = b[2]
      BY <2>1, <2>2, <3>1, ConcatAt
    <3>3. rows \in Seq(R)
      BY <2>1, <2>2
    <3> QED
      BY <3>2, <3>3
  <2> QED
    BY <2>4, <2>5
<1>5. \A row \in R : row[1] # "none"
  BY DEF Messages
<1> HIDE DEF rows, content, R, selected
<1>6. early = <<>>
  BY <1>3, <1>4, <1>5, FirstErrorRow
<1>7. selected # <<>> /\ FirstError(content) = <<>>
  <2>1. late = <<>>
    <3>1. CASE selected = <<>>
      BY <1>3, <1>6, <3>1
    <3>2. CASE selected # <<>>
      BY <1>3, <1>4, <1>5, <1>6, <3>2, FirstErrorRow
    <3> QED
      BY <3>1, <3>2
  <2> QED
    BY <2>1
<1>8. selected = <<c>> /\ c.id # NoText /\ c.id = d.cand
  <2> DEFINE at == {i \in DOMAIN e.cands : e.cands[i].id # NoText /\ e.cands[i].id = d.cand}
  <2>1. selected = IF at = {} THEN <<>> ELSE <<e.cands[Min(at)]>>
    BY DEF selected, SelectedCandidate, FirstWhere
  <2>2. at # {} /\ at \subseteq {1} /\ at \subseteq Nat
    BY <1>2, <1>7, <2>1
  <2> HIDE DEF at
  <2>3. Min(at) \in at
    BY <2>2, MinFacts
  <2>4. Min(at) = 1
    BY <2>2, <2>3
  <2> QED
    BY <2>1, <2>2, <2>3, <2>4 DEF at
<1>9. \A i \in 1 .. 4 : ~ ContentErrors(e, d, c)[i][2]
  <2>1. FirstError(ContentErrors(e, d, c)) = <<>>
    BY <1>7, <1>8 DEF content
  <2>2. \A i \in DOMAIN ContentErrors(e, d, c) : ~ ContentErrors(e, d, c)[i][2]
    BY <2>1, NoFirstError
  <2>3. DOMAIN ContentErrors(e, d, c) = 1 .. 4
    BY DEF ContentErrors
  <2> QED
    BY <2>2, <2>3
<1>10. d.type \in ArticleTypes
  <2>1. d.type # "none"
    BY <1>6, <1>11, NoFirstError
  <2>2. d.type = ArticleType(e, c)
    BY Decisions DEF DecidedShape, ReadyShape, ArticleActions
  <2> QED
    BY <2>1, <2>2 DEF ArticleType, ArticleTypes
<1> QED
  BY <1>1, <1>2, <1>8, <1>9, <1>10 DEF Grounds, selected

LEMMA GroundsOfRun ==
  ASSUME IInv, Rendered
  PROVE  /\ Grounds(evidence[1], reuse[1], decision[1], evidence[1].cands[1])
         /\ EvidenceShape(evidence[1])
         /\ packet[1].article = <<Article(evidence[1], decision[1], evidence[1].cands[1])>>
<1> DEFINE e == evidence[1]
           d == decision[1]
<1>1. /\ d = DecideKcsAction(e, reuse[1]) /\ EvidenceShape(e) /\ RenderError(e, d) = "none"
      /\ packet[1] = RenderReviewerPacket(e, d) /\ packet[1].article # <<>>
  BY DEF IInv, Traced, PacketsShaped, PacketsThere, Rendered
<1> HIDE DEF e, d
<1>2. d.action \in ArticleActions
      /\ packet[1].article = <<Article(e, d, SelectedCandidate(e, d)[1])>>
  BY <1>1 DEF RenderReviewerPacket
<1>3. Grounds(e, reuse[1], d, e.cands[1])
  BY <1>1, <1>2, RenderedGrounds
<1> QED
  BY <1>1, <1>2, <1>3 DEF Grounds, e, d

\* An article is only ever rendered from evidence that nothing blocks and that
\* is public, for its own candidate, which may be published and which nothing
\* excludes, after a search that found no blocker: whatever the inputs, and
\* whichever program ran (decision.py, renderer.py, desktop_authoring_pipeline.py).
THEOREM SpecArticleIsGrounded == Spec => []ArticleIsGrounded
<1>1. IInv => ArticleIsGrounded
  <2> SUFFICES ASSUME IInv, Rendered
               PROVE  /\ EvidenceBlockers(evidence[1]) = {}
                      /\ evidence[1].visibility = {"public_customer_safe"}
                      /\ reuse[1].searched /\ reuse[1].blockers = {}
                      /\ \E i \in DOMAIN evidence[1].cands :
                           LET c == evidence[1].cands[i]
                           IN /\ c.id = packet[1].article[1].cand
                              /\ c.publicSafe = "yes"
                              /\ NoArticleBlocker(c) = <<>>
    BY DEF ArticleIsGrounded
  <2> DEFINE e == evidence[1]
             d == decision[1]
             c == e.cands[1]
  <2>1. Grounds(e, reuse[1], d, c) /\ packet[1].article = <<Article(e, d, c)>>
    BY GroundsOfRun
  <2>2. e.visibility = {"public_customer_safe"} /\ c.publicSafe = "yes"
    <3>1. ~ ContentErrors(e, d, c)[1][2] /\ ~ ContentErrors(e, d, c)[2][2]
      BY <2>1 DEF Grounds
    <3>2. /\ ContentErrors(e, d, c)[1][2] = (e.visibility # {"public_customer_safe"})
          /\ ContentErrors(e, d, c)[2][2] = (c.publicSafe # "yes")
      BY DEF ContentErrors
    <3> QED
      BY <3>1, <3>2
  <2>3. 1 \in DOMAIN e.cands
    <3>1. e.cands \in Seq(Range(e.cands)) /\ Len(e.cands) = 1
      BY <2>1, GroundsOfRun DEF Grounds, EvidenceShape
    <3> QED
      BY <3>1
  <2>4. c.id = packet[1].article[1].cand
    BY <2>1 DEF Grounds, Article
  <2> QED
    BY <2>1, <2>2, <2>3, <2>4 DEF Grounds
<1> QED
  BY <1>1, SpecIInv, PTL

-----------------------------------------------------------------------------
(* Nothing excluded is published *)

LEMMA ValidItem ==
  ASSUME NEW it, Drafted(it)
  PROVE  /\ it.status \in PublishableStatus
         /\ it.relation \notin NotOurs
         /\ Unsupported(it) => /\ it.basis = "explicit_input_mention"
                               /\ it.eol \notin {"affected_runtime", "unclear"}
         /\ it.status = "candidate_allowed" => it.relation # SupportProvided
<1>1. it.status \in {"candidate_allowed", "internal_only_candidate"}
  BY DEF Drafted, Draftable, PublishableStatus
<1>2. /\ it.status \in EolStatuses(it) /\ it.status \in RelationStatuses(it)
      /\ Unsupported(it) => it.basis = "explicit_input_mention"
  BY DEF Drafted, ItemInvalid
<1>3. it.relation \notin NotOurs
  BY <1>1, <1>2 DEF RelationStatuses, NotOurs, SupportProvided
<1>4. Unsupported(it) => it.eol \notin {"affected_runtime", "unclear"}
  BY <1>1, <1>2 DEF EolStatuses
<1>5. it.status = "candidate_allowed" => it.relation # SupportProvided
  BY <1>2, <1>3 DEF RelationStatuses
<1> QED
  BY <1>1, <1>2, <1>3, <1>4, <1>5 DEF PublishableStatus

\* An item that its class excludes never becomes an article, be it proposed to
\* the library or drafted on the Desktop; what the library publishes was
\* proposed for the public (semantic_extraction.py, desktop_semantic_candidates.py).
THEOREM SpecNothingExcludedIsPublished == Spec => []NothingExcludedIsPublished
<1>1. IInv => NothingExcludedIsPublished
  <2> SUFFICES ASSUME IInv, Rendered PROVE NothingExcludedIsPublished
    BY DEF NothingExcludedIsPublished
  <2>1. CASE input.command = "propose"
    <3> DEFINE items == input.answer[1]
               it == items[1]
               e == evidence[1]
    <3>1. ~ ExtractionInvalid(items) /\ evidence = <<ExportEvidence(items)>>
      BY <2>1 DEF IInv, InputKept, PacketsThere, Traced, Rendered
    <3>2. e.cands = [i \in DOMAIN items |-> ExportCandidate(items[i])]
      BY <3>1 DEF ExportEvidence
    <3>3. Grounds(e, reuse[1], decision[1], e.cands[1]) /\ EvidenceShape(e)
      BY GroundsOfRun
    <3> HIDE DEF items, e
    <3>4. DOMAIN items = {1}
      <4> DEFINE cands == e.cands
                 S == Range(cands)
      <4>1. cands \in Seq(S) /\ Len(cands) = 1 /\ DOMAIN cands = DOMAIN items
        BY <3>2, <3>3 DEF Grounds, EvidenceShape
      <4> HIDE DEF cands, S
      <4>2. DOMAIN cands = 1 .. 1
        BY <4>1
      <4> QED
        BY <4>1, <4>2
    <3>5. e.cands[1] = ExportCandidate(it)
      BY <3>2, <3>4
    <3>6. ExportCandidate(it).publicSafe = "yes"
      <4>1. ~ ContentErrors(e, decision[1], e.cands[1])[2][2]
        BY <3>3 DEF Grounds
      <4>2. ContentErrors(e, decision[1], e.cands[1])[2][2] = (e.cands[1].publicSafe # "yes")
        BY DEF ContentErrors
      <4> QED
        BY <4>1, <4>2, <3>5
    <3>7. it.status = "candidate_allowed" /\ it.visibility = "public_customer_safe"
      BY <3>6 DEF ExportCandidate
    <3>8. Drafted(it)
      BY <3>1, <3>4, <3>7 DEF Drafted, Draftable, PublishableStatus, ExtractionInvalid
    <3> HIDE DEF it
    <3>9. /\ it.status \in PublishableStatus
          /\ it.relation \notin NotOurs
          /\ Unsupported(it) => /\ it.basis = "explicit_input_mention"
                                /\ it.eol \notin {"affected_runtime", "unclear"}
          /\ it.status = "candidate_allowed"
          /\ it.visibility = "public_customer_safe"
          /\ it.relation # SupportProvided
      BY <3>7, <3>8, ValidItem
    <3> QED
      BY <2>1, <3>4, <3>9 DEF NothingExcludedIsPublished, it, items
  <2>2. CASE Desktop
    <3>1. CASE input.from = <<>>
      BY <2>2, <3>1 DEF NothingExcludedIsPublished, Desktop
    <3>2. CASE input.from # <<>>
      <4>1. PICK it : input.from = <<it>> /\ Drafted(it)
        BY <2>2, <3>2 DEF IInv, InputKept
      <4>2. /\ it.status \in PublishableStatus
            /\ it.relation \notin NotOurs
            /\ Unsupported(it) => /\ it.basis = "explicit_input_mention"
                                  /\ it.eol \notin {"affected_runtime", "unclear"}
        BY <4>1, ValidItem
      <4>3. DOMAIN input.from = {1} /\ input.from[1] = it
        BY <4>1
      <4>4. input.command # "propose"
        BY <2>2 DEF Desktop
      <4> QED
        BY <2>2, <4>2, <4>3, <4>4 DEF NothingExcludedIsPublished
    <3> QED
      BY <3>1, <3>2
  <2>3. CASE input.command # "propose" /\ ~ Desktop
    BY <2>3 DEF NothingExcludedIsPublished
  <2> QED
    BY <2>1, <2>2, <2>3
<1> QED
  BY <1>1, SpecIInv, PTL

-----------------------------------------------------------------------------
(* The match of a decision *)

\* A match of the search for candidate c, of the type and with its identity.
Usable(e, c, type, n) ==
  n.cand \in {NoText, c.id} /\ n.type = type /\ IdentityMatches(e, c, type, n)

\* Those SelectMatch chooses among.
Same(e, c, type, matches) ==
  Matching(MatchesForCandidate(matches, c), LAMBDA m :
    m.type = type /\ IdentityMatches(e, c, type, m))

LEMMA UsableMatches ==
  ASSUME NEW S, NEW matches \in Seq(S), NEW e, NEW c, NEW type
  PROVE  LET same == Same(e, c, type, matches)
         IN /\ same \in Seq(S)
            /\ \A j \in DOMAIN same :
                 \E i \in DOMAIN matches : same[j] = matches[i] /\ Usable(e, c, type, same[j])
            /\ \A i \in DOMAIN matches :
                 Usable(e, c, type, matches[i]) => \E j \in DOMAIN same : same[j] = matches[i]
<1> DEFINE mine == {i \in DOMAIN matches : matches[i].cand \in {NoText, c.id}}
           own == KeptAt(matches, mine)
           fit == {i \in DOMAIN own : own[i].type = type /\ IdentityMatches(e, c, type, own[i])}
           same == KeptAt(own, fit)
<1>1. mine \subseteq DOMAIN matches /\ fit \subseteq DOMAIN own
  OBVIOUS
<1>2. \A i : i \in mine <=> i \in DOMAIN matches /\ matches[i].cand \in {NoText, c.id}
  OBVIOUS
<1>3. \A i : i \in fit <=>
         i \in DOMAIN own /\ own[i].type = type /\ IdentityMatches(e, c, type, own[i])
  OBVIOUS
<1>4. same = Same(e, c, type, matches)
  BY DEF Same, Matching, MatchesForCandidate
<1> HIDE DEF mine, fit
<1>5. /\ own \in Seq(S)
      /\ \A j \in DOMAIN own : \E i \in mine : own[j] = matches[i]
      /\ \A i \in mine : \E j \in DOMAIN own : own[j] = matches[i]
  BY <1>1, KeptElements
<1> HIDE DEF own
<1>6. /\ same \in Seq(S)
      /\ \A j \in DOMAIN same : \E i \in fit : same[j] = own[i]
      /\ \A i \in fit : \E j \in DOMAIN same : same[j] = own[i]
  BY <1>1, <1>5, KeptElements
<1> HIDE DEF same
<1>7. ASSUME NEW j \in DOMAIN same
      PROVE  \E i \in DOMAIN matches : same[j] = matches[i] /\ Usable(e, c, type, same[j])
  <2>1. PICK k \in fit : same[j] = own[k]
    BY <1>6
  <2>2. PICK i \in mine : own[k] = matches[i]
    BY <1>1, <1>5, <2>1
  <2> QED
    BY <2>1, <2>2, <1>2, <1>3 DEF Usable
<1>8. ASSUME NEW i \in DOMAIN matches, Usable(e, c, type, matches[i])
      PROVE  \E j \in DOMAIN same : same[j] = matches[i]
  <2>1. i \in mine
    BY <1>2, <1>8 DEF Usable
  <2>2. PICK k \in DOMAIN own : own[k] = matches[i]
    BY <1>5, <2>1
  <2>3. k \in fit
    BY <1>3, <1>8, <2>2 DEF Usable
  <2> QED
    BY <1>6, <2>2, <2>3
<1> QED
  BY <1>4, <1>6, <1>7, <1>8

LEMMA SelectedMatch ==
  ASSUME NEW S, NEW matches \in Seq(S), NEW e, NEW c, NEW type,
         SelectMatch(e, c, type, MatchesForCandidate(matches, c)) # <<>>
  PROVE  LET m == SelectMatch(e, c, type, MatchesForCandidate(matches, c))[1]
         IN /\ \E i \in DOMAIN matches : m = matches[i]
            /\ Usable(e, c, type, m)
            /\ m.status = "incorrect" =>
                 \A i \in DOMAIN matches : Usable(e, c, type, matches[i]) =>
                   matches[i].status \notin {"complete", "incomplete", "outdated", "partial"}
<1> DEFINE good == {"complete", "incomplete", "outdated", "partial"}
           same == Same(e, c, type, matches)
           at == {j \in DOMAIN same : same[j].status \in good}
           wrong == {j \in DOMAIN same : same[j].status = "incorrect"}
           match == SelectMatch(e, c, type, MatchesForCandidate(matches, c))
<1>1. /\ same \in Seq(S)
      /\ \A j \in DOMAIN same :
           \E i \in DOMAIN matches : same[j] = matches[i] /\ Usable(e, c, type, same[j])
      /\ \A i \in DOMAIN matches :
           Usable(e, c, type, matches[i]) => \E j \in DOMAIN same : same[j] = matches[i]
  BY UsableMatches
<1>2. match = IF at # {} THEN <<same[Min(at)]>>
              ELSE IF wrong # {} THEN <<same[Min(wrong)]>> ELSE <<>>
  BY DEF SelectMatch, FirstWhere, Same
<1> HIDE DEF same, match
<1>3. at \subseteq Nat /\ wrong \subseteq Nat
  BY <1>1
<1>4. at # {} => Min(at) \in at
  BY <1>3, MinFacts
<1>5. wrong # {} => Min(wrong) \in wrong
  BY <1>3, MinFacts
<1>6. match # <<>>
  BY DEF match
<1>7. CASE at # {}
  <2>1. match[1] = same[Min(at)] /\ Min(at) \in DOMAIN same /\ same[Min(at)].status \in good
    BY <1>2, <1>4, <1>7
  <2>2. match[1].status # "incorrect"
    BY <2>1
  <2>3. PICK i \in DOMAIN matches :
          same[Min(at)] = matches[i] /\ Usable(e, c, type, same[Min(at)])
    BY <1>1, <2>1
  <2>4. match[1] = matches[i] /\ Usable(e, c, type, match[1])
    BY <2>1, <2>3
  <2> QED
    BY <2>2, <2>4 DEF match
<1>8. CASE at = {}
  <2>1. match[1] = same[Min(wrong)] /\ Min(wrong) \in DOMAIN same
    BY <1>2, <1>5, <1>6, <1>8
  <2>2. \A j \in DOMAIN same : same[j].status \notin good
    BY <1>8
  <2> HIDE DEF at, wrong, good
  <2>3. \A i \in DOMAIN matches : Usable(e, c, type, matches[i]) => matches[i].status \notin good
    BY <1>1, <2>2
  <2> QED
    BY <1>1, <2>1, <2>3 DEF match, good
<1> QED
  BY <1>7, <1>8

\* The article a decision names is a match of the search with the identity of
\* the candidate, and one known to be incorrect only when no usable one is:
\* whatever the search found, in whatever order (decision.py).
THEOREM SpecBestMatchChosen == Spec => []BestMatchChosen
<1>1. IInv => BestMatchChosen
  <2> SUFFICES ASSUME IInv, decision # <<>>, decision[1].match # <<>> PROVE BestMatchChosen
    BY DEF BestMatchChosen
  <2> DEFINE e == evidence[1]
             d == decision[1]
             c == e.cands[1]
             matches == reuse[1].matches
             S == Range(matches)
  <2>1. matches \in Seq(S) /\ d = DecideKcsAction(e, reuse[1])
    BY DEF IInv, PacketsThere, PacketsShaped, ReuseShape, Traced
  <2>2. d.match = SelectMatch(e, c, d.type, MatchesForCandidate(matches, c))
    <3>1. DecidedShape(d, e, reuse[1])
      BY <2>1, Decisions
    <3> QED
      BY <3>1 DEF DecidedShape, ReadyShape
  <2> DEFINE m == d.match[1]
             usable == {n \in Range(matches) :
                          /\ n.cand \in {NoText, c.id}
                          /\ n.type = d.type
                          /\ IdentityMatches(e, c, n.type, n)}
  <2>3. SelectMatch(e, c, d.type, MatchesForCandidate(matches, c)) # <<>>
    BY <2>2
  <2>4. /\ \E i \in DOMAIN matches : m = matches[i]
        /\ Usable(e, c, d.type, m)
        /\ m.status = "incorrect" =>
             \A i \in DOMAIN matches : Usable(e, c, d.type, matches[i]) =>
               matches[i].status \notin {"complete", "incomplete", "outdated", "partial"}
    <3> HIDE DEF e, d, c, matches, S
    <3> QED
      BY <2>1, <2>2, <2>3, SelectedMatch
  <2>8. /\ m.cand \in {NoText, c.id} /\ m.type = d.type
        /\ IdentityMatches(e, c, d.type, m)
    BY <2>4 DEF Usable
  <2>5. m \in usable
    BY <2>4, <2>8 DEF Range
  <2>6. m.solution = OwnText(c.solution, e.solution)
    <3> HIDE DEF m
    <3> QED
      BY <2>8 DEF IdentityMatches, SameText
  <2>7. m.status = "incorrect" =>
          \A n \in usable : n.status \notin {"complete", "partial", "outdated"}
    BY <2>4 DEF Usable, Range
  <2> QED
    BY <2>5, <2>6, <2>7 DEF BestMatchChosen
<1> QED
  BY <1>1, SpecIInv, PTL

-----------------------------------------------------------------------------
(* A card and the candidate alone *)

LEMMA NothingReported ==
  ASSUME NEW search, search.searched, search.blockers = {}
  PROVE  /\ Raised({<<"possible_duplicate_not_checked", ~ search.searched>>}) = {}
         /\ SafeReuseBlockers(search.blockers) = {}
<1>1. Raised({<<"unsafe_reuse_search_blocker", NotACode \in search.blockers>>}) = {}
  <2> DEFINE x == NotACode \in search.blockers
  <2>1. ~ x
    OBVIOUS
  <2> HIDE DEF x
  <2>2. Raised({<<"unsafe_reuse_search_blocker", x>>}) = {}
    BY <2>1, NoneRaised
  <2> QED
    BY <2>2 DEF x
<1>2. Raised({<<"possible_duplicate_not_checked", ~ search.searched>>}) = {}
  BY NoneRaised
<1> QED
  BY <1>1, <1>2 DEF SafeReuseBlockers

\* Evidence nothing blocks and a search nothing blocks leave the decision to
\* the candidate and its matches.
LEMMA ClearDecision ==
  ASSUME NEW e, NEW search, EvidenceBlockers(e) = {}, search.searched, search.blockers = {}
  PROVE  DecideKcsAction(e, search) =
           DecisionForReadyEvidence(e, e.cands[1], MatchesForCandidate(search.matches, e.cands[1]))
<1>1. e.cands # <<>>
  BY EvidenceUnblocked
<1>2. Raised({<<"possible_duplicate_not_checked", ~ search.searched>>}) = {}
      /\ SafeReuseBlockers(search.blockers) = {}
  BY NothingReported
<1> QED
  BY <1>1, <1>2 DEF DecideKcsAction

LEMMA NoOpenQuestion ==
  ASSUME NEW e, ~ e.questions
  PROVE  "open_questions_present" \notin EvidenceBlockers(e)
<1>1. "open_questions_present" \notin IssueCandidateBlockers(e.cands)
  <2> DEFINE table == {<<"evidence_not_atomic", e.cands[1].split>>}
  <2>1. \A row \in table : row[1] = "evidence_not_atomic"
    OBVIOUS
  <2>2. IssueCandidateBlockers(e.cands) = IF e.cands = <<>> THEN {"missing_issue_candidate"}
                                          ELSE IF Len(e.cands) > 1 THEN {"multi_issue"}
                                          ELSE Raised(table)
    BY DEF IssueCandidateBlockers
  <2> HIDE DEF table
  <2>3. "open_questions_present" \notin Raised(table)
    BY <2>1 DEF Raised
  <2> QED
    BY <2>2, <2>3
<1> DEFINE table == {<<"unsafe_input", SafetyBlockers(e) # {}>>,
                     <<"missing_source_ref", e.refs = {}>>,
                     <<"missing_symptoms", ~ e.symptoms>>,
                     <<"missing_confirmed_facts", ~ e.facts>>,
                     <<"missing_supported_resolution", e.solution = NoText>>,
                     <<"open_questions_present", e.questions>>}
<1>2. "open_questions_present" \notin Raised(table)
  <2>1. ASSUME NEW row \in table, row[1] = "open_questions_present" PROVE ~ row[2]
    <3>1. row = <<"open_questions_present", e.questions>>
      BY <2>1
    <3> QED
      BY <3>1
  <2> HIDE DEF table
  <2> QED
    BY <2>1 DEF Raised
<1> QED
  BY <1>1, <1>2 DEF EvidenceBlockers

LEMMA CardOfClear ==
  ASSUME NEW e, NEW c, NEW root, NEW search,
         "open_questions_present" \notin root, EvidenceBlockers(e) = {},
         Excluded(e, c, ArticleType(e, c)) = <<>>,
         ReuseSearchStatus(c, search) = "checked", SafeReuseBlockers(search.blockers) = {}
  PROVE  DecisionForSplitItem(e, c, root, search) =
           DecisionForReadyEvidence(e, c, MatchesForCandidate(search.matches, c))
<1>1. Raised({<<"reuse_search_status_missing", ReuseSearchStatus(c, search) # "checked">>}) = {}
  BY NoneRaised
<1> QED
  BY <1>1 DEF DecisionForSplitItem

LEMMA ArticleCard ==
  ASSUME NEW e, NEW c, NEW root, NEW search,
         DecisionForSplitItem(e, c, root, search).action \in ArticleActions
  PROVE  /\ EvidenceBlockers(e) = {} /\ search.searched /\ search.blockers = {}
         /\ DecisionForSplitItem(e, c, root, search) =
              DecisionForReadyEvidence(e, c, MatchesForCandidate(search.matches, c))
<1> DEFINE type == ArticleType(e, c)
           codes == SafeReuseBlockers(search.blockers)
           checked == ReuseSearchStatus(c, search) = "checked"
           unchecked == Raised({<<"reuse_search_status_missing",
                                  ReuseSearchStatus(c, search) # "checked">>})
           d == DecisionForSplitItem(e, c, root, search)
<1>1. \A t, why : Blocked(e, c, t, why).action = "blocked"
  BY DEF Blocked, Packet
<1>2. Excluded(e, c, type) # <<>> => Excluded(e, c, type)[1].action \in {"blocked", "no_article"}
  BY <1>1 DEF Excluded, Packet
<1> HIDE DEF codes, unchecked, type
<1>3. d = IF "open_questions_present" \in root
          THEN Blocked(e, c, type, {"open_questions_present"})
          ELSE IF EvidenceBlockers(e) # {} THEN Blocked(e, c, type, EvidenceBlockers(e))
          ELSE IF Excluded(e, c, type) # <<>> THEN Excluded(e, c, type)[1]
          ELSE IF unchecked \cup codes # {} THEN Blocked(e, c, "none", unchecked \cup codes)
          ELSE DecisionForReadyEvidence(e, c, MatchesForCandidate(search.matches, c))
  BY DEF DecisionForSplitItem, type, codes, unchecked
<1>4. d.action \notin {"blocked", "no_article"}
  BY DEF ArticleActions
<1> HIDE DEF d
<1>5. /\ EvidenceBlockers(e) = {} /\ unchecked = {} /\ codes = {}
      /\ d = DecisionForReadyEvidence(e, c, MatchesForCandidate(search.matches, c))
  BY <1>1, <1>2, <1>3, <1>4
<1>6. checked
  <2> DEFINE table == {<<"reuse_search_status_missing", ~ checked>>}
  <2>1. Raised(table) = {}
    BY <1>5 DEF unchecked
  <2>2. \A row \in table : ~ row[2]
    BY <2>1, RaisedNone
  <2> QED
    BY <2>2
<1>7. search.searched
  BY <1>6 DEF ReuseSearchStatus
<1>8. search.blockers = {}
  <2> DEFINE table == {<<"unsafe_reuse_search_blocker", NotACode \in search.blockers>>}
  <2>1. Raised(table) = {} /\ search.blockers \ {NotACode} = {}
    BY <1>5 DEF SafeReuseBlockers, codes
  <2>2. \A row \in table : ~ row[2]
    BY <2>1, RaisedNone
  <2> QED
    BY <2>1, <2>2
<1> QED
  BY <1>5, <1>7, <1>8 DEF d

LEMMA SplitItems ==
  ASSUME NEW e, NEW search
  PROVE  LET d == DecideKcsAction(e, search)
         IN d.items # <<>> =>
              d.items = [i \in DOMAIN e.cands |-> SplitItem(e, i, EvidenceBlockers(e), search)]
<1> DEFINE blockers == EvidenceBlockers(e)
           c == IF e.cands = <<>> THEN NoCandidate ELSE e.cands[1]
           codes == SafeReuseBlockers(search.blockers)
           unchecked == Raised({<<"possible_duplicate_not_checked", ~ search.searched>>})
           splitting == "unsafe_input" \notin blockers /\ blockers \cap SplitBlockers # {}
           d == DecideKcsAction(e, search)
           new == DecisionForReadyEvidence(e, c, MatchesForCandidate(search.matches, c))
           items == [i \in DOMAIN e.cands |-> SplitItem(e, i, blockers, search)]
<1>1. new.items = <<>>
  BY ReadyDecisions DEF ReadyShape
<1> HIDE DEF blockers, c, codes, unchecked, splitting, new
<1>2. d = IF splitting /\ Len(e.cands) > 1 THEN SplitRequiredPacket(e, search, blockers)
          ELSE IF splitting THEN Packet(e, c, "split_required", "none", blockers, <<>>)
          ELSE IF blockers \cup unchecked \cup codes # {}
          THEN Blocked(e, c, "none", IF blockers # {} THEN blockers ELSE unchecked \cup codes)
          ELSE new
  BY DEF DecideKcsAction, blockers, c, codes, unchecked, splitting, new
<1>3. SplitRequiredPacket(e, search, blockers).items = items
  BY DEF SplitRequiredPacket, Packet
<1>4. \A action, why : Packet(e, c, action, "none", why, <<>>).items = <<>>
  BY DEF Packet
<1> HIDE DEF d, items
<1>5. d.items = items \/ d.items = <<>>
  BY <1>1, <1>2, <1>3, <1>4 DEF Blocked
<1> QED
  BY <1>5 DEF d, items, blockers

LEMMA CardAgrees ==
  ASSUME NEW e, EvidenceShape(e), NEW search, NEW i \in DOMAIN e.cands
  PROVE  LET c == e.cands[i]
             alone == DecideKcsAction(CandidateEvidence(e, c), search)
             card == DecisionForSplitItem(CandidateEvidence(e, c), c, EvidenceBlockers(e), search)
         IN /\ card.action \in ArticleActions => card = alone
            /\ /\ alone.action \in ArticleActions
               /\ ReuseSearchStatus(c, search) = "checked"
               /\ ~ e.questions
               => card = alone
<1> DEFINE c == e.cands[i]
           own == CandidateEvidence(e, c)
           root == EvidenceBlockers(e)
           card == DecisionForSplitItem(own, c, root, search)
           alone == DecideKcsAction(own, search)
           new == DecisionForReadyEvidence(own, c, MatchesForCandidate(search.matches, c))
<1>1. own.cands = <<c>>
  BY DEF EvidenceShape, CandidateEvidence
<1> HIDE DEF c, own, root
<1>2. own.cands[1] = c
  BY <1>1
<1>3. ASSUME card.action \in ArticleActions PROVE card = alone
  <2>1. EvidenceBlockers(own) = {} /\ search.searched /\ search.blockers = {} /\ card = new
    BY <1>3, ArticleCard
  <2> QED
    BY <2>1, <1>2, ClearDecision
<1>4. ASSUME alone.action \in ArticleActions, ReuseSearchStatus(c, search) = "checked",
             ~ e.questions
      PROVE  card = alone
  <2>1. /\ EvidenceBlockers(own) = {} /\ search.searched /\ search.blockers = {}
        /\ Excluded(own, c, ArticleType(own, c)) = <<>>
    <3>1. DecidedShape(alone, own, search)
      BY Decisions
    <3> HIDE DEF alone
    <3> QED
      BY <1>2, <1>4, <3>1 DEF DecidedShape, ReadyShape, ArticleActions
  <2>2. alone = new
    BY <2>1, <1>2, ClearDecision
  <2>3. "open_questions_present" \notin root
    BY <1>4, NoOpenQuestion DEF root
  <2>4. SafeReuseBlockers(search.blockers) = {}
    BY <2>1, NothingReported
  <2>5. card = new
    BY <1>4, <2>1, <2>3, <2>4, CardOfClear
  <2> QED
    BY <2>2, <2>5
<1> QED
  BY <1>3, <1>4 DEF c, own, root

\* A card of a split promises an article exactly when a run of that candidate
\* alone would make the same one, as far as the search was checked for it and no
\* question is open: two functions of decision.py that must not drift apart.
THEOREM SpecSplitAgreesWithAlone == Spec => []SplitAgreesWithAlone
<1>1. IInv => SplitAgreesWithAlone
  <2> SUFFICES ASSUME IInv, decision # <<>>, NEW i \in DOMAIN decision[1].items
               PROVE  LET c == evidence[1].cands[i]
                          card == decision[1].items[i]
                          alone == DecideKcsAction(CandidateEvidence(evidence[1], c), reuse[1])
                          same == /\ card.action = alone.action
                                  /\ card.type = alone.type
                                  /\ card.match = alone.match
                      IN /\ card.action \in ArticleActions => same
                         /\ /\ alone.action \in ArticleActions
                            /\ card.reuseStatus = "checked"
                            /\ ~ evidence[1].questions
                            => same
    BY DEF SplitAgreesWithAlone
  <2> DEFINE e == evidence[1]
             search == reuse[1]
             d == decision[1]
             c == e.cands[i]
             alone == DecideKcsAction(CandidateEvidence(e, c), search)
             full == DecisionForSplitItem(CandidateEvidence(e, c), c, EvidenceBlockers(e), search)
  <2>1. EvidenceShape(e) /\ d = DecideKcsAction(e, search)
    BY DEF IInv, PacketsThere, PacketsShaped, Traced
  <2> HIDE DEF e, search, d
  <2>2. i \in DOMAIN d.items
    BY DEF d
  <2>3. d.items # <<>>
    BY <2>2
  <2>4. d.items = [k \in DOMAIN e.cands |-> SplitItem(e, k, EvidenceBlockers(e), search)]
    BY <2>1, <2>3, SplitItems
  <2>5. i \in DOMAIN e.cands /\ d.items[i] = SplitItem(e, i, EvidenceBlockers(e), search)
    BY <2>2, <2>4
  <2>6. /\ d.items[i].action = full.action /\ d.items[i].type = full.type
        /\ d.items[i].match = full.match
        /\ d.items[i].reuseStatus = ReuseSearchStatus(c, search)
    BY <2>5 DEF SplitItem
  <2>7. /\ full.action \in ArticleActions => full = alone
        /\ /\ alone.action \in ArticleActions
           /\ ReuseSearchStatus(c, search) = "checked"
           /\ ~ e.questions
           => full = alone
    BY <2>1, <2>5, CardAgrees
  <2> HIDE DEF c, alone, full
  <2> QED
    BY <2>6, <2>7 DEF e, search, d, c, alone
<1> QED
  BY <1>1, SpecIInv, PTL

-----------------------------------------------------------------------------
(* The list items of an article *)

\* One step of MergeSupportBlocks.
Merged(items, step) ==
  IF step = "block" /\ items # <<>>
  THEN [items EXCEPT ![Len(items)] = Append(@, step)]
  ELSE Append(items, <<step>>)

ListItems == Seq(Seq(StepKinds))

MergedThrough(h, s) ==
  /\ h \in [0 .. Len(s) -> ListItems]
  /\ h[0] = <<>> /\ h[Len(s)] = MergeSupportBlocks(s)
  /\ \A i \in 1 .. Len(s) : h[i] = Merged(h[i - 1], s[i])

LEMMA MergedTyped ==
  ASSUME NEW items \in ListItems, NEW step \in StepKinds
  PROVE  Merged(items, step) \in ListItems
<1>1. CASE step = "block" /\ items # <<>>
  <2> DEFINE S == Seq(StepKinds)
             v == Append(Last(items), step)
  <2>1. items \in Seq(S)
    BY DEF ListItems
  <2>2. Last(items) \in S
    BY <2>1, <1>1, FrontLast
  <2>3. v \in S
    BY <2>2
  <2>4. Merged(items, step) = [items EXCEPT ![Len(items)] = v]
    BY <1>1 DEF Merged, Last
  <2> HIDE DEF S, v
  <2>5. Front(items) \in Seq(S) /\ [items EXCEPT ![Len(items)] = v] = Append(Front(items), v)
    BY <2>1, <2>3, <1>1, FrontLast
  <2>6. Append(Front(items), v) \in Seq(S)
    BY <2>3, <2>5
  <2> QED
    BY <2>4, <2>5, <2>6 DEF ListItems, S
<1>2. CASE ~ (step = "block" /\ items # <<>>)
  <2>1. <<step>> \in Seq(StepKinds)
    OBVIOUS
  <2> QED
    BY <1>2, <2>1 DEF Merged, ListItems
<1> QED
  BY <1>1, <1>2

LEMMA MergeCourse ==
  ASSUME NEW s \in Seq(StepKinds)
  PROVE  \E h : MergedThrough(h, s)
<1> DEFINE n == Len(s)
           V == ListItems
           D == [i \in DOMAIN s |-> s[i]]
           Op(v, i) == Merged(v, s[i])
           g == [p \in (1 .. n) \X V |-> Op(p[2], p[1])]
           F(it) == [t \in SUBSET (1 .. n) |->
                       IF t = {} THEN <<>> ELSE Op(it[t \ {Max(t)}], Max(t))]
           C == CHOOSE it : it = F(it)
<1>1. n \in Nat /\ DOMAIN s = 1 .. n /\ <<>> \in V
  BY DEF ListItems
<1>2. \A i \in 1 .. n : s[i] \in StepKinds
  BY <1>1
<1>3. MergeSupportBlocks(s) = C[1 .. n]
  BY <1>1 DEF MergeSupportBlocks, FoldLeft, MapThenFoldSet, Merged
<1>5. g \in Steps(n, V)
  BY <1>2, MergedTyped DEF Steps
<1>4. \A v, i : Op(v, i) = Merged(v, s[i])
  OBVIOUS
<1> HIDE DEF n, V, Op
<1>6. \A i \in 1 .. n, v \in V : g[<<i, v>>] = Op(v, i)
  OBVIOUS
<1> HIDE DEF g
<1>7. \A t \in SUBSET (1 .. n) : t # {} => Max(t) \in 1 .. n /\ t \ {Max(t)} \in SUBSET (1 .. n)
  BY <1>1, MaxFacts
<1>8. C = F(C)
  <2>1. PICK it : IsFold(it, <<>>, n, g, V)
    BY <1>1, <1>5, FoldExists
  <2>2. ASSUME NEW t \in SUBSET (1 .. n)
        PROVE  it[t] = IF t = {} THEN <<>> ELSE Op(it[t \ {Max(t)}], Max(t))
    <3>1. CASE t = {}
      BY <2>1, <3>1 DEF IsFold
    <3>2. CASE t # {}
      BY <2>1, <3>2, <1>6, <1>7 DEF IsFold
    <3> QED
      BY <3>1, <3>2
  <2>3. it = F(it)
    BY <2>1, <2>2 DEF IsFold
  <2> QED
    BY <2>3
<1> HIDE DEF C
<1>9. C[{}] = <<>>
  BY <1>8
<1>10. \A t \in SUBSET (1 .. n) : t # {} /\ C[t \ {Max(t)}] \in V =>
         C[t] = g[<<Max(t), C[t \ {Max(t)}]>>]
  BY <1>8, <1>6, <1>7
<1> HIDE DEF D, F
<1> DEFINE h == CourseOf(C, n)
<1>16. FoldOn(C, <<>>, n, g, V)
  BY <1>9, <1>10 DEF FoldOn
<1>11. Course(h, <<>>, n, g, V)
  BY <1>1, <1>5, <1>16, FoldCourse
<1>12. h[n] = MergeSupportBlocks(s)
  BY <1>1, <1>3 DEF CourseOf
<1> HIDE DEF h
<1>13. \A i \in 1 .. n : h[i - 1] \in V
  BY <1>1, <1>11 DEF Course
<1>14. \A i \in 1 .. n : h[i] = Merged(h[i - 1], s[i])
  BY <1>4, <1>6, <1>11, <1>13 DEF Course
<1>15. MergedThrough(h, s)
  BY <1>11, <1>12, <1>14 DEF Course, MergedThrough, n, V
<1> QED
  BY <1>15

\* Every item is a step and the blocks after it; only the first may be a block.
ItemsShape(items) ==
  \A k \in DOMAIN items :
    /\ items[k] # <<>>
    /\ items[k][1] = "block" => k = 1
    /\ \A j \in 2 .. Len(items[k]) : items[k][j] = "block"

LEMMA MergedStep ==
  ASSUME NEW items \in ListItems, NEW step \in StepKinds, ItemsShape(items)
  PROVE  /\ ItemsShape(Merged(items, step))
         /\ FlattenSeq(items) \in Seq(StepKinds)
         /\ FlattenSeq(Merged(items, step)) = Append(FlattenSeq(items), step)
<1> DEFINE S == Seq(StepKinds)
           n == Len(items)
<1>1. items \in Seq(S) /\ n \in Nat /\ DOMAIN items = 1 .. n
  BY DEF ListItems
<1>2. FlattenSeq(items) \in S
  <2>1. <<>> \in S
    OBVIOUS
  <2> QED
    BY <1>1, <2>1, FlattenAppend
<1>3. CASE step = "block" /\ items # <<>>
  <2> DEFINE f == Front(items)
             l == Last(items)
             v == Append(l, step)
             m == Append(f, v)
  <2>1. /\ f \in Seq(S) /\ l \in S /\ items = Append(f, l)
        /\ \A w \in S : [items EXCEPT ![n] = w] = Append(f, w)
        /\ Len(f) = n - 1 /\ n # 0
        /\ \A i \in 1 .. n - 1 : f[i] = items[i]
    <3> HIDE DEF S
    <3> QED
      BY <1>1, <1>3, FrontLast
  <2>2. l = items[n]
    BY DEF Last
  <2> HIDE DEF f, l
  <2>3. v \in S /\ Len(v) = Len(l) + 1 /\ Len(l) \in Nat
        /\ v[Len(l) + 1] = step /\ \A j \in 1 .. Len(l) : v[j] = l[j]
    BY <2>1
  <2>4. Merged(items, step) = m
    BY <1>3, <2>1, <2>2, <2>3 DEF Merged
  <2>5. l # <<>> /\ (l[1] = "block" => n = 1) /\ \A j \in 2 .. Len(l) : l[j] = "block"
    BY <1>1, <2>1, <2>2 DEF ItemsShape
  <2>6. v # <<>> /\ v[1] = l[1] /\ \A j \in 2 .. Len(v) : v[j] = "block"
    <3>1. Len(l) # 0
      BY <2>1, <2>5
    <3>2. v[1] = l[1] /\ v # <<>>
      BY <2>3, <3>1
    <3>3. \A j \in 2 .. Len(v) : j = Len(l) + 1 \/ j \in 2 .. Len(l)
      BY <2>3
    <3>4. \A j \in 2 .. Len(l) : j \in 1 .. Len(l)
      OBVIOUS
    <3> QED
      BY <1>3, <2>3, <2>5, <3>2, <3>3, <3>4
  <2> HIDE DEF v, S
  <2>7. /\ m \in Seq(S) /\ DOMAIN m = 1 .. n /\ m[n] = v
        /\ \A i \in 1 .. n - 1 : m[i] = items[i]
    BY <1>1, <2>1, <2>3
  <2> HIDE DEF m
  <2>8. ItemsShape(m)
    <3>1. ASSUME NEW k \in 1 .. n
          PROVE  /\ m[k] # <<>>
                 /\ m[k][1] = "block" => k = 1
                 /\ \A j \in 2 .. Len(m[k]) : m[k][j] = "block"
      <4>1. CASE k = n
        <5>1. m[k] = v
          BY <4>1, <2>7
        <5> QED
          BY <5>1, <4>1, <2>5, <2>6
      <4>2. CASE k \in 1 .. n - 1
        <5>1. m[k] = items[k]
          BY <4>2, <2>7
        <5> QED
          BY <5>1, <1>1 DEF ItemsShape
      <4>3. k = n \/ k \in 1 .. n - 1
        <5>1. \A x \in Nat : \A y \in 1 .. x : y = x \/ y \in 1 .. x - 1
          OBVIOUS
        <5>2. n \in Nat
          BY <1>1
        <5> HIDE DEF n
        <5> QED
          BY <5>1, <5>2
      <4> QED
        BY <4>1, <4>2, <4>3
    <3> QED
      BY <3>1, <2>7 DEF ItemsShape
  <2>9. FlattenSeq(m) = Append(FlattenSeq(items), step)
    <3> DEFINE a == FlattenSeq(f)
    <3>1. a \in Seq(StepKinds) /\ FlattenSeq(items) = a \o l /\ FlattenSeq(m) = a \o v
      BY <2>1, <2>3, FlattenAppend DEF m, S
    <3> HIDE DEF a
    <3>2. l \in Seq(StepKinds)
      BY <2>1 DEF S
    <3>3. a \o Append(l, step) = Append(a \o l, step)
      BY <3>1, <3>2
    <3> QED
      BY <3>1, <3>3 DEF v
  <2>10. FlattenSeq(items) \in Seq(StepKinds)
    BY <1>2 DEF S
  <2>11. ItemsShape(Merged(items, step))
    BY <2>4, <2>8, Zenon
  <2>12. FlattenSeq(Merged(items, step)) = Append(FlattenSeq(items), step)
    BY <2>4, <2>9, Zenon
  <2> QED
    BY <2>10, <2>11, <2>12, ZenonT(40)
<1>4. CASE ~ (step = "block" /\ items # <<>>)
  <2> DEFINE x == <<step>>
             m == Append(items, x)
  <2>1. Merged(items, step) = m
    BY <1>4 DEF Merged
  <2>2. x \in S /\ Len(x) = 1 /\ x[1] = step /\ x # <<>>
    OBVIOUS
  <2>3. step = "block" => n = 0
    BY <1>4, <1>1
  <2> HIDE DEF S, x
  <2>4. /\ m \in Seq(S) /\ DOMAIN m = 1 .. n + 1 /\ m[n + 1] = x
        /\ \A i \in 1 .. n : m[i] = items[i]
    BY <1>1, <2>2
  <2> HIDE DEF m
  <2>5. ItemsShape(m)
    <3>1. ASSUME NEW k \in 1 .. n + 1
          PROVE  /\ m[k] # <<>>
                 /\ m[k][1] = "block" => k = 1
                 /\ \A j \in 2 .. Len(m[k]) : m[k][j] = "block"
      <4>1. CASE k = n + 1
        <5>1. m[k] = x /\ (step = "block" => k = 1)
          BY <4>1, <2>3, <2>4
        <5>2. \A j \in 2 .. 1 : FALSE
          OBVIOUS
        <5> QED
          BY <5>1, <5>2, <2>2
      <4>2. CASE k \in 1 .. n
        <5>1. m[k] = items[k]
          BY <4>2, <2>4
        <5> QED
          BY <5>1, <4>2, <1>1 DEF ItemsShape
      <4> QED
        BY <4>1, <4>2, <1>1
    <3> QED
      BY <3>1, <2>4 DEF ItemsShape
  <2>6. FlattenSeq(m) = Append(FlattenSeq(items), step)
    <3> DEFINE a == FlattenSeq(items)
    <3>1. a \in Seq(StepKinds) /\ FlattenSeq(m) = a \o x
      BY <1>1, <1>2, <2>2, FlattenAppend DEF m, S
    <3> HIDE DEF a
    <3>2. a \o <<step>> = Append(a, step)
      BY <3>1
    <3> QED
      BY <3>1, <3>2 DEF x, a
  <2> QED
    BY <1>2, <2>1, <2>5, <2>6 DEF S
<1> QED
  BY <1>3, <1>4

LEMMA ItemsKept ==
  ASSUME NEW s \in Seq(StepKinds)
  PROVE  /\ ItemsShape(MergeSupportBlocks(s))
         /\ FlattenSeq(MergeSupportBlocks(s)) = s
<1> DEFINE n == Len(s)
           S == StepKinds
<1>1. PICK h : MergedThrough(h, s)
  BY MergeCourse
<1> DEFINE Upto(i) == [j \in 1 .. i |-> s[j]]
           P(i) == /\ h[i] \in ListItems /\ ItemsShape(h[i])
                   /\ FlattenSeq(h[i]) = Upto(i)
           T == {i \in Nat : i <= n => P(i)}
<1>2. n \in Nat /\ DOMAIN s = 1 .. n /\ \A j \in 1 .. n : s[j] \in S
  OBVIOUS
<1>3. /\ h \in [0 .. n -> ListItems] /\ h[0] = <<>> /\ h[n] = MergeSupportBlocks(s)
      /\ \A i \in 1 .. n : h[i] = Merged(h[i - 1], s[i])
  BY <1>1 DEF MergedThrough
<1>4. s = Upto(n)
  BY <1>2
<1>5. P(0)
  <2>1. 0 \in 0 .. n /\ Upto(0) = <<>>
    BY <1>2
  <2>2. ItemsShape(<<>>)
    BY DEF ItemsShape
  <2> HIDE DEF n, Upto
  <2> QED
    BY <1>3, <2>1, <2>2, FlattenEmpty
<1>6. ASSUME NEW i \in 1 .. n, P(i - 1) PROVE P(i)
  <2>1. i \in 0 .. n /\ i - 1 \in Nat
    BY <1>2
  <2>2. Append(Upto(i - 1), s[i]) = Upto(i)
    BY <1>2
  <2>3. s[i] \in S /\ h[i] = Merged(h[i - 1], s[i]) /\ h[i] \in ListItems
    BY <1>2, <1>3, <2>1
  <2> HIDE DEF n, Upto, S
  <2> QED
    BY <1>6, <2>2, <2>3, MergedStep DEF S
<1> HIDE DEF P, n
<1>7. 0 \in T
  BY <1>5
<1>8. ASSUME NEW i \in Nat, i \in T PROVE i + 1 \in T
  <2> SUFFICES ASSUME i + 1 <= n PROVE P(i + 1)
    OBVIOUS
  <2>1. PICK m \in 1 .. n : m = i + 1 /\ m - 1 = i
    BY <1>2
  <2> QED
    BY <2>1, <1>2, <1>6, <1>8
<1>9. n \in T
  <2> HIDE DEF T
  <2> QED
    BY <1>2, <1>7, <1>8, SetInduction
<1> QED
  BY <1>2, <1>3, <1>4, <1>9 DEF P

\* What the renderer makes of the steps it starts from.
Entered(all, steps, entry) ==
  /\ entry \in EntryPoints
  /\ all \in Seq(StepKinds) /\ all = entry \o steps
  /\ Range(entry) \cap Range(steps) = {}

LEMMA EntryKept ==
  ASSUME NEW steps \in Seq(StepKinds), NEW x \in {"ssh", "rdp", "login", "none"}
  PROVE  \/ WithEntryPoint(steps, x) = steps
         \/ x # "none" /\ x \notin Range(steps) /\ WithEntryPoint(steps, x) = <<x>> \o steps
BY DEF WithEntryPoint, Some, Range

LEMMA OneEntry ==
  ASSUME NEW steps \in Seq(StepKinds), NEW x \in {"ssh", "rdp", "login", "none"},
         NEW all, all = WithEntryPoint(steps, x)
  PROVE  \E entry : Entered(all, steps, entry) /\ Len(entry) # 2
<1>1. CASE all = steps
  <2>1. steps = <<>> \o steps /\ Range(<<>>) = {} /\ <<>> \in EntryPoints /\ Len(<<>>) = 0
    BY DEF Range, EntryPoints
  <2>2. Entered(all, steps, <<>>)
    BY <1>1, <2>1 DEF Entered
  <2> QED
    BY <2>1, <2>2
<1>2. CASE x # "none" /\ x \notin Range(steps) /\ all = <<x>> \o steps
  <2>1. <<x>> \in EntryPoints /\ Range(<<x>>) = {x} /\ Len(<<x>>) = 1
    BY <1>2 DEF EntryPoints, Range
  <2>2. x \in StepKinds
    BY <1>2 DEF StepKinds
  <2>3. all \in Seq(StepKinds)
    BY <1>2, <2>2
  <2>4. Entered(all, steps, <<x>>)
    BY <1>2, <2>1, <2>3 DEF Entered
  <2> DEFINE entry == <<x>>
  <2>5. Entered(all, steps, entry) /\ Len(entry) # 2
    BY <2>1, <2>4
  <2> HIDE DEF entry
  <2> QED
    BY <2>5
<1> QED
  BY <1>1, <1>2, EntryKept

\* The entry point of a resolution, and of the answers of a how-to.
ResolutionEntry(e, steps) ==
  IF WindowsPlesk(e, steps) THEN "rdp" ELSE IF e.env = "linux" THEN "ssh" ELSE "none"

LEMMA EntryNames ==
  ASSUME NEW e, NEW steps
  PROVE  /\ ResolutionEntry(e, steps) \in {"ssh", "rdp", "login", "none"}
         /\ ResolutionEntry(e, steps) # "login"
         /\ AnswerEntryPoint(e, steps) \in {"ssh", "rdp", "login", "none"}
BY DEF ResolutionEntry, AnswerEntryPoint

\* A how-to that shows its resolution looks for an entry point twice: the
\* second can only be the login, because a resolution on the same system
\* already starts with the first.
LEMMA TwoEntries ==
  ASSUME NEW e, NEW steps \in Seq(StepKinds), steps # <<>>, NEW inner, NEW all,
         inner = WithEntryPoint(steps, ResolutionEntry(e, steps)),
         all = WithEntryPoint(inner, AnswerEntryPoint(e, inner))
  PROVE  \E entry : Entered(all, steps, entry)
<1> DEFINE x == ResolutionEntry(e, steps)
           y == AnswerEntryPoint(e, inner)
<1>1. x \in {"ssh", "rdp", "login", "none"} /\ x # "login"
      /\ y \in {"ssh", "rdp", "login", "none"}
  BY EntryNames
<1>2. CASE inner = steps
  <2>1. inner \in Seq(StepKinds) /\ all = WithEntryPoint(inner, y)
    BY <1>2
  <2> HIDE DEF x, y
  <2> QED
    BY <1>1, <1>2, <2>1, OneEntry
<1>3. CASE x # "none" /\ x \notin Range(steps) /\ inner = <<x>> \o steps
  <2>1. x \in {"ssh", "rdp"} /\ x \in StepKinds
    BY <1>1, <1>3 DEF StepKinds
  <2>2. y \in {"ssh", "rdp"} => y = x
    <3>1. e.env = "windows" => ~ (e.env = "linux")
      OBVIOUS
    <3>2. x = "ssh" => e.env = "linux"
      BY DEF ResolutionEntry
    <3>3. x = "rdp" => e.env = "windows"
      BY DEF ResolutionEntry, WindowsPlesk
    <3>4. y = "ssh" => e.env = "linux"
      BY DEF AnswerEntryPoint
    <3>5. y = "rdp" => e.env = "windows"
      BY DEF AnswerEntryPoint, WindowsPlesk
    <3> HIDE DEF x, y
    <3> QED
      BY <2>1, <3>1, <3>2, <3>3, <3>4, <3>5
  <2> HIDE DEF x, y
  <2>3. inner \in Seq(StepKinds) /\ Range(inner) = {x} \cup Range(steps)
    <3>1. <<x>> \in Seq(StepKinds)
      BY <2>1
    <3>2. inner \in Seq(StepKinds)
      BY <1>3, <3>1
    <3>3. Len(inner) = Len(steps) + 1 /\ inner[1] = x /\ Len(steps) \in Nat
          /\ \A i \in 1 .. Len(steps) : inner[i + 1] = steps[i]
      BY <1>3
    <3>4. \A i \in 1 .. Len(steps) + 1 : i = 1 \/ i - 1 \in 1 .. Len(steps)
      BY <3>3
    <3>5. \A i \in 2 .. Len(inner) : inner[i] = steps[i - 1]
      BY <1>3
    <3>6. Range(inner) \subseteq {x} \cup Range(steps)
      BY <3>2, <3>3, <3>4, <3>5 DEF Range
    <3>7. {x} \cup Range(steps) \subseteq Range(inner)
      BY <3>2, <3>3 DEF Range
    <3> QED
      BY <3>2, <3>6, <3>7
  <2>4. CASE all = inner
    <3>1. <<x>> \in EntryPoints /\ Range(<<x>>) = {x}
      BY <2>1 DEF EntryPoints, Range
    <3> DEFINE entry == <<x>>
    <3>2. Entered(all, steps, entry)
      BY <1>3, <2>3, <2>4, <3>1 DEF Entered
    <3> HIDE DEF entry
    <3> QED
      BY <3>2
  <2>5. CASE y # "none" /\ y \notin Range(inner) /\ all = <<y>> \o inner
    <3>1. y = "login"
      BY <1>1, <2>2, <2>3, <2>5
    <3>2. <<y, x>> \in EntryPoints /\ Range(<<y, x>>) = {y, x}
      BY <2>1, <3>1 DEF EntryPoints, Range
    <3>3. all = <<y, x>> \o steps
      <4>1. <<x>> \in Seq(StepKinds) /\ <<y>> \in Seq(StepKinds)
        BY <2>1, <3>1 DEF StepKinds
      <4>2. all = <<y>> \o (<<x>> \o steps)
        BY <1>3, <2>5
      <4>3. <<y>> \o (<<x>> \o steps) = (<<y>> \o <<x>>) \o steps
        BY <4>1
      <4>4. <<y>> \o <<x>> = <<y, x>>
        BY <2>1, <3>1, ConcatOne DEF StepKinds
      <4> QED
        BY <4>2, <4>3, <4>4
    <3>4. all \in Seq(StepKinds)
      <4>1. <<y>> \in Seq(StepKinds)
        BY <3>1 DEF StepKinds
      <4> QED
        BY <2>3, <2>5, <4>1
    <3> DEFINE entry == <<y, x>>
    <3>5. Entered(all, steps, entry)
      BY <1>3, <2>3, <2>5, <3>2, <3>3, <3>4 DEF Entered
    <3> HIDE DEF entry
    <3> QED
      BY <3>5
  <2> QED
    BY <2>4, <2>5, <2>3, <1>1, EntryKept DEF y
<1> QED
  BY <1>1, <1>2, <1>3, EntryKept

\* The steps the candidate itself has, and those its article shows.
CandidateSteps(type, c) ==
  IF type = "technical_scr" THEN c.steps
  ELSE IF c.answers = <<>> /\ c.solution \notin Texts THEN c.steps
  ELSE c.answers

ArticleSteps(e, type, c) ==
  IF type = "howto_qa" THEN AnswerSteps(e, c) ELSE ResolutionSteps(e, c)

LEMMA EnteredSteps ==
  ASSUME NEW e, NEW c, StepsShape(c), NEW type \in ArticleTypes,
         CandidateSteps(type, c) # <<>>
  PROVE  \E entry :
           /\ Entered(ArticleSteps(e, type, c), CandidateSteps(type, c), entry)
           /\ Len(entry) = 2 => type = "howto_qa" /\ c.answers = <<>>
<1> DEFINE own == CandidateSteps(type, c)
           all == ArticleSteps(e, type, c)
<1>1. own \in Seq(StepKinds)
  BY DEF CandidateSteps, StepsShape
<1>2. CASE type = "technical_scr"
  <2> DEFINE x == ResolutionEntry(e, own)
  <2>1. own = c.steps /\ OwnSteps(e, c) = own
    BY <1>2 DEF CandidateSteps, OwnSteps
  <2>2. all = WithEntryPoint(own, x)
    BY <1>2, <2>1 DEF ArticleSteps, ResolutionSteps, ResolutionEntry
  <2>3. x \in {"ssh", "rdp", "login", "none"}
    BY EntryNames
  <2> HIDE DEF own, all, x
  <2>4. \E entry : Entered(all, own, entry) /\ Len(entry) # 2
    BY <1>1, <2>2, <2>3, OneEntry
  <2> QED
    BY <2>4 DEF own, all
<1>3. CASE type = "howto_qa" /\ c.answers # <<>>
  <2> DEFINE y == AnswerEntryPoint(e, own)
  <2>1. own = c.answers
    BY <1>3 DEF CandidateSteps
  <2>2. all = WithEntryPoint(own, y)
    BY <1>3, <2>1 DEF ArticleSteps, AnswerSteps
  <2>3. y \in {"ssh", "rdp", "login", "none"}
    BY EntryNames
  <2> HIDE DEF own, all, y
  <2>4. \E entry : Entered(all, own, entry) /\ Len(entry) # 2
    BY <1>1, <2>2, <2>3, OneEntry
  <2> QED
    BY <2>4 DEF own, all
<1>4. CASE type = "howto_qa" /\ c.answers = <<>>
  <2> DEFINE inner == ResolutionSteps(e, c)
             x == ResolutionEntry(e, own)
             y == AnswerEntryPoint(e, inner)
  <2>1. c.solution \notin Texts /\ own = c.steps
    BY <1>4 DEF CandidateSteps
  <2>2. own # <<>> /\ OwnSteps(e, c) = own
    BY <2>1 DEF OwnSteps
  <2>3. inner = WithEntryPoint(own, x)
    BY <2>2 DEF ResolutionSteps, ResolutionEntry
  <2>4. all = WithEntryPoint(inner, y)
    BY <1>4, <2>1 DEF ArticleSteps, AnswerSteps
  <2> HIDE DEF own, all, inner
  <2>5. \E entry : Entered(all, own, entry)
    BY <1>1, <2>2, <2>3, <2>4, TwoEntries
  <2> QED
    BY <1>4, <2>5 DEF own, all
<1> QED
  BY <1>2, <1>3, <1>4 DEF ArticleTypes

LEMMA EntryTyped ==
  ASSUME NEW steps \in Seq(StepKinds), NEW x \in {"ssh", "rdp", "login", "none"}
  PROVE  WithEntryPoint(steps, x) \in Seq(StepKinds)
<1>1. CASE x # "none"
  <2>1. x \in StepKinds
    BY <1>1 DEF StepKinds
  <2>2. <<x>> \in Seq(StepKinds)
    BY <2>1
  <2>3. <<x>> \o steps \in Seq(StepKinds)
    BY <2>2
  <2> QED
    BY <2>3 DEF WithEntryPoint
<1>2. CASE x = "none"
  BY <1>2 DEF WithEntryPoint
<1> QED
  BY <1>1, <1>2

LEMMA ArticleStepsTyped ==
  ASSUME NEW e, NEW c, StepsShape(c), NEW type
  PROVE  ArticleSteps(e, type, c) \in Seq(StepKinds)
<1>1. OwnSteps(e, c) \in Seq(StepKinds) /\ <<"plain">> \in Seq(StepKinds)
  <2>1. <<"plain">> \in Seq(StepKinds) /\ <<>> \in Seq(StepKinds)
    BY DEF StepKinds
  <2> QED
    BY <2>1 DEF OwnSteps, StepsShape
<1>2. ResolutionSteps(e, c) \in Seq(StepKinds)
  <2> DEFINE steps == OwnSteps(e, c)
             x == ResolutionEntry(e, steps)
  <2>1. ResolutionSteps(e, c) = WithEntryPoint(steps, x) /\ steps \in Seq(StepKinds)
    BY <1>1 DEF ResolutionSteps, ResolutionEntry
  <2>2. x \in {"ssh", "rdp", "login", "none"}
    BY EntryNames
  <2> HIDE DEF steps, x
  <2> QED
    BY <2>1, <2>2, EntryTyped
<1>3. AnswerSteps(e, c) \in Seq(StepKinds)
  <2> DEFINE steps == IF c.answers # <<>> THEN c.answers
                      ELSE IF c.solution \in Texts THEN <<"plain">>
                      ELSE ResolutionSteps(e, c)
             y == AnswerEntryPoint(e, steps)
  <2>1. AnswerSteps(e, c) = WithEntryPoint(steps, y)
    BY Zenon DEF AnswerSteps
  <2>3. steps \in Seq(StepKinds)
    BY <1>1, <1>2, Zenon DEF StepsShape
  <2>2. y \in {"ssh", "rdp", "login", "none"}
    BY EntryNames
  <2> HIDE DEF steps, y
  <2> QED
    BY <2>1, <2>2, <2>3, EntryTyped
<1> QED
  BY <1>2, <1>3 DEF ArticleSteps

\* Whatever its resolution or its answers, and whatever the system: the list
\* items of an article hold every step of its candidate, in order, after the
\* entry points the renderer adds, which the steps do not have; and a support
\* block is with the step before it (renderer.py).
THEOREM SpecStepsKept == Spec => []StepsKept
<1>1. IInv => StepsKept
  <2> DEFINE e == evidence[1]
             d == decision[1]
             c == e.cands[1]
             article == packet[1].article[1]
             own == CandidateSteps(d.type, c)
             all == ArticleSteps(e, d.type, c)
  <2> SUFFICES ASSUME IInv, Rendered
               PROVE  LET sc == SelectedCandidate(evidence[1], decision[1])[1]
                          o == IF packet[1].article[1].type = "technical_scr" THEN sc.steps
                               ELSE IF sc.answers = <<>> /\ sc.solution \notin Texts
                               THEN sc.steps ELSE sc.answers
                      IN /\ o # <<>> =>
                              \E entry \in EntryPoints :
                                /\ FlattenSeq(packet[1].article[1].items) = entry \o o
                                /\ Range(entry) \cap Range(o) = {}
                                /\ Len(entry) = 2 =>
                                     packet[1].article[1].type = "howto_qa"
                                       /\ sc.answers = <<>>
                         /\ \A i \in DOMAIN packet[1].article[1].items :
                              /\ packet[1].article[1].items[i][1] = "block" => i = 1
                              /\ \A j \in 2 .. Len(packet[1].article[1].items[i]) :
                                   packet[1].article[1].items[i][j] = "block"
    BY DEF StepsKept
  <2>1. Grounds(e, reuse[1], d, c) /\ EvidenceShape(e)
        /\ packet[1].article = <<Article(e, d, c)>>
    BY GroundsOfRun
  <2> HIDE DEF e, d
  <2>2. SelectedCandidate(e, d)[1] = c /\ d.type \in ArticleTypes
    BY <2>1 DEF Grounds
  <2>3. StepsShape(c)
    <3>1. e.cands \in Seq(Range(e.cands)) /\ Len(e.cands) = 1
      BY <2>1 DEF Grounds, EvidenceShape
    <3>2. 1 \in DOMAIN e.cands
      BY <3>1
    <3> QED
      BY <2>1, <3>2 DEF EvidenceShape
  <2>4. article.type = d.type /\ article.items = MergeSupportBlocks(all)
    BY <2>1 DEF Article, ArticleItems, ArticleSteps
  <2>5. SelectedCandidate(evidence[1], decision[1])[1] = c
    BY <2>2 DEF e, d
  <2>6. all \in Seq(StepKinds)
    BY <2>3, ArticleStepsTyped
  <2>7. ItemsShape(article.items) /\ FlattenSeq(article.items) = all
    BY <2>4, <2>6, ItemsKept
  <2>8. ASSUME own # <<>>
        PROVE  \E entry \in EntryPoints :
                 /\ FlattenSeq(article.items) = entry \o own
                 /\ Range(entry) \cap Range(own) = {}
                 /\ Len(entry) = 2 => article.type = "howto_qa" /\ c.answers = <<>>
    <3>1. PICK entry :
            /\ Entered(all, own, entry)
            /\ Len(entry) = 2 => d.type = "howto_qa" /\ c.answers = <<>>
      BY <2>2, <2>3, <2>8, EnteredSteps
    <3>2. /\ entry \in EntryPoints /\ all = entry \o own
          /\ Range(entry) \cap Range(own) = {}
      BY <3>1 DEF Entered
    <3> QED
      BY <2>4, <2>7, <3>1, <3>2
  <2>9. own = IF article.type = "technical_scr" THEN c.steps
              ELSE IF c.answers = <<>> /\ c.solution \notin Texts THEN c.steps ELSE c.answers
    BY <2>4 DEF CandidateSteps
  <2>10. \A i \in DOMAIN article.items :
           /\ article.items[i][1] = "block" => i = 1
           /\ \A j \in 2 .. Len(article.items[i]) : article.items[i][j] = "block"
    BY <2>7 DEF ItemsShape
  <2> DEFINE sc == SelectedCandidate(evidence[1], decision[1])[1]
             o == IF article.type = "technical_scr" THEN sc.steps
                  ELSE IF sc.answers = <<>> /\ sc.solution \notin Texts
                  THEN sc.steps ELSE sc.answers
  <2> HIDE DEF c, own, all
  <2>11. sc = c /\ o = own
    BY <2>5, <2>9
  <2>12. o # <<>> =>
           \E entry \in EntryPoints :
             /\ FlattenSeq(article.items) = entry \o o
             /\ Range(entry) \cap Range(o) = {}
             /\ Len(entry) = 2 => article.type = "howto_qa" /\ sc.answers = <<>>
    <3> HIDE DEF o, sc
    <3> QED
      BY <2>8, <2>11
  <2> QED
    BY <2>10, <2>12, Zenon
<1> QED
  BY <1>1, SpecIInv, PTL
=============================================================================
