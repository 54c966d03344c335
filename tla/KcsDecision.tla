---------------------------- MODULE KcsDecision ----------------------------
(***************************************************************************)
(* The deterministic KCS action decision: kcs_core/decision.py.  A match   *)
(* is an element of a sequence of at most one, blockers are sets of codes. *)
(***************************************************************************)
EXTENDS KcsEvidence

ArticleActions == {"create_candidate", "update_existing", "flag_existing"}
ArticleTypes == {"technical_scr", "howto_qa"}

\* Codes a reuse search may report: NotACode is not a code at all, LongCode
\* has more than 80 characters, PrivateCode holds a fragment reports refuse.
NotACode == "search failed"
LongCode == "search_failed_for_a_very_long_reason"
PrivateCode == "private_index_unavailable"

SafeReuseBlockers(codes) ==
  (codes \ {NotACode})
    \cup Raised({<<"unsafe_reuse_search_blocker", NotACode \in codes>>})

-----------------------------------------------------------------------------
(* What the evidence and the candidate say *)

ArticleType(e, c) ==
  IF c.type # NoText THEN IF c.type \in ArticleTypes THEN c.type ELSE "none"
  ELSE IF e.cause # NoText THEN "technical_scr"
  ELSE IF c.question # NoText THEN "howto_qa" ELSE "none"

\* The reasons not to write an article, in the order the code tries them.
NoArticleReasons == <<"no_customer_reported_issue", "kcs_not_applicable",
  "no_supported_answer", "customer_specific", "third_party_only",
  "third_party_generic", "unsupported_public_article">>

NoArticleBlocker(c) ==
  FirstWhere(NoArticleReasons, LAMBDA reason :
    /\ reason \in c.marks
    /\ reason = "no_customer_reported_issue" => "support_discovered" \notin c.marks)

\* decision.py reads the classes but not the single "visibility" field.
InternalOnly(e, c) ==
  \/ c.publicSafe = "no"
  \/ e.visibilityField = "classes" /\ "internal_reviewer_only" \in e.visibility

CandidateId(e, c, fallback) == IF c.id = NoText THEN fallback ELSE c.id

-----------------------------------------------------------------------------
(* Reuse matches *)

SameText(a, b) == a \in Texts /\ a = b
OwnText(own, root) == IF own \in Texts THEN own ELSE root

IdentityMatches(e, c, type, m) ==
  /\ SameText(m.solution, OwnText(c.solution, e.solution))
  /\ CASE type = "technical_scr" -> SameText(m.cause, OwnText(c.cause, e.cause))
       [] type = "howto_qa" -> SameText(m.question, c.question)
       [] OTHER -> FALSE

MatchesForCandidate(matches, c) ==
  Matching(matches, LAMBDA m : m.cand \in {NoText, c.id})

\* Mutant: the first match of the identity, whatever its status.
SelectFirstMatch(e, c, type, matches) ==
  FirstWhere(matches, LAMBDA m : m.type = type /\ IdentityMatches(e, c, type, m))

SelectMatch(e, c, type, matches) ==
  LET same == Matching(matches, LAMBDA m :
               m.type = type /\ IdentityMatches(e, c, type, m))
      exact == FirstWhere(same, LAMBDA m :
                m.status \in {"complete", "incomplete", "outdated", "partial"})
  IN IF exact # <<>> THEN exact
     ELSE FirstWhere(same, LAMBDA m : m.status = "incorrect")

ActionForMatch(m) ==
  IF m.status = "complete" THEN "reuse_existing"
  ELSE IF m.status = "incorrect" \/ m.public THEN "flag_existing"
  ELSE "update_existing"

-----------------------------------------------------------------------------
(* The decision packet *)

OverrideAllowed(action, blockers) ==
  IF action = "blocked" THEN blockers = {"internal_only_solution"}
  ELSE /\ action \in {"reuse_existing", "no_article", "flag_existing"}
       /\ blockers \cap {"unsafe_input", "missing_supported_resolution",
            "open_questions_present", "possible_duplicate_not_checked",
            "reuse_search_status_missing", "no_supported_answer"} = {}

Packet(e, c, action, type, blockers, match) ==
  [cand |-> CandidateId(e, c, e.case), action |-> action, type |-> type,
   blockers |-> blockers, match |-> match, items |-> <<>>,
   case |-> e.case, refs |-> {r \in e.refs : SafeMetadata(r)},
   status |-> IF action \in {"blocked", "split_required"} THEN action
              ELSE "decision_ready",
   override |-> OverrideAllowed(action, blockers)]

Blocked(e, c, type, blockers) == Packet(e, c, "blocked", type, blockers, <<>>)

\* No article, or nothing public to say: the two answers no search changes.
Excluded(e, c, type) ==
  IF NoArticleBlocker(c) # <<>>
  THEN <<Packet(e, c, "no_article", type, {NoArticleBlocker(c)[1]}, <<>>)>>
  ELSE IF InternalOnly(e, c)
  THEN <<Blocked(e, c, type, {"internal_only_solution"})>> ELSE <<>>

DecisionForReadyEvidence(e, c, matches) ==
  LET type == ArticleType(e, c)
      match == SelectMatch(e, c, type, matches)
  IN IF Excluded(e, c, type) # <<>> THEN Excluded(e, c, type)[1]
     ELSE IF match # <<>>
     THEN Packet(e, c, ActionForMatch(match[1]), type, {}, match)
     ELSE Packet(e, c, "create_candidate", type, {}, <<>>)

-----------------------------------------------------------------------------
(* Several candidates: one preliminary card for each *)

ReuseSearchStatus(c, reuse) ==
  IF ~ reuse.searched THEN "missing" ELSE c.reuseStatus

\* Mutant: a card looks at the matches of its siblings too.
DecisionForSplitItemOfAll(e, c, rootBlockers, reuse) ==
  IF EvidenceBlockers(e) # {} THEN Blocked(e, c, "none", EvidenceBlockers(e))
  ELSE IF ReuseSearchStatus(c, reuse) # "checked" \/ reuse.blockers # {}
  THEN Blocked(e, c, "none", {"reuse_search_status_missing"})
  ELSE DecisionForReadyEvidence(e, c, reuse.matches)

DecisionForSplitItem(e, c, rootBlockers, reuse) ==
  LET type == ArticleType(e, c)
      codes == SafeReuseBlockers(reuse.blockers)
      unchecked == Raised({<<"reuse_search_status_missing",
                             ReuseSearchStatus(c, reuse) # "checked">>})
  IN IF "open_questions_present" \in rootBlockers
     THEN Blocked(e, c, type, {"open_questions_present"})
     ELSE IF EvidenceBlockers(e) # {} THEN Blocked(e, c, type, EvidenceBlockers(e))
     ELSE IF Excluded(e, c, type) # <<>> THEN Excluded(e, c, type)[1]
     ELSE IF unchecked \cup codes # {} THEN Blocked(e, c, "none", unchecked \cup codes)
     ELSE DecisionForReadyEvidence(e, c, MatchesForCandidate(reuse.matches, c))

SplitItem(e, i, rootBlockers, reuse) ==
  LET c == e.cands[i]
      d == DecisionForSplitItem(CandidateEvidence(e, c), c, rootBlockers, reuse)
  IN [cand |-> CandidateId(e, c, i), action |-> d.action, type |-> d.type,
      status |-> d.status, blockers |-> d.blockers, match |-> d.match,
      override |-> d.override, reuseStatus |-> ReuseSearchStatus(c, reuse)]

SplitRequiredPacket(e, reuse, blockers) ==
  [Packet(e, e.cands[1], "split_required", "none", blockers \cap SplitBlockers, <<>>)
    EXCEPT !.cand = e.case,
           !.items = [i \in DOMAIN e.cands |-> SplitItem(e, i, blockers, reuse)]]

-----------------------------------------------------------------------------

NoCandidate == [id |-> NoText]

DecideKcsAction(e, reuse) ==
  LET blockers == EvidenceBlockers(e)
      c == IF e.cands = <<>> THEN NoCandidate ELSE e.cands[1]
      codes == SafeReuseBlockers(reuse.blockers)
      unchecked == Raised({<<"possible_duplicate_not_checked", ~ reuse.searched>>})
      splitting == /\ "unsafe_input" \notin blockers
                   /\ blockers \cap SplitBlockers # {}
  IN IF splitting /\ Len(e.cands) > 1 THEN SplitRequiredPacket(e, reuse, blockers)
     ELSE IF splitting
     THEN Packet(e, c, "split_required", "none", blockers, <<>>)
     ELSE IF blockers \cup unchecked \cup codes # {}
     THEN Blocked(e, c, "none", IF blockers # {} THEN blockers ELSE unchecked \cup codes)
     ELSE DecisionForReadyEvidence(e, c, MatchesForCandidate(reuse.matches, c))
=============================================================================
