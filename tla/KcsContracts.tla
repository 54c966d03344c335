---------------------------- MODULE KcsContracts ----------------------------
(***************************************************************************)
(* What a packet of the library checks of itself whenever it is made or    *)
(* read back from JSON: the enumerations it may use and the fields that    *)
(* constrain one another (kcs_core/models.py, and the packet classes of    *)
(* claude_handoff.py and claude_draft.py).  Every packet is written and    *)
(* read back unchanged; which strings are safe is decided elsewhere.       *)
(***************************************************************************)
EXTENDS KcsDrafting

RecommendedActions == ArticleActions \cup
  {"reuse_existing", "split_required", "no_article", "blocked"}

AnyArticleType == ArticleTypes \cup {"none"}
DecisionStatuses == {"decision_ready", "split_required", "blocked"}

ReadinessStates == {"ready_for_reviewer", "blocked", "draft_required", "review_blocked"}

RequiredNextSteps ==
  {"none", "fix_evidence", "run_reuse_search", "render_reviewer_packet",
   "fix_reviewer_packet", "review_split_items"}

EvidenceAccepted(e) ==
  /\ e.cause \in Texts \cup {NoText} /\ e.solution \in Texts \cup {NoText}
  /\ {e.symptoms, e.facts, e.questions} \subseteq BOOLEAN

DecisionAccepted(d) ==
  d.action \in RecommendedActions /\ d.type \in AnyArticleType /\ d.status \in DecisionStatuses

ReviewerPacketAccepted(p) == p.action \in RecommendedActions

\* Ready is nothing left to do; not ready is a next step and a reason.
ReportStateAccepted(r) ==
  IF r.state = "ready_for_reviewer" THEN r.next = "none" /\ r.blockers = {}
  ELSE r.next # "none" /\ r.blockers # {}

ReportAccepted(r) ==
  /\ r.state \in ReadinessStates /\ r.next \in RequiredNextSteps
  /\ r.ready <=> r.state = "ready_for_reviewer"
  /\ ReportStateAccepted(r)
  /\ r.action \in RecommendedActions

HandoffAccepted(h) ==
  /\ h.original.action \in RecommendedActions /\ h.original.type \in AnyArticleType
  /\ h.original.status \in DecisionStatuses /\ h.original.state \in ReadinessStates

\* A request needs what its handoff needed, and an article that is ready.
DraftRequestAccepted(q) == HandoffAccepted(q) /\ DraftEligible(q)

\* An artifact looks at the response it holds once more.
DraftArtifactAccepted(a) ==
  /\ DraftWellFormed(a.response) /\ a.response.status = "accepted"
  /\ DraftMatches(a.response, a)

Accepted(name, value) ==
  CASE name = "evidence" -> EvidenceAccepted(value)
    [] name = "decision" -> DecisionAccepted(value)
    [] name = "packet"   -> ReviewerPacketAccepted(value)
    [] name = "report"   -> ReportAccepted(value)
    [] name = "handoff"  -> HandoffAccepted(value)
    [] name = "request"  -> DraftRequestAccepted(value)
    [] name = "response" -> DraftWellFormed(value)
    [] name = "draft"    -> DraftArtifactAccepted(value)
    [] OTHER -> TRUE
=============================================================================
