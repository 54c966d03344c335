---------------------------- MODULE KcsReadiness ----------------------------
(***************************************************************************)
(* The readiness report of a decision and its reviewer packet:             *)
(* kcs_core/readiness.py and the checks KcsValidationReportPacket makes on *)
(* itself.  A packet is a sequence of at most one; the report holds the    *)
(* packet where the code holds its SHA-256.                                *)
(***************************************************************************)
EXTENDS KcsRenderer

SplitCompatible == {"evidence_not_atomic", "multi_issue"}
ReuseSearchBlockers == {"possible_duplicate_not_checked", "reuse_search_status_missing"}
NoArticleCodes == {NoArticleReasons[i] : i \in DOMAIN NoArticleReasons}

\* A code reports cannot carry is replaced by one that says so.
SafeCodes(codes) ==
  (codes \ {LongCode, NotACode})
    \cup Raised({<<"blockers_unsafe_report_code", codes \cap {LongCode, NotACode} # {}>>})

Outcome(state, next, blockers) ==
  [state |-> state, next |-> next, blockers |-> SafeCodes(blockers)]

SplitDecisionOutcome(found) ==
  IF found \subseteq SplitCompatible
  THEN Outcome("review_blocked", "review_split_items", {"split_required"})
  ELSE Outcome("blocked", "fix_evidence", found)

BlockedDecisionOutcome(d) ==
  LET blockers == IF d.blockers = {} THEN {"decision_blocked"} ELSE d.blockers
  IN Outcome("blocked",
             IF blockers \cap ReuseSearchBlockers # {} THEN "run_reuse_search"
             ELSE "fix_evidence", blockers)

ConsistencyBlockers(d) ==
  LET unexpected == IF d.action = "no_article" THEN d.blockers \ NoArticleCodes
                    ELSE d.blockers
  IN Raised({<<"decision_status_mismatch", d.status # "decision_ready">>,
             <<"decision_blockers_present",
               d.status = "decision_ready" /\ unexpected # {}>>})

-----------------------------------------------------------------------------
(* The packet against the decision *)

DraftMissing(d, p) == d.action \in ArticleActions /\ p.article = <<>>

RendererStatusExpected(d) ==
  d.action \in ArticleActions \cup {"no_article", "reuse_existing"}

\* Mutant: the reason for having no article counts as a blocker.
PacketBlockersAll(e, d, p) ==
  Raised({<<"reviewer_packet_case_ref_mismatch", p.case # e.case>>,
          <<"reviewer_packet_decision_mismatch", p.action # d.action>>})
    \cup SafeCodes(p.blockers)

PacketBlockers(e, d, p) ==
  Raised({<<"reviewer_packet_case_ref_mismatch", p.case # e.case>>,
          <<"reviewer_packet_decision_mismatch", p.action # d.action>>,
          <<"unexpected_public_article_output",
            d.action \notin ArticleActions /\ p.article # <<>> >>,
          <<"renderer_status_mismatch",
            /\ ~ DraftMissing(d, p)
            /\ RendererStatusExpected(d)
            /\ p.status # RendererStatus(d)>>})
    \cup IF d.action = "no_article"
         THEN IF LongCode \in p.blockers THEN SafeCodes(p.blockers)
              ELSE p.blockers \ (d.blockers \cap NoArticleCodes)
         ELSE p.blockers

ReadinessOutcome(e, d, packet) ==
  LET found == EvidenceBlockers(e)
      blocked == d.status = "blocked" \/ d.action = "blocked"
  IN IF d.action = "split_required" THEN SplitDecisionOutcome(found)
     ELSE IF found # {} THEN Outcome("blocked", "fix_evidence", found)
     ELSE IF blocked THEN BlockedDecisionOutcome(d)
     ELSE IF ConsistencyBlockers(d) # {}
     THEN Outcome("review_blocked", "fix_reviewer_packet", ConsistencyBlockers(d))
     ELSE IF packet = <<>>
     THEN Outcome("draft_required", "render_reviewer_packet",
                  {"reviewer_packet_missing"})
     ELSE IF PacketBlockers(e, d, packet[1]) # {}
     THEN Outcome("review_blocked", "fix_reviewer_packet",
                  PacketBlockers(e, d, packet[1]))
     ELSE IF DraftMissing(d, packet[1])
     THEN Outcome("draft_required", "render_reviewer_packet",
                  {"public_article_output_missing"})
     ELSE Outcome("ready_for_reviewer", "none", {})

-----------------------------------------------------------------------------

\* The report refuses to hold a code that names something private.
ReportRefused(e, d, packet) ==
  \/ PrivateCode \in d.blockers
  \/ packet # <<>> /\ PrivateCode \in packet[1].blockers

ValidationReport(e, d, packet) ==
  LET out == ReadinessOutcome(e, d, packet)
  IN [case |-> e.case, state |-> out.state, next |-> out.next,
      blockers |-> out.blockers, warnings |-> EvidenceWarnings(e),
      ready |-> out.state = "ready_for_reviewer", action |-> d.action,
      packet |-> packet]
=============================================================================
