---------------------------- MODULE KcsEvidence ----------------------------
(***************************************************************************)
(* The gates on a normalized ticket evidence packet: kcs_core/safety.py    *)
(* and kcs_core/validation.py, and the view of one issue candidate that    *)
(* kcs_core/decision.py derives for a split item.                          *)
(*                                                                         *)
(* A text is abstracted to a key: two texts have one key exactly when      *)
(* _identity_text makes them equal.  A reference (case, source, match) is  *)
(* one of the four kinds of References, after what the gates accept.       *)
(***************************************************************************)
EXTENDS Lists

CONSTANTS Texts, NoText, Inherit

ASSUME TextsAssumption == {NoText, Inherit} \cap Texts = {} /\ NoText # Inherit

\* "plain" passes every gate; "spaced" is not a metadata value; "fragment" is
\* one but holds a fragment the renderer refuses; "forbidden" is refused by
\* the safety gate as a source reference.
References == {"plain", "spaced", "fragment", "forbidden"}
SafeMetadata(ref) == ref \in {"plain", "fragment"}

\* The texts of a table of <<text, condition>> rows whose condition holds.
Raised(table) == {row[1] : row \in {r \in table : r[2]}}

-----------------------------------------------------------------------------
(* kcs_core/safety.py *)

KnownVisibility == {"public_customer_safe", "customer_context_only",
                    "internal_reviewer_only", "unsafe_private"}

SafetyBlockers(e) == Raised({
  <<"unknown_input_class", ~ e.knownClass>>,
  <<"sanitizer_not_passed", "negative" \in e.sanitizer \/ "pass" \notin e.sanitizer>>,
  <<"unknown_visibility_class",
    e.visibility = {} \/ ~ e.visibility \subseteq KnownVisibility>>,
  <<"unsafe_visibility", "unsafe_private" \in e.visibility>>,
  <<"internal_evidence_not_approved",
    "internal_reviewer_only" \in e.visibility /\ ~ e.internalApproved>>,
  <<"unsafe_source_ref", "forbidden" \in e.refs>>,
  <<"unsafe_text", e.text = "private">>})

-----------------------------------------------------------------------------
(* kcs_core/validation.py *)

SplitBlockers == {"multi_issue", "evidence_not_atomic"}

IssueCandidateBlockers(cands) ==
  IF cands = <<>> THEN {"missing_issue_candidate"}
  ELSE IF Len(cands) > 1 THEN {"multi_issue"}
  ELSE Raised({<<"evidence_not_atomic", cands[1].split>>})

EvidenceBlockers(e) ==
  Raised({<<"unsafe_input", SafetyBlockers(e) # {}>>,
          <<"missing_source_ref", e.refs = {}>>,
          <<"missing_symptoms", ~ e.symptoms>>,
          <<"missing_confirmed_facts", ~ e.facts>>,
          <<"missing_supported_resolution", e.solution = NoText>>,
          <<"open_questions_present", e.questions>>})
    \cup IssueCandidateBlockers(e.cands)

EvidenceWarnings(e) == Raised({<<"missing_supported_cause", e.cause = NoText>>})

-----------------------------------------------------------------------------
(* decision.py: the packet of one candidate.  A field the candidate does   *)
(* not carry is taken from the ticket, open questions excepted.            *)

Own(own, root) == IF own = Inherit THEN root ELSE own

CandidateEvidence(e, c) ==
  [e EXCEPT !.refs      = IF c.refs = {} THEN @ ELSE c.refs,
            !.cands     = <<c>>,
            !.symptoms  = IF c.symptoms = Inherit THEN c.summary \/ @
                          ELSE c.symptoms = "own",
            !.facts     = IF c.facts = Inherit THEN @ ELSE c.facts = "own",
            !.cause     = Own(c.cause, @),
            !.solution  = Own(c.solution, @),
            !.questions = c.questions]
=============================================================================
