---------------------------- MODULE KcsDrafting ----------------------------
(***************************************************************************)
(* The reviewer-assist handoff and the reviewer-only draft that a provider *)
(* may be asked for: kcs_core/claude_handoff.py, kcs_core/claude_draft.py. *)
(* A provider answers anything; what it answers is checked against the     *)
(* request, and whatever does not pass is replaced by a failed response.   *)
(***************************************************************************)
EXTENDS KcsReadiness

\* The decision a request was made for, which an answer may repeat but not
\* change.  A field the answer leaves out is NotSaid.
Original(d, r) ==
  [action |-> d.action, type |-> d.type, status |-> d.status, state |-> r.state]

NotSaid == [action |-> "", type |-> "", status |-> "", state |-> ""]

Agrees(said, original) == \A f \in DOMAIN original : said[f] \in {"", original[f]}

-----------------------------------------------------------------------------
(* Handoff *)

\* Codes a handoff cannot carry: too long, or naming what it must not hold.
HandoffUnsafeCodes ==
  {LongCode, NotACode, PrivateCode, "reviewer_packet_missing",
   "reviewer_packet_case_ref_mismatch", "reviewer_packet_decision_mismatch"}

\* What a handoff tells of the decision and of the report.
ContextCodes(d, r) == d.blockers \cup r.blockers \cup r.warnings

ContextRefused(d, r, hint) ==
  \/ ContextCodes(d, r) \cap HandoffUnsafeCodes # {}
  \/ hint = "forbidden"                 \* the title or summary to quote

HandoffRefused(d, r, hint) ==
  \/ ContextRefused(d, r, hint)
  \/ d.cand \in {"spaced", "forbidden"}
  \/ r.case \in {"spaced", "forbidden"}

HandoffRequest(d, r, ref) ==
  [ref |-> ref, case |-> r.case, item |-> d.cand, original |-> Original(d, r),
   override |-> d.override, decision |-> d, report |-> r]

AssistFailed(handoff) ==
  [ref |-> handoff.ref, status |-> "failed", error |-> TRUE, notes |-> FALSE,
   original |-> handoff.original]

AssistValid(response, handoff) ==
  /\ response.error <=> response.status # "accepted"
  /\ response.notes => response.status = "accepted"
  /\ response.ref = handoff.ref
  /\ Agrees(response.original, handoff.original)

\* answer is a sequence of at most one response: none when the provider fails.
SubmitHandoff(handoff, answer) ==
  IF answer # <<>> /\ AssistValid(answer[1], handoff) THEN answer[1]
  ELSE AssistFailed(handoff)

-----------------------------------------------------------------------------
(* The HTML a draft may carry: tokens in the order fed to the parser,      *)
(* checked with a stack of open tags. A tag opens, closes, or closes       *)
(* itself (<br/>); its attributes are none, a safe href alone, or other.   *)

VoidTags == {"br"}
AllowedTags == {"p", "li", "br", "a"}

AttrsFit(token) ==
  token.kind # "close" => token.attrs = IF token.tag = "a" THEN "href" ELSE "none"

\* The stack after a token, or <<"refused">> for ever.
FeedTag(stack, token) ==
  IF \/ stack = <<"refused">> \/ token.tag \notin AllowedTags \/ ~ AttrsFit(token)
     \/ token.kind = "self" /\ token.tag \notin {"a", "br"}
     \/ /\ token.kind = "close"
        /\ token.tag \in VoidTags \/ stack = <<>> \/ Last(stack) # token.tag
  THEN <<"refused">>
  ELSE IF token.kind = "close" THEN Front(stack)
  ELSE IF token.kind = "open" /\ token.tag \notin VoidTags THEN Append(stack, token.tag)
  ELSE stack

HtmlAccepted(tokens) == FoldLeft(FeedTag, <<>>, tokens) = <<>>

-----------------------------------------------------------------------------
(* Draft request and response *)

DraftEligible(handoff) ==
  /\ handoff.original.action \in ArticleActions
  /\ handoff.original.type # "none"
  /\ handoff.original.status = "decision_ready"
  /\ handoff.original.state = "ready_for_reviewer"

DraftRequest(handoff, ref) ==
  [ref |-> ref, handoff |-> handoff.ref, case |-> handoff.case,
   item |-> handoff.item, original |-> handoff.original]

DraftFailed(request) ==
  [handoff |-> request.handoff, status |-> "failed", error |-> TRUE,
   type |-> request.original.type, parts |-> {}, claims |-> FALSE,
   html |-> <<>>, original |-> request.original]

\* The texts of a draft: its sections and what stands around them.
DraftSections(type) ==
  CASE type = "technical_scr" -> {"symptoms", "cause", "resolution"}
    [] type = "howto_qa" -> {"question", "answer"}

OptionalSections(type) == IF type = "technical_scr" THEN {"additional"} ELSE {}

\* Mutant: a section that is missing is not missed.
SectionsFitEach(response) ==
  IF response.status # "accepted" THEN response.parts = {}
  ELSE response.parts \subseteq DraftSections(response.type)
         \cup OptionalSections(response.type) \cup {"title", "applicable", "notes"}

SectionsFit(response) ==
  IF response.status # "accepted" THEN response.parts = {}
  ELSE /\ response.type # "none"
       /\ DraftSections(response.type) \subseteq response.parts
       /\ response.parts \subseteq
            DraftSections(response.type) \cup OptionalSections(response.type)
              \cup {"title", "applicable", "notes"}

AcceptedShape(response) ==
  response.status = "accepted" =>
    /\ "title" \in response.parts
    /\ response.type = "technical_scr" => "applicable" \in response.parts

\* The shape a response must have whatever was asked.
DraftWellFormed(response) ==
  /\ response.error <=> response.status # "accepted"
  /\ ~ response.claims                   \* unsupported or internal content
  /\ SectionsFit(response)
  /\ AcceptedShape(response)
  /\ response.html # <<>> => response.status = "accepted"
  /\ HtmlAccepted(response.html)

DraftMatches(response, asked) ==
  /\ response.handoff = asked.handoff
  /\ response.type = asked.original.type
  /\ Agrees(response.original, asked.original)

SubmitDraftRequest(request, answer) ==
  IF answer # <<>> /\ DraftWellFormed(answer[1]) /\ DraftMatches(answer[1], request)
  THEN answer[1] ELSE DraftFailed(request)

\* A response may be checked against another request than the one it answered.
ArtifactRefused(request, response) ==
  \/ ~ DraftMatches(response, request)
  \/ response.status # "accepted"

DraftArtifact(request, response) ==
  [draft |-> request.ref, handoff |-> request.handoff, case |-> request.case,
   item |-> request.item, original |-> request.original, response |-> response]
=============================================================================
