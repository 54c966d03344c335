--------------------------- MODULE MCKcsAuthoring ---------------------------
(* Inputs that differ from a good one in at most two fields. *)
EXTENDS KcsAuthoring

\* The records that differ from r in at most one field, by the values tries
\* (a set of <<field, values>>) gives the field.
Near(r, tries) ==
  {r} \cup UNION {{[r EXCEPT ![try[1]] = v] : v \in try[2]} : try \in tries}
NearTwice(r, tries) == UNION {Near(q, tries) : q \in Near(r, tries)}

GoodCandidate ==
  [id |-> "a", type |-> "technical_scr", question |-> NoText, cause |-> Inherit,
   solution |-> Inherit, refs |-> {}, symptoms |-> Inherit, facts |-> Inherit,
   summary |-> TRUE, questions |-> FALSE, split |-> FALSE, marks |-> {},
   publicSafe |-> "yes", reuseStatus |-> "checked",
   steps |-> <<"server", "block">>, answers |-> <<>>]

HowTo == [GoodCandidate EXCEPT !.type = "howto_qa", !.question = "other",
                               !.answers = <<"gui", "block", "plain">>]

Candidates == NearTwice(GoodCandidate, {
  <<"id", {NoText, "fragment"}>>, <<"type", {NoText, "howto_qa", "comparison"}>>,
  <<"question", {"other"}>>, <<"solution", {"other", NoText}>>,
  <<"split", {TRUE}>>, <<"questions", {TRUE}>>, <<"publicSafe", {"no", "unstated"}>>,
  <<"marks", {{"customer_specific"}, {"no_customer_reported_issue", "support_discovered"},
              {"no_supported_answer", "third_party_only"}}>>,
  <<"reuseStatus", {"missing"}>>, <<"refs", {{"forbidden"}}>>,
  <<"steps", {<<>>, <<"block", "windows", "block", "rdp">>, <<"plain", "plain", "plain", "gui">>}>>})
    \cup Near(HowTo, {<<"answers", {<<>>, <<"block", "server">>}>>, <<"solution", {"other"}>>})
    \cup {[HowTo EXCEPT !.answers = <<>>, !.steps = steps] : steps \in {<<"gui">>, <<"login", "windows">>}}

GoodEvidence ==
  [case |-> "plain", knownClass |-> TRUE, sanitizer |-> {"pass"},
   visibility |-> {"public_customer_safe"}, visibilityField |-> "classes",
   internalApproved |-> FALSE, refs |-> {"plain"}, text |-> "clean",
   symptoms |-> TRUE, facts |-> TRUE, questions |-> FALSE, cause |-> "cause",
   solution |-> "fix", cands |-> <<GoodCandidate>>, env |-> "linux"]

Internal == {"public_customer_safe", "internal_reviewer_only"}

Tries == {
  <<"case", {"fragment"}>>, <<"knownClass", {FALSE}>>,
  <<"sanitizer", {{}, {"pass", "negative"}}>>,
  <<"visibility", {Internal, {"unknown"}, {"customer_context_only"}}>>,
  <<"visibilityField", {"visibility"}>>, <<"internalApproved", {TRUE}>>,
  <<"refs", {{}, {"forbidden"}, {"spaced"}, {"fragment"}}>>,
  <<"text", {"doc_address", "private"}>>,
  <<"facts", {FALSE}>>, <<"questions", {TRUE}>>, <<"cause", {NoText, "other"}>>,
  <<"solution", {NoText, "other"}>>, <<"env", {"windows", "other"}>>}

Second == [GoodCandidate EXCEPT !.id = "b", !.type = NoText, !.question = "other",
                                !.reuseStatus = "missing"]

Evidences ==
  NearTwice(GoodEvidence, Tries \cup {<<"cands", {<<>>, <<HowTo>>, <<GoodCandidate, Second>>}>>})
    \cup {[GoodEvidence EXCEPT !.cands = <<c>>] : c \in Candidates}
    \cup {[GoodEvidence EXCEPT !.cands = <<c, Second>>, !.env = env] :
            c \in Candidates, env \in {"linux"}}
    \cup {[GoodEvidence EXCEPT !.visibility = Internal, !.internalApproved = TRUE,
                               !.cands = cs] : cs \in {<<GoodCandidate>>, <<Second, HowTo>>}}

GoodMatch ==
  [cand |-> "a", type |-> "technical_scr", cause |-> "cause", question |-> NoText,
   solution |-> "fix", status |-> "complete", public |-> TRUE, ref |-> "plain"]

Matches == NearTwice(GoodMatch, {<<"cand", {NoText, "b"}>>, <<"type", {"howto_qa"}>>,
  <<"cause", {NoText, "other"}>>, <<"question", {"other"}>>, <<"solution", {NoText, "other"}>>,
  <<"status", {"incorrect", "partial"}>>, <<"public", {FALSE}>>,
  <<"ref", {"fragment", "spaced"}>>})

Searched == [searched |-> TRUE, blockers |-> {}, matches |-> <<>>]

Incorrect == [GoodMatch EXCEPT !.status = "incorrect"]

Reuses ==
  {Searched, [Searched EXCEPT !.searched = FALSE],
   [Searched EXCEPT !.matches = <<Incorrect, GoodMatch>>],
   [Searched EXCEPT !.searched = FALSE, !.matches = <<GoodMatch>>]}
    \cup {[Searched EXCEPT !.blockers = b] : b \in {{NotACode}, {LongCode}, {PrivateCode}, {"index_stale"}}}

MatchReuses == {[Searched EXCEPT !.matches = <<m>>] : m \in Matches}
                 \cup {[Searched EXCEPT !.matches = <<Incorrect, m>>] : m \in Matches}

MCCliInputs ==
  {[command |-> "run", evidence |-> e, reuse |-> r] : e \in Evidences, r \in Reuses}
    \cup {[command |-> "run", evidence |-> [GoodEvidence EXCEPT !.cands = cs], reuse |-> r] :
            cs \in {<<GoodCandidate>>, <<HowTo>>, <<GoodCandidate, Second>>}, r \in MatchReuses}
    \cup {[command |-> c, evidence |-> e, reuse |-> Searched] :
            c \in {"decide", "validate-evidence"}, e \in Near(GoodEvidence, Tries)}

GoodItem ==
  [type |-> "technical_scr", id |-> NoText, env |-> "linux", steps |-> <<"server", "block">>,
   answers |-> <<>>, details |-> <<"executable", "informational">>, cause |-> "cause",
   resolution |-> "fix", answer |-> NoText, question |-> NoText, questions |-> FALSE,
   uncertain |-> FALSE, complete |-> TRUE, text |-> "clean", hint |-> "ok",
   names |-> FALSE, reuseChecked |-> FALSE]

MCItems == NearTwice(GoodItem, {
  <<"type", {"none", "howto_qa"}>>, <<"id", {"a", "spaced", "fragment"}>>,
  <<"env", {"none", "windows"}>>, <<"steps", {<<>>, <<"block", "gui", "plain", "plain", "plain">>}>>,
  <<"answers", {<<"gui", "block">>}>>,
  <<"details", {<<"executable", "vague">>, <<"executable", "vague", "informational">>,
                <<"vague", "destructive">>, <<"informational", "informational">>}>>,
  <<"cause", {NoText}>>, <<"resolution", {NoText}>>, <<"answer", {"other"}>>,
  <<"question", {"other"}>>, <<"questions", {TRUE}>>, <<"uncertain", {TRUE}>>,
  <<"complete", {FALSE}>>, <<"text", {"private"}>>, <<"hint", {"forbidden"}>>,
  <<"names", {TRUE}>>, <<"reuseChecked", {TRUE}>>})

GoodSemantic ==
  [id |-> "a", relation |-> "plesk_owned", supportability |-> "supported",
   basis |-> "not_checked", status |-> "candidate_allowed",
   origin |-> "customer_reported", type |-> "technical_scr",
   visibility |-> "public_customer_safe", eol |-> "unclear", symptoms |-> TRUE,
   facts |-> TRUE, questions |-> FALSE, cause |-> "cause", solution |-> "fix",
   question |-> NoText, answer |-> NoText, steps |-> <<"server", "block">>,
   details |-> <<"executable", "informational">>, env |-> "linux",
   action |-> FALSE, uncertain |-> FALSE, names |-> FALSE, safe |-> TRUE]

\* The classifications, each on an item whose content is good.
Classified == NearTwice(GoodSemantic, {
  <<"relation", {"generic_third_party", "customer_environment_specific", SupportProvided, "unclear"}>>,
  <<"supportability", {"unsupported", "eol_only", "unclear"}>>,
  <<"basis", {"explicit_input_mention"}>>,
  <<"status", {"internal_only_candidate", "no_article", "blocked_need_more_evidence", "published"}>>,
  <<"visibility", {"internal_reviewer_only", "customer_context_only", "unsafe_private", "unclear"}>>})

ClassifiedEol ==
  {[it EXCEPT !.eol = role] : it \in Classified,
     role \in {"affected_runtime", "source_for_migration_or_upgrade", "historical_context"}}
    \cup {[it EXCEPT !.status = "internal_only_candidate",
                      !.visibility = "internal_reviewer_only"] : it \in Classified}

Contents == NearTwice(GoodSemantic, {
  <<"id", {"spaced"}>>, <<"type", {"howto_qa", "none"}>>, <<"cause", {NoText}>>,
  <<"origin", {"support_discovered"}>>, <<"solution", {NoText}>>, <<"answer", {"other"}>>,
  <<"question", {"other"}>>, <<"questions", {TRUE}>>, <<"symptoms", {FALSE}>>,
  <<"facts", {FALSE}>>, <<"steps", {<<>>}>>, <<"action", {TRUE}>>, <<"uncertain", {TRUE}>>,
  <<"names", {TRUE}>>, <<"safe", {FALSE}>>})

OtherItem(status) == [GoodSemantic EXCEPT !.id = "b", !.status = status]

MCAnswers ==
  {<<>>, <<<<>>>>} \cup {<<<<it>>>> : it \in Classified \cup ClassifiedEol \cup Contents}
    \cup {<<<<it, OtherItem(status)>>>> : it \in Near(GoodSemantic, {
             <<"relation", {"generic_third_party"}>>, <<"status", {"no_article"}>>,
             <<"visibility", {"internal_reviewer_only", "unclear"}>>, <<"type", {"none"}>>}),
           status \in Statuses}

GoodSection ==
  [id |-> "a", transcript |-> FALSE, title |-> TRUE, cause |-> "cause",
   resolution |-> TRUE, stepLines |-> <<"server">>, resolutionSteps |-> <<>>,
   textSteps |-> <<"plain">>, details |-> <<"executable">>, env |-> "linux",
   action |-> FALSE, uncertain |-> FALSE, names |-> FALSE, safe |-> TRUE]

Sections == Near(GoodSection, {
  <<"transcript", {TRUE}>>, <<"title", {FALSE}>>, <<"cause", {NoText}>>, <<"stepLines", {<<>>}>>,
  <<"textSteps", {<<>>}>>, <<"uncertain", {TRUE}>>, <<"names", {TRUE}>>, <<"safe", {FALSE}>>})
    \cup {[GoodSection EXCEPT !.stepLines = <<>>, !.resolutionSteps = <<"gui">>, !.env = "windows"],
          [GoodSection EXCEPT !.stepLines = <<>>, !.textSteps = <<>>]}

MCSummaries ==
  {[whole |-> s, headed |-> headed] : s \in Sections,
     headed \in {<<>>, <<GoodSection>>}}
    \cup {[whole |-> GoodSection, headed |-> <<s, [GoodSection EXCEPT !.id = "b"]>>] : s \in Sections}
=============================================================================
