---------------------------- MODULE MCKcsBundle ----------------------------
EXTENDS KcsBundle

Candidate ==
  [id |-> "a", type |-> "technical_scr", question |-> NoText, cause |-> Inherit,
   solution |-> Inherit, refs |-> {}, symptoms |-> Inherit, facts |-> Inherit,
   summary |-> TRUE, questions |-> FALSE, split |-> FALSE, marks |-> {},
   publicSafe |-> "yes", reuseStatus |-> "checked", steps |-> <<"plain">>,
   answers |-> <<>>]

Evidence ==
  [case |-> "plain", knownClass |-> TRUE, sanitizer |-> {"pass"},
   visibility |-> {"public_customer_safe"}, visibilityField |-> "classes",
   internalApproved |-> FALSE, refs |-> {"plain"}, text |-> "clean",
   symptoms |-> TRUE, facts |-> TRUE, questions |-> FALSE, cause |-> "cause",
   solution |-> "fix", cands |-> <<Candidate>>, env |-> "other"]

MCEvidences == {Evidence, [Evidence EXCEPT !.questions = TRUE],
                [Evidence EXCEPT !.sanitizer = {}]}

MCReuse ==
  {[searched |-> TRUE, blockers |-> {}, matches |-> <<>>],
   [searched |-> TRUE, blockers |-> {}, matches |->
     <<[cand |-> "a", type |-> "technical_scr", cause |-> "cause", question |-> NoText,
        solution |-> "fix", status |-> "partial", public |-> TRUE, ref |-> "plain"]>>]}

MCSmokeConfigs ==
  {c \in ProviderConfigs :
     /\ c.mode # "internal_service" /\ c.endpoint = c.credentials
     /\ c.profile = "fake_provider" <=> c.mode = "fake_provider"
     /\ c.endpoint # "" \/ c.mode = "direct_http"}

Tag(t, kind) == [tag |-> t, kind |-> kind, attrs |-> "none"]
Link(kind) == [tag |-> "a", kind |-> kind, attrs |-> "href"]

MCHtmls ==
  {<<Tag("p", "open"), Tag("br", "open"), Link("open"), Tag("br", "self"), Tag("a", "close"),
     Link("self"), Tag("p", "close")>>,
   <<Tag("p", "open"), Tag("li", "open"), Tag("p", "close"), Tag("li", "close")>>,
   <<Tag("p", "open")>>, <<Tag("br", "close")>>, <<Tag("p", "self")>>,
   <<Tag("a", "open"), Tag("a", "close")>>}
=============================================================================
