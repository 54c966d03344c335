--------------------------- MODULE MCTicketReview ---------------------------
(***************************************************************************)
(* Small tickets of both kinds, and the proposals a model can make of      *)
(* their packets: every excerpt becomes a field of an issue or a coverage  *)
(* record, quoted faithfully or not.                                       *)
(***************************************************************************)
EXTENDS TicketReview

CONSTANT Families    \* the kinds of proposals a run submits

WordSet == {"err", "shown", "why", "conf", "bad", "run", "urlA", "urlB", "helped",
            "sorry", "hi", "note", "..."}

No == [role \in Scored |-> 0]
S(words, score, url, label) ==
  [words |-> words, score |-> score @@ No, url |-> url, label |-> label,
   labels |-> IF label = "none" THEN 0 ELSE 1]
Symptom(n) == "reported_symptom" :> n
Cause(n) == "supported_cause" :> n
Fix(n) == "supported_resolution" :> n

AboutTable ==
  [err   |-> S(<<"err", "shown">>, Symptom(3), FALSE, "none"),
   why   |-> S(<<"why", "err">>, Symptom(1) @@ ("customer_question" :> 2), FALSE, "none"),
   cause |-> S(<<"bad", "conf">>, Cause(2), FALSE, "none"),
   urlA  |-> S(<<"urlA">>, Fix(1), TRUE, "none"),
   ok    |-> S(<<"helped">>, Fix(1), FALSE, "none"),
   both  |-> S(<<"urlA", "helped">>, Fix(2), TRUE, "none"),
   run   |-> S(<<"run", "conf">>, Fix(2), FALSE, "none"),
   long  |-> S(<<"err", "err", "bad", "conf">>, Symptom(2), FALSE, "none"),
   hi    |-> S(<<"hi">>, No, FALSE, "none"),
   lsym  |-> S(<<"err", "bad">>, Symptom(1), FALSE, "symptom"),
   lfix  |-> S(<<"run", "bad">>, Fix(1), FALSE, "resolution"),
   lnote |-> S(<<"note", "bad">>, No, FALSE, "note"),
   lask  |-> S(<<"why", "bad">>, "customer_question" :> 1, FALSE, "question")]

SentenceSet == DOMAIN AboutTable

C(says) == [by |-> "customer", says |-> says]
P(says) == [by |-> "support", says |-> says]
U(says) == [by |-> "unknown", says |-> says]

TicketSet ==
  {\* transcripts: an article and then a command; a turn that is cut; the same
   \* words from both speakers; the article and its outcome in two turns, with
   \* an automatic one between; a note before the first turn; more turns than a
   \* packet takes; a greeting and its copy
   << C(<<"err">>), P(<<"cause">>), P(<<"both">>), P(<<"run">>) >>,
   << C(<<"hi", "long", "err">>), P(<<"cause", "run">>) >>,
   << C(<<"err">>), P(<<"err">>), P(<<"run">>), C(<<"run">>) >>,
   << C(<<"err">>), P(<<"urlA">>), C(<<"ok">>), P(<<"run">>) >>,
   << C(<<"err">>), P(<<"urlA">>), U(<<"ok">>), C(<<"ok">>) >>,
   << U(<<"lnote">>), C(<<"why">>), P(<<"both">>) >>,
   << C(<<"err">>), C(<<"err">>), C(<<"err">>), C(<<"err">>), C(<<"err">>) >>,
   << C(<<"err">>), P(<<"hi">>), C(<<"hi">>) >>,
   \* other texts: sentences of every role; labelled paragraphs, one of them a
   \* note; more labelled sentences than the cut takes; no sentence of use
   << U(<<"err", "cause">>), U(<<"both", "run", "urlA">>) >>,
   << U(<<"err", "cause">>), U(<<"run", "long">>), U(<<"lsym">>), U(<<"lfix">>) >>,
   << U(<<"lsym", "cause">>), U(<<"lnote">>), U(<<"both">>) >>,
   << U(<<"err">>), U(<<"lask", "lsym", "hi">>), U(<<"lfix", "ok">>) >>,
   << U(<<"hi">>) >>}

-----------------------------------------------------------------------------
(* Proposals *)

Fields == {"symptoms", "question", "cause", "resolution", "answer"}
Of(k, use, field) == SetToSortSeq({r \in DOMAIN use : use[r] = field}, <)

\* The issue that quotes every excerpt in the field it is used for; the entry
\* observations cite more too. Its summary is a claim of the model's own.
IssueOf(k, use, more, ref) ==
  LET Quote(field, cited) ==
        [n \in DOMAIN Of(k, use, field) |->
           [text |-> k[Of(k, use, field)[n]].text,
            refs |-> {Of(k, use, field)[n]} \cup cited]]
  IN [ref |-> ref, summary |-> <<"urlB", "helped">>, cites |-> {},
      question |-> Upto(1, Quote("question", more)),
      symptoms |-> Quote("symptoms", more), errors |-> <<>>,
      cause |-> Quote("cause", {}), resolution |-> Quote("resolution", {}),
      verification |-> <<>>, answer |-> Quote("answer", {}), context |-> <<>>]

CoverageOf(k, use, original) ==
  LET aside == SetToSortSeq({r \in DOMAIN use : use[r] \notin Fields}, <)
  IN [n \in DOMAIN aside |->
        [ref |-> n, reason |-> use[aside[n]], refs |-> {aside[n]},
         of |-> IF use[aside[n]] = "duplicate_excerpt" THEN original[aside[n]] ELSE 0]]

Proposal(form, k, issues, coverage) ==
  [form |-> form, case |-> TRUE, refs |-> DOMAIN k, issues |-> issues,
   coverage |-> coverage]

UseAll(k) ==
  [DOMAIN k -> {"symptoms", "cause", "resolution", "internal_workflow_note"}]

Plain(k) ==
  {Proposal("ok", k, <<IssueOf(k, use, {}, 1)>>, CoverageOf(k, use, [r \in DOMAIN k |-> 1])) :
     use \in UseAll(k)}

\* A summary that repeats what a turn may have said.
Cited(k) ==
  {Proposal("ok", k, <<[IssueOf(k, use, more, 1) EXCEPT !.summary = <<"urlA", "helped">>]>>, CoverageOf(k, use, [r \in DOMAIN k |-> 2])) :
     use \in [DOMAIN k -> {"symptoms", "question", "resolution"}], 
     more \in {{}, {1}}}

Copies(k) ==
  UNION {{Proposal("ok", k, <<IssueOf(k, use, {}, 1)>>, CoverageOf(k, use, original)) :
            original \in [{r \in DOMAIN k : use[r] = "duplicate_excerpt"} -> {1, 2, 3}]} :
           use \in [DOMAIN k -> {"answer", "duplicate_excerpt"}]}

\* Two issues, each of a part of the excerpts.
Two(k) ==
  UNION {{Proposal("ok", k, <<IssueOf(k, Restrict(use, part), {}, 1),
                              IssueOf(k, Restrict(use, DOMAIN k \ part), {}, 2)>>, <<>>) :
            use \in [DOMAIN k -> {"question", "symptoms", "answer"}]} :
           part \in {{1}, {1, 2}}}

\* A proposal that is wrong in form, and one that misquotes.
Broken(k) ==
  LET use == [r \in DOMAIN k |-> "symptoms"]
      issue == IssueOf(k, use, {}, 1)
      good == Proposal("ok", k, <<issue>>, <<>>)
      lie == [issue EXCEPT !.symptoms[1].text = <<"err", "helped">>]
      loose == [issue EXCEPT !.symptoms[1].refs = {}]
      foreign == [issue EXCEPT !.symptoms[1].refs = {MaxExcerpts + 1}]
  IN {[good EXCEPT !.form = form] : form \in {"large", "forbidden", "keys"}}
       \cup {[good EXCEPT !.case = FALSE], [good EXCEPT !.refs = {}]}
       \cup {[good EXCEPT !.issues = issues] :
               issues \in {<<lie>>, <<loose>>, <<foreign>>, <<>>, <<issue, issue>>}}
       \cup {[good EXCEPT !.issues = [n \in 1 .. MaxCandidates + 1 |-> [issue EXCEPT !.ref = n]]]}
       \cup {[good EXCEPT !.coverage = <<record>>] :
               record \in {[ref |-> 1, reason |-> "spam", refs |-> {1}, of |-> 0],
                           [ref |-> 1, reason |-> "ticket_metadata", refs |-> {1}, of |-> 1],
                           [ref |-> 1, reason |-> "ticket_metadata",
                            refs |-> {MaxExcerpts + 1}, of |-> 0]}}

Submitted(k) ==
  IF k = <<>> THEN {}
  ELSE UNION {CASE f = "plain" -> Plain(k) [] f = "cited" -> Cited(k)
                [] f = "copies" -> Copies(k) [] f = "two" -> Two(k)
                [] f = "broken" -> Broken(k) : f \in Families}

-----------------------------------------------------------------------------
(* The service *)

Snippet(doc, article, meta, text, solution, rank) ==
  [doc |-> doc, article |-> article, meta |-> meta, text |-> text,
   solution |-> solution, rank |-> rank]
Hit(doc, article, rank) == Snippet(doc, article, "active", "t1", FALSE, rank)

NamesTable == [urlA |-> "A", urlB |-> "B"]

ExactSet ==
  {"lost", "malformed",
   <<Snippet("dA", "A", "active", "t1", FALSE, 1), Snippet("dA", "A", "active", "t2", TRUE, 2)>>,
   <<Snippet("dA", "A", "inactive", "t1", FALSE, 1)>>,
   <<Snippet("dA", "A", "incident", "t1", TRUE, 1)>>}

SearchSet ==
  {"lost", "malformed", <<>>,
   <<Hit("dB", "B", 2), Hit("dA", "A", 1)>>,
   <<Hit("dB", "B", 1), Hit("dE", "B", 2)>>,
   <<Hit("dB", "B", 3), Hit("dC", "C", 1), Hit("dD", "docs", 1), Hit("dF", "F", 2), Hit("dA", "A", 4)>>,
   <<Hit("dB", "B", 1), Snippet("dB", "B", "inactive", "t2", TRUE, 2)>>,
   <<Hit("dB", "B", 1), Hit("dB", "B", 2)>>,
   <<Hit("dB", "B", 1), Snippet("dC", "C", "incident", "t1", TRUE, 2)>>}
=============================================================================
