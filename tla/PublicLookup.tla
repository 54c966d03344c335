---------------------------- MODULE PublicLookup ----------------------------
(***************************************************************************)
(* The public articles shown to the operator for one candidate: the        *)
(* article its text confirms (desktop_reuse_comparison.py), what the local *)
(* retrieval service answers (local_public_rag.py) and the evidence made   *)
(* of it (reuse_comparison.py).                                            *)
(*                                                                         *)
(* A snippet is [doc, article, meta, text, solution, rank]: meta stands    *)
(* for its title, the spelling of its address, its status and its date,    *)
(* text for its section and text, solution says that the section is a      *)
(* resolution or an answer.  An answer is a sequence of snippets within    *)
(* the sizes asked for, or "lost" (no answer) or "malformed" (one that     *)
(* breaks the response contract).                                          *)
(***************************************************************************)
EXTENDS SemanticProjection

CONSTANTS Reusable,     \* the articles that may be reused or updated
          Names,        \* the article each public address names
          Confirming,   \* words that say an article helped
          Negating,     \* words that deny it, or say it was another case
          MaxShown,     \* _COMPARISON_MAX_CANDIDATES
          PerArticle    \* _COMPARISON_PER_ARTICLE_CAP

Failures == {"lost", "malformed"}
NoArticle == "none"

ASSUME NoArticleAssumption == NoArticle \notin Reusable /\ MaxShown \in Nat \ {0}

-----------------------------------------------------------------------------
(* The article that the ticket says helped *)

\* The outcome follows the address at once or after a blank line.
Helps(text, n) ==
  /\ text[n] \in DOMAIN Names
  /\ \E m \in DOMAIN text :
       /\ text[m] \in Confirming
       /\ \/ m = n + 1
          \/ m = n + 2 /\ text[n + 1] = Gap

\* A text is read whole: none here is longer than the window of 180 characters
\* on each side of an address.
Confirmed(text) ==
  IF Range(text) \cap Negating # {} THEN <<>>
  ELSE Matching([n \in DOMAIN text |-> IF Helps(text, n) THEN Names[text[n]] ELSE NoArticle],
                LAMBDA article : article \in Reusable)

\* The fields in the order they are read, the model-written summary first.
CandidateTexts(candidate) ==
  <<candidate.summary>> \o candidate.question \o candidate.symptoms \o candidate.facts
    \o <<candidate.cause, candidate.resolution, candidate.answer>> \o candidate.steps

FirstConfirmed(texts) ==
  LET found == FlattenSeq([n \in DOMAIN texts |-> Confirmed(texts[n])])
  IN IF found = <<>> THEN NoArticle ELSE Head(found)

\* Mutant: the text need not be in the ticket.
ConfirmedArticleUnquoted(candidate, approved) ==
  FirstConfirmed(CandidateTexts(candidate))

\* confirmed_helpful_public_article: only a text that is in the ticket counts.
ConfirmedArticle(candidate, approved) ==
  FirstConfirmed(Matching(CandidateTexts(candidate), LAMBDA text : Quotes(approved, text)))

-----------------------------------------------------------------------------
(* What the service answers *)

Same(s, t) == s.doc = t.doc /\ s.article = t.article /\ s.meta = t.meta

ArticleOf(snippets, origin, excerpts) ==
  [article |-> Head(snippets).article, doc |-> Head(snippets).doc,
   meta |-> Head(snippets).meta, origin |-> origin, excerpts |-> excerpts]

\* The snippets of the named article, one by one and then merged into what
\* precedes its solution and the rest.
ValidExact(snippets, named) ==
  /\ snippets # <<>>
  /\ \A n \in DOMAIN snippets : Same(snippets[n], Head(snippets))
  /\ Head(snippets).article = named /\ Head(snippets).meta # "inactive"

Texts(snippets) == [n \in DOMAIN snippets |-> snippets[n].text]

ExactArticle(snippets) ==
  LET at == {n \in DOMAIN snippets : snippets[n].solution}
      cut == IF at = {} THEN 1 ELSE Min(at)
      all == Texts(snippets)
  IN ArticleOf(snippets, "explicit_resolution_reference",
               IF cut = 1 THEN <<all>>
               ELSE <<SubSeq(all, 1, cut - 1), SubSeq(all, cut, Len(all))>>)

\* An incident or a page of the documentation is never offered.
Offered(s) == s.article \in Reusable /\ s.meta # "incident"

Groups(snippets) ==
  LET all == Matching(snippets, Offered)
      Of(doc) == Matching(all, LAMBDA s : s.doc = doc)
      first == {n \in DOMAIN all : \A m \in 1 .. n - 1 : all[m].doc # all[n].doc}
      Best(n) == Min({s.rank : s \in Range(Of(all[n].doc))})
      order == Ordered(first, LAMBDA n, m : \/ Best(n) < Best(m)
                                            \/ Best(n) = Best(m) /\ n < m)
  IN [n \in DOMAIN order |-> Of(all[order[n]].doc)]

ValidGroup(snippets) ==
  /\ Len(snippets) <= PerArticle
  /\ \A n \in DOMAIN snippets : Same(snippets[n], Head(snippets))

FoundArticles(snippets) ==
  LET groups == Upto(MaxShown, Groups(snippets))
  IN [n \in DOMAIN groups |->
        ArticleOf(groups[n], "search_result",
                  [m \in DOMAIN groups[n] |-> <<groups[n][m].text>>])]

-----------------------------------------------------------------------------
(* The evidence *)

\* An excerpt has one ref for its document, section and text.
Wellformed(a) ==
  a.article \in Reusable /\ a.meta # "incident" /\ IsInjective(a.excerpts)

\* Mutant: two documents may be the same article.
ValidEvidenceOfDocuments(articles, named) ==
  \A n \in DOMAIN articles : Wellformed(articles[n])

\* ensure_valid_reuse_comparison_evidence, within the sizes.
ValidEvidence(articles, named) ==
  /\ \A n \in DOMAIN articles : Wellformed(articles[n])
  /\ \A n, m \in DOMAIN articles : n # m => articles[n].article # articles[m].article
  /\ named # <<>> => articles # <<>> /\ articles[1] = named[1]

ValidSearch(snippets) ==
  /\ \A group \in Range(Groups(snippets)) : ValidGroup(group)
  /\ ValidEvidence(FoundArticles(snippets), <<>>)

Failure(status, named) ==
  [status |-> status, searched |-> FALSE, articles |-> <<>>, named |-> named,
   reference |-> IF named = NoArticle THEN "not_provided" ELSE "not_checked"]

InvalidResponse(named) == Failure("comparison_provider_invalid_response", named)

Evidence(articles, named, reference) ==
  [status |-> IF reference = "context_missing" THEN "explicit_article_context_missing"
              ELSE IF articles = <<>> THEN "comparison_no_evidence"
              ELSE "comparison_evidence_ready",
   searched |-> TRUE, articles |-> articles, named |-> named, reference |-> reference]

Searched(search) ==
  IF search = "lost" THEN Failure("comparison_provider_unavailable", NoArticle)
  ELSE IF search = "malformed" THEN InvalidResponse(NoArticle)
  ELSE IF ~ ValidSearch(search) THEN InvalidResponse(NoArticle)
  ELSE Evidence(FoundArticles(search), NoArticle, "not_provided")

Combined(exact, found, named) ==
  Upto(MaxShown, exact \o Matching(found, LAMBDA a : a.article # named))

\* The named article is asked for first; without an answer the search alone
\* cannot make a comparison, and without the search it is shown alone.
SearchedWithNamed(exact, search, named) ==
  LET first == IF exact = "lost" THEN <<>> ELSE <<ExactArticle(exact)>>
      found == IF search = "lost" THEN <<>> ELSE FoundArticles(search)
      articles == Combined(first, found, named)
  IN IF \/ exact = "malformed"
        \/ exact # "lost" /\ ~ ValidExact(exact, named)
     THEN InvalidResponse(named)
     ELSE IF exact = "lost" /\ search = "lost"
     THEN Failure("comparison_provider_unavailable", named)
     ELSE IF \/ search = "malformed"
             \/ search # "lost" /\ ~ ValidSearch(search)
             \/ ~ ValidEvidence(articles, first)
     THEN InvalidResponse(named)
     ELSE Evidence(articles, named,
                   IF exact = "lost" THEN "context_missing" ELSE "context_ready")

\* collect_comparison_evidence, its exceptions answered as in
\* collect_pending_reuse_comparison.
Lookup(named, readiness, exact, search) ==
  IF readiness = "unreachable" THEN Failure("comparison_provider_unavailable", named)
  ELSE IF readiness = "invalid" THEN InvalidResponse(named)
  ELSE IF readiness # "ready" THEN Failure("comparison_provider_not_ready", named)
  ELSE IF named = NoArticle THEN Searched(search)
  ELSE SearchedWithNamed(exact, search, named)

\* _selected_comparison_candidate: shown is the article the operator names, 0
\* for none.
ValidAnswer(evidence, outcome, shown) ==
  IF outcome \in {"none_fit", "need_more_evidence"}
  THEN shown \in {0} \cup DOMAIN evidence.articles
  ELSE shown \in DOMAIN evidence.articles
=============================================================================
