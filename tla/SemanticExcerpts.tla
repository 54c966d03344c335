-------------------------- MODULE SemanticExcerpts --------------------------
(***************************************************************************)
(* The excerpts of an approved ticket that a semantic review offers to the *)
(* model (desktop_semantic_review.py).                                     *)
(*                                                                         *)
(* A ticket is a sequence of paragraphs [by, says]: a turn of the          *)
(* transcript when by names its speaker, and a paragraph as the code cuts  *)
(* it ("unknown") otherwise; in a transcript "unknown" is what precedes    *)
(* the first turn, or an automatic one.  A sentence is a name; About gives *)
(* its words and what the regular expressions find in it: its score for    *)
(* each role (0 for no match), whether it names a public article, the      *)
(* label on its first line and the number of issue labels in it.  Sizes    *)
(* are counted in words.  The approved text has passed the safety check,   *)
(* so the one repeated on every excerpt drops nothing.                     *)
(***************************************************************************)
EXTENDS Lists

CONSTANTS Sentences, About, Words, Ellipsis,
          MaxExcerpt,      \* SEMANTIC_REVIEW_MAX_EXCERPT_BYTES
          MaxExcerpts,     \* SEMANTIC_REVIEW_MAX_EXCERPTS
          MaxTotal,        \* SEMANTIC_REVIEW_MAX_TOTAL_BYTES
          MaxRanked,       \* SEMANTIC_REVIEW_MAX_RANKED_EXCERPTS
          MaxHits,         \* the 4 of _top_fact_segments, _top_question_task_segments
          AnchorScore      \* _SEMANTIC_REVIEW_EDGE_ANCHOR_MIN_SCORE

CoreRoles == <<"reported_symptom", "supported_cause", "supported_resolution">>

LabelRole == [symptom |-> "reported_symptom", cause |-> "supported_cause",
              resolution |-> "supported_resolution", question |-> "customer_question",
              answer |-> "supported_resolution", note |-> "internal_workflow_note"]

Scored == Range(CoreRoles) \cup {"customer_question", "confirmed_fact"}

ASSUME AboutAssumption ==
  \A s \in Sentences :
    /\ About[s].words \in Seq(Words) \ {<<>>}
    /\ About[s].score \in [Scored -> Nat]
    /\ About[s].label \in DOMAIN LabelRole \cup {"none"}
    /\ About[s].url \in BOOLEAN /\ About[s].labels \in Nat

\* Twelve ranked excerpts of full size make up the whole packet: only the
\* turns of a transcript can exceed its bounds.
ASSUME BoundsAssumption ==
  /\ {MaxExcerpt, MaxExcerpts, MaxTotal, MaxRanked, MaxHits} \subseteq Nat
  /\ MaxExcerpt > 1 /\ MaxRanked >= 3 /\ MaxRanked <= MaxExcerpts
  /\ MaxRanked * MaxExcerpt <= MaxTotal

Text(says) == FlattenSeq([i \in DOMAIN says |-> About[says[i]].words])
Sizes(texts) == FoldLeft(LAMBDA n, x : n + Len(x), 0, texts)

-----------------------------------------------------------------------------
(* A transcript: every turn of the customer and of support *)

IsTranscript(ticket) == \E i \in DOMAIN ticket : ticket[i].by # "unknown"

Eligible(ticket) == Matching(ticket, LAMBDA turn : turn.by \in {"customer", "support"})

\* A long turn is cut between sentences, and a long sentence between words.
NoPieces == [done |-> <<>>, current |-> <<>>]

Flush(p) ==
  [done |-> IF p.current = <<>> THEN p.done ELSE Append(p.done, p.current),
   current |-> <<>>]

AddPart(p, part) ==
  IF Len(p.current \o part) <= MaxExcerpt
  THEN [p EXCEPT !.current = @ \o part]
  ELSE [Flush(p) EXCEPT !.current = part]

BoundedWords(p, words) ==
  Flush(FoldLeft(AddPart, p, [i \in DOMAIN words |-> <<words[i]>>]))

AddSentence(p, s) ==
  IF Len(About[s].words) > MaxExcerpt THEN BoundedWords(Flush(p), About[s].words)
  ELSE AddPart(p, About[s].words)

\* Mutant: the sentence that does not fit is lost with the cut.
BoundedTurnLosing(says) ==
  LET Add(p, s) == IF Len(p.current \o About[s].words) <= MaxExcerpt
                   THEN AddSentence(p, s) ELSE Flush(p)
  IN Flush(FoldLeft(Add, NoPieces, says)).done

BoundedTurn(says) == Flush(FoldLeft(AddSentence, NoPieces, says)).done

SpeakerExcerpts(ticket) ==
  LET turns == Eligible(ticket)
  IN FlattenSeq([i \in DOMAIN turns |->
       LET pieces == BoundedTurn(turns[i].says)
       IN [j \in DOMAIN pieces |->
             [text |-> pieces[j], by |-> turns[i].by, role |-> "unclassified_evidence"]]])

\* All of the turns, or no packet.
CompleteInventory(excerpts) ==
  IF Len(excerpts) <= MaxExcerpts
     /\ Sizes([i \in DOMAIN excerpts |-> excerpts[i].text]) <= MaxTotal
  THEN excerpts ELSE <<>>

-----------------------------------------------------------------------------
(* Any other text: the best of its sentences *)

Cleaned(s) ==
  LET words == About[s].words
  IN IF Len(words) <= MaxExcerpt THEN words
     ELSE Append(SubSeq(words, 1, MaxExcerpt - 1), Ellipsis)

\* Labels count when there are two or more; then a paragraph has the role of
\* the label it starts with.
IsLabelled(ticket) ==
  Cardinality({i \in DOMAIN ticket : About[Head(ticket[i].says)].label # "none"}) >= 2

InheritedRole(ticket, paragraph) ==
  LET label == About[Head(paragraph.says)].label
  IN IF IsLabelled(ticket) /\ label # "none" THEN LabelRole[label] ELSE "none"

Segments(ticket) ==
  FlattenSeq([i \in DOMAIN ticket |->
    [j \in DOMAIN ticket[i].says |->
       [s |-> ticket[i].says[j], role |-> InheritedRole(ticket, ticket[i])]]])

\* In the operators below g is the segments of the ticket.
Score(g, role, i) == About[g[i].s].score[role]
Hits(g, role) == {i \in DOMAIN g : Score(g, role, i) > 0}

\* The best first, the later one of equals.
Ranked(g, role, hits) ==
  Ordered(hits, LAMBDA i, j : \/ Score(g, role, i) > Score(g, role, j)
                              \/ Score(g, role, i) = Score(g, role, j) /\ i > j)

Upto(n, seq) == SubSeq(seq, 1, IF Len(seq) < n THEN Len(seq) ELSE n)

\* The first and the last good sentence of a role come before better ones.
EdgeAnchored(g, role) ==
  LET hits == Hits(g, role)
      good == {i \in hits : Score(g, role, i) >= AnchorScore}
      edge == IF good = {} THEN <<>>
              ELSE IF Cardinality(good) = 1 THEN <<Min(good)>>
              ELSE <<Min(good), Max(good)>>
  IN edge \o Ranked(g, role, hits \ Range(edge))

Pick(role, indices) == [n \in DOMAIN indices |-> [i |-> indices[n], role |-> role]]

CoreHits == MaxRanked \div 3

BalancedCore(g) ==
  LET top == [n \in 1 .. 3 |->
                Pick(CoreRoles[n], Upto(CoreHits, EdgeAnchored(g, CoreRoles[n])))]
  IN FlattenSeq([rank \in 1 .. CoreHits |->
       FlattenSeq([n \in 1 .. 3 |->
         IF rank <= Len(top[n]) THEN <<top[n][rank]>> ELSE <<>>])])

Top(g, role) == Pick(role, Upto(MaxHits, Ranked(g, role, Hits(g, role))))

\* The best sentence that names a public article and a resolution.
PublicReference(g) ==
  LET role == "supported_resolution"
      hits == {i \in Hits(g, role) : About[g[i].s].url}
      best == {i \in hits : \A j \in hits : Score(g, role, j) <= Score(g, role, i)}
  IN Pick(role, IF best = {} THEN <<>> ELSE <<Min(best)>>)

Labelled(g, label, role) ==
  Pick(role, Ordered({i \in DOMAIN g : About[g[i].s].label = label}, <))

Inherited(g) ==
  LET own == Ordered({i \in DOMAIN g : g[i].role # "none"}, <)
  IN [n \in DOMAIN own |-> [i |-> own[n], role |-> g[own[n]].role]]

Selected(g) ==
  PublicReference(g) \o Inherited(g) \o BalancedCore(g) \o Top(g, "customer_question")
    \o Labelled(g, "answer", "supported_resolution")
    \o Labelled(g, "note", "internal_workflow_note") \o Top(g, "confirmed_fact")

PreferredRole(current, other, s) ==
  LET roles == {current, other}
  IN IF "confirmed_fact" \in roles /\ About[s].labels > 1 THEN "confirmed_fact"
     ELSE IF "internal_workflow_note" \in roles THEN "internal_workflow_note"
     ELSE IF "supported_resolution" \in roles /\ About[s].label = "answer"
     THEN "supported_resolution"
     ELSE IF /\ "customer_question" \in roles
             /\ current \notin {"supported_cause", "supported_resolution"}
             /\ About[s].labels = 0 \/ About[s].label = "question"
     THEN "customer_question"
     ELSE current

\* One pick per text, at the place of the first.
Deduped(g, picks) ==
  LET Add(kept, pick) ==
        LET same == {n \in DOMAIN kept :
                       Cleaned(g[kept[n].i].s) = Cleaned(g[pick.i].s)}
        IN IF same = {} THEN Append(kept, pick)
           ELSE LET n == Min(same)
                IN [kept EXCEPT ![n].role = PreferredRole(@, pick.role, g[kept[n].i].s)]
  IN FoldLeft(Add, <<>>, picks)

InTicketOrder(picks) ==
  LET order == Ordered(DOMAIN picks, LAMBDA m, n : picks[m].i < picks[n].i)
  IN [n \in DOMAIN order |-> picks[order[n]]]

\* Mutant: the picks are put in the order of the ticket before the cut.
RankedCutSorted(picks) ==
  Upto(MaxRanked, InTicketOrder(picks))

RankedCut(picks) == InTicketOrder(Upto(MaxRanked, picks))

\* The model is shown no role but that of a workflow note.
VisibleRole(role) ==
  IF role = "internal_workflow_note" THEN role ELSE "unclassified_evidence"

RankedExcerpts(ticket) ==
  LET g == Segments(ticket)
      picks == RankedCut(Deduped(g, Selected(g)))
  IN [n \in DOMAIN picks |-> [text |-> Cleaned(g[picks[n].i].s), by |-> "unknown",
                              role |-> VisibleRole(picks[n].role)]]

\* selected_semantic_review_excerpts; none means that there is no packet.  The
\* source ref of an excerpt is its place.
SelectedExcerpts(ticket) ==
  IF IsTranscript(ticket) THEN CompleteInventory(SpeakerExcerpts(ticket))
  ELSE RankedExcerpts(ticket)
=============================================================================
