---------------------------- MODULE KcsRenderer ----------------------------
(***************************************************************************)
(* The canonical reviewer packet of a decision: kcs_core/renderer.py.      *)
(*                                                                         *)
(* A step is abstracted to its kind: what its text leads the renderer to   *)
(* do.  "gui" navigates the Plesk interface, "server" and "windows" are    *)
(* commands, "block" is a support block that is attached to the step       *)
(* before it; the three others are the entry points the renderer knows.    *)
(***************************************************************************)
EXTENDS KcsDecision

CONSTANT MaxListItems

ASSUME MaxListItemsAssumption == MaxListItems \in Nat \ {0}

StepKinds == {"plain", "gui", "server", "windows", "block", "ssh", "rdp", "login"}

Some(steps, kinds) == \E i \in DOMAIN steps : steps[i] \in kinds

-----------------------------------------------------------------------------
(* The public article *)

\* "plesk" in a text is enough for a Windows step: each entry point names it.
WindowsPlesk(e, steps) ==
  e.env = "windows" /\ Some(steps, {"windows", "ssh", "rdp", "login"})

WithEntryPoint(steps, entry) ==
  IF steps = <<>> \/ entry = "none" \/ Some(steps, {entry}) THEN steps
  ELSE <<entry>> \o steps

OwnSteps(e, c) ==
  IF c.steps # <<>> THEN c.steps
  ELSE IF OwnText(c.solution, e.solution) \in Texts THEN <<"plain">> ELSE <<>>

ResolutionSteps(e, c) ==
  LET steps == OwnSteps(e, c)
  IN WithEntryPoint(steps, IF WindowsPlesk(e, steps) THEN "rdp"
                           ELSE IF e.env = "linux" THEN "ssh" ELSE "none")

AnswerEntryPoint(e, steps) ==
  LET server == Some(steps, {"server"})
  IN IF server /\ WindowsPlesk(e, steps) THEN "rdp"
     ELSE IF server /\ e.env = "linux" THEN "ssh"
     ELSE IF Some(steps, {"gui"}) THEN "login" ELSE "none"

AnswerSteps(e, c) ==
  LET steps == IF c.answers # <<>> THEN c.answers
               ELSE IF c.solution \in Texts THEN <<"plain">>
               ELSE ResolutionSteps(e, c)
  IN WithEntryPoint(steps, AnswerEntryPoint(e, steps))

\* Mutant: a block opens the list item of the step after it.
MergeBlocksForward(steps) ==
  FoldLeft(LAMBDA items, step :
             IF items # <<>> /\ Last(items) = <<"block">>
             THEN [items EXCEPT ![Len(items)] = Append(@, step)]
             ELSE Append(items, <<step>>),
           <<>>, steps)

\* Every list item is the step that opens it and the blocks attached to it.
MergeSupportBlocks(steps) ==
  FoldLeft(LAMBDA items, step :
             IF step = "block" /\ items # <<>>
             THEN [items EXCEPT ![Len(items)] = Append(@, step)]
             ELSE Append(items, <<step>>),
           <<>>, steps)

ArticleItems(e, d, c) ==
  MergeSupportBlocks(IF d.type = "howto_qa" THEN AnswerSteps(e, c)
                     ELSE ResolutionSteps(e, c))

Article(e, d, c) ==
  [cand |-> d.cand, type |-> d.type, items |-> ArticleItems(e, d, c),
   cause |-> OwnText(c.cause, e.cause), solution |-> OwnText(c.solution, e.solution)]

-----------------------------------------------------------------------------
(* What the renderer refuses, in the order it looks *)

NotMetadata == {"spaced", "fragment", "forbidden"}

MetadataErrors(d) ==
  << <<"unsafe code", LongCode \in d.blockers>>,
     <<"unsafe value", d.case # "plain" \/ "fragment" \in d.refs>>,
     <<"unsafe value", d.match # <<>> /\ d.match[1].ref = "fragment">>,
     <<"match incomplete", d.match # <<>> /\ ~ SafeMetadata(d.match[1].ref)>> >>

ArticleErrors(d) ==
  << <<"not ready", d.status # "decision_ready" \/ d.blockers # {}>>,
     <<"no type", d.type = "none">>,
     <<"not single", d.items # <<>> >>,
     <<"match required",
       d.action \in {"update_existing", "flag_existing"} /\ d.match = <<>> >> >>

SelectedCandidate(e, d) ==
  FirstWhere(e.cands, LAMBDA c : c.id # NoText /\ c.id = d.cand)

\* Mutant: what the ticket's visibility is is left to the decision.
ContentErrorsButVisibility(e, d, c) ==
  << <<"visibility", c.publicSafe # "yes">>,
     <<"unsafe value", e.text = "doc_address" \/ d.cand \in NotMetadata>>,
     <<"bound", Len(ArticleItems(e, d, c)) > MaxListItems>> >>

ContentErrors(e, d, c) ==
  << <<"visibility", e.visibility # {"public_customer_safe"}>>,
     <<"visibility", c.publicSafe # "yes">>,
     <<"unsafe value", e.text = "doc_address" \/ d.cand \in NotMetadata>>,
     <<"bound", Len(ArticleItems(e, d, c)) > MaxListItems>> >>

FirstError(rows) == FirstWhere(rows, LAMBDA row : row[2])

\* The message of the exception that ends the rendering, if one does.
RenderError(e, d) ==
  LET early == FirstError(MetadataErrors(d)
                 \o IF d.action \in ArticleActions THEN ArticleErrors(d) ELSE <<>>)
      c == SelectedCandidate(e, d)
      late == IF d.action \notin ArticleActions THEN <<>>
              ELSE IF c = <<>> THEN << <<"candidate mismatch", TRUE>> >>
              ELSE FirstError(ContentErrors(e, d, c[1]))
  IN IF early # <<>> THEN early[1][1] ELSE IF late # <<>> THEN late[1][1] ELSE "none"

-----------------------------------------------------------------------------

RendererStatus(d) ==
  CASE d.action = "split_required" -> "split_required"
    [] d.action = "flag_existing"  -> "flag_existing_review_required"
    [] d.action \in {"create_candidate", "update_existing"} -> "zendesk_html_generated"
    [] OTHER -> "no_public_article_output"

\* The packet of a decision RenderError finds nothing wrong with.
RenderReviewerPacket(e, d) ==
  [case |-> e.case, action |-> d.action, refs |-> d.refs,
   article |-> IF d.action \in ArticleActions
               THEN <<Article(e, d, SelectedCandidate(e, d)[1])>> ELSE <<>>,
   status |-> RendererStatus(d), blockers |-> d.blockers, match |-> d.match]
=============================================================================
