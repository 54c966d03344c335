----------------------------- MODULE KcsBundle -----------------------------
(***************************************************************************)
(* A reviewer session over the KCS core library: the packets are made one  *)
(* from another, the evidence may be edited between two steps, a provider  *)
(* answers what it likes, and a bundle of what is at hand is written to a  *)
(* directory file by file (kcs_core/reviewer_bundle.py), where a write can *)
(* fail, its clean-up can fail too, and the process can die in either.     *)
(***************************************************************************)
EXTENDS ClaudeProvider

CONSTANTS Evidences,     \* what the ticket evidence may be edited to
          ReuseResults,  \* the reuse searches a decision may be given
          Htmls,         \* token sequences a provider may send as HTML
          Refs,          \* references the caller gives handoffs and drafts
          SmokeConfigs,  \* provider configs a smoke run may be given
          Clients,       \* and what its client says of its transport
          MaxEdits, MaxRemakes, MaxBundles

ASSUME SmokeAssumption ==
  SmokeConfigs \subseteq ProviderConfigs /\ Clients \subseteq ClientModes

\* What a parser feeds.
ASSUME HtmlsAssumption ==
  Htmls \subseteq Seq([tag : STRING, kind : {"open", "close", "self"},
                      attrs : {"none", "href", "other"}])

ASSUME BoundsAssumption == {MaxEdits, MaxRemakes, MaxBundles} \subseteq Nat

VARIABLES made,      \* the packets at hand, each a sequence of at most one
          edits, remakes,
          bundles,   \* the bundles built so far: the files of each
          disk,      \* file -> the bundle it was written from, temps apart
          writing    \* the write under way, or how the last one ended

vars == <<made, edits, remakes, bundles, disk, writing>>

\* "smoke" is the result of a smoke run, with what it was made from.
Packets == {"validation", "decision", "packet", "report", "handoff",
            "request", "response", "draft", "smoke"}

NoPackets == [n \in Packets \cup {"evidence"} |-> <<>>]

Has(names) == \A n \in names : made[n] # <<>>
The(n) == made[n][1]

\* A packet that its class accepts is made once, and made again while the session has patience.
Make(name, value) ==
  /\ Accepted(name, value)
  /\ made[name] # <<value>>
  /\ made' = [made EXCEPT ![name] = <<value>>]
  /\ \/ made[name] = <<>> /\ remakes' = remakes
     \/ made[name] # <<>> /\ remakes < MaxRemakes /\ remakes' = remakes + 1
  /\ UNCHANGED <<edits, bundles, disk, writing>>

-----------------------------------------------------------------------------
(* The packets *)

Edit == \E e \in Evidences \ {The("evidence")} :
  /\ Accepted("evidence", e)
  /\ edits < MaxEdits
  /\ edits' = edits + 1
  /\ made' = [made EXCEPT !["evidence"] = <<e>>]
  /\ UNCHANGED <<remakes, bundles, disk, writing>>

Validate == Make("validation", EvidenceBlockers(The("evidence")))

Decide == \E reuse \in ReuseResults :
  Make("decision", DecideKcsAction(The("evidence"), reuse))

Render ==
  /\ Has({"decision"})
  /\ RenderError(The("evidence"), The("decision")) = "none"
  /\ Make("packet", RenderReviewerPacket(The("evidence"), The("decision")))

Report ==
  /\ Has({"decision"})
  /\ ~ ReportRefused(The("evidence"), The("decision"), made["packet"])
  /\ Make("report", ValidationReport(The("evidence"), The("decision"), made["packet"]))

AskHandoff == \E ref \in Refs :
  /\ Has({"decision", "report"})
  /\ ~ HandoffRefused(The("decision"), The("report"), "ok")
  /\ Make("handoff", HandoffRequest(The("decision"), The("report"), ref))

AskDraft == \E ref \in Refs :
  /\ Has({"handoff"})
  /\ DraftEligible(The("handoff"))
  /\ Make("request", DraftRequest(The("handoff"), ref))

MakeDraft ==
  /\ Has({"request", "response"})
  /\ ~ ArtifactRefused(The("request"), The("response"))
  /\ Make("draft", DraftArtifact(The("request"), The("response")))

-----------------------------------------------------------------------------
(* The provider: a good answer, an answer wrong in one field, none at all  *)

Variants(good, tries) ==
  {<<>>, <<good>>} \cup {<<[good EXCEPT ![try[1]] = try[2]]>> : try \in tries}

DraftAnswers(request) ==
  Variants([handoff |-> request.handoff, status |-> "accepted", error |-> FALSE,
            type |-> request.original.type, claims |-> FALSE,
            parts |-> DraftSections(request.original.type) \cup {"title", "applicable"},
            html |-> <<>>, original |-> NotSaid],
    {<<"claims", TRUE>>, <<"type", "howto_qa">>, <<"parts", {}>>,
     <<"parts", {"title", "applicable", "symptoms", "resolution"}>>,
     <<"parts", {"title", "applicable", "question", "answer"}>>,
     <<"parts", {"title", "symptoms", "cause", "resolution", "notes"}>>,
     <<"original", [request.original EXCEPT !.state = "blocked"]>>}
       \cup {<<"handoff", r>> : r \in Refs} \cup {<<"html", h>> : h \in Htmls})

Respond == Has({"request"}) /\ \E answer \in DraftAnswers(The("request")) :
  Make("response", SubmitDraftRequest(The("request"), answer))

HandoffAnswers(handoff) ==
  {<<AssistFailed(handoff)>>} \cup
  Variants([ref |-> handoff.ref, status |-> "accepted", error |-> FALSE,
            notes |-> TRUE, original |-> NotSaid],
    {<<"status", "rejected">>, <<"error", TRUE>>, <<"notes", FALSE>>,
     <<"original", [handoff.original EXCEPT !.state = "blocked"]>>}
       \cup {<<"ref", r>> : r \in Refs})

SmokeAnswers(kind, request) ==
  (IF kind = "handoff" THEN HandoffAnswers(request)
   ELSE DraftAnswers(request) \cup {<<DraftFailed(request)>>}) \ {<<>>}

\* A smoke run is a process of its own over a packet the session made; it is
\* looked at before any bundle is built, and nothing follows it.
Smoke == \E kind \in {"handoff", "request"}, c \in SmokeConfigs, client \in Clients :
  /\ Has({kind})
  /\ bundles = <<>>
  /\ \E delivery \in Undelivered(client)
                       \cup Delivered("answer", SmokeAnswers(kind, The(kind))) :
       made' = [NoPackets EXCEPT !["smoke"] =
         <<[kind |-> kind, request |-> The(kind), config |-> c, client |-> client,
            delivery |-> delivery,
            result |-> SmokeResult(kind,
              SmokeError(kind, The(kind), c, client, delivery), delivery)]>>]
  /\ UNCHANGED <<edits, remakes, bundles, disk, writing>>

-----------------------------------------------------------------------------
(* The bundle *)

BaseConsistent ==
  /\ The("packet").case = The("evidence").case
  /\ The("report").case = The("evidence").case
  /\ The("packet").action = The("decision").action
  /\ The("report").action = The("decision").action

OriginalConsistent(original) == original = Original(The("decision"), The("report"))

HandoffConsistent ==
  /\ The("handoff").case = The("evidence").case
  /\ OriginalConsistent(The("handoff").original)

\* Mutant: the draft's own handoff is taken for the decision at hand.
DraftOfHandoff ==
  /\ The("draft").case = The("evidence").case
  /\ The("draft").handoff = The("handoff").ref

DraftConsistent ==
  /\ The("draft").case = The("evidence").case
  /\ The("draft").handoff = The("handoff").ref
  /\ OriginalConsistent(The("draft").original)

Base == {"validation", "decision", "packet", "report"}

\* What is at hand, with or without the two packets a bundle may leave out.
Build == \E optional \in {{}, {"handoff"}, {"handoff", "draft"}} :
  /\ Has(Base \cup optional)
  /\ Len(bundles) < MaxBundles
  /\ BaseConsistent
  /\ "handoff" \in optional => HandoffConsistent
  /\ "draft" \in optional => DraftConsistent
  /\ "unsafe_input" \notin The("validation")
  /\ The("evidence").text = "clean"
  /\ The("validation") = EvidenceBlockers(The("evidence"))
  /\ bundles' = Append(bundles, optional)
  /\ UNCHANGED <<made, edits, remakes, disk, writing>>

-----------------------------------------------------------------------------
(* Writing it: the manifest first, each file to a temporary that is renamed *)

AllFiles == <<"manifest", "evidence", "validation", "decision", "packet", "report",
              "handoff", "draft">>

\* A draft never goes without its handoff.
Files(k) ==
  SubSeq(AllFiles, 1, IF "draft" \in bundles[k] THEN 8
                      ELSE IF "handoff" \in bundles[k] THEN 7 ELSE 6)

Names == {"manifest", "evidence", "validation", "decision", "packet", "report",
          "handoff", "draft"}

\* Mutant: where there is no manifest there is no bundle to overwrite.
PresentManifest(k) ==
  disk.targets["manifest"] # 0 \/ \E n \in Range(Files(k)) : disk.temps[n] # 0

Present(k) == \E n \in Range(Files(k)) : disk.targets[n] # 0 \/ disk.temps[n] # 0

\* A write before its first file, or how it ended. stuck is what no code
\* remembers: the bundles a clean-up has not wholly taken back.
Attempt(state, k, stuck) ==
  [state |-> state, bundle |-> k, next |-> 1, temp |-> FALSE, undo |-> 1, stuck |-> stuck]

Ended(how) == Attempt(how, writing.bundle, writing.stuck)

Idle == writing.state \notin {"open", "cleaning"}

\* The session is over when its bundles are written.
Write == \E k \in DOMAIN bundles :
  /\ Idle
  /\ writing # Attempt("refused", k, writing.stuck)
  /\ writing' = Attempt(IF Present(k) THEN "refused" ELSE "open", k, writing.stuck)
  /\ made' = NoPackets /\ edits' = 0 /\ remakes' = 0
  /\ UNCHANGED <<bundles, disk>>

File == Files(writing.bundle)[writing.next]

WriteTemp ==
  /\ writing.state = "open" /\ ~ writing.temp
  /\ disk' = [disk EXCEPT !.temps[File] = writing.bundle]
  /\ writing' = [writing EXCEPT !.temp = TRUE]
  /\ UNCHANGED <<made, edits, remakes, bundles>>

Rename ==
  /\ writing.state = "open" /\ writing.temp
  /\ disk' = [targets |-> [disk.targets EXCEPT ![File] = writing.bundle],
              temps |-> [disk.temps EXCEPT ![File] = 0]]
  /\ writing' = IF writing.next = Len(Files(writing.bundle)) THEN Ended("written")
                ELSE [writing EXCEPT !.next = @ + 1, !.temp = FALSE]
  /\ UNCHANGED <<made, edits, remakes, bundles>>

\* The rename fails, or the temporary does not get written, whatever part of it
\* is left there: it is not on the list of what to clean up.
WriteFails == \E left \in {0, writing.bundle} :
  /\ writing.state = "open"
  /\ disk' = IF writing.temp THEN disk ELSE [disk EXCEPT !.temps[File] = left]
  /\ writing' = [writing EXCEPT !.state = "cleaning"]
  /\ UNCHANGED <<made, edits, remakes, bundles>>

\* Mutant: the files that got their name are not on the list.
NoWrittenFiles == <<>>

\* The files that got their name, which are cleaned up in the order of writing.
WrittenFiles == SubSeq(Files(writing.bundle), 1, writing.next - 1)

\* Each file of the list is unlinked once, and nobody looks whether it went.
UnlinkTemp == \E gone \in BOOLEAN :
  /\ writing.state = "cleaning" /\ writing.temp
  /\ disk' = IF gone THEN [disk EXCEPT !.temps[File] = 0] ELSE disk
  /\ writing' = [writing EXCEPT !.temp = FALSE]
  /\ UNCHANGED <<made, edits, remakes, bundles>>

UnlinkTarget == \E gone \in BOOLEAN :
  /\ writing.state = "cleaning" /\ ~ writing.temp
  /\ writing.undo <= Len(WrittenFiles)
  /\ disk' = IF gone THEN [disk EXCEPT !.targets[WrittenFiles[writing.undo]] = 0] ELSE disk
  /\ writing' = [writing EXCEPT !.undo = @ + 1,
                                !.stuck = IF gone THEN @ ELSE @ \cup {writing.bundle}]
  /\ UNCHANGED <<made, edits, remakes, bundles>>

Failed ==
  /\ writing.state = "cleaning" /\ ~ writing.temp
  /\ writing.undo > Len(WrittenFiles)
  /\ writing' = Ended("failed")
  /\ UNCHANGED <<made, edits, remakes, bundles, disk>>

\* The process dies with the write or with its clean-up.
Crash ==
  /\ ~ Idle
  /\ writing' = [Ended("crashed") EXCEPT !.stuck =
       IF writing.state = "cleaning" THEN @ \cup {writing.bundle} ELSE @]
  /\ UNCHANGED <<made, edits, remakes, bundles, disk>>

-----------------------------------------------------------------------------

Init ==
  /\ \E e \in Evidences :
       made = [NoPackets EXCEPT !["evidence"] = <<e>>]
  /\ edits = 0 /\ remakes = 0 /\ bundles = <<>>
  /\ disk = [targets |-> [n \in Names |-> 0], temps |-> [n \in Names |-> 0]]
  /\ writing = Attempt("none", 0, {})

Next ==
  \/ writing.state = "none" /\ ~ Has({"smoke"}) /\
       (\/ Edit \/ Validate \/ Decide \/ Render \/ Report \/ AskHandoff
        \/ AskDraft \/ Respond \/ MakeDraft \/ Build \/ Smoke)
  \/ Write \/ WriteTemp \/ Rename
  \/ WriteFails \/ UnlinkTemp \/ UnlinkTarget \/ Failed \/ Crash

Spec == Init /\ [][Next]_vars

-----------------------------------------------------------------------------
(* Properties *)

Attempts ==
  [state : {"none", "open", "cleaning", "refused", "failed", "crashed", "written"},
   bundle : Nat, next : 1 .. 8, temp : BOOLEAN, undo : 1 .. 8, stuck : SUBSET Nat]

\* The bundles built, the files of the directory and the write under way.
TypeOK ==
  /\ bundles \in Seq(SUBSET {"handoff", "draft"})
  /\ disk \in [targets : [Names -> Nat], temps : [Names -> Nat]]
  /\ writing \in Attempts
  /\ ~ Idle => /\ writing.bundle \in 1 .. Len(bundles)
              /\ writing.next \in 1 .. Len(Files(writing.bundle))
              /\ writing.undo <= writing.next

Tags(tokens, i, j, tag, kind) ==
  Cardinality({k \in i..j : tokens[k].tag = tag /\ tokens[k].kind = kind})

\* Every closing tag closes an opening tag of its own with balanced HTML in
\* between, and nothing stays open.
Balanced(tokens) ==
  LET count(i, j, tag, kind) == Tags(tokens, i, j, tag, kind)
      even(i, j) == \A tag \in AllowedTags \ VoidTags :
                      count(i, j, tag, "close") = count(i, j, tag, "open")
  IN /\ even(1, Len(tokens))
     /\ \A j \in DOMAIN tokens : tokens[j].kind = "close" =>
          \E i \in 1..(j - 1) : /\ tokens[i].tag = tokens[j].tag
                                /\ tokens[i].kind = "open"
                                /\ even(i + 1, j - 1)

\* A draft exists only for a decision that writes an article and a report that
\* was ready, whatever a provider answered and whatever was edited, remade or
\* mixed up in between; it is accepted text without claims of its own, and has
\* the sections of an article of the type decided on, in balanced HTML.
DraftIsForReadyArticle ==
  made["draft"] # <<>> =>
    LET draft == The("draft")
    IN /\ draft.original.action \in ArticleActions
       /\ draft.original.state = "ready_for_reviewer"
       /\ draft.original.type # "none"
       /\ draft.response.status = "accepted"
       /\ {"title"} \cup DraftSections(draft.original.type) \subseteq draft.response.parts
       /\ ~ draft.response.claims
       /\ Agrees(draft.response.original, draft.original)
       /\ Balanced(draft.response.html)

Built(bundle) == bundles' # bundles /\ bundle \subseteq Last(bundles')

\* A bundle that carries a draft says itself that it is ready, with an article
\* to show: its own decision, packet and report are such as a draft needs.
BundledDraftIsReady ==
  [][Built({"draft"}) =>
       /\ The("report").ready
       /\ The("decision").status = "decision_ready"
       /\ The("packet").action \in ArticleActions
       /\ The("draft").response.handoff = The("handoff").ref]_vars

OnDisk == {n \in Names : disk.targets[n] # 0}

\* Where a directory has a manifest, no file it lists is of another bundle; what
\* else may lie there a clean-up has not taken back, or is just taking back. So
\* what a reader finds through a manifest is of one bundle, but after a clean-up
\* that failed or died a handoff or a draft of another one may lie beside it.
ManifestOwnsItsFiles ==
  LET k == disk.targets["manifest"]
  IN /\ k # 0 => \A n \in Range(Files(k)) : disk.targets[n] \in {0, k}
     /\ \A n \in OnDisk :
          \/ disk.targets[n] \in {k} \cup writing.stuck
          \/ writing.state = "cleaning" /\ disk.targets[n] = writing.bundle

\* A write that ends leaves all its files and none of its temporaries; one that
\* fails leaves none of them in place, unless a clean-up of its bundle could not
\* unlink one or died. Neither takes away nor overwrites what is of another bundle, and what
\* was written stays.
WriteIsAllOrNothing ==
  [][/\ writing'.state = "written" =>
          \A n \in Range(Files(writing'.bundle)) :
            disk'.targets[n] = writing'.bundle /\ disk'.temps[n] = 0
     /\ writing'.state = "failed" =>
          writing'.bundle \in writing'.stuck
            \/ \A n \in Names : disk'.targets[n] # writing'.bundle
     /\ \A n \in OnDisk :
          disk.targets[n] # writing.bundle \/ writing.state = "written" =>
            disk'.targets[n] = disk.targets[n]]_<<disk, writing>>

\* A smoke run calls an answer valid exactly when the library, asking the same
\* client, would accept that answer; it never makes a result its own checks
\* refuse, and what the preflight allows is not refused for its transport.
SmokeAgreesWithSubmit ==
  made["smoke"] # <<>> =>
    LET s == The("smoke")
        reached == s.client = s.config.mode /\ ReadyForProviderCall(s.config)
    IN /\ s.result.valid <=>
            reached /\ Submitted(s.kind, s.request, s.delivery).status = "accepted"
       /\ s.result.valid => s.result.response[1] = Submitted(s.kind, s.request, s.delivery)
       /\ ~ SmokeResultInvalid(s.result)
       /\ \A runtime \in BOOLEAN :
            ReadyForLiveSmoke(s.config, runtime) /\ s.client = s.config.mode =>
              s.result.called

\* A bundle says ready only of evidence its own validation does not block.
ReadyBundleIsValid ==
  [][Built({}) /\ The("report").ready => The("validation") = {}]_vars
=============================================================================
