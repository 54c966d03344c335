----------------------------- MODULE DesktopFront -----------------------------
(***************************************************************************)
(* The two front ends of the Desktop adapter and the files they share: the *)
(* stdio server (desktop_stdio_transport.py) and the operator's command    *)
(* line (operator_authoring_cli.py over operator_authoring_controller.py), *)
(* each a process with an adapter of its own.  A process runs one call at  *)
(* a time; a call takes a step per file access, and between two steps it   *)
(* can fail, its process can die, and the other process can move.  Of the  *)
(* draft workflow only what a ticket with one item goes through is here;   *)
(* DraftWorkflow has the rest, and the time-to-live.                       *)
(***************************************************************************)
EXTENDS TicketStore

CONSTANTS MaxCalls,     \* bound: calls and operator sessions started
          MaxMinted,    \* bound: comparisons
          MaxExternal,  \* bound: writes of the cleanup form and of summaries
          MaxDeaths     \* bound: ends of the server process

ASSUME FrontBoundsAssumption == {MaxCalls, MaxMinted, MaxExternal, MaxDeaths} \subseteq Nat

VARIABLES
  store,      \* ticket -> its files
  bundles,    \* reviewer bundle directories, in the order they were made
  adapter,    \* process -> its pending comparison, review and replay
  call,       \* process -> the call it is in
  answer,     \* process -> the last result, as its client received it
  transport,  \* McpStdioTransport: _initialize_responded, _ready
  cli,        \* the operator's process
  minted, calls, external, deaths

counters == <<minted, calls, external, deaths>>
vars == <<store, bundles, adapter, call, answer, transport, cli, counters>>

Process == {"server", "operator"}
Outcome == {"none_fit", "other"}

NoReplay == [ref |-> 0, outcome |-> "other", kind |-> "none", bundle |-> 0]
Fresh == [comparison |-> 0, review |-> "none", replay |-> NoReplay]
NoAnswer == [kind |-> "none", ref |-> 0, bundle |-> 0]

\* quiet: no other process wrote the files of this ticket since the call read them.
NoCall == [step |-> "none", ticket |-> "none", text |-> "none", source |-> "none",
           seen |-> "none", quiet |-> TRUE, file |-> "none", open |-> FALSE,
           ref |-> 0, bundle |-> 0]

Off == [stage |-> "off", session |-> 0]

Init ==
  /\ store = [t \in Ticket |-> Empty(t)]
  /\ bundles = <<>>
  /\ adapter = [p \in Process |-> Fresh]
  /\ call = [p \in Process |-> NoCall]
  /\ answer = [p \in Process |-> NoAnswer]
  /\ transport = [responded |-> FALSE, ready |-> FALSE]
  /\ cli = Off
  /\ minted = 0 /\ calls = 0 /\ external = 0 /\ deaths = 0

Idle(p) == call[p] = NoCall
Goes(p, step) == call' = [call EXCEPT ![p].step = step]

-----------------------------------------------------------------------------
(* Results *)

\* The transport validates a result after the call made it: one it refuses
\* reaches the client as an error.  The controller does so where it reads it.
Answers(p, result) ==
  /\ call' = [call EXCEPT ![p] = NoCall]
  /\ \E told \in {result} \cup
          IF p = "server" THEN {[NoAnswer EXCEPT !.kind = "tool_result_invalid"]} ELSE {} :
       answer' = [answer EXCEPT ![p] = told]

Said(kind) == [NoAnswer EXCEPT !.kind = kind]

Remembers(p, outcome, result) ==
  adapter' = [adapter EXCEPT ![p].replay =
    [ref |-> call[p].ref, outcome |-> outcome, kind |-> result.kind,
     bundle |-> result.bundle]]

-----------------------------------------------------------------------------
(* Transport *)

\* initialize with valid params; any other leaves no trace.
Initialize ==
  /\ Idle("server")
  /\ transport' = [transport EXCEPT !.responded = TRUE]
  /\ UNCHANGED <<store, bundles, adapter, call, answer, cli, counters>>

\* notifications/initialized
Initialized ==
  /\ Idle("server")
  /\ transport.responded
  /\ transport' = [transport EXCEPT !.ready = TRUE]
  /\ UNCHANGED <<store, bundles, adapter, call, answer, cli, counters>>

\* tools/call reaches a tool only of a server that is ready.
Called ==
  /\ Idle("server")
  /\ transport.ready
  /\ calls < MaxCalls /\ calls' = calls + 1

-----------------------------------------------------------------------------
(* Writing a file: it is opened, which empties it, and then filled *)

\* Other calls on the same ticket are no longer undisturbed.
Disturbs(p, ticket, mine) ==
  call' = [q \in Process |->
             IF q = p THEN mine
             ELSE [call[q] EXCEPT !.quiet = @ /\ call[q].ticket # ticket]]

Puts(p, content, mine) ==
  LET c == call[p]
  IN IF c.file \in {"text", "meta"}
     THEN /\ store' = [store EXCEPT ![c.ticket][c.file] = content]
          /\ Disturbs(p, c.ticket, mine)
          /\ UNCHANGED bundles
     ELSE /\ bundles' = [bundles EXCEPT ![c.bundle][c.file] = content]
          /\ call' = [call EXCEPT ![p] = mine]
          /\ UNCHANGED store

Parts(c) ==
  CASE c.file = "text" -> {"torn", "garbled"}
    [] c.file = "meta" -> {Unusable(c.ticket, "part")}
    [] OTHER -> {"torn"}

Complete(c) ==
  CASE c.file = "text" -> c.text
    [] c.file = "meta" -> Registered(c.ticket, c.text)
    [] OTHER -> "whole"

Writing(p) == call[p].step = "write"

OpenFile(p) ==
  /\ Writing(p) /\ ~ call[p].open
  /\ \E part \in Parts(call[p]) :
       Puts(p, part, [call[p] EXCEPT !.open = TRUE])
  /\ UNCHANGED <<adapter, answer, transport, cli, counters>>

\* Mutant: the document is written behind its manifest once more.
NextFileHtmlAgain(file) ==
  CASE file = "text" -> "meta" [] file = "html" -> "manifest"
    [] file = "manifest" -> "html" [] OTHER -> "none"

NextFile(file) ==
  CASE file = "text" -> "meta" [] file = "html" -> "manifest" [] OTHER -> "none"

FillFile(p) ==
  /\ Writing(p) /\ call[p].open
  /\ LET next == NextFile(call[p].file)
     IN Puts(p, Complete(call[p]),
             [call[p] EXCEPT !.open = FALSE, !.file = next,
                             !.step = IF next = "none" THEN "written" ELSE "write"])
  /\ UNCHANGED <<adapter, answer, transport, cli, counters>>

\* The result of a register call, or of a confirm that reached the bundle.
Ends(p, kind) ==
  LET c == call[p]
      result == [kind |-> kind, ref |-> c.ref, bundle |-> c.bundle]
  IN /\ Answers(p, result)
     /\ IF c.ref = 0 THEN UNCHANGED adapter ELSE Remembers(p, "none_fit", result)
     /\ UNCHANGED <<store, bundles, transport, cli, counters>>

\* An OSError leaves the file as far as it got.
WriteFails(p) ==
  /\ Writing(p)
  /\ Ends(p, IF call[p].ref = 0 THEN "failed" ELSE "not_drafted")

Written(p) ==
  /\ call[p].step = "written"
  /\ Ends(p, IF call[p].ref = 0 THEN "registered" ELSE "draft")

-----------------------------------------------------------------------------
(* kcs_register_clean_ticket *)

\* The pending review goes, also when the text is refused.
Register(ticket, text) ==
  /\ Called
  /\ adapter' = [adapter EXCEPT !["server"].review = "none"]
  /\ \/ /\ call' = [call EXCEPT !["server"] =
              [NoCall EXCEPT !.step = "write", !.file = "text",
                             !.ticket = ticket, !.text = text]]
        /\ UNCHANGED answer
     \/ Answers("server", Said("failed"))
  /\ UNCHANGED <<store, bundles, transport, cli, minted, external, deaths>>

-----------------------------------------------------------------------------
(* kcs_draft_ticket, and the comparison-only way in of the operator *)

\* The ticket is read, and what it says decides the way on.
Draft(p, named) ==
  LET ticket == Resolve(store, named)
      payload == Payload(store[ticket])
  IN /\ answer' = [answer EXCEPT ![p] = IF payload = <<>> THEN Said("failed") ELSE NoAnswer]
     /\ call' = IF payload = <<>> THEN call ELSE
          [call EXCEPT ![p] = [NoCall EXCEPT
             !.step = IF payload[1] = "item" THEN "search" ELSE "extract",
             !.ticket = ticket, !.text = payload[1], !.source = Source(store[ticket])]]

DraftTicket(ticket) ==
  /\ Called
  /\ Draft("server", ticket)
  /\ adapter' = [adapter EXCEPT !["server"].review = "none"]
  /\ UNCHANGED <<store, bundles, transport, cli, minted, external, deaths>>

\* One candidate is looked up, several make a selection (which the operator's
\* controller refuses), none ask for a review.
Extract(p) ==
  /\ call[p].step = "extract"
  /\ \/ \E step \in {"search", "reread"} : Goes(p, step) /\ UNCHANGED answer
     \/ \E kind \in {"selection", "failed"} : Answers(p, Said(kind))
  /\ UNCHANGED <<store, bundles, adapter, transport, cli, counters>>

\* clean_ticket_semantic_review_metadata reads the clean text once more, whatever
\* the text under review came from, and has the metadata vouch for what it read.
Reread(p) ==
  /\ call[p].step = "reread"
  /\ LET text == CleanText(store[call[p].ticket])
     IN IF text = <<>> THEN Answers(p, Said("failed"))
        ELSE /\ call' = [call EXCEPT ![p].step = "vouch", ![p].seen = text[1]]
             /\ UNCHANGED answer
  /\ UNCHANGED <<store, bundles, adapter, transport, cli, counters>>

StartReview(p) ==
  /\ call[p].step = "vouch"
  /\ LET c == call[p]
     IN IF Vouches(store[c.ticket].meta, c.ticket, c.seen)
        THEN /\ adapter' = [adapter EXCEPT ![p].review = c.text]
             /\ Answers(p, Said("review"))
        ELSE UNCHANGED adapter /\ Answers(p, Said("failed"))
  /\ UNCHANGED <<store, bundles, transport, cli, counters>>

\* A new comparison, or none in place of the one before.
Search(p) ==
  /\ call[p].step = "search"
  /\ \/ /\ minted < MaxMinted /\ minted' = minted + 1
        /\ adapter' = [adapter EXCEPT ![p].comparison = minted']
        /\ Answers(p, [Said("required") EXCEPT !.ref = minted'])
     \/ /\ adapter' = [adapter EXCEPT ![p].comparison = 0]
        /\ Answers(p, Said("blocked"))
        /\ UNCHANGED minted
  /\ UNCHANGED <<store, bundles, transport, cli, calls, external, deaths>>

-----------------------------------------------------------------------------
(* kcs_confirm_reuse_comparison *)

\* Mutant: a duplicate of a settled confirm is not recognised, and what it
\* settled is not gone.
ConfirmWithoutReplay(p, ref, outcome) ==
  /\ outcome = "none_fit" /\ ref # 0
  /\ call' = [call EXCEPT ![p] = [NoCall EXCEPT !.step = "author", !.ref = ref]]
  /\ UNCHANGED <<adapter, answer>>

\* A duplicate is answered from memory; a submit of another comparison than the
\* pending one is refused and leaves it; the pending one is consumed.
Confirm(p, ref, outcome) ==
  LET replay == adapter[p].replay
  IN \/ /\ ref = replay.ref /\ ref # 0
        /\ Answers(p, IF outcome = replay.outcome
                      THEN [kind |-> replay.kind, ref |-> ref, bundle |-> replay.bundle]
                      ELSE Said("failed"))
        /\ UNCHANGED adapter
     \/ /\ ref # replay.ref
        /\ ref # adapter[p].comparison
        /\ Answers(p, Said("failed"))
        /\ UNCHANGED adapter
     \/ /\ ref = adapter[p].comparison /\ ref # 0
        /\ outcome = "none_fit"
        /\ adapter' = [adapter EXCEPT ![p].comparison = 0]
        /\ call' = [call EXCEPT ![p] = [NoCall EXCEPT !.step = "author", !.ref = ref]]
        /\ UNCHANGED answer
     \/ /\ ref = adapter[p].comparison /\ ref # 0
        /\ outcome # "none_fit"
        /\ adapter' = [adapter EXCEPT ![p].comparison = 0,
                         ![p].replay = [ref |-> ref, outcome |-> outcome,
                                        kind |-> "recorded", bundle |-> 0]]
        /\ Answers(p, [Said("recorded") EXCEPT !.ref = ref])

ConfirmComparison(ref, outcome) ==
  /\ Called
  /\ Confirm("server", ref, outcome)
  /\ UNCHANGED <<store, bundles, transport, cli, minted, external, deaths>>

\* The draft is not ready, or its directory cannot be made.
AuthorWithoutBundle(p) == call[p].step = "author" /\ Ends(p, "not_drafted")

\* An exception in the author is an error, and nothing is remembered.
AuthorRaises(p) ==
  /\ call[p].step = "author"
  /\ Answers(p, Said("failed"))
  /\ UNCHANGED <<store, bundles, adapter, transport, cli, counters>>

MakeDirectory(p) ==
  /\ call[p].step = "author"
  /\ bundles' = Append(bundles, [html |-> "none", manifest |-> "none",
                                 by |-> p, of |-> call[p].ref])
  /\ call' = [call EXCEPT ![p].step = "write", ![p].file = "html",
                          ![p].bundle = Len(bundles')]
  /\ UNCHANGED <<store, adapter, answer, transport, cli, counters>>

-----------------------------------------------------------------------------
(* The operator: one process per session *)

\* begin, by way of run_interactive or run_preflight
Begin(ticket) ==
  /\ cli.stage = "off"
  /\ calls < MaxCalls /\ calls' = calls + 1
  /\ cli' = [Off EXCEPT !.stage = "begin"]
  /\ Draft("operator", ticket)
  /\ UNCHANGED <<store, bundles, adapter, transport, minted, external, deaths>>

\* The process ends, and its adapter with it; its exit code is left out.
Exits ==
  /\ cli' = Off
  /\ answer' = [answer EXCEPT !["operator"] = NoAnswer]
  /\ adapter' = [adapter EXCEPT !["operator"] = Fresh]

\* Only a comparison goes on, if its result passes validation and this is no
\* preflight: a review or a selection violates what the controller expects.
Begun ==
  /\ cli.stage = "begin" /\ Idle("operator")
  /\ \/ /\ answer["operator"].kind = "required"
        /\ cli' = [stage |-> "ask", session |-> answer["operator"].ref]
        /\ UNCHANGED <<adapter, answer>>
     \/ Exits
  /\ UNCHANGED <<store, bundles, call, transport, counters>>

\* Mutant: the session is forgotten after the answer only.
ChooseKeepsSession(outcome) ==
  /\ cli.stage = "ask"
  /\ cli' = [cli EXCEPT !.stage = "confirm"]
  /\ Confirm("operator", cli.session, outcome)
  /\ UNCHANGED <<store, bundles, transport, counters>>

\* confirm: the session is over before the adapter is called.
Choose(outcome) ==
  /\ cli.stage = "ask"
  /\ cli' = [cli EXCEPT !.stage = "confirm", !.session = 0]
  /\ Confirm("operator", cli.session, outcome)
  /\ UNCHANGED <<store, bundles, transport, counters>>

\* The input ends, or holds three choices that are none.
GiveUp ==
  /\ cli.stage = "ask"
  /\ Exits
  /\ UNCHANGED <<store, bundles, call, transport, counters>>

\* The last result is shown, or refused although it happened.
Confirmed ==
  /\ cli.stage = "confirm" /\ Idle("operator")
  /\ \/ answer["operator"].kind \in {"draft", "not_drafted", "recorded"} /\ Exits
     \/ Exits
  /\ UNCHANGED <<store, bundles, call, transport, counters>>

-----------------------------------------------------------------------------
(* The surroundings *)

\* The cleanup form writes a text or metadata that does not allow a review, a
\* person writes an approved summary.
External(ticket, file, content) ==
  /\ external < MaxExternal /\ external' = external + 1
  /\ store' = [store EXCEPT ![ticket][file] = content]
  /\ call' = [q \in Process |->
               [call[q] EXCEPT !.quiet = @ /\ call[q].ticket # ticket]]
  /\ UNCHANGED <<bundles, adapter, answer, transport, cli, minted, calls, deaths>>

ExternalWrites ==
  \E ticket \in Ticket, text \in Text :
    \/ External(ticket, "text", text)
    \/ External(ticket, "meta", [Registered(ticket, text) EXCEPT !.allowed = FALSE])
    \/ \E summary \in {"item", text} : External(ticket, "summary", summary)

\* The server dies, in a call or between two, and is started again.
Restart ==
  /\ deaths < MaxDeaths /\ deaths' = deaths + 1
  /\ call' = [call EXCEPT !["server"] = NoCall]
  /\ answer' = [answer EXCEPT !["server"] = NoAnswer]
  /\ adapter' = [adapter EXCEPT !["server"] = Fresh]
  /\ transport' = [responded |-> FALSE, ready |-> FALSE]
  /\ UNCHANGED <<store, bundles, cli, minted, calls, external>>

\* The operator closes the terminal.
Abort ==
  /\ cli.stage # "off"
  /\ Exits
  /\ call' = [call EXCEPT !["operator"] = NoCall]
  /\ UNCHANGED <<store, bundles, transport, counters>>

Tool ==
  \/ \E ticket \in Ticket, text \in Text : Register(ticket, text)
  \/ \E ticket \in Ticket : DraftTicket(ticket)
  \/ \E ref \in 0..MaxMinted, outcome \in Outcome : ConfirmComparison(ref, outcome)

Step(p) ==
  \/ Extract(p) \/ Reread(p) \/ StartReview(p) \/ Search(p)
  \/ AuthorWithoutBundle(p) \/ AuthorRaises(p) \/ MakeDirectory(p)
  \/ OpenFile(p) \/ FillFile(p) \/ WriteFails(p) \/ Written(p)

Operator ==
  \/ \E ticket \in Ticket : Begin(ticket)
  \/ Begun \/ (\E outcome \in Outcome : Choose(outcome)) \/ GiveUp \/ Confirmed
  \/ Abort

Next ==
  \/ Initialize \/ Initialized \/ Tool
  \/ \E p \in Process : Step(p)
  \/ Operator
  \/ ExternalWrites \/ Restart

Spec == Init /\ [][Next]_vars

-----------------------------------------------------------------------------
(* Properties *)

Starts(p) == adapter'[p].review # "none" /\ call[p].step = "vouch" /\ call'[p] = NoCall

\* The metadata on disk holds the digest of the text that goes into the review,
\* and allows one.
ApprovedAsReviewed(p) ==
  LET meta == store[call[p].ticket].meta
  IN meta.of = adapter'[p].review /\ meta.allowed

\* The metadata on disk vouches for the very text that goes into a review, if
\* that came from the clean text file and nobody else wrote there meanwhile:
\* whatever registrations failed or died half way before.
ReviewIsVouched ==
  [][\A p \in Process :
       Starts(p) /\ call[p].source = "clean" /\ call[p].quiet =>
         ApprovedAsReviewed(p)]_vars

\* A manifest never names a document that is not there in full, through write
\* failures and deaths; and what is announced as a draft, also by a replay, is
\* a complete bundle of that comparison.
AnnouncedIsComplete ==
  /\ \A i \in DOMAIN bundles :
       bundles[i].manifest # "none" => bundles[i].html = "whole"
  /\ \A p \in Process :
       answer[p].kind = "draft" =>
         LET bundle == bundles[answer[p].bundle]
         IN bundle.manifest = "whole" /\ bundle.of = answer[p].ref

\* However often a confirm is sent again, because its result was refused on the
\* way, its write failed or its process died: one bundle for a comparison.
OneBundlePerComparison ==
  \A i, j \in DOMAIN bundles : bundles[i].of = bundles[j].of => i = j

\* While the controller holds a session its adapter still holds the comparison
\* and has drafted nothing for it; so a choice is asked for only while it can
\* count, and none counts twice.
SessionIsPending ==
  cli.session # 0 =>
    /\ adapter["operator"].comparison = cli.session
    /\ \A i \in DOMAIN bundles : bundles[i].of # cli.session

\* docs/internal/kcs-authoring-mvp-data-handling-baseline.md: metadata must bind
\* the approval to the exact clean ticket before any excerpt is returned.
ReviewedTextIsApproved ==
  [][\A p \in Process : Starts(p) => ApprovedAsReviewed(p)]_vars
=============================================================================
