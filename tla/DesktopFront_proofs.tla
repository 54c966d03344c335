------------------------- MODULE DesktopFront_proofs -------------------------
(***************************************************************************)
(* Proofs about DesktopFront: whatever fails, is refused, dies or is       *)
(* written from outside, and for any number of calls, a comparison has at  *)
(* most one bundle, what is announced as a draft is complete, the          *)
(* operator's session is of a pending comparison, and a review of a clean  *)
(* text is vouched for.  The invariant follows a comparison's ref from the *)
(* adapter that holds it to the call that confirms it and to its bundle.   *)
(***************************************************************************)
EXTENDS DesktopFront, SequenceTheorems, TLAPS

USE CanonicalAssumption, FrontBoundsAssumption DEF Process

State == {"none", "torn", "whole"}
Bundle == [html : State, manifest : State, by : Process, of : Nat]

\* What the variables are, as far as the proofs look at them.
Shape ==
  /\ minted \in Nat
  /\ bundles \in Seq(Bundle)
  /\ DOMAIN store = Ticket
  /\ DOMAIN call = Process /\ DOMAIN adapter = Process /\ DOMAIN answer = Process
  /\ \A p \in Process : DOMAIN call[p] = DOMAIN NoCall /\ DOMAIN adapter[p] = DOMAIN Fresh
  /\ DOMAIN cli = DOMAIN Off

\* A ref is held once: as a pending comparison, or by the call that confirms it;
\* and it has no bundle until that call has made one.
RefsInv ==
  /\ \A p \in Process : adapter[p].comparison \in 0 .. minted /\ call[p].ref \in 0 .. minted
  /\ \A p \in Process : call[p].step = "author" => call[p].ref # 0
  /\ \A p \in Process : call[p].ref # 0 => call[p].step \in {"author", "write", "written"}
  /\ \A p, q \in Process :
       adapter[p].comparison # 0 =>
         /\ adapter[p].comparison # call[q].ref
         /\ p # q => adapter[p].comparison # adapter[q].comparison
  /\ \A p, q \in Process : p # q /\ call[p].ref # 0 => call[p].ref # call[q].ref
  /\ \A i \in 1 .. Len(bundles) :
       /\ bundles[i].of \in 1 .. minted
       /\ \A p \in Process :
            /\ bundles[i].of # adapter[p].comparison
            /\ call[p].step = "author" => bundles[i].of # call[p].ref
  /\ \A i, j \in 1 .. Len(bundles) : bundles[i].of = bundles[j].of => i = j

\* A call that writes a bundle writes the one of its ref: the manifest is not whole
\* before the call is through, and not begun before the document is whole.
BundleWrite(c) ==
  /\ c.bundle \in 1 .. Len(bundles) /\ bundles[c.bundle].of = c.ref
  /\ c.step = "written" => bundles[c.bundle].manifest = "whole"
  /\ c.step = "write" =>
       /\ bundles[c.bundle].manifest # "whole"
       /\ \/ c.file = "html" /\ bundles[c.bundle].manifest = "none"
          \/ c.file = "manifest" /\ bundles[c.bundle].html = "whole"

WritesInv ==
  \A p \in Process :
    /\ call[p].ref # 0 /\ call[p].step \in {"write", "written"} => BundleWrite(call[p])
    /\ call[p].ref = 0 /\ call[p].step = "write" => call[p].file \in {"text", "meta"}

Drafted(i, ref) ==
  i \in 1 .. Len(bundles) /\ bundles[i].manifest = "whole" /\ bundles[i].of = ref

AnnouncedInv ==
  /\ \A i \in 1 .. Len(bundles) : bundles[i].manifest # "none" => bundles[i].html = "whole"
  /\ \A p \in Process : answer[p].kind = "draft" => Drafted(answer[p].bundle, answer[p].ref)
  /\ \A p \in Process :
       LET replay == adapter[p].replay
       IN replay.kind = "draft" => Drafted(replay.bundle, replay.ref)

\* The operator's process does one thing at a time, and asks for a choice only
\* about the comparison its adapter holds.
SessionInv ==
  LET idle == call["operator"].step = "none"
      pending == adapter["operator"].comparison
  IN /\ cli.session # 0 => cli.stage = "ask" /\ pending = cli.session
     /\ cli.stage = "ask" => idle
     /\ cli.stage = "begin" /\ answer["operator"].kind = "required" =>
          idle /\ answer["operator"].ref = pending
     /\ cli.stage = "off" => idle /\ adapter["operator"].review = "none"

\* A call that nobody disturbed still has the text that is in the file.
QuietInv ==
  \A p \in Process :
    /\ call[p].step \in {"extract", "reread", "vouch"} =>
         call[p].ticket \in Ticket /\ adapter[p].review = "none"
    /\ call[p].source = "clean" /\ call[p].quiet =>
         /\ call[p].step \in {"extract", "reread"} =>
              store[call[p].ticket].text = call[p].text
         /\ call[p].step = "vouch" => call[p].seen = call[p].text

IInv == Shape /\ RefsInv /\ WritesInv /\ AnnouncedInv /\ SessionInv /\ QuietInv

-----------------------------------------------------------------------------
(* Calls that go on or end *)

LEMMA CallFields ==
  /\ DOMAIN NoCall = {"step", "ticket", "text", "source", "seen", "quiet", "file", "open",
                      "ref", "bundle"}
  /\ NoCall.step = "none" /\ NoCall.ref = 0 /\ NoCall.source = "none"
  /\ DOMAIN Fresh = {"comparison", "review", "replay"} /\ Fresh.comparison = 0
  /\ Fresh.review = "none" /\ Fresh.replay.kind = "none"
  /\ DOMAIN Off = {"stage", "session"} /\ Off.stage = "off" /\ Off.session = 0
BY DEF NoCall, Fresh, Off, NoReplay

\* Refs that are only given up, and bundles that keep theirs.
LEMMA RefsKept ==
  ASSUME IInv, minted' = minted, Shape', Len(bundles') = Len(bundles),
         \A i \in 1 .. Len(bundles) : bundles'[i].of = bundles[i].of,
         \A p \in Process : /\ adapter'[p].comparison \in {0, adapter[p].comparison}
                            /\ \/ call'[p].ref = 0 /\ call'[p].step # "author"
                               \/ /\ call'[p].ref = call[p].ref
                                  /\ call'[p].step = call[p].step
                               \/ /\ call'[p].ref = call[p].ref
                                  /\ call'[p].step = "written"
  PROVE  RefsInv'
<1> USE DEF IInv
<1>1. ASSUME NEW p \in Process
      PROVE  adapter'[p].comparison \in 0 .. minted' /\ call'[p].ref \in 0 .. minted'
  <2>1. adapter[p].comparison \in 0 .. minted /\ call[p].ref \in 0 .. minted
    BY DEF RefsInv
  <2>2. 0 \in 0 .. minted
    BY DEF Shape
  <2>3. adapter'[p].comparison \in {0, adapter[p].comparison} /\ call'[p].ref \in {0, call[p].ref}
    OBVIOUS
  <2> QED
    BY <2>1, <2>2, <2>3
<1>2. ASSUME NEW p \in Process
      PROVE  /\ call'[p].step = "author" => call'[p].ref # 0
             /\ call'[p].ref # 0 => call'[p].step \in {"author", "write", "written"}
  BY DEF RefsInv
<1>3. ASSUME NEW p \in Process, NEW q \in Process, adapter'[p].comparison # 0
      PROVE  /\ adapter'[p].comparison # call'[q].ref
             /\ p # q => adapter'[p].comparison # adapter'[q].comparison
  <2>1. /\ adapter'[p].comparison = adapter[p].comparison
        /\ adapter'[q].comparison \in {0, adapter[q].comparison}
        /\ call'[q].ref \in {0, call[q].ref}
    BY <1>3
  <2>2. /\ adapter[p].comparison # call[q].ref
        /\ p # q => adapter[p].comparison # adapter[q].comparison
    BY <1>3, <2>1 DEF RefsInv
  <2> QED
    BY <1>3, <2>1, <2>2
<1>4. ASSUME NEW p \in Process, NEW q \in Process, p # q, call'[p].ref # 0
      PROVE  call'[p].ref # call'[q].ref
  <2>1. call'[p].ref = call[p].ref /\ call'[q].ref \in {0, call[q].ref}
    BY <1>4
  <2> QED
    BY <1>4, <2>1 DEF RefsInv
<1>5. \A i \in 1 .. Len(bundles') :
        /\ bundles'[i].of \in 1 .. minted'
        /\ \A p \in Process :
             /\ bundles'[i].of # adapter'[p].comparison
             /\ call'[p].step = "author" => bundles'[i].of # call'[p].ref
  <2> SUFFICES ASSUME NEW i \in 1 .. Len(bundles')
               PROVE  /\ bundles'[i].of \in 1 .. minted'
                      /\ \A p \in Process :
                           /\ bundles'[i].of # adapter'[p].comparison
                           /\ call'[p].step = "author" => bundles'[i].of # call'[p].ref
    OBVIOUS
  <2>1. i \in 1 .. Len(bundles) /\ bundles'[i].of = bundles[i].of
    OBVIOUS
  <2>2. bundles'[i].of \in 1 .. minted'
    BY <2>1 DEF RefsInv
  <2>3. bundles'[i].of # 0
    BY <2>2 DEF Shape
  <2> QED
    BY <2>1, <2>2, <2>3, SMTT(20) DEF RefsInv
<1>6. \A i, j \in 1 .. Len(bundles') : bundles'[i].of = bundles'[j].of => i = j
  BY DEF RefsInv
<1> QED
  BY <1>1, <1>2, <1>3, <1>4, <1>5, <1>6 DEF RefsInv

\* Writes that go on as they were, while no bundle changes.
LEMMA WritesKept ==
  ASSUME IInv, bundles' = bundles,
         \A p \in Process :
           \/ call'[p].step \notin {"write", "written"}
           \/ /\ call'[p].ref = call[p].ref /\ call'[p].step = call[p].step
              /\ call'[p].file = call[p].file /\ call'[p].bundle = call[p].bundle
           \/ /\ call'[p].ref = 0
              /\ call'[p].step = "write" => call'[p].file \in {"text", "meta"}
  PROVE  WritesInv'
BY ZenonT(40) DEF IInv, WritesInv, BundleWrite

\* No draft is announced that was not before, while no bundle changes.
LEMMA AnnouncedKept ==
  ASSUME IInv, bundles' = bundles,
         \A p \in Process :
           /\ \/ answer'[p].kind # "draft"
              \/ answer'[p] = answer[p]
              \/ Drafted(answer'[p].bundle, answer'[p].ref)
           /\ \/ adapter'[p].replay.kind # "draft"
              \/ adapter'[p].replay = adapter[p].replay
              \/ Drafted(adapter'[p].replay.bundle, adapter'[p].replay.ref)
  PROVE  AnnouncedInv'
BY ZenonT(40) DEF IInv, AnnouncedInv, Drafted

\* Calls that end or go on as they were, while no ticket changes.
LEMMA QuietKept ==
  ASSUME IInv, store' = store,
         \A p \in Process :
           \/ call'[p].step \notin {"extract", "reread", "vouch"}
           \/ /\ call'[p].step = call[p].step /\ call'[p].ticket = call[p].ticket
              /\ call'[p].text = call[p].text /\ call'[p].seen = call[p].seen
              /\ call'[p].source = call[p].source /\ call'[p].quiet = call[p].quiet
              /\ adapter'[p].review \in {"none", adapter[p].review}
  PROVE  QuietInv'
BY DEF IInv, QuietInv

\* What an answer does to the call and to what the client has.
LEMMA AnswersFacts ==
  ASSUME Shape, NEW p \in Process, NEW result, Answers(p, result)
  PROVE  /\ DOMAIN call' = Process /\ DOMAIN answer' = Process
         /\ call'[p] = NoCall
         /\ \A q \in Process : q # p => call'[q] = call[q] /\ answer'[q] = answer[q]
         /\ \/ answer'[p] = result
            \/ p = "server" /\ answer'[p] = [NoAnswer EXCEPT !.kind = "tool_result_invalid"]
         /\ \A q \in Process : DOMAIN call'[q] = DOMAIN NoCall
BY DEF Shape, Answers

LEMMA SaidFacts == \A kind : Said(kind).kind = kind
BY DEF Said, NoAnswer

LEMMA InitIInv == Init => IInv
<1> SUFFICES ASSUME Init PROVE IInv
  OBVIOUS
<1>1. Shape
  BY DEF Init, Shape, Bundle
<1>2. RefsInv
  BY CallFields DEF Init, RefsInv
<1>3. WritesInv
  BY CallFields DEF Init, WritesInv
<1>4. AnnouncedInv
  BY CallFields DEF Init, AnnouncedInv, NoAnswer
<1>5. SessionInv
  BY CallFields DEF Init, SessionInv
<1>6. QuietInv
  BY CallFields DEF Init, QuietInv
<1> QED
  BY <1>1, <1>2, <1>3, <1>4, <1>5, <1>6 DEF IInv

\* A step of a process that is in a call, or of the server, leaves the session as
\* it is, unless the operator's process is told of a comparison.
LEMMA SessionKept ==
  ASSUME IInv, NEW p \in Process, p = "server" \/ call[p].step # "none", cli' = cli,
         \A q \in Process : q # p =>
           call'[q] = call[q] /\ adapter'[q] = adapter[q] /\ answer'[q] = answer[q],
         \/ answer'[p] = answer[p]
         \/ answer'[p].kind # "required"
         \/ call'[p].step = "none" /\ answer'[p].ref = adapter'[p].comparison
  PROVE  SessionInv'
<1>1. CASE p = "server"
  BY <1>1 DEF IInv, SessionInv
<1>2. CASE p = "operator"
  BY <1>2 DEF IInv, SessionInv
<1> QED
  BY <1>1, <1>2

\* A call that ends gives up what it held and announces no draft but a whole one.
LEMMA CallEnds ==
  ASSUME IInv, NEW p \in Process, NEW result, Answers(p, result),
         UNCHANGED <<store, bundles, minted>>, DOMAIN cli' = DOMAIN Off,
         DOMAIN adapter' = Process, DOMAIN adapter'[p] = DOMAIN Fresh,
         \A q \in Process : q # p => adapter'[q] = adapter[q],
         adapter'[p].comparison \in {0, adapter[p].comparison},
         \/ adapter'[p].replay = adapter[p].replay
         \/ adapter'[p].replay.kind # "draft"
         \/ Drafted(adapter'[p].replay.bundle, adapter'[p].replay.ref),
         result.kind = "draft" => Drafted(result.bundle, result.ref)
  PROVE  Shape' /\ RefsInv' /\ WritesInv' /\ AnnouncedInv' /\ QuietInv'
<1>1. Shape
  BY DEF IInv
<1>2. /\ call'[p] = NoCall
      /\ \A q \in Process : q # p => call'[q] = call[q] /\ answer'[q] = answer[q]
      /\ \/ answer'[p] = result
         \/ answer'[p].kind = "tool_result_invalid"
      /\ DOMAIN call' = Process /\ DOMAIN answer' = Process
      /\ \A q \in Process : DOMAIN call'[q] = DOMAIN NoCall
  BY <1>1, AnswersFacts DEF NoAnswer
<1>3. call'[p].step = "none" /\ call'[p].ref = 0
  BY <1>2, CallFields
<1>4. Shape'
  BY <1>1, <1>2 DEF Shape
<1>5. RefsInv'
  BY <1>2, <1>3, <1>4, RefsKept
<1>6. WritesInv'
  BY <1>2, <1>3, WritesKept
<1>7. AnnouncedInv'
  BY <1>2, AnnouncedKept
<1>8. QuietInv'
  BY <1>2, <1>3, QuietKept
<1> QED
  BY <1>4, <1>5, <1>6, <1>7, <1>8

\* A process that ends forgets everything.
LEMMA ProcessEnds ==
  ASSUME IInv, NEW p \in Process, UNCHANGED <<store, bundles, minted>>, DOMAIN cli' = DOMAIN Off,
         adapter' = [adapter EXCEPT ![p] = Fresh],
         answer' = [answer EXCEPT ![p] = NoAnswer],
         call' = call \/ call' = [call EXCEPT ![p] = NoCall]
  PROVE  Shape' /\ RefsInv' /\ WritesInv' /\ AnnouncedInv' /\ QuietInv'
<1>1. /\ adapter'[p] = Fresh /\ answer'[p] = NoAnswer
      /\ call'[p] = call[p] \/ call'[p] = NoCall
      /\ \A q \in Process : q # p =>
           adapter'[q] = adapter[q] /\ answer'[q] = answer[q] /\ call'[q] = call[q]
      /\ DOMAIN call' = Process /\ DOMAIN adapter' = Process /\ DOMAIN answer' = Process
  BY DEF IInv, Shape
<1>2. Shape'
  BY <1>1 DEF IInv, Shape
<1>3. RefsInv'
  BY <1>1, <1>2, CallFields, RefsKept
<1>4. WritesInv'
  BY <1>1, CallFields, WritesKept
<1>5. AnnouncedInv'
  BY <1>1, CallFields, AnnouncedKept DEF NoAnswer
<1>6. QuietInv'
  BY <1>1, CallFields, QuietKept
<1> QED
  BY <1>2, <1>3, <1>4, <1>5, <1>6

-----------------------------------------------------------------------------
(* The surroundings *)

LEMMA HandshakeStep ==
  IInv /\ (Initialize \/ Initialized \/ UNCHANGED vars) => IInv'
<1> SUFFICES ASSUME IInv, UNCHANGED <<store, bundles, adapter, call, answer, cli, counters>>
             PROVE  IInv'
  BY DEF Initialize, Initialized, vars
<1>1. Shape'
  BY DEF IInv, Shape, counters
<1>2. RefsInv' /\ WritesInv' /\ QuietInv'
  BY <1>1, RefsKept, WritesKept, QuietKept DEF counters, IInv
<1>3. AnnouncedInv' /\ SessionInv'
  BY DEF IInv, AnnouncedInv, Drafted, SessionInv
<1> QED
  BY <1>1, <1>2, <1>3 DEF IInv

LEMMA RestartStep == IInv /\ Restart => IInv'
<1> SUFFICES ASSUME IInv, Restart PROVE IInv'
  OBVIOUS
<1>1. Shape' /\ RefsInv' /\ WritesInv' /\ AnnouncedInv' /\ QuietInv'
  BY ProcessEnds DEF Restart, IInv, Shape
<1>2. SessionInv'
  BY DEF Restart, IInv, Shape, SessionInv
<1> QED
  BY <1>1, <1>2 DEF IInv

LEMMA ExitsStep ==
  ASSUME IInv, Exits, UNCHANGED <<store, bundles, minted>>,
         \/ call' = call /\ call["operator"].step = "none"
         \/ call' = [call EXCEPT !["operator"] = NoCall]
  PROVE  IInv'
<1>1. Shape' /\ RefsInv' /\ WritesInv' /\ AnnouncedInv' /\ QuietInv'
  BY ProcessEnds DEF Exits
<1>2. call'["operator"].step = "none" /\ adapter'["operator"] = Fresh /\ cli' = Off
  BY CallFields DEF Exits, IInv, Shape
<1>3. SessionInv'
  BY <1>2, CallFields DEF SessionInv
<1> QED
  BY <1>1, <1>3 DEF IInv

\* A write to a ticket file disturbs the calls on that ticket.
LEMMA QuietDisturbed ==
  ASSUME IInv, adapter' = adapter, NEW ticket, NEW file, NEW content,
         store' = [store EXCEPT ![ticket][file] = content],
         \A q \in Process :
           \/ call'[q].step \notin {"extract", "reread", "vouch"}
           \/ /\ call'[q].step = call[q].step /\ call'[q].ticket = call[q].ticket
              /\ call'[q].text = call[q].text /\ call'[q].seen = call[q].seen
              /\ call'[q].source = call[q].source
              /\ call'[q].quiet => call[q].quiet /\ call[q].ticket # ticket
  PROVE  QuietInv'
BY DEF IInv, QuietInv, Shape

LEMMA ExternalStep == IInv /\ ExternalWrites => IInv'
<1> SUFFICES ASSUME IInv, NEW ticket \in Ticket, NEW file, NEW content,
                    External(ticket, file, content)
             PROVE  IInv'
  BY DEF ExternalWrites
<1>1. \A q \in Process :
        /\ \A f \in DOMAIN NoCall \ {"quiet"} : call'[q][f] = call[q][f]
        /\ call'[q].quiet => call[q].quiet /\ call[q].ticket # ticket
        /\ DOMAIN call'[q] = DOMAIN NoCall
  BY CallFields DEF External, IInv, Shape
<1>2. /\ store' = [store EXCEPT ![ticket][file] = content] /\ DOMAIN call' = Process
      /\ UNCHANGED <<bundles, adapter, answer, cli, minted>>
  BY DEF External
<1>3. \A q \in Process :
        /\ call'[q].step = call[q].step /\ call'[q].ticket = call[q].ticket
        /\ call'[q].text = call[q].text /\ call'[q].seen = call[q].seen
        /\ call'[q].source = call[q].source /\ call'[q].ref = call[q].ref
        /\ call'[q].file = call[q].file /\ call'[q].bundle = call[q].bundle
  BY <1>1, CallFields
<1>4. Shape'
  BY <1>1, <1>2 DEF IInv, Shape
<1>5. RefsInv'
  BY <1>2, <1>3, <1>4, RefsKept
<1>6. WritesInv'
  BY <1>2, <1>3, WritesKept
<1>7. AnnouncedInv'
  BY <1>2, AnnouncedKept
<1>8. SessionInv'
  BY <1>2, <1>3 DEF IInv, SessionInv
<1>9. QuietInv'
  BY <1>1, <1>2, <1>3, QuietDisturbed, ZenonT(40)
<1> QED
  BY <1>4, <1>5, <1>6, <1>7, <1>8, <1>9 DEF IInv

-----------------------------------------------------------------------------
(* The steps of a call *)

\* A call that goes on with the ticket it has read.
LEMMA MovesOn ==
  ASSUME IInv, NEW p \in Process, call[p].step \in {"extract", "reread"},
         NEW step \in {"search", "reread", "vouch"}, NEW seen,
         step = "reread" => call[p].step = "extract",
         step = "vouch" => (call[p].source = "clean" /\ call[p].quiet => seen = call[p].text),
         call' = [call EXCEPT ![p].step = step, ![p].seen = seen],
         UNCHANGED <<store, bundles, adapter, answer, cli, minted>>
  PROVE  IInv'
<1>1. /\ call'[p].step = step /\ call'[p].seen = seen
      /\ call'[p].ticket = call[p].ticket /\ call'[p].text = call[p].text
      /\ call'[p].source = call[p].source /\ call'[p].quiet = call[p].quiet
      /\ call'[p].ref = call[p].ref
      /\ \A q \in Process : q # p => call'[q] = call[q]
      /\ DOMAIN call' = Process /\ \A q \in Process : DOMAIN call'[q] = DOMAIN NoCall
  BY CallFields DEF IInv, Shape
<1>2. call'[p].ref = 0
  BY <1>1 DEF IInv, RefsInv
<1>3. Shape'
  BY <1>1 DEF IInv, Shape
<1>4. RefsInv'
  BY <1>1, <1>2, <1>3, RefsKept
<1>5. WritesInv'
  BY <1>1, WritesKept
<1>6. AnnouncedInv' /\ SessionInv'
  BY <1>1, AnnouncedKept, SessionKept
<1>7. QuietInv'
  BY <1>1 DEF IInv, QuietInv
<1> QED
  BY <1>3, <1>4, <1>5, <1>6, <1>7 DEF IInv

\* A call that ends with an answer that is neither a draft nor a comparison.
LEMMA EndsPlainly ==
  ASSUME IInv, NEW p \in Process, call[p].step # "none", NEW result, Answers(p, result),
         result.kind \notin {"draft", "required"},
         UNCHANGED <<store, bundles, cli, minted>>,
         DOMAIN adapter' = Process, DOMAIN adapter'[p] = DOMAIN Fresh,
         \A q \in Process : q # p => adapter'[q] = adapter[q],
         adapter'[p].comparison \in {0, adapter[p].comparison},
         \/ adapter'[p].replay = adapter[p].replay
         \/ adapter'[p].replay.kind # "draft"
  PROVE  IInv'
<1>1. Shape' /\ RefsInv' /\ WritesInv' /\ AnnouncedInv' /\ QuietInv'
  BY CallEnds DEF IInv, Shape
<1>2. SessionInv'
  BY AnswersFacts, SessionKept DEF IInv, NoAnswer
<1> QED
  BY <1>1, <1>2 DEF IInv

LEMMA ExtractStep == ASSUME IInv, NEW p \in Process, Extract(p) PROVE IInv'
<1>1. ASSUME NEW step \in {"search", "reread"}, Goes(p, step) /\ UNCHANGED answer
      PROVE  IInv'
  <2>1. call' = [call EXCEPT ![p].step = step, ![p].seen = call[p].seen]
    BY <1>1, CallFields DEF Goes, IInv, Shape
  <2> QED
    BY <1>1, <2>1, MovesOn DEF Extract, counters
<1>2. ASSUME NEW kind \in {"selection", "failed"}, Answers(p, Said(kind))
      PROVE  IInv'
  BY <1>2, EndsPlainly, SaidFacts DEF Extract, counters, IInv, Shape
<1> QED
  BY <1>1, <1>2 DEF Extract

LEMMA RereadStep == ASSUME IInv, NEW p \in Process, Reread(p) PROVE IInv'
<1> DEFINE text == CleanText(store[call[p].ticket])
<1>1. CASE text = <<>>
  BY <1>1, EndsPlainly, SaidFacts DEF Reread, counters, IInv, Shape
<1>2. CASE text # <<>>
  <2>1. text[1] = store[call[p].ticket].text
    BY <1>2 DEF CleanText
  <2>2. call[p].source = "clean" /\ call[p].quiet => text[1] = call[p].text
    BY <2>1 DEF IInv, QuietInv, Reread
  <2>3. call' = [call EXCEPT ![p].step = "vouch", ![p].seen = text[1]]
    BY <1>2 DEF Reread
  <2> QED
    BY <1>2, <2>2, <2>3, MovesOn DEF Reread, counters
<1> QED
  BY <1>1, <1>2

LEMMA StartReviewStep == ASSUME IInv, NEW p \in Process, StartReview(p) PROVE IInv'
<1>1. PICK kind \in {"review", "failed"} : Answers(p, Said(kind))
  BY DEF StartReview
<1>2. \/ adapter' = adapter
      \/ adapter' = [adapter EXCEPT ![p].review = call[p].text]
  BY DEF StartReview
<1>3. /\ DOMAIN adapter' = Process /\ DOMAIN adapter'[p] = DOMAIN Fresh
      /\ \A q \in Process : q # p => adapter'[q] = adapter[q]
      /\ adapter'[p].comparison = adapter[p].comparison
      /\ adapter'[p].replay = adapter[p].replay
  BY <1>2, CallFields DEF IInv, Shape
<1> QED
  BY <1>1, <1>3, EndsPlainly, SaidFacts DEF StartReview, counters

\* A new ref is none of those held or written.
LEMMA SearchStep == ASSUME IInv, NEW p \in Process, Search(p) PROVE IInv'
<1>1. CASE /\ minted' = minted + 1
           /\ adapter' = [adapter EXCEPT ![p].comparison = minted']
           /\ Answers(p, [Said("required") EXCEPT !.ref = minted'])
  <2> DEFINE result == [Said("required") EXCEPT !.ref = minted']
  <2>1. /\ call'[p] = NoCall
        /\ \A q \in Process : q # p => call'[q] = call[q] /\ answer'[q] = answer[q]
        /\ \/ answer'[p] = result
           \/ answer'[p].kind = "tool_result_invalid"
        /\ DOMAIN call' = Process /\ DOMAIN answer' = Process
        /\ \A q \in Process : DOMAIN call'[q] = DOMAIN NoCall
    BY <1>1, AnswersFacts DEF IInv, NoAnswer
  <2>2. result.kind = "required" /\ result.ref = minted'
    BY DEF Said, NoAnswer
  <2>3. /\ adapter'[p].comparison = minted' /\ adapter'[p].review = adapter[p].review
        /\ adapter'[p].replay = adapter[p].replay
        /\ \A q \in Process : q # p => adapter'[q] = adapter[q]
        /\ DOMAIN adapter' = Process
        /\ \A q \in Process : DOMAIN adapter'[q] = DOMAIN Fresh
    BY <1>1, CallFields DEF IInv, Shape
  <2>4. UNCHANGED <<store, bundles, cli>> /\ call[p].step # "none"
    BY DEF Search
  <2>5. Shape'
    BY <1>1, <2>1, <2>3, <2>4 DEF IInv, Shape
  <2>6. call'[p].step = "none" /\ call'[p].ref = 0
    BY <2>1, CallFields
  <2>7. RefsInv'
    <3>1. ASSUME NEW q \in Process
          PROVE  /\ adapter[q].comparison \in 0 .. minted /\ call[q].ref \in 0 .. minted
                 /\ adapter'[q].comparison \in 0 .. minted' /\ call'[q].ref \in 0 .. minted'
                 /\ q # p => minted' # adapter'[q].comparison
                 /\ minted' # call'[q].ref
      <4>1. adapter[q].comparison \in 0 .. minted /\ call[q].ref \in 0 .. minted
        BY DEF IInv, RefsInv
      <4>2. minted \in Nat
        BY DEF IInv, Shape
      <4> QED
        BY <1>1, <2>1, <2>3, <2>6, <4>1, <4>2
    <3>2. \A q \in Process : /\ call'[q].step = "author" => call'[q].ref # 0
                             /\ call'[q].ref # 0 =>
                                  call'[q].step \in {"author", "write", "written"}
      BY <2>1, <2>6 DEF IInv, RefsInv
    <3>3. ASSUME NEW q \in Process, NEW o \in Process, adapter'[q].comparison # 0
          PROVE  /\ adapter'[q].comparison # call'[o].ref
                 /\ q # o => adapter'[q].comparison # adapter'[o].comparison
      <4>1. CASE q = p
        BY <2>3, <3>1, <4>1
      <4>2. CASE q # p
        <5>1. /\ adapter[q].comparison # 0 /\ adapter[q].comparison # call[o].ref
              /\ q # o => adapter[q].comparison # adapter[o].comparison
          BY <2>3, <3>3, <4>2 DEF IInv, RefsInv
        <5> QED
          BY <2>1, <2>3, <2>6, <3>1, <3>3, <4>2, <5>1
      <4> QED
        BY <4>1, <4>2
    <3>4. \A q, o \in Process : q # o /\ call'[q].ref # 0 => call'[q].ref # call'[o].ref
      BY <2>1, <2>6 DEF IInv, RefsInv
    <3>5. ASSUME NEW i \in 1 .. Len(bundles), NEW q \in Process
          PROVE  /\ bundles[i].of \in 1 .. minted'
                 /\ bundles[i].of # adapter'[q].comparison
                 /\ call'[q].step = "author" => bundles[i].of # call'[q].ref
      <4>1. bundles[i].of \in 1 .. minted /\ minted \in Nat
        BY DEF IInv, RefsInv, Shape
      <4>2. bundles[i].of \in 1 .. minted' /\ bundles[i].of # minted'
        BY <1>1, <4>1
      <4>3. /\ bundles[i].of # adapter[q].comparison
            /\ call[q].step = "author" => bundles[i].of # call[q].ref
        BY DEF IInv, RefsInv
      <4> QED
        BY <2>1, <2>3, <2>6, <4>2, <4>3
    <3>6. \A i \in 1 .. Len(bundles') :
            /\ bundles'[i].of \in 1 .. minted'
            /\ \A q \in Process :
                 /\ bundles'[i].of # adapter'[q].comparison
                 /\ call'[q].step = "author" => bundles'[i].of # call'[q].ref
      BY <2>4, <3>5
    <3> QED
      BY <2>4, <3>1, <3>2, <3>3, <3>4, <3>6 DEF IInv, RefsInv
  <2>8. WritesInv' /\ AnnouncedInv'
    BY <2>1, <2>2, <2>3, <2>4, <2>6, WritesKept, AnnouncedKept
  <2>9. SessionInv'
    BY <2>1, <2>2, <2>3, <2>4, <2>6, SessionKept
  <2>10. QuietInv'
    BY <2>1, <2>3, <2>4, <2>6, QuietKept
  <2> QED
    BY <2>5, <2>7, <2>8, <2>9, <2>10 DEF IInv
<1>2. CASE /\ adapter' = [adapter EXCEPT ![p].comparison = 0]
           /\ Answers(p, Said("blocked")) /\ UNCHANGED minted
  <2>1. /\ DOMAIN adapter' = Process /\ DOMAIN adapter'[p] = DOMAIN Fresh
        /\ \A q \in Process : q # p => adapter'[q] = adapter[q]
        /\ adapter'[p].comparison = 0 /\ adapter'[p].replay = adapter[p].replay
    BY <1>2, CallFields DEF IInv, Shape
  <2> QED
    BY <1>2, <2>1, EndsPlainly, SaidFacts DEF Search
<1> QED
  BY <1>1, <1>2 DEF Search

\* The end of a call that authors or writes: what it remembers is what it says.
LEMMA EndsStep ==
  ASSUME IInv, NEW p \in Process, call[p].step # "none",
         NEW kind \in {"failed", "not_drafted", "registered", "draft"},
         kind = "draft" => Drafted(call[p].bundle, call[p].ref), Ends(p, kind)
  PROVE  IInv'
<1> DEFINE result == [kind |-> kind, ref |-> call[p].ref, bundle |-> call[p].bundle]
<1>1. Answers(p, result) /\ UNCHANGED <<store, bundles, cli, minted>>
  BY DEF Ends, counters
<1>2. \/ adapter' = adapter
      \/ adapter' = [adapter EXCEPT ![p].replay =
           [ref |-> call[p].ref, outcome |-> "none_fit", kind |-> kind,
            bundle |-> call[p].bundle]]
  BY DEF Ends, Remembers
<1>3. /\ DOMAIN adapter' = Process /\ DOMAIN adapter'[p] = DOMAIN Fresh
      /\ \A q \in Process : q # p => adapter'[q] = adapter[q]
      /\ adapter'[p].comparison = adapter[p].comparison
      /\ \/ adapter'[p].replay = adapter[p].replay
         \/ adapter'[p].replay.kind # "draft"
         \/ Drafted(adapter'[p].replay.bundle, adapter'[p].replay.ref)
  BY <1>2, CallFields DEF IInv, Shape
<1>4. Shape' /\ RefsInv' /\ WritesInv' /\ AnnouncedInv' /\ QuietInv'
  BY <1>1, <1>3, CallEnds DEF IInv, Shape
<1>5. SessionInv'
  BY <1>1, <1>3, AnswersFacts, SessionKept DEF IInv, NoAnswer
<1> QED
  BY <1>4, <1>5 DEF IInv

LEMMA EndingStep ==
  ASSUME IInv, NEW p \in Process,
         AuthorWithoutBundle(p) \/ AuthorRaises(p) \/ WriteFails(p) \/ Written(p)
  PROVE  IInv'
<1>1. CASE AuthorWithoutBundle(p)
  BY <1>1, EndsStep DEF AuthorWithoutBundle
<1>2. CASE AuthorRaises(p)
  BY <1>2, EndsPlainly, SaidFacts DEF AuthorRaises, counters, IInv, Shape
<1>3. CASE WriteFails(p)
  BY <1>3, EndsStep DEF WriteFails, Writing
<1>4. CASE Written(p)
  <2>1. call[p].ref # 0 => Drafted(call[p].bundle, call[p].ref)
    BY <1>4 DEF Written, IInv, WritesInv, BundleWrite, Drafted
  <2> QED
    BY <1>4, <2>1, EndsStep DEF Written
<1> QED
  BY <1>1, <1>2, <1>3, <1>4

-----------------------------------------------------------------------------
(* The steps of a write *)

\* A ref gets its bundle, and its call leaves the step that makes one.
LEMMA MakeDirectoryStep == ASSUME IInv, NEW p \in Process, MakeDirectory(p) PROVE IInv'
<1> DEFINE ref == call[p].ref
           made == [html |-> "none", manifest |-> "none", by |-> p, of |-> ref]
           n == Len(bundles)
<1>1. /\ call[p].step = "author" /\ bundles' = Append(bundles, made)
      /\ UNCHANGED <<store, adapter, answer, cli, minted>>
      /\ call' = [call EXCEPT ![p].step = "write", ![p].file = "html",
                              ![p].bundle = Len(bundles')]
  BY DEF MakeDirectory, counters
<1>2. ref \in 1 .. minted
  BY <1>1 DEF IInv, RefsInv, Shape
<1>3. made \in Bundle /\ bundles \in Seq(Bundle) /\ n \in Nat
  BY <1>2 DEF IInv, Shape, Bundle, State
<1>4. /\ bundles' \in Seq(Bundle) /\ Len(bundles') = n + 1
      /\ \A i \in 1 .. n : bundles'[i] = bundles[i]
      /\ bundles'[n + 1] = made
  BY <1>1, <1>3
<1>5. /\ call'[p].step = "write" /\ call'[p].file = "html" /\ call'[p].bundle = n + 1
      /\ call'[p].ref = ref
      /\ \A q \in Process : q # p => call'[q] = call[q]
      /\ DOMAIN call' = Process /\ \A q \in Process : DOMAIN call'[q] = DOMAIN NoCall
  BY <1>1, <1>4, CallFields DEF IInv, Shape
<1>6. Shape'
  BY <1>1, <1>4, <1>5 DEF IInv, Shape
<1>7. RefsInv'
  <2>1. \A q \in Process : /\ adapter'[q].comparison \in 0 .. minted'
                           /\ call'[q].ref \in 0 .. minted'
    BY <1>1, <1>5 DEF IInv, RefsInv
  <2>2. \A q \in Process : /\ call'[q].step = "author" => call'[q].ref # 0
                           /\ call'[q].ref # 0 =>
                                call'[q].step \in {"author", "write", "written"}
    BY <1>5 DEF IInv, RefsInv
  <2>3. \A q, o \in Process :
          adapter'[q].comparison # 0 =>
            /\ adapter'[q].comparison # call'[o].ref
            /\ q # o => adapter'[q].comparison # adapter'[o].comparison
    BY <1>1, <1>5 DEF IInv, RefsInv
  <2>4. \A q, o \in Process : q # o /\ call'[q].ref # 0 => call'[q].ref # call'[o].ref
    BY <1>5 DEF IInv, RefsInv
  <2>5. ASSUME NEW i \in 1 .. Len(bundles')
        PROVE  /\ bundles'[i].of \in 1 .. minted'
               /\ \A q \in Process :
                    /\ bundles'[i].of # adapter'[q].comparison
                    /\ call'[q].step = "author" => bundles'[i].of # call'[q].ref
    <3>1. CASE i \in 1 .. n
      BY <1>1, <1>4, <1>5, <3>1 DEF IInv, RefsInv
    <3>2. CASE i = n + 1
      <4>1. bundles'[i].of = ref /\ ref # 0
        BY <1>2, <1>4, <3>2 DEF IInv, Shape
      <4>2. \A q \in Process : ref # adapter[q].comparison
        BY <4>1 DEF IInv, RefsInv
      <4>3. \A q \in Process : call'[q].step = "author" => q # p /\ call'[q].ref = call[q].ref
        BY <1>5
      <4>4. \A q \in Process : q # p => ref # call[q].ref
        BY <4>1 DEF IInv, RefsInv
      <4> QED
        BY <1>1, <1>2, <4>1, <4>2, <4>3, <4>4
    <3> QED
      BY <1>3, <1>4, <3>1, <3>2
  <2>6. ASSUME NEW i \in 1 .. Len(bundles'), NEW j \in 1 .. Len(bundles'),
               bundles'[i].of = bundles'[j].of
        PROVE  i = j
    <3>1. \A k \in 1 .. n : bundles'[k].of # ref
      BY <1>1, <1>4 DEF IInv, RefsInv
    <3>2. bundles'[n + 1].of = ref
      BY <1>4
    <3>3. \A k \in 1 .. Len(bundles') : k \in 1 .. n \/ k = n + 1
      BY <1>3, <1>4
    <3>4. CASE i \in 1 .. n /\ j \in 1 .. n
      BY <1>4, <2>6, <3>4 DEF IInv, RefsInv
    <3> QED
      BY <2>6, <3>1, <3>2, <3>3, <3>4
  <2> QED
    BY <2>1, <2>2, <2>3, <2>4, <2>5, <2>6 DEF RefsInv
<1>8. WritesInv'
  <2>1. BundleWrite(call[p])' /\ ref # 0
    BY <1>2, <1>3, <1>4, <1>5 DEF BundleWrite, IInv, Shape
  <2>2. \A q \in Process : BundleWrite(call[q]) /\ call'[q] = call[q] => BundleWrite(call[q])'
    BY <1>3, <1>4 DEF BundleWrite
  <2> QED
    BY <1>5, <2>1, <2>2 DEF IInv, WritesInv
<1>9. AnnouncedInv'
  <2>1. \A i, r : Drafted(i, r) => Drafted(i, r)'
    BY <1>3, <1>4 DEF Drafted
  <2>2. \A i \in 1 .. Len(bundles') : bundles'[i].manifest # "none" => bundles'[i].html = "whole"
    BY <1>3, <1>4 DEF IInv, AnnouncedInv
  <2> QED
    BY <1>1, <2>1, <2>2 DEF IInv, AnnouncedInv, Drafted
<1>10. SessionInv' /\ QuietInv'
  BY <1>1, <1>5, SessionKept, QuietKept
<1> QED
  BY <1>6, <1>7, <1>8, <1>9, <1>10 DEF IInv

\* A file of a ticket: it matters only to the calls that have read the ticket.
LEMMA TicketFile ==
  ASSUME IInv, NEW p \in Process, Writing(p), call[p].ref = 0,
         NEW content, NEW mine, Puts(p, content, mine),
         DOMAIN mine = DOMAIN NoCall, mine.ref = 0, mine.step \in {"write", "written"},
         mine.step = "write" => mine.file \in {"text", "meta"},
         UNCHANGED <<adapter, answer, cli, minted>>
  PROVE  IInv'
<1> DEFINE c == call[p]
<1>1. c.step = "write" /\ c.file \in {"text", "meta"}
  BY DEF Writing, IInv, WritesInv
<1>2. /\ store' = [store EXCEPT ![c.ticket][c.file] = content] /\ bundles' = bundles
      /\ Disturbs(p, c.ticket, mine)
  BY <1>1 DEF Puts
<1>3. /\ call'[p] = mine /\ DOMAIN call' = Process
      /\ \A q \in Process : q # p =>
           call'[q] = [call[q] EXCEPT !.quiet = @ /\ call[q].ticket # c.ticket]
  BY <1>2 DEF Disturbs
<1>4. \A q \in Process : q # p =>
        /\ call'[q].step = call[q].step /\ call'[q].ticket = call[q].ticket
        /\ call'[q].text = call[q].text /\ call'[q].seen = call[q].seen
        /\ call'[q].source = call[q].source /\ call'[q].ref = call[q].ref
        /\ call'[q].file = call[q].file /\ call'[q].bundle = call[q].bundle
        /\ call'[q].quiet => call[q].quiet /\ call[q].ticket # c.ticket
        /\ DOMAIN call'[q] = DOMAIN NoCall
  <2>1. SUFFICES ASSUME NEW q \in Process, q # p
                 PROVE  /\ \A f \in DOMAIN NoCall \ {"quiet"} : call'[q][f] = call[q][f]
                        /\ call'[q].quiet => call[q].quiet /\ call[q].ticket # c.ticket
                        /\ DOMAIN call'[q] = DOMAIN NoCall
    BY CallFields
  <2>2. call'[q] = [call[q] EXCEPT !.quiet = call[q].quiet /\ call[q].ticket # c.ticket]
    BY <1>3, <2>1
  <2>3. DOMAIN call[q] = DOMAIN NoCall
    BY DEF IInv, Shape
  <2> QED
    BY <2>2, <2>3, CallFields
<1>5. Shape'
  BY <1>2, <1>3, <1>4 DEF IInv, Shape
<1>6. RefsInv'
  BY <1>2, <1>3, <1>4, <1>5, RefsKept
<1>7. WritesInv'
  BY <1>2, <1>3, <1>4, WritesKept
<1>8. AnnouncedInv'
  BY <1>2, AnnouncedKept
<1>9. SessionInv'
  BY <1>1, <1>3, <1>4 DEF IInv, SessionInv
<1>10. QuietInv'
  <2>1. \A q \in Process :
          \/ call'[q].step \notin {"extract", "reread", "vouch"}
          \/ /\ call'[q].step = call[q].step /\ call'[q].ticket = call[q].ticket
             /\ call'[q].text = call[q].text /\ call'[q].seen = call[q].seen
             /\ call'[q].source = call[q].source
             /\ call'[q].quiet => call[q].quiet /\ call[q].ticket # c.ticket
    BY <1>3, <1>4
  <2>2. adapter' = adapter
    OBVIOUS
  <2>3. store' = [store EXCEPT ![c.ticket][c.file] = content]
    BY <1>2
  <2> HIDE DEF c
  <2> QED
    BY <2>1, <2>2, <2>3, QuietDisturbed
<1> QED
  BY <1>5, <1>6, <1>7, <1>8, <1>9, <1>10 DEF IInv

\* A file of a bundle: nobody else writes there, the document is whole before the
\* manifest begins, and a bundle with a whole manifest is not touched again.
LEMMA BundleFile ==
  ASSUME IInv, NEW p \in Process, Writing(p), call[p].ref # 0,
         NEW content \in State, NEW mine, Puts(p, content, mine),
         content # "none", call[p].file = "manifest" /\ mine.step = "write" => content # "whole",
         DOMAIN mine = DOMAIN NoCall, mine.ref = call[p].ref, mine.bundle = call[p].bundle,
         \/ mine.step = "write" /\ mine.file = call[p].file
         \/ /\ content = "whole" /\ call[p].file = "html"
            /\ mine.step = "write" /\ mine.file = "manifest"
         \/ /\ content = "whole" /\ call[p].file = "manifest"
            /\ mine.step = "written",
         UNCHANGED <<adapter, answer, cli, minted>>
  PROVE  IInv'
<1> DEFINE c == call[p]
           b == call[p].bundle
<1>1. c.step = "write" /\ c.file \in {"html", "manifest"} /\ BundleWrite(c)
  BY DEF Writing, IInv, WritesInv, BundleWrite
<1>2. /\ bundles' = [bundles EXCEPT ![b][c.file] = content] /\ store' = store
      /\ call' = [call EXCEPT ![p] = mine]
  BY <1>1 DEF Puts
<1>3. b \in 1 .. Len(bundles) /\ bundles \in Seq(Bundle) /\ b \in DOMAIN bundles
  BY <1>1 DEF BundleWrite, IInv, Shape
<1>4. /\ bundles' \in Seq(Bundle) /\ Len(bundles') = Len(bundles)
      /\ \A i \in 1 .. Len(bundles) : i # b => bundles'[i] = bundles[i]
      /\ \A i \in 1 .. Len(bundles) : bundles'[i].of = bundles[i].of
      /\ c.file = "html" =>
           bundles'[b].html = content /\ bundles'[b].manifest = bundles[b].manifest
      /\ c.file = "manifest" =>
           bundles'[b].manifest = content /\ bundles'[b].html = bundles[b].html
  <2>1. bundles[b] \in Bundle
    BY <1>3
  <2>2. [bundles[b] EXCEPT ![c.file] = content] \in Bundle
    BY <1>1, <2>1 DEF Bundle
  <2>3. bundles' = [bundles EXCEPT ![b] = [bundles[b] EXCEPT ![c.file] = content]]
    BY <1>2
  <2>4. bundles' \in Seq(Bundle) /\ Len(bundles') = Len(bundles)
    BY <1>3, <2>2, <2>3
  <2>5. /\ bundles'[b] = [bundles[b] EXCEPT ![c.file] = content]
        /\ \A i \in 1 .. Len(bundles) : i # b => bundles'[i] = bundles[i]
    BY <1>3, <2>3
  <2> QED
    BY <1>1, <2>1, <2>4, <2>5 DEF Bundle
<1>5. /\ call'[p] = mine /\ DOMAIN call' = Process
      /\ \A q \in Process : q # p => call'[q] = call[q]
      /\ \A q \in Process : DOMAIN call'[q] = DOMAIN NoCall
  BY <1>2 DEF IInv, Shape
<1>6. Shape'
  BY <1>2, <1>4, <1>5 DEF IInv, Shape
<1>7. RefsInv'
  BY <1>1, <1>4, <1>5, <1>6, RefsKept
<1>8. WritesInv'
  <2>1. BundleWrite(mine)'
    BY <1>1, <1>3, <1>4 DEF BundleWrite
  <2>2. ASSUME NEW q \in Process, q # p, call[q].ref # 0, call[q].step \in {"write", "written"}
        PROVE  BundleWrite(call[q])'
    <3>1. BundleWrite(call[q]) /\ call[q].ref # call[p].ref
      BY <2>2 DEF IInv, WritesInv, RefsInv
    <3>2. call[q].bundle # b
      BY <1>1, <3>1 DEF BundleWrite
    <3> QED
      BY <1>4, <1>5, <2>2, <3>1, <3>2 DEF BundleWrite
  <2> QED
    BY <1>5, <2>1, <2>2 DEF IInv, WritesInv
<1>9. AnnouncedInv'
  <2>1. bundles[b].manifest # "whole"
    BY <1>1 DEF BundleWrite
  <2>2. \A i, r : Drafted(i, r) =>
          i \in 1 .. Len(bundles') /\ bundles'[i].manifest = "whole" /\ bundles'[i].of = r
    BY <1>4, <2>1 DEF Drafted
  <2>3. \A i \in 1 .. Len(bundles') : bundles'[i].manifest # "none" => bundles'[i].html = "whole"
    BY <1>1, <1>3, <1>4 DEF IInv, AnnouncedInv, BundleWrite
  <2>4. adapter' = adapter /\ answer' = answer /\ AnnouncedInv
    BY DEF IInv
  <2>5. ASSUME NEW q \in Process, answer'[q].kind = "draft"
        PROVE  Drafted(answer[q].bundle, answer[q].ref)'
    <3>1. Drafted(answer[q].bundle, answer[q].ref)
      BY <2>4, <2>5 DEF AnnouncedInv
    <3> QED
      BY <2>2, <2>4, <3>1 DEF Drafted
  <2>6. ASSUME NEW q \in Process, adapter'[q].replay.kind = "draft"
        PROVE  Drafted(adapter[q].replay.bundle, adapter[q].replay.ref)'
    <3>1. Drafted(adapter[q].replay.bundle, adapter[q].replay.ref)
      BY <2>4, <2>6 DEF AnnouncedInv
    <3> QED
      BY <2>2, <2>4, <3>1 DEF Drafted
  <2> QED
    BY <2>3, <2>5, <2>6 DEF AnnouncedInv
<1>10. SessionInv' /\ QuietInv'
  BY <1>1, <1>2, <1>5, SessionKept, QuietKept
<1> QED
  BY <1>6, <1>7, <1>8, <1>9, <1>10 DEF IInv

LEMMA OpenFileStep == ASSUME IInv, NEW p \in Process, OpenFile(p) PROVE IInv'
<1> DEFINE mine == [call[p] EXCEPT !.open = TRUE]
<1>1. PICK part \in Parts(call[p]) : Puts(p, part, mine)
  BY DEF OpenFile
<1>2. /\ DOMAIN mine = DOMAIN NoCall /\ mine.ref = call[p].ref /\ mine.step = "write"
      /\ mine.file = call[p].file /\ mine.bundle = call[p].bundle
  BY CallFields DEF OpenFile, Writing, IInv, Shape
<1>3. UNCHANGED <<adapter, answer, cli, minted>> /\ Writing(p)
  BY DEF OpenFile, counters
<1>4. CASE call[p].ref = 0
  <2>1. call[p].file \in {"text", "meta"}
    BY <1>3, <1>4 DEF IInv, WritesInv, Writing
  <2> QED
    BY <1>1, <1>2, <1>3, <1>4, <2>1, TicketFile
<1>5. CASE call[p].ref # 0
  <2>1. call[p].file \in {"html", "manifest"}
    BY <1>3, <1>5 DEF IInv, WritesInv, BundleWrite, Writing
  <2>2. part = "torn"
    BY <1>1, <2>1 DEF Parts
  <2> QED
    BY <1>1, <1>2, <1>3, <1>5, <2>2, BundleFile DEF State
<1> QED
  BY <1>4, <1>5

LEMMA FillFileStep == ASSUME IInv, NEW p \in Process, FillFile(p) PROVE IInv'
<1> DEFINE next == NextFile(call[p].file)
           mine == [call[p] EXCEPT !.open = FALSE, !.file = next,
                                   !.step = IF next = "none" THEN "written" ELSE "write"]
<1>1. Puts(p, Complete(call[p]), mine) /\ UNCHANGED <<adapter, answer, cli, minted>>
      /\ Writing(p)
  BY DEF FillFile, counters
<1>2. /\ DOMAIN mine = DOMAIN NoCall /\ mine.ref = call[p].ref /\ mine.file = next
      /\ mine.bundle = call[p].bundle
      /\ mine.step = IF next = "none" THEN "written" ELSE "write"
  BY CallFields DEF IInv, Shape
<1>3. CASE call[p].ref = 0
  <2>1. call[p].file \in {"text", "meta"}
    BY <1>1, <1>3 DEF IInv, WritesInv, Writing
  <2>2. mine.step \in {"write", "written"} /\ (mine.step = "write" => mine.file = "meta")
    BY <1>2, <2>1 DEF NextFile
  <2> HIDE DEF mine
  <2> QED
    BY <1>1, <1>2, <1>3, <2>2, TicketFile
<1>4. CASE call[p].ref # 0
  <2>1. call[p].file \in {"html", "manifest"}
    BY <1>1, <1>4 DEF IInv, WritesInv, BundleWrite, Writing
  <2>2. /\ Complete(call[p]) = "whole"
        /\ call[p].file = "html" => next = "manifest"
        /\ call[p].file = "manifest" => next = "none"
    BY <2>1 DEF NextFile, Complete
  <2>3. \/ call[p].file = "html" /\ mine.step = "write" /\ mine.file = "manifest"
        \/ call[p].file = "manifest" /\ mine.step = "written"
    BY <1>2, <2>1, <2>2
  <2> HIDE DEF mine
  <2> QED
    BY <1>1, <1>2, <1>4, <2>2, <2>3, BundleFile DEF State
<1> QED
  BY <1>3, <1>4

-----------------------------------------------------------------------------
(* The tools *)

\* What the server does alone leaves the operator's session.
LEMMA ServerAlone ==
  ASSUME IInv, cli' = cli, call'["operator"] = call["operator"],
         adapter'["operator"] = adapter["operator"], answer'["operator"] = answer["operator"]
  PROVE  SessionInv'
BY DEF IInv, SessionInv

\* A confirm moves the ref from the adapter to the call, or ends at once.
LEMMA ConfirmKeeps ==
  ASSUME IInv, NEW p \in Process, call[p].step = "none", NEW ref, NEW outcome,
         Confirm(p, ref, outcome),
         UNCHANGED <<store, bundles, minted>>, DOMAIN cli' = DOMAIN Off
  PROVE  /\ Shape' /\ RefsInv' /\ WritesInv' /\ AnnouncedInv' /\ QuietInv'
         /\ \A q \in Process : q # p =>
              call'[q] = call[q] /\ adapter'[q] = adapter[q] /\ answer'[q] = answer[q]
<1>1. ASSUME NEW result, Answers(p, result), result.kind \notin {"draft"},
             \/ adapter' = adapter
             \/ adapter' = [adapter EXCEPT ![p].comparison = 0,
                              ![p].replay = [ref |-> ref, outcome |-> outcome,
                                             kind |-> "recorded", bundle |-> 0]]
      PROVE  /\ Shape' /\ RefsInv' /\ WritesInv' /\ AnnouncedInv' /\ QuietInv'
             /\ \A q \in Process : q # p =>
                  call'[q] = call[q] /\ adapter'[q] = adapter[q] /\ answer'[q] = answer[q]
  <2>1. /\ DOMAIN adapter' = Process /\ DOMAIN adapter'[p] = DOMAIN Fresh
        /\ \A q \in Process : q # p => adapter'[q] = adapter[q]
        /\ adapter'[p].comparison \in {0, adapter[p].comparison}
        /\ \/ adapter'[p].replay = adapter[p].replay
           \/ adapter'[p].replay.kind # "draft"
    BY <1>1, CallFields DEF IInv, Shape
  <2> QED
    BY <1>1, <2>1, CallEnds, AnswersFacts DEF IInv
<1>2. CASE /\ adapter' = adapter /\ ref = adapter[p].replay.ref
           /\ Answers(p, [kind |-> adapter[p].replay.kind, ref |-> ref,
                          bundle |-> adapter[p].replay.bundle])
  <2> DEFINE result == [kind |-> adapter[p].replay.kind, ref |-> ref,
                        bundle |-> adapter[p].replay.bundle]
  <2>1. result.kind = "draft" => Drafted(result.bundle, result.ref)
    BY <1>2 DEF IInv, AnnouncedInv
  <2>2. DOMAIN adapter' = Process /\ DOMAIN adapter'[p] = DOMAIN Fresh
    BY <1>2 DEF IInv, Shape
  <2> QED
    BY <1>2, <2>1, <2>2, CallEnds, AnswersFacts DEF IInv
<1>3. CASE adapter' = adapter /\ Answers(p, Said("failed"))
  BY <1>1, <1>3, SaidFacts
<1>4. CASE /\ adapter' = [adapter EXCEPT ![p].comparison = 0,
                            ![p].replay = [ref |-> ref, outcome |-> outcome,
                                           kind |-> "recorded", bundle |-> 0]]
           /\ Answers(p, [Said("recorded") EXCEPT !.ref = ref])
  <2> DEFINE result == [Said("recorded") EXCEPT !.ref = ref]
  <2>1. Answers(p, result) /\ result.kind = "recorded"
    BY <1>4 DEF Said, NoAnswer
  <2> HIDE DEF result
  <2> QED
    BY <1>1, <1>4, <2>1
<1>5. CASE /\ ref = adapter[p].comparison /\ ref # 0
           /\ adapter' = [adapter EXCEPT ![p].comparison = 0]
           /\ call' = [call EXCEPT ![p] = [NoCall EXCEPT !.step = "author", !.ref = ref]]
           /\ UNCHANGED answer
  <2>1. /\ call'[p].step = "author" /\ call'[p].ref = ref
        /\ \A q \in Process : q # p => call'[q] = call[q] /\ adapter'[q] = adapter[q]
        /\ adapter'[p].comparison = 0 /\ adapter'[p].replay = adapter[p].replay
        /\ DOMAIN call' = Process /\ DOMAIN adapter' = Process
        /\ \A q \in Process : DOMAIN call'[q] = DOMAIN NoCall /\ DOMAIN adapter'[q] = DOMAIN Fresh
    BY <1>5, CallFields DEF IInv, Shape
  <2>2. Shape'
    BY <1>5, <2>1 DEF IInv, Shape
  <2>3. RefsInv'
    <3>1. \A q \in Process : /\ adapter'[q].comparison \in 0 .. minted'
                             /\ call'[q].ref \in 0 .. minted'
      BY <1>5, <2>1 DEF IInv, RefsInv, Shape
    <3>2. \A q \in Process : /\ call'[q].step = "author" => call'[q].ref # 0
                             /\ call'[q].ref # 0 =>
                                  call'[q].step \in {"author", "write", "written"}
      BY <1>5, <2>1 DEF IInv, RefsInv
    <3>3. \A q, o \in Process :
            adapter'[q].comparison # 0 =>
              /\ adapter'[q].comparison # call'[o].ref
              /\ q # o => adapter'[q].comparison # adapter'[o].comparison
      BY <1>5, <2>1 DEF IInv, RefsInv
    <3>4. \A q, o \in Process : q # o /\ call'[q].ref # 0 => call'[q].ref # call'[o].ref
      BY <1>5, <2>1 DEF IInv, RefsInv
    <3>5. \A i \in 1 .. Len(bundles) : bundles[i].of # 0
      BY DEF IInv, RefsInv, Shape
    <3>6. \A i \in 1 .. Len(bundles') :
            /\ bundles'[i].of \in 1 .. minted'
            /\ \A q \in Process :
                 /\ bundles'[i].of # adapter'[q].comparison
                 /\ call'[q].step = "author" => bundles'[i].of # call'[q].ref
      BY <1>5, <2>1, <3>5 DEF IInv, RefsInv
    <3> QED
      BY <3>1, <3>2, <3>3, <3>4, <3>6 DEF IInv, RefsInv
  <2>4. WritesInv' /\ AnnouncedInv' /\ QuietInv'
    BY <1>5, <2>1, WritesKept, AnnouncedKept, QuietKept
  <2> QED
    BY <1>5, <2>1, <2>2, <2>3, <2>4
<1> QED
  BY <1>2, <1>3, <1>4, <1>5 DEF Confirm

LEMMA ConfirmComparisonStep ==
  ASSUME IInv, NEW ref, NEW outcome, ConfirmComparison(ref, outcome) PROVE IInv'
<1>1. /\ Shape' /\ RefsInv' /\ WritesInv' /\ AnnouncedInv' /\ QuietInv'
      /\ \A q \in Process : q # "server" =>
           call'[q] = call[q] /\ adapter'[q] = adapter[q] /\ answer'[q] = answer[q]
  BY ConfirmKeeps, CallFields DEF ConfirmComparison, Called, Idle, IInv, Shape
<1>2. SessionInv'
  BY <1>1, ServerAlone DEF ConfirmComparison
<1> QED
  BY <1>1, <1>2 DEF IInv

\* A ticket is read: the call has the text of its file, and no review is pending.
LEMMA DraftKeeps ==
  ASSUME IInv, NEW p \in Process, call[p].step = "none", NEW named \in Ticket, Draft(p, named),
         UNCHANGED <<store, bundles, minted>>, DOMAIN cli' = DOMAIN Off,
         DOMAIN adapter' = Process, DOMAIN adapter'[p] = DOMAIN Fresh,
         \A q \in Process : q # p => adapter'[q] = adapter[q],
         adapter'[p].comparison = adapter[p].comparison,
         adapter'[p].replay = adapter[p].replay, adapter'[p].review = "none"
  PROVE  /\ Shape' /\ RefsInv' /\ WritesInv' /\ AnnouncedInv' /\ QuietInv'
         /\ \A q \in Process : q # p =>
              call'[q] = call[q] /\ adapter'[q] = adapter[q] /\ answer'[q] = answer[q]
         /\ answer'[p].kind # "required"
<1> DEFINE ticket == Resolve(store, named)
           payload == Payload(store[ticket])
<1>1. ticket \in Ticket
  BY DEF Resolve
<1>2. /\ DOMAIN answer' = Process /\ answer'[p].kind \in {"failed", "none"}
      /\ \A q \in Process : q # p => answer'[q] = answer[q]
  BY SaidFacts DEF Draft, IInv, Shape, NoAnswer
<1>3. CASE payload = <<>>
  <2>1. call' = call /\ call[p].ref = 0
    BY <1>3 DEF Draft, IInv, RefsInv
  <2>2. Shape'
    BY <1>2, <2>1 DEF IInv, Shape
  <2>3. RefsInv' /\ WritesInv' /\ AnnouncedInv'
    BY <1>2, <2>1, <2>2, RefsKept, WritesKept, AnnouncedKept
  <2>4. QuietInv'
    BY <2>1, QuietKept
  <2> QED
    BY <1>2, <2>1, <2>2, <2>3, <2>4
<1>4. CASE payload # <<>>
  <2>1. /\ call'[p].step \in {"search", "extract"} /\ call'[p].ref = 0
        /\ call'[p].ticket = ticket /\ call'[p].text = payload[1]
        /\ call'[p].source = Source(store[ticket])
        /\ \A q \in Process : q # p => call'[q] = call[q]
        /\ DOMAIN call' = Process /\ \A q \in Process : DOMAIN call'[q] = DOMAIN NoCall
    BY <1>4, CallFields DEF Draft, IInv, Shape
  <2>2. Shape'
    BY <1>2, <2>1 DEF IInv, Shape
  <2>3. RefsInv' /\ WritesInv' /\ AnnouncedInv'
    BY <1>2, <2>1, <2>2, RefsKept, WritesKept, AnnouncedKept
  <2>4. Source(store[ticket]) = "clean" => payload[1] = store[ticket].text
    BY <1>4 DEF Payload, CleanText
  <2>5. QuietInv'
    <3>1. ASSUME NEW q \in Process, q # p
          PROVE  /\ call'[q].step \in {"extract", "reread", "vouch"} =>
                      call'[q].ticket \in Ticket /\ adapter'[q].review = "none"
                 /\ call'[q].source = "clean" /\ call'[q].quiet =>
                      /\ call'[q].step \in {"extract", "reread"} =>
                           store'[call'[q].ticket].text = call'[q].text
                      /\ call'[q].step = "vouch" => call'[q].seen = call'[q].text
      BY <2>1, <3>1 DEF IInv, QuietInv
    <3> QED
      BY <1>1, <2>1, <2>4, <3>1 DEF QuietInv
  <2> QED
    BY <1>2, <2>1, <2>2, <2>3, <2>5
<1> QED
  BY <1>3, <1>4

LEMMA DraftTicketStep == ASSUME IInv, NEW ticket \in Ticket, DraftTicket(ticket) PROVE IInv'
<1>1. /\ call["server"].step = "none" /\ Draft("server", ticket)
      /\ adapter' = [adapter EXCEPT !["server"].review = "none"]
      /\ UNCHANGED <<store, bundles, cli, minted>>
  BY CallFields DEF DraftTicket, Called, Idle
<1>2. /\ DOMAIN adapter' = Process /\ DOMAIN adapter'["server"] = DOMAIN Fresh
      /\ \A q \in Process : q # "server" => adapter'[q] = adapter[q]
      /\ adapter'["server"].comparison = adapter["server"].comparison
      /\ adapter'["server"].replay = adapter["server"].replay
      /\ adapter'["server"].review = "none"
  BY <1>1, CallFields DEF IInv, Shape
<1>3. /\ Shape' /\ RefsInv' /\ WritesInv' /\ AnnouncedInv' /\ QuietInv'
      /\ \A q \in Process : q # "server" =>
           call'[q] = call[q] /\ adapter'[q] = adapter[q] /\ answer'[q] = answer[q]
  BY <1>1, <1>2, DraftKeeps DEF IInv, Shape
<1>4. SessionInv'
  BY <1>1, <1>3, ServerAlone
<1> QED
  BY <1>3, <1>4 DEF IInv

LEMMA RegisterStep == ASSUME IInv, NEW ticket, NEW text, Register(ticket, text) PROVE IInv'
<1>1. /\ call["server"].step = "none" /\ call["server"].ref = 0
      /\ adapter' = [adapter EXCEPT !["server"].review = "none"]
      /\ UNCHANGED <<store, bundles, cli, minted>>
  BY CallFields DEF Register, Called, Idle
<1>2. /\ DOMAIN adapter' = Process /\ DOMAIN adapter'["server"] = DOMAIN Fresh
      /\ \A q \in Process : q # "server" => adapter'[q] = adapter[q]
      /\ adapter'["server"].comparison = adapter["server"].comparison
      /\ adapter'["server"].replay = adapter["server"].replay
  BY <1>1, CallFields DEF IInv, Shape
<1>3. CASE Answers("server", Said("failed"))
  <2>1. Shape' /\ RefsInv' /\ WritesInv' /\ AnnouncedInv' /\ QuietInv'
    BY <1>1, <1>2, <1>3, CallEnds, SaidFacts DEF IInv, Shape
  <2>2. SessionInv'
    BY <1>1, <1>2, <1>3, AnswersFacts, ServerAlone DEF IInv
  <2> QED
    BY <2>1, <2>2 DEF IInv
<1>4. CASE /\ call' = [call EXCEPT !["server"] =
                [NoCall EXCEPT !.step = "write", !.file = "text",
                               !.ticket = ticket, !.text = text]]
           /\ UNCHANGED answer
  <2>1. /\ call'["server"].step = "write" /\ call'["server"].file = "text"
        /\ call'["server"].ref = 0
        /\ \A q \in Process : q # "server" => call'[q] = call[q]
        /\ DOMAIN call' = Process /\ \A q \in Process : DOMAIN call'[q] = DOMAIN NoCall
    BY <1>4, CallFields DEF IInv, Shape
  <2>2. Shape'
    BY <1>1, <1>2, <1>4, <2>1 DEF IInv, Shape
  <2>3. RefsInv'
    BY <1>1, <1>2, <2>1, <2>2, RefsKept
  <2>4. WritesInv'
    BY <1>1, <2>1, WritesKept
  <2>5. AnnouncedInv'
    BY <1>1, <1>2, <1>4, AnnouncedKept
  <2>6. SessionInv'
    BY <1>1, <1>2, <1>4, <2>1, ServerAlone
  <2>7. QuietInv'
    BY <1>1, <1>2, <2>1, QuietKept
  <2> QED
    BY <2>2, <2>3, <2>4, <2>5, <2>6, <2>7 DEF IInv
<1> QED
  BY <1>3, <1>4 DEF Register

-----------------------------------------------------------------------------
(* The operator *)

LEMMA BeginStep == ASSUME IInv, NEW ticket \in Ticket, Begin(ticket) PROVE IInv'
<1>1. /\ cli.stage = "off" /\ cli' = [Off EXCEPT !.stage = "begin"]
      /\ Draft("operator", ticket) /\ UNCHANGED <<store, bundles, adapter, minted>>
  BY DEF Begin
<1>2. call["operator"].step = "none" /\ adapter["operator"].review = "none"
  BY <1>1 DEF IInv, SessionInv
<1>3. cli'.stage = "begin" /\ cli'.session = 0 /\ DOMAIN cli' = DOMAIN Off
  BY <1>1, CallFields
<1>4. DOMAIN adapter' = Process /\ DOMAIN adapter'["operator"] = DOMAIN Fresh
  BY <1>1 DEF IInv, Shape
<1>5. /\ Shape' /\ RefsInv' /\ WritesInv' /\ AnnouncedInv' /\ QuietInv'
      /\ answer'["operator"].kind # "required"
  BY <1>1, <1>2, <1>3, <1>4, DraftKeeps
<1>6. SessionInv'
  BY <1>3, <1>5 DEF SessionInv
<1> QED
  BY <1>5, <1>6 DEF IInv

LEMMA BegunStep == IInv /\ Begun => IInv'
<1> SUFFICES ASSUME IInv, Begun PROVE IInv'
  OBVIOUS
<1>1. /\ cli.stage = "begin" /\ call["operator"] = NoCall
      /\ UNCHANGED <<store, bundles, call, minted>>
  BY DEF Begun, Idle, counters
<1>2. CASE Exits
  BY <1>1, <1>2, CallFields, ExitsStep
<1>3. CASE /\ answer["operator"].kind = "required"
           /\ cli' = [stage |-> "ask", session |-> answer["operator"].ref]
           /\ UNCHANGED <<adapter, answer>>
  <2>1. Shape'
    BY <1>1, <1>3, CallFields DEF IInv, Shape
  <2>2. RefsInv' /\ WritesInv' /\ QuietInv'
    BY <1>1, <1>3, <2>1, RefsKept, WritesKept, QuietKept DEF IInv
  <2>3. AnnouncedInv'
    BY <1>1, <1>3, AnnouncedKept
  <2>4. SessionInv'
    BY <1>1, <1>3, CallFields DEF IInv, SessionInv
  <2> QED
    BY <2>1, <2>2, <2>3, <2>4 DEF IInv
<1> QED
  BY <1>2, <1>3 DEF Begun

LEMMA ChooseStep == ASSUME IInv, NEW outcome, Choose(outcome) PROVE IInv'
<1>1. /\ cli.stage = "ask" /\ cli' = [cli EXCEPT !.stage = "confirm", !.session = 0]
      /\ Confirm("operator", cli.session, outcome) /\ UNCHANGED <<store, bundles, minted>>
  BY DEF Choose, counters
<1>2. cli'.stage = "confirm" /\ cli'.session = 0 /\ DOMAIN cli' = DOMAIN Off
  BY <1>1, CallFields DEF IInv, Shape
<1>3. call["operator"].step = "none"
  BY <1>1 DEF IInv, SessionInv
<1>4. Shape' /\ RefsInv' /\ WritesInv' /\ AnnouncedInv' /\ QuietInv'
  BY <1>1, <1>2, <1>3, ConfirmKeeps
<1>5. SessionInv'
  BY <1>2 DEF SessionInv
<1> QED
  BY <1>4, <1>5 DEF IInv

LEMMA LeavingStep == IInv /\ (GiveUp \/ Confirmed \/ Abort) => IInv'
<1> SUFFICES ASSUME IInv, GiveUp \/ Confirmed \/ Abort PROVE IInv'
  OBVIOUS
<1>1. CASE GiveUp
  <2>1. call["operator"].step = "none"
    BY <1>1 DEF GiveUp, IInv, SessionInv
  <2> QED
    BY <1>1, <2>1, ExitsStep DEF GiveUp, counters
<1>2. CASE Confirmed
  <2>1. call["operator"].step = "none"
    BY <1>2, CallFields DEF Confirmed, Idle
  <2> QED
    BY <1>2, <2>1, ExitsStep DEF Confirmed, counters
<1>3. CASE Abort
  BY <1>3, ExitsStep DEF Abort, counters
<1> QED
  BY <1>1, <1>2, <1>3

-----------------------------------------------------------------------------
(* The theorems *)

LEMMA CallStep == ASSUME IInv, NEW p \in Process, Step(p) PROVE IInv'
BY ExtractStep, RereadStep, StartReviewStep, SearchStep, EndingStep, MakeDirectoryStep,
   OpenFileStep, FillFileStep DEF Step

LEMMA NextStep == IInv /\ [Next]_vars => IInv'
<1> SUFFICES ASSUME IInv, [Next]_vars PROVE IInv'
  OBVIOUS
<1>1. CASE Initialize \/ Initialized \/ UNCHANGED vars
  BY <1>1, HandshakeStep
<1>2. CASE Tool
  BY <1>2, RegisterStep, DraftTicketStep, ConfirmComparisonStep DEF Tool
<1>3. CASE \E p \in Process : Step(p)
  BY <1>3, CallStep
<1>4. CASE Operator
  BY <1>4, BeginStep, BegunStep, ChooseStep, LeavingStep DEF Operator
<1>5. CASE ExternalWrites \/ Restart
  BY <1>5, ExternalStep, RestartStep
<1> QED
  BY <1>1, <1>2, <1>3, <1>4, <1>5 DEF Next

LEMMA SpecIInv == Spec => []IInv
BY InitIInv, NextStep, PTL DEF Spec

\* However often a confirm is sent again, and whatever fails or dies in between, a
\* comparison has one bundle at most: its ref is spent before the first directory
\* is made, in both processes.
THEOREM OneBundlePerComparison_Thm == Spec => []OneBundlePerComparison
<1>1. IInv => OneBundlePerComparison
  <2>1. IInv => DOMAIN bundles = 1 .. Len(bundles)
    BY DEF IInv, Shape
  <2> QED
    BY <2>1 DEF IInv, RefsInv, OneBundlePerComparison
<1> QED
  BY <1>1, SpecIInv, PTL

\* The operator is asked for a choice only about a comparison that its adapter still
\* holds and for which there is no bundle.
THEOREM SessionIsPending_Thm == Spec => []SessionIsPending
<1>1. IInv => SessionIsPending
  <2> SUFFICES ASSUME IInv, cli.session # 0
               PROVE  /\ adapter["operator"].comparison = cli.session
                      /\ \A i \in DOMAIN bundles : bundles[i].of # cli.session
    BY DEF SessionIsPending
  <2>1. adapter["operator"].comparison = cli.session
    BY DEF IInv, SessionInv
  <2>2. DOMAIN bundles = 1 .. Len(bundles)
    BY DEF IInv, Shape
  <2> QED
    BY <2>1, <2>2 DEF IInv, RefsInv
<1> QED
  BY <1>1, SpecIInv, PTL

\* A manifest names only a whole document, and an announced draft, replayed or not,
\* is a whole bundle of its comparison.
THEOREM AnnouncedIsComplete_Thm == Spec => []AnnouncedIsComplete
<1>1. IInv => AnnouncedIsComplete
  <2>1. IInv => DOMAIN bundles = 1 .. Len(bundles)
    BY DEF IInv, Shape
  <2> QED
    BY <2>1 DEF IInv, AnnouncedInv, Drafted, AnnouncedIsComplete
<1> QED
  BY <1>1, SpecIInv, PTL

\* A text from the clean file goes into a review only if the metadata on disk has
\* its digest, unless somebody else wrote there since it was read.
THEOREM ReviewIsVouched_Thm == Spec => ReviewIsVouched
<1> DEFINE Vouched == \A p \in Process :
             Starts(p) /\ call[p].source = "clean" /\ call[p].quiet => ApprovedAsReviewed(p)
<1>1. IInv /\ [Next]_vars => Vouched
  <2> SUFFICES ASSUME IInv, [Next]_vars, NEW p \in Process, Starts(p),
                      call[p].source = "clean" /\ call[p].quiet
               PROVE  ApprovedAsReviewed(p)
    OBVIOUS
  <2>1. /\ call[p].step = "vouch" /\ call'[p].step = "none" /\ adapter[p].review = "none"
        /\ call[p].seen = call[p].text /\ adapter'[p].review # "none"
    BY CallFields DEF Starts, IInv, QuietInv
  <2>2. CASE StartReview(p)
    <3>1. Vouches(store[call[p].ticket].meta, call[p].ticket, call[p].seen)
      BY <2>1, <2>2 DEF StartReview
    <3>2. adapter'[p].review = call[p].text
      BY <2>2, <3>1, CallFields DEF StartReview, IInv, Shape
    <3> QED
      BY <2>1, <3>1, <3>2 DEF ApprovedAsReviewed, Vouches
  <2>3. ASSUME adapter'[p].review = "none" \/ call'[p].step = "vouch"
        PROVE  FALSE
    BY <2>1, <2>3
  <2>4. StartReview(p)
    <3>1. Initialize \/ Initialized \/ UNCHANGED vars => call'[p].step = "vouch"
      BY <2>1 DEF Initialize, Initialized, vars
    <3>2. ASSUME Tool PROVE call'[p].step = "vouch" \/ adapter'[p].review = "none"
      <4>1. p # "server"
        BY <2>1, <3>2, CallFields, ZenonT(40)
           DEF Tool, Register, DraftTicket, ConfirmComparison, Called, Idle
      <4>2. call'[p] = call[p]
        BY <3>2, <4>1, ZenonT(40)
           DEF Tool, Register, DraftTicket, ConfirmComparison, Draft, Confirm,
               Answers, IInv, Shape
      <4> QED
        BY <2>1, <4>2
    <3>3. ASSUME NEW q \in Process, Step(q), q # p PROVE call'[p].step = "vouch"
      <4>1. \/ call'[p] = call[p]
            \/ call'[p] = [call[p] EXCEPT !.quiet = @ /\ call[p].ticket # call[q].ticket]
        BY <3>3, ZenonT(40)
                DEF Step, Extract, Goes, Reread, StartReview, Search, AuthorWithoutBundle,
                    AuthorRaises, MakeDirectory, OpenFile, FillFile, WriteFails, Written,
                    Ends, Answers, Puts, Disturbs, IInv, Shape
      <4> QED
        BY <2>1, <4>1, CallFields DEF IInv, Shape
    <3>4. Step(p) => StartReview(p)
      BY <2>1 DEF Step, Extract, Reread, Search, AuthorWithoutBundle, AuthorRaises,
                  MakeDirectory, OpenFile, FillFile, WriteFails, Written, Writing
    <3>5. ASSUME Operator PROVE call'[p].step = "vouch" \/ adapter'[p].review = "none"
      <4>1. CASE p = "server"
        <5>1. call'[p] = call[p]
          BY <3>5, <4>1 DEF Operator, Begin, Begun, Choose, GiveUp, Confirmed, Abort, Draft,
                            Confirm, Answers, IInv, Shape
        <5> QED
          BY <2>1, <5>1
      <4>2. CASE p = "operator"
        <5>1. ~ Idle(p) /\ cli.stage \notin {"off", "ask"}
          BY <2>1, <4>2, CallFields DEF Idle, IInv, SessionInv
        <5>2. Abort
          BY <3>5, <4>2, <5>1 DEF Operator, Begin, Begun, Choose, GiveUp, Confirmed
        <5> QED
          BY <4>2, <5>2, CallFields DEF Abort, Exits, IInv, Shape
      <4> QED
        BY <4>1, <4>2
    <3>6. ASSUME ExternalWrites PROVE call'[p].step = "vouch"
      <4>1. PICK ticket : call'[p] = [call[p] EXCEPT !.quiet = @ /\ call[p].ticket # ticket]
        BY <3>6 DEF ExternalWrites, External
      <4> QED
        BY <2>1, <4>1, CallFields DEF IInv, Shape
    <3>7. ASSUME Restart PROVE call'[p].step = "vouch" \/ adapter'[p].review = "none"
      BY <2>1, <3>7, CallFields DEF Restart, IInv, Shape
    <3> QED
      BY <2>3, <3>1, <3>2, <3>3, <3>4, <3>5, <3>6, <3>7 DEF Next
  <2> QED
    BY <2>2, <2>4
<1>2. IInv /\ [Next]_vars => [Vouched]_vars
  BY <1>1
<1> QED
  BY <1>2, SpecIInv, PTL DEF Spec, ReviewIsVouched
==============================================================================
