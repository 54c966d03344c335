# A TLA+ development of the KCS authoring workflow

This directory models the KCS authoring workflow: the Desktop adapter, in which
a language model asks for article drafts and a human operator decides, issue by
issue, whether a draft may be written at all; the core library that decides,
renders and bundles; the semantic review that turns a ticket into issues; the
front ends, their files and the accounting; and the Node wrapper all of it is
shipped in. TLC checks the models on small instances. TLAPS proves every safety
property a passing run checks for all instances; liveness is left to TLC.

Paths below are relative to the repository root (`src/` here): `kcs_adapters/x`
is `src/kcs_adapters/x`, `kcs_core/x` is `src/kcs_core/x`.

## 1. The system

### Parts and how they interact

    Claude Desktop --stdio--> server/index.js --stdio--> stdio transport
        --> MCP adapter --> tool handlers --> DesktopDraftArticleTool
                |                               |            |
                v                               v            v
        DraftRunAccounting             DesktopDraftWorkflow  authoring pipeline,
          | bounded queue               (pending state)      retrieval, semantic
          v daemon thread                    ^               review, bundle writer
        one report file per run              |                    |
                        operator command line (own process)       v
                                                     kcs_core: evidence, decision,
          reviewer session: kcs_core command line    renderer, readiness, drafts,
                and reviewer-assist provider  -----> reviewer bundle

The transport reads one JSON-RPC line, serves it completely and reads the next
one. The pending state is therefore only ever touched by one call at a time, but
calls arrive in any order and any number of times (a language model makes them),
time passes between and inside calls, and the process can end between two of
them. A second process, the operator's command line, shares the files. The
accounting sink is the one place with a second thread, the wrapper the one place
with callbacks. The core library is made of pure functions; what is hard about it
is how the packets it makes are combined.

| Component | State | Operations | What makes it correct |
|---|---|---|---|
| `DesktopDraftWorkflow` (`desktop_workflow.py`) | one pending selection, comparison and semantic review, each with a ref and a time to live | start, look up, submit, complete, expire, amend | a ref answers only what it was minted for, and only in time |
| Pending selection (`desktop_operator_selection.py`) | items of a split ticket, completed and retryable ones | create, complete, block retryably | decisions are kept; a fully decided selection goes |
| Pending comparison (`desktop_reuse_comparison.py`) | evidence on display, the queue of items and its index | create, submit, expire | drafts only follow a `none_fit` |
| `DesktopDraftArticleTool` (`desktop_draft_tool.py`) | the last settled comparison, for duplicates | draft by summary, ticket, item, batch; confirm; prepare and submit a review | at most one bundle per item, duplicates without effect |
| Semantic review (`desktop_semantic_review*.py`, `desktop_semantic_candidate*.py`) | prepared, accepted, amending, used correction stages; the packet of excerpts | excerpt a ticket, validate, correct, project, amend | nothing said is lost or given to another speaker; what is quoted is in the ticket; bounded corrections |
| Public retrieval (`local_public_rag.py`, `desktop_reuse_comparison.py`) | none | readiness, exact and semantic lookup, merge | each article once, only what may be reused |
| Tool handlers (`desktop_authoring_tools.py`) | none | validate, dispatch, clear pending state on malformed calls | a malformed call cannot reuse pending state |
| MCP adapter and transport (`desktop_mcp_adapter.py`, `desktop_stdio_transport.py`) | two handshake flags | initialize, list, call | nothing before the handshake; what is announced is there |
| Operator controller (`operator_authoring_controller.py`) | a single-use comparison session | begin, confirm | only what was displayed is confirmed |
| Desktop bundle writer (`desktop_reviewer_bundle.py`) | a directory per bundle | write HTML, write manifest | a manifest describes a complete bundle |
| Clean ticket store (`desktop_ticket_ref.py`) | text, metadata and summary files | register, load, vouch | the metadata belongs to the text |
| `DraftRunAccounting` (`draft_run_accounting.py`) | active run, observations, item index; queue; files | observe a call, checkpoint, drop oldest, write | files never go back, calls never wait |
| Authoring pipeline (`desktop_authoring_pipeline.py`, `kcs_core/cli.py`) | none | evidence, decision, packet, report, in that order | no gate is bypassed |
| Reviewer session (`kcs_core/*`, `claude_provider.py`) | the packets at hand | decide, render, report, ask, answer, bundle | packets of one decision; all files or none |
| Node wrapper (`server/index.js`) | line buffer, line queue, flush flag, pending exit | data, end, exit, timer | every line once, in order; ends with the child |

### What is hard

* **Order.** Every tool can be called at any moment with a ref of any age. An
  item can be selected again while it is being compared, a batch can overlap
  with single selections, an amendment can arrive for a selection in use, and
  packets of the library can be remade after what was made of them.
* **Time.** Three kinds of pending state with their own deadlines, two of them
  tested with `<=` and two with `>`, and an author that may take longer than any.
* **Duplicates.** A client that lost an answer repeats the call; in a batch the
  next comparison is pending by then.
* **Crashes.** Pending state is lost, files are not; several files make one
  ticket or one bundle.
* **Threads and callbacks.** A drop-oldest queue emptied from both ends; a paced
  flush racing the end of the child.
* **Two implementations of one rule.** The renderer and the readiness report, a
  split card and the candidate alone, the library and the Desktop, the library's
  own provider call and the smoke run: each pair must agree on inputs nobody
  wrote down.
* **Anything for an answer.** The model, the draft provider and the retrieval service
  answer what they like; the checks on it interact.

`PROJECT.json` lists these as hazards, line by line, with the properties that
would catch each of them.

## 2. The modules

| Module | Models | Proofs |
|---|---|---|
| `OperatorSelection`, `ReuseComparison`, `SemanticReview` | the three kinds of pending state | |
| `DraftWorkflow` | the composition: every tool call as an action | `DraftWorkflow_proofs` |
| `ReuseGate` | the abstract promise about drafts | refinement, in the same |
| `DraftResults` | what the draft tools answer, and what asks for which next call | |
| `DraftRunAccounting` | request thread, queue, worker thread, files, crash | `DraftRunAccounting_proofs` |
| `McpbWrapper` | child, pipe, event loop, host | `McpbWrapper_proofs` |
| `TicketStore` | the files of a clean ticket, torn and whole | |
| `DesktopFront` | the server and the operator's process over those files and the bundles | `DesktopFront_proofs` |
| `KcsEvidence`, `KcsDecision`, `KcsRenderer`, `KcsReadiness` | the gates of the library, one module per source file | |
| `KcsDrafting`, `KcsContracts` | handoff, draft request, answer, artifact; what each packet checks of itself | |
| `SemanticItems` | the rules of a classified item, and its two ways to evidence | |
| `KcsAuthoring` | the two programs that run the library from end to end | `KcsAuthoring_proofs` |
| `ClaudeProvider` | the provider adapter and its smoke run | |
| `KcsBundle` | a reviewer session and the files of its bundles | `KcsBundle_proofs` |
| `SemanticExcerpts`, `SemanticProposal`, `SemanticProjection` | a ticket to excerpts, a proposal checked, a proposal to issues | |
| `PublicLookup` | the articles shown for an issue | |
| `TicketReview` | those four in sequence, with corrections | `TicketReview_proofs` |
| `Lists` | choosing and ordering elements of lists | `SequenceFacts` |
| `MC...` | instances for TLC | |

Recursion is written with functions and folds; no module declares a recursive
operator. `Lists` says what `SelectSeq` and `SortSeq` say, in terms of sets and
recursive functions, because those two are built into the tools and cannot be
unfolded in a proof.

### DraftWorkflow and the code

The composition is the one the Desktop adapter starts with an approved
comparison provider: then every ticket must carry an item and every draft that
writes passes the comparison. One tool call is one step, because the transport is
sequential. A call that waits for a provider or the author takes time: the
action chooses the time `at` (and `ready`) at which that work is done, and what
the code reads from the clock before and after is kept apart.

| Variable | Code |
|---|---|
| `now` | `time.monotonic()` |
| `minted` | `secrets.token_urlsafe`: refs are numbers, never minted twice |
| `selection`, `comparison`, `review` | `_pending_selection`, `_pending_reuse_comparison`, `_pending_semantic_review`; the empty record is `None` |
| `replay` | `_last_reuse_comparison_replay` |
| `cleared`, `rejected`, `closed`, `bundles` | history: what the operator decided and what was written, by item |

`Draft` and `Select` are the call shapes of `kcs_draft_article` and
`kcs_draft_ticket`, `Confirm` is `kcs_confirm_reuse_comparison`, `Review` is
`kcs_prepare_semantic_review` and `kcs_submit_semantic_review`, `Tick` is time
between calls and `Restart` a new process. Each early return that changes pending
state has an action (`SelectRefused`, `BatchRefused`, `ConfirmExpired`,
`ConfirmWithoutSelection`, `ConfirmMisshapen`, `ReviewExpires`,
`ReviewDiscarded`); one that changes nothing is a stuttering step. `Proceed`
is the rest of the confirm handler after the item's outcome is known: forget the
comparison, or look up and compare the next item of the batch, or fail in that
lookup. `SubmitSplitRefused` is the one refusal that happens after the review
was already changed.

An item is identified for good by `Key`: the ref of the selection that offers it
with its item ref, or the ref of its own comparison when a ticket has one item
only. This is how history outlives the pending state. After an amendment or
a second draft of the same ticket an item has a new key: the code treats it as a new
item too, and that the same *ticket* is not drafted twice is not claimed.

Abstracted: texts, evidence, candidate ids on display (a submit that names one
wrongly is refused without effect), and all wording of results. `review.offered`
and `review.split` are history fields of the review, which no guard reads.

### DraftRunAccounting, DraftResults and the code

`DraftResults` gives, tool by tool, the set of answers the draft tools can
produce, each as the fields the accounting looks at; the text of an answer is
left out. `Call` is `observe_tool_call` for any of these answers: `DraftTicket`
closes an active run first, `DraftArticle` starts one only if none is active,
`Continue` records any other call. The snapshots a call makes go to `outbox`;
`Put`, `Drop` and `PutAgain` are the three queue operations of
`_BackgroundDraftRunReportSink.checkpoint`, each one step, so the worker's `Take`
and `Write` come between any two. `Write` replaces the file of a run in one step,
as `os.replace` of a complete temporary file does. `WriteRaises` is a validation
error or any error of the file system: always possible, and certain for a
snapshot with an item index beyond the limit. `Restart` may come anywhere.

### McpbWrapper and the code

Each callback of `server/index.js` is an action; Node runs one at a time. Their
order is left open, except for what Node guarantees ("end" after the last
"data"), so "exit" may precede chunks that are still in the pipe. A line is two
halves, the second with the newline, and a chunk is any number of halves, so
chunks cut lines and join them.

### DesktopFront, TicketStore and the code

Two processes, `server` and `operator`, each with an adapter of its own, share
ticket files and bundle directories. A call is a sequence of steps with one file
access each: registering writes the text and then the metadata, a draft loads a
ticket and later vouches for it, a confirm makes a directory, writes the HTML and
then the manifest. A file is opened (and empty or torn) before it is filled. At
each step a write can fail, the process can die, or the other process can move;
`ExternalWrites` is the cleanup form, or a summary file that appears. The
server's line loop has its two handshake flags and validates a result after the
call; what the client receives is `answer`. The operator's process is a chain:
`Begin`, the display, `Choose` or `GiveUp`, the confirm, the end. Of the draft
workflow only what a ticket with one item goes through is repeated here.

### The core library, KcsAuthoring and KcsBundle

A text is a key (equal keys are texts the code's normal form makes equal) and a
step is its kind: what its wording makes the renderer do. Each gate is a set of
codes that are `Raised` by conditions, in the way the code collects blockers.
`KcsAuthoring` runs these functions as the two programs do: `Init` chooses an
input, each stage is an action, a refusal ends the run. In `KcsBundle` a
reviewer edits the evidence, makes packets from the packets at hand in any order,
asks a provider that answers anything, builds bundles and writes them: `Write`
looks at the names of its own files and opens a directory, `WriteTemp` and `Rename`
are one file each. After `WriteFails` the clean-up goes through the open
temporary (`UnlinkTemp`) and the files in place, the manifest first
(`UnlinkTarget`); each is one unlink, which may fail and is not looked at, as
`_cleanup_path` swallows the error. `Crash` may fall at any step of a write or a
clean-up. `writing.stuck` is a history: the bundles a clean-up has not wholly taken
back; no guard reads it. A draft's HTML is the tags a parser feeds, links and
self-closing ones included.

### TicketReview and the code

A ticket is a sequence of turns or paragraphs made of sentences; a sentence is a
name, of which a table says how many words it has and what the patterns of the
code find in it. `SemanticExcerpts` cuts, labels, ranks and bounds; `Submit` is
the chain of validators in the order of the code, with the stage that refuses;
`Compare` is the confirmed article, the exact lookup, the semantic lookup and
their merge; `Answer` the operator's outcome.

## 3. What is checked

| Run | Instance | Distinct states |
|---|---|---|
| `draft_workflow` | 3 items in batches of up to 3, 3 refs, clock to 2, ttl 1 | 39 478 |
| `run_accounting` | queue of 2, 2 runs of 3 calls, every answer, fair | 77 051 |
| `mcpb_wrapper` | 9 halves, fair | 445 |
| `kcs_pipeline` | every input that differs from a good one in at most two fields | 43 612 |
| `kcs_bundle` | 1 edit, 2 remade packets, 2 bundles, failing unlinks, smoke runs | 218 378 |
| `desktop_front` | 3 calls, 2 comparisons, 1 outside write, 1 death, a ticket by two names | 1 426 643 |
| `ticket_review` | tickets of a few turns or paragraphs, five families of proposals | 53 506 |
| `draft_replayable`, `amends_own_split`, `bundle_stale`, `reviewed_text`, `named_article` | smaller | see "Where code and documents disagree" |

### The properties

**Workflow** (`draft_workflow`). `OneBundlePerItem`, `BundleNeedsNoneFit` and
`RejectedNeverDrafted` are what the repository's README promises: only items
confirmed as `none_fit` are drafted. They relate the files to a history of
decisions, across retries, batches, replays and restarts. `QueueInOrder` ties two
pending records together: as long as the comparison's selection is current, what
lies behind the index is settled and what lies ahead is open. `DecisionsKept`
ties the pending record to the history. `ReplayNeverShadows` is why a duplicate
cannot consume the next comparison: a replay is looked at first, so it must not
carry an open ref. `AmendmentIsSafe` is why an amendment may ignore the
selection's age, `CorrectionOrder` why corrections end. `WritesInTime` is about
the moment of the call: the author may take longer. `GateSpec` says the whole
workflow is, to an observer of decisions and files, the module `ReuseGate`, which
has no refs, deadlines, queues or replays. `Inductive` is the invariant of the
proofs.

**Accounting** (`run_accounting`). `InOrder` and `NewestKept` hold through full
queues, dropped snapshots and a worker between any two operations. `OfferKeepsRun`
compares two lists of strings kept in different modules: what the tools ask for
next, and what the accounting takes for a continuation. It says on both sides where the line runs: every answer
a client goes on from keeps its run open, except one that leaves nothing but the
retry of a blocked item, which closes it although it hands out the ref and the tool
of the next call; the retry is then not recorded, because only a draft of a
ticket starts a run. `NewestWritten` and `CallsReturn` are its liveness.

**Wrapper** (`mcpb_wrapper`). `ShownOrQueued`: nothing read is lost, shown twice or
out of order. `ReadIsShown`: it is shown in the end, also when the child has ended
with half a line. `EndsWithChild`.

**Pipeline** (`kcs_pipeline`). `ArticleIsGrounded`: whatever bypasses the
order of the gates, an article has evidence none of them found wanting.
`RunPacketConsistent` and `SplitAgreesWithAlone` compare two implementations of a
rule; `StepsKept` and `BestMatchChosen` are about walks over lists;
`NothingExcludedIsPublished` follows a classified item through four stages.

**Reviewer session** (`kcs_bundle`). `DraftIsForReadyArticle` and
`BundledDraftIsReady` are about packets that are remade and recombined;
`SmokeAgreesWithSubmit` compares the adapter's smoke run with the library's own
provider call. `ManifestOwnsItsFiles` and `WriteIsAllOrNothing` are about the files,
with a clean-up that may fail: what a manifest lists is of its own bundle, a failed
write leaves nothing in place unless an unlink failed or the clean-up died, and no
write harms another bundle. What they cannot say is that a directory holds exactly
the files of one bundle. A clean-up that removes the manifest and leaves a handoff
or a draft makes room for a later bundle of six files, which looks only at the six
names it writes.

**Front ends** (`desktop_front`). `AnnouncedIsComplete`,
`OneBundlePerComparison`, `SessionIsPending` and `ReviewIsVouched`, through
refused results, failed and torn writes and deaths.

**Ticket review** (`ticket_review`). `EligibleTurnsComplete`: no word is lost at
a cut. `LabelledNotDisplaced`, `EntryNotSupportOnly`, `SetAsideIsDuplicate`,
`DisplayedOnceEach`, `NamedIsOnTicket`: what reaches the operator was in the
ticket, in the role and by the speaker it is shown for.

### Bounds, and why they are enough

*Workflow.* `MaxRef` bounds how many pending records a behaviour makes: three
take a batch from its selection to the comparison of its second item. With three
items the batch has a past and a future there. With a ttl of one and a clock to two
a record is before, at and past its deadline, and a comparison outlives its
selection while the author works. The batch inputs include one that repeats an
item. Items are interchangeable (symmetry); no liveness is checked under
symmetry. The proofs have none of these bounds as finite numbers.

*Accounting and wrapper.* A queue of two is filled by one call with two snapshots
and the next one; two runs are enough for the closing snapshot of one to meet the
first of another. Nine halves are four lines and a cut one. The proofs again have
no such bounds.

*Pipeline.* A gate is bypassed by a combination: the good input fails one gate in
one field and meets the bypass in another, hence two. Items, matches, sections
and evidences each vary that way, and a second candidate makes a split.

*Session.* One edit between two packets makes any of them stale; two remakes
bring a draft or a handoff of an earlier state together with fresh packets; two
bundles meet in one directory, after a failed write, a failed clean-up or a crash in
either.

*Front ends.* Three calls are a registration, a draft and a confirm, or a confirm
sent three times; two comparisons one that is replaced; one death or outside write
comes at every step. The bare number and the canonical ref of a ticket are two
names that should be one.

*Review.* An excerpt holds three words and a packet four excerpts, so a turn of a
few words is cut and a labelled text is ranked out; the tickets hold each pattern
the code looks for, alone and next to the ones that compete with it.

### Fairness, and where a run may stop

The workflow has none: nothing forces a client or an operator to act, and no
liveness is claimed. `DraftRunAccounting` assumes `WF_vars(HandOver)`: the thread
that is inside a call goes on, as nothing in `checkpoint` blocks. About the
worker nothing is assumed in `CallsReturn`, which is the point of it;
`NewestWritten` is conditional on `WF_vars(Work)`, a thread that is scheduled and a
disk that answers. `McpbWrapper` assumes weak fairness of each callback of the
wrapper: Node's event loop runs what is due. Nothing is assumed of the
child, so the wrapper's end is claimed only once the child has ended.

A wrapper, a run of the pipeline, a review that is answered and a session whose bounds are
used up really stop, so these runs and `desktop_front` do not look for deadlock.
`draft_workflow` and `run_accounting` do.

### Where code and documents disagree

* `DraftIsReplayable` (`desktop_draft_tool.py:366`): a batch confirm that wrote
  its bundle can fail in the lookup of the next item when the selection ran out
  while the author worked; the answer is an error, and its duplicate is refused.
* `AmendsOwnSplit` (`desktop_workflow.py:646`): a first submission with an issue
  called `all` leaves the review accepted without a selection; it may then
  replace an older selection that it did not make.
* `ReadyBundleIsValid` (`kcs_core/reviewer_bundle.py:221`): after an edit of the
  evidence, a fresh validation that blocks it and the older report go into one
  bundle, which calls itself ready.
* `ReviewedTextIsApproved` (`desktop_ticket_ref.py:306`): a summary file takes
  precedence over the clean text, but the approval that is checked is that of the
  clean text.
* `NamedArticleFirst` (`desktop_semantic_candidates.py:841`): an article that the
  ticket says helped is not shown first when the resolution quotes two turns.

### Other observations

Met while modelling; each is in the models as the code has it.

*Workflow and accounting.*
An amendment opens the correction budget again, so a review may be corrected more
than twice although the design caps it. Past the item index limit no snapshot of a run
is writable, the terminal one included. A result whose only remaining items are
retryable keeps its own next action, at most a request for resolution steps, which the
accounting does not know: the run is closed and the retry is not recorded
(`OfferKeepsRun`). It is closed, too, by a blocked next comparison of a queue, although
its selection is pending. A confirm that names no pending
comparison is accounted as a failure of retrieval. A workflow-stopped confirm
still lists the remaining items; a workflow-stopped single selection does not.

The lookup of the next item of a batch may also refuse for a reason of its own, such as
an item no search request can be built from; `Proceed` has that error at any time,
and nothing is remembered then either.

*Files.* A clean-up that could not unlink a handoff or a draft leaves it beside a later
bundle of fewer files, although `tests/kcs_core/test_reviewer_bundle.py:116-159`
expects a directory of exactly the files of its bundle.
A registration whose metadata write fails answers `writes_files` False
although the text was replaced. A text torn by a crash is drafted from without a
digest check; only the review path compares. `write_reviewer_bundle` leaves the
temporary when the write of it fails, and refuses later writes because of it; it
writes the manifest first, so a crash leaves one that names missing files. A
refused result of `begin` leaves the adapter armed; a refused result of a confirm
ends the operator's command with an error although the bundle is there.

*Library and Desktop.* Steps stand in for a missing resolution, and how-to
symptoms and facts are filled in, only on the Desktop. A ticket that names an
existing article may still become `create_candidate`. A single item with open
questions becomes an article on both paths, while in a split its card is blocked.
The Desktop drafts items classified as internal, the library never renders them.
`ready_for_provider_call` ignores the preflight, and `provider_called` is true for
a payload that was never sent. A summary section that yields no item is dropped
without a word, and so is what precedes the first heading.

*Review.* Turns by an automatic sender and the preamble of a recognised transcript
are dropped. An internal-note label protects only the first sentence below it.
Rejected coverage does not stop a submission. A quote may end before the words
that deny an article.

## 4. What is proved

Every theorem below holds for all values of the constants, under the named
assumptions of the modules; TLC evaluates those on each run.

### The workflow

`DraftWorkflow_proofs` proves the invariants of the run `draft_workflow`, the
action property `WritesInTime` and the refinement `GateSpec`. The assumptions:
the batch limit and the time to live are positive (`BatchMaxAssumption`,
`TtlAssumption`), batch inputs are sequences of items (`BatchInputAssumption`),
the bounds are natural numbers (`BoundsAssumption`).

The invariants do not carry over a step by themselves. `Inductive` adds what
they rest on, by the state each part is about:

* `RefsInv`: refs held anywhere were minted, so a new one differs from all of
  them and from every key in the history; a comparison is younger than its selection.
* `SelectionInv`: retryable items are open and *cleared*. This is what makes the
  retry path, which asks for no comparison, safe.
* `ComparisonInv`: a comparison without a selection has one item and nobody has
  decided it; queues do not repeat.
* `HistoryInv`: a bundle's item is closed, and rejected items are closed. So
  an item that is still offered has no bundle and was not rejected.
* `ReviewInv`: the budget, the review's deadline, and `AmendmentIsSafe`.

The step lemma has one lemma per group of actions, and under it one step per
conjunct an action can disturb. `WorkflowImplementsGate` shows by cases
that a step that writes or decides is one step of `ReuseGate` (a key is offered,
so not closed), and that every other step changes nothing the gate sees. The
remaining theorems follow from `Inductive` by temporal logic.

### The accounting

`DraftRunAccounting_proofs`: `InOrder_Thm`, `NewestKept_Thm`, `OfferKeepsRun_Thm`,
type correctness, and `DiskAdvances_Thm`, which no run checks because it is
the consequence on disk: a report file is never replaced by an older one, across
restarts too. `InOrder` speaks of one sequence, worker, queue and hand-over
concatenated; its concatenation is what makes a step hard to follow. The invariant
says the same piecewise (`OrderInv`: `Follows` within and between the parts;
`DiskInv`: what is on disk lies before what is pending) and adds `MadeInv`,
that whatever is pending was made no later than the active run allows, so what is
made next follows all of it, and `NewestInv`, with the fact that after a drop there is
room, so the second put cannot lose what it carries. `UnderwayParts` leads back
to the sequence. `OfferKeepsRun_Thm` is a case analysis over every answer of
`DraftResults` (`OffersTold`), with what the accounting concludes from an item's own
result when it has only retryable items left beside it (`FinalTold`, `ItemFinal`),
and the step of the request thread that acts on it.

### The wrapper

`McpbWrapper_proofs`: `ShownOrQueued_Thm` and `ServedByTimer_Thm`. The invariant ties
the buffer to the parity of what was read (`BufferInv`) and the flush timer to the
queue (`ServedByTimer`). That what waits is shown in the end needs fairness and is
left to the run.

### The reviewer session

`KcsBundle_proofs`. `ManifestOwnsItsFiles_Thm` and `WriteIsAllOrNothing_Thm` hold
whatever the packets are and whichever unlinks fail: `OpenInv` says that an open
write has put exactly the files before its index in place and left no temporary of
them; `CleaningInv`, that what a clean-up leaves behind its own index is on record
as stuck; `FileAtHand`, that the next file is none of those in place, because no
bundle names a file twice.

`DraftIsForReadyArticle_Thm`, `BundledDraftIsReady_Thm` and
`SmokeAgreesWithSubmit_Thm` are for any evidence and any number of edits. A session
remakes its packets in any order, so the packet a draft was made of may be gone;
`PacketsInv` therefore keeps in each packet what its builder had checked
(`RequestInv`, `DraftInv`, `ReportInv`), and for a smoke run what its result was
computed from (`SmokeInv`). The draft's HTML is any sequence of tags
(`HtmlsAssumption`). `_DraftHtmlValidator` is a walk with a stack; the property
says that every tag is opened and closed equally often. `HtmlStacks` follows the
walk: the stack holds, tag by tag, what was opened and not yet closed, so one that
ends empty was balanced (`AcceptedIsBalanced`).

### The front ends

`DesktopFront_proofs` proves the three invariants and the action property of the
run `desktop_front`, for any number of calls, comparisons, deaths and writes from
outside; of the constants it needs that a canonical ref is a ref. The invariant
follows a comparison's ref through both processes:

* `RefsInv`: a ref is held once, as a pending comparison or by the call that
  confirms it, and has no bundle until that call has made one. So a duplicate
  finds neither, and can only be answered from memory.
* `WritesInv`: a call in the middle of a bundle writes the one of its ref; its
  manifest is not begun before the document is whole, nor whole before the call is
  through. So no later write touches a bundle that was announced.
* `AnnouncedInv`: answers and replays name whole bundles.
* `SessionInv`: the operator's process does one thing at a time, so nothing spends
  the comparison while a choice is asked for.
* `QuietInv`: a call nobody disturbed has the text of the file; it connects the
  two reads of `Draft` and `Reread` to the vouching in `StartReview`.

Each step that ends a call, ends a process or writes a file has one lemma that says
what it keeps (`CallEnds`, `ProcessEnds`, `TicketFile`, `BundleFile`), and the
lemmas of the actions cite it.

### Lists of any length

The last two components compute with lists: they fold, filter, rank, cut and
join them, and their properties compare what goes in with what comes out. A
bounded list in a run is the weakest kind of evidence for such code, and a proof
needs induction. The library's induction theorems take an operator, which the
provers cannot instantiate, but its theorem that a well-founded relation
has minimal elements takes a set. `SequenceFacts` starts there: `LeastNat`, hence
`SetInduction` over the set of numbers a formula holds for, hence what the
constructions of the models compute on any sequence:

* `FoldCourse`: a fold has a course, the values after each prefix. To prove
  something of a fold is to carry an invariant along its course.
* `KeptFacts`: what `KeptAt` and `Matching` select is the chosen elements, in their
  order, each once.
* `RankedFacts`: elements placed by their rank in a total order are all there,
  once, in that order.
* `FlattenAppend`, `FlattenConcat`, `FlattenOnes`, `RangeFlatten`: flattening,
  piece by piece.

The module reaches no recursive operator: the folds and `FlattenSeq` of the
community modules are defined by recursive functions, which unfold.

### The pipeline

`KcsAuthoring_proofs` proves the six invariants of the run `kcs_pipeline`. Of the
constants it needs that packets have the fields their classes give them
(`InputsAssumption`), and that an answer is a list of items and a summary a list
of sections (`AnswersAssumption`). How many candidates, steps, matches, items or
sections there are, and what is in them, is left open.

`Traced` is the inductive heart. It says of each packet what it was computed from:
the decision is that on the evidence and search at hand, the packet was
rendered from it without an error, the report is of all three. `InputKept`,
`PacketsShaped` and `PacketsThere` add what becomes of the input. After that every
theorem is about functions of one evidence and one search:

* `SpecRunPacketConsistent`: by the action of the decision (`ReadyDecisions`), each
  check of the report against the branch of the renderer that produced the packet.
* `SpecArticleIsGrounded`: from an article back through the renderer's errors, the
  decision, its blockers and the evidence's (`RenderedGrounds`, `GroundsOfRun`).
* `SpecNothingExcludedIsPublished`: back from the article to the item. A proposed
  item was valid (`ValidItem`) and its candidate one the renderer may publish; on
  the Desktop the item was kept as draftable of a valid answer (`DraftableItem`).
* `SpecBestMatchChosen`: the choice is a first element of a filtered list.
* `SpecSplitAgreesWithAlone`: a card and a decision are computed by two functions;
  `CardAgrees` compares them, branch by branch.
* `SpecStepsKept`: the merge of support blocks into the step before them is a fold
  whose invariant is that what is merged, flattened, is what was read.

The last one changed the property. `StepsKept` allowed one entry point before the
steps, which holds of the inputs of the run and not of all: a how-to without
answers that shows its resolution may get two, `login` and then `ssh` or `rdp`. The
property now lists what may come first, says when it may be two and that the
steps do not have it themselves, and that an item is one step with its blocks.

### The ticket review

`TicketReview_proofs` proves the six invariants of the run `ticket_review`, for any
tickets, any proposals of the shape the JSON schema admits and any answer of the
service. The assumptions: a ticket is a sequence of non-empty turns
(`TicketsAssumption`); neither a blank line nor the header of a turn is an address
or an outcome (`WordsAssumption`); proposals consist of lists of words
(`ProposalsAssumption`), an answer of the service is lost, malformed or a list
(`ServiceAssumption`); the tables give a sentence words, scores and labels
(`AboutAssumption`); an excerpt has room for more than one word, and the ranked
excerpts at full size fill the packet at most, as 12 of 12 000 bytes do 144 000
(`BoundsAssumption`); at least one article is shown (`NoArticleAssumption`).

`ReviewInv` is inductive and short: what is accepted was valid for the packet, the
issues were projected from it, a comparison has an answer for the article its issue
confirms. The rest is about the functions.

* `SpecEligibleTurnsComplete`: cutting a turn is a fold over its sentences, within
  it a fold over the parts of a sentence that is too long. Each step
  (`PartKeeps`, `SentenceKeeps`, `TurnKeeps`) keeps that pieces and buffer
  together are the words read so far; then all pieces together are the turn,
  and all turns together are the ticket's, speaker by speaker (`SpeakersSaid`).
* `SpecLabelledNotDisplaced`: the packet is picked in several ways, one after the
  other, then freed of repeated texts and cut. The picks begin with the address of a
  resolution and all labelled sentences (`ForemostOf`); a course for the removal of
  repeated texts (`KeepCourse`) says that it keeps them first, so when one is cut
  off, nothing behind them was kept.
* `SpecSetAsideIsDuplicate`: a record may call an excerpt a duplicate of one that an
  earlier record set aside. Along the records, what is set aside has the text
  of an excerpt that an issue cites (`RecordAdded`, `CoverageShown`), so no chain or
  circle of records holds itself up.
* `SpecEntryNotSupportOnly`, `SpecDisplayedOnceEach`: what the validators leave,
  and what the merge of two answers lists.
* `SpecNamedIsOnTicket`: an address and an outcome next to each other in a joined
  text lie in one of the texts joined (`HeaderApart`, `TurnsApart`): between two
  turns there is a header, which is neither.

Two of the statements changed with the proof. `LabelledNotDisplaced` was about
sentences: when two that clean to the same text stand under a label and under none,
the excerpt is that of the first and the second is no displacement, so it is now
about excerpts. For `NamedIsOnTicket` the source was read again: the outcome that
counts follows the address directly or after blank space, so both the model
(`Helps`) and the property ask for that, where they asked for an outcome anywhere in
the text; and turns of automatic senders, though dropped from the packet, keep
their header in the text that is searched.

### Only model-checked

Liveness: `NewestWritten` and `CallsReturn` of the accounting, `ReadIsShown` and
`EndsWithChild` of the wrapper. It rests on fairness, hence on ENABLED, which is beyond the prover.
The five violated properties are shown by their counterexamples.

## 5. What is not modelled, and why

* Parsers and patterns: Zendesk exports, the sanitizer's replacements, labels inside
  a summary section, markup quality checks, escaping. They are regular expressions
  over strings without state; what they find is an input (a kind, a key, a code).
* Ranking inside the retrieval service, the model and the draft provider: they
  answer anything.
* Argument parsing, JSON schemas, tool descriptors, prompts, wording of results.
* `write_reviewer_only_draft_artifact`, which writes one file; that the artifact
  class repeats the checks of its builder is in `KcsContracts`, so dropping
  either alone changes nothing.
* The comparison with an older extraction format, which only writes a report;
  style references; the wrapper's choice of a Python runtime.
* Smoke tools, evaluation scripts and the Langfuse stack: not the running program.
* One draft per *ticket*: the code does not promise it (see `Key` above).

## 6. How the project may grow

The order in which it was built: the pending state and `DraftWorkflow` with
`ReuseGate`; accounting and wrapper; files and front ends; the library from
evidence to bundle; the review from ticket to comparison; the proofs.

Left: a refinement from `DesktopFront` to `DraftWorkflow`, which needs the first
one's calls to be divided at the step that decides; and the label parsers of
`approved_summary_semantic.py` over tokens, as the excerpts have them now.
