----------------------------- MODULE TicketStore -----------------------------
(***************************************************************************)
(* The clean ticket store (desktop_ticket_ref.py and                       *)
(* desktop_clean_ticket_metadata.py): per ticket an approved summary file, *)
(* a clean text and the metadata that vouches for the text.  A file is     *)
(* overwritten in place, so between the open and the end of a write it     *)
(* holds a part: one that still reads as text ("torn"), or one that does   *)
(* not ("garbled": empty, or cut inside a character).                      *)
(***************************************************************************)
EXTENDS Integers, Sequences, FiniteSets

CONSTANTS Ticket,     \* ticket refs
          Canonical,  \* a bare number -> its "ticket-" ref; the others -> themselves
          Text        \* complete ticket texts

ASSUME CanonicalAssumption == Canonical \in [Ticket -> Ticket]
ASSUME TextAssumption == Text \cap {"none", "torn", "garbled", "item", "missing", "part"} = {}

Content == Text \cup {"none", "torn", "garbled"}

\* What a metadata file says, normalized: whose it is, the text whose digest it
\* holds ("missing" and "part" where there is no such file, or a part of one), and
\* whether that text may be reviewed.
Metadata == [ticket : Ticket, of : Text \cup {"missing", "part"}, allowed : BOOLEAN]
Unusable(ticket, of) == [ticket |-> ticket, of |-> of, allowed |-> FALSE]

\* A summary holds a structured item, or a text of its own.
Entry == [summary : Text \cup {"none", "item", "garbled"}, text : Content,
          meta : Metadata]
Empty(ticket) ==
  [summary |-> "none", text |-> "none", meta |-> Unusable(ticket, "missing")]

Exists(entry) == entry.summary # "none" \/ entry.text # "none"

\* A bare ticket number means the canonical ref when only that one is there.
Resolve(store, ticket) ==
  IF ~ Exists(store[ticket]) /\ Exists(store[Canonical[ticket]])
  THEN Canonical[ticket]
  ELSE ticket

\* Neither file of another form nor a part that is not text is read.
CleanText(entry) == IF entry.text \in Text \cup {"torn"} THEN <<entry.text>> ELSE <<>>

\* What a draft is made from, and from which file: a summary is preferred, and
\* a bad one is not made up for by the clean text.
Source(entry) == IF entry.summary = "none" THEN "clean" ELSE "summary"
Payload(entry) ==
  IF Source(entry) = "clean" THEN CleanText(entry)
  ELSE IF entry.summary = "garbled" THEN <<>> ELSE <<entry.summary>>

\* What registering a text writes behind it.
Registered(ticket, text) == [ticket |-> ticket, of |-> text, allowed |-> TRUE]

\* Mutant: the digest is not compared.
VouchesForAny(meta, ticket, text) ==
  meta.ticket = ticket /\ meta.of \in Text /\ meta.allowed

\* validate_clean_ticket_metadata_for_semantic_review
Vouches(meta, ticket, text) ==
  /\ meta.ticket = ticket
  /\ meta.of = text
  /\ meta.allowed
=============================================================================
