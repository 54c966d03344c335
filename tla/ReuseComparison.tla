---- MODULE ReuseComparison ----
(**************************************************************************)
(* The pending reuse comparison (desktop_reuse_comparison.py): evidence   *)
(* shown to the operator before a draft, for one item of a queue of       *)
(* items. The evidence itself is abstracted to the fact that it is ready. *)
(**************************************************************************)
EXTENDS OperatorSelection

PendingReuseComparison ==
  [ref : Nat, sel : Nat, queue : Seq(Item), index : Nat, expires : Nat]

NoComparison ==
  [ref |-> NoRef, sel |-> NoRef, queue |-> <<>>, index |-> 0, expires |-> 0]

NewComparison(ref, sel, queue, index, expires) ==
  [ref |-> ref, sel |-> sel, queue |-> queue, index |-> index,
   expires |-> expires]

Bound(cmp)   == cmp.sel # NoRef
Current(cmp) == cmp.queue[cmp.index]
HasNext(cmp) == cmp.index < Len(cmp.queue)

\* The item a decision is about, unique over the life of the process: a
\* selection's items are named by the selection, a lone item by its comparison.
Key(cmp) == << IF Bound(cmp) THEN cmp.sel ELSE cmp.ref, Current(cmp) >>

\* The closed enum of operator outcomes. What a submit must say of candidate_ref
\* (an id on display for reuse and update, nothing or such an id otherwise) is
\* abstracted: a submit that says it wrongly is refused and changes nothing.
Outcome == {"none_fit", "need_more_evidence", "reuse", "update"}

\* _ReuseComparisonReplay: the last settled comparison and how long a
\* duplicate of its submit is answered from memory.
ReuseComparisonReplay == [ref : Nat, expires : Nat]
NoReplay == [ref |-> NoRef, expires |-> 0]
====
