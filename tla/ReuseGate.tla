---- MODULE ReuseGate ----
(**************************************************************************)
(* What the operator is promised about drafts, without the selections,    *)
(* comparisons, refs and timeouts that implement it: each item is decided *)
(* by the operator; only an item confirmed none_fit is drafted; a         *)
(* completed item never changes again and has at most one bundle.         *)
(**************************************************************************)
EXTENDS Naturals, Sequences

CONSTANT ItemKey

VARIABLES cleared, rejected, closed, bundles
vars == <<cleared, rejected, closed, bundles>>

Init == cleared = {} /\ rejected = {} /\ closed = {} /\ bundles = <<>>

\* The operator confirms none_fit; the author does not complete the item.
Clear(key) ==
  /\ key \notin closed
  /\ cleared' = cleared \cup {key}
  /\ UNCHANGED <<rejected, closed, bundles>>

\* The operator chooses reuse, update or more evidence: no draft.
Reject(key) ==
  /\ key \notin closed
  /\ rejected' = rejected \cup {key}
  /\ closed' = closed \cup {key}
  /\ UNCHANGED <<cleared, bundles>>

\* The author completes an item the operator cleared now or before. A decision
\* once closed stays closed.
Complete(key, drafted) ==
  /\ key \notin closed
  /\ cleared' = cleared \cup {key}
  /\ closed' = closed \cup {key}
  /\ bundles' = IF drafted THEN Append(bundles, key) ELSE bundles
  /\ UNCHANGED rejected

Next ==
  \E key \in ItemKey :
    \/ Clear(key)
    \/ Reject(key)
    \/ \E drafted \in BOOLEAN : Complete(key, drafted)

Spec == Init /\ [][Next]_vars
====
