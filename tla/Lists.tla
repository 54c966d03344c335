------------------------------- MODULE Lists -------------------------------
(***************************************************************************)
(* Choosing and ordering elements.  SelectSeq and SortSeq of the standard  *)
(* modules are built into the tools and cannot be unfolded in a proof;     *)
(* these say the same in terms of folds and sets.                          *)
(***************************************************************************)
EXTENDS Naturals, Sequences, FiniteSets, SequencesExt

\* The elements of s at some of its indices, in their order.
KeptAt(s, at) ==
  LET kept[n \in 0 .. Len(s)] ==
        IF n = 0 THEN <<>>
        ELSE IF n \in at THEN Append(kept[n - 1], s[n]) ELSE kept[n - 1]
  IN kept[Len(s)]

Matching(s, Test(_)) == KeptAt(s, {i \in DOMAIN s : Test(s[i])})

\* The elements of a finite set in a total order, each at its rank.
Ordered(S, Before(_, _)) ==
  [n \in 1 .. Cardinality(S) |->
     CHOOSE x \in S : Cardinality({y \in S : Before(y, x)}) = n - 1]

\* The first of them, in a sequence of at most one element.
FirstWhere(s, Test(_)) ==
  LET at == {i \in DOMAIN s : Test(s[i])} IN IF at = {} THEN <<>> ELSE <<s[Min(at)]>>
=============================================================================
