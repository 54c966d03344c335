---- MODULE MCDraftWorkflow ----
(* A small instance of DraftWorkflow for TLC: two interchangeable items, and *)
(* the batches a client may send of them, the empty one included.              *)
EXTENDS DraftWorkflow

CONSTANTS a, b

MCItem == {a, b}
MCBatchInput == {<<>>, <<a>>, <<b>>, <<a, b>>, <<b, a>>}
MCSymmetry == Permutations(MCItem)
====
