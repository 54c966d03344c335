---- MODULE MCDraftBatch ----
(* DraftWorkflow with batches of three items: the comparison of the middle   *)
(* item has both a past and a future in the queue. A batch that repeats an   *)
(* item is sent too. Three refs take a batch to its second item.             *)
EXTENDS DraftWorkflow

CONSTANTS a, b, c

MCItem == {a, b, c}
MCBatchInput ==
  {queue \in [1 .. 3 -> MCItem] : IsInjective(queue)} \cup
  {<<item, item>> : item \in MCItem}
MCSymmetry == Permutations(MCItem)
====
