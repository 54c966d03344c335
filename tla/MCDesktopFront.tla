---- MODULE MCDesktopFront ----
(* DesktopFront for TLC: a ticket known by its bare number and by its         *)
(* canonical ref, and two texts.                                               *)
EXTENDS DesktopFront, TLC

CONSTANTS bare, canonical, s, t

MCTicket == {bare, canonical}
MCCanonical == bare :> canonical @@ canonical :> canonical
MCText == {s, t}
MCSymmetry == Permutations(MCText)
====
