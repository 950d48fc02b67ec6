------------------------------- MODULE MCSBTree -------------------------------
(***************************************************************************)
(* All trees of six keys, 0 to 5, and tall trees of up to twelve whose keys have no     *)
(* gap: insertions at either end let rbt_fix climb two levels and rotate about the root,     *)
(* and deletions find black nodes all around, below the root and further down.            *)
(***************************************************************************)
EXTENDS SBTree

MCNode == 1 .. 13
MCForeign == {13}
MCKeyOf == [n \in MCNode |-> n - 1]

(* A tree that rbt_del_fix has broken is not taken further.                           *)
Small == linked \subseteq 1 .. 6
Tall == \A a, b \in linked : a .. b \subseteq linked
Within12 == Sound /\ (Small \/ Tall)
=============================================================================
