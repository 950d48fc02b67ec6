------------------------------- MODULE MCHashSet -------------------------------
(***************************************************************************)
(* HashSet on a small instance: 4 buckets, 3 moves a call and sizes of 3 bits for   *)
(* 8, 128 and 64, so that a migration takes several calls and a size wraps.        *)
(***************************************************************************)
EXTENDS HashSet

MCNode == 1 .. 4
MCKey == 1 .. 3
(* Nodes 1 and 4 carry the same key.                                          *)
MCKeyOf == [n \in MCNode |-> IF n = 4 THEN 1 ELSE n]
(* Keys 1 and 2 meet in the first table and no other.                            *)
MCHash == [k \in MCKey |-> IF k = 1 THEN 2 ELSE IF k = 2 THEN 6 ELSE 3]

(* Deletions of one node over and over count the sizes down without end: to below 0 is   *)
(* far enough.                                                                *)
Within == size <= Cardinality(Node) \/ size = SizeMod - 1
=============================================================================
