-------------------------------- MODULE SBTree --------------------------------
(***************************************************************************)
(* The red-black tree by itself, under any sequence of rbt_insert and           *)
(* rbt_delete: what rbt_test.cc does to one, with trees tall enough for the       *)
(* repairs to climb.                                                          *)
(***************************************************************************)
EXTENDS RBTree

CONSTANTS KeyOf,  (* the key a node carries; 0 is the key of NILNODE too              *)
          Foreign (* nodes of other trees                                          *)

ASSUME KeysAreNumbers == KeyOf \in [Node -> Int] /\ Foreign \subseteq Node

VARIABLES tree,   (* *root and every node                                       *)
          linked  (* the nodes the callers put in and did not take out           *)

vars == <<tree, linked>>

Init == tree = EmptyTree /\ linked = {}

(* Wrong: the node hangs below its parent, but nothing is done about two reds.      *)
Insert_NoFix(n) ==
  LET t == NewNode(tree, n, KeyOf[n])
  IN  /\ n \notin linked
      /\ IF Refuses(tree, KeyOf[n]) THEN UNCHANGED vars
         ELSE tree' = sbt_insert(t, n) /\ linked' = linked \cup {n}

(* rbt_insert of a node that was just made.                                      *)
Insert(n) ==
  LET t == NewNode(tree, n, KeyOf[n])
  IN  /\ n \notin linked
      /\ IF Refuses(tree, KeyOf[n]) THEN UNCHANGED vars
         ELSE tree' = rbt_insert(t, n) /\ linked' = linked \cup {n}

(* Wrong: the key moves and the node does not, as in a tree that owns its nodes.     *)
Delete_CopyKey(n) ==
  LET y == Moved(tree, n)
  IN  /\ n \in linked
      /\ tree' = [Forget(rbt_delete(tree, y), y) EXCEPT !.key[n] = tree.key[y]]
      /\ linked' = linked \ {n}

Delete(n) ==
  /\ n \in linked
  /\ tree' = Forget(rbt_delete(tree, n), n)
  /\ linked' = linked \ {n}

(* What the caller makes of the root pointer when the root is detached is its own affair.  *)
Detach(n) ==
  /\ n \in linked \ {tree.root}
  /\ tree' = Forget(sbt_detach(tree, n), n)
  /\ linked' = linked \ {n}

(* NILNODE is shared by all trees.  A call on another leaves a node of that one, NILNODE or   *)
(* none as its parent; once rbt_del_fix has broken that one, calls rotate about NILNODE or      *)
(* below it (sbtree.cpp:44, 51, 68, 76), and paint it (336, 469), so its children and its colour    *)
(* are no longer those it was made with either.                                       *)
Sentinel(t, p, l, r, c) ==
  [t EXCEPT !.parent[NILNODE] = p, !.left[NILNODE] = l, !.right[NILNODE] = r, !.color[NILNODE] = c]

Elsewhere ==
  /\ \E p, l, r \in Foreign \cup {NILNODE, Null}, c \in {"RED", "BLACK"} :
       tree' = Sentinel(tree, p, l, r, c)
  /\ UNCHANGED linked

Next ==
  \/ \E n \in Node \ Foreign : Insert(n) \/ Delete(n) \/ Detach(n)
  \/ Elsewhere

Spec == Init /\ [][Next]_vars

-----------------------------------------------------------------------------
TypeOK ==
  /\ tree \in Tree
  /\ tree.key \in [Ptr -> {KeyOf[n] : n \in Node} \cup {0}]
  /\ \A n \in linked : tree.key[n] = KeyOf[n]
  /\ linked \subseteq Node

Sound == SearchTree(tree) /\ RedBlack(tree) /\ Under(tree, tree.root) = linked

(* The nodes that are linked, in order below the one that has no parent, whatever *root    *)
(* points to.                                                                   *)
InOrder(t, T) ==
  \E top \in T : LET u == [t EXCEPT !.root = top] IN SearchTree(u) /\ Under(u, top) = T

(* The sentinel as the program starts with it, but for its parent.                        *)
SentinelAsMade(t) ==
  t.left[NILNODE] = Null /\ t.right[NILNODE] = Null /\ t.color[NILNODE] = "BLACK"

(* What becomes of a red-black tree.  Insertion keeps it one.  So does deletion, unless it   *)
(* takes a black node out of its place and rbt_del_fix (sbtree.cpp:408) fails in one of       *)
(* the ways of DelFixFails; it always does then, but what it costs is colours or *root:      *)
(* no node and no order is lost below the true root.  Detaching a node may cost colours.     *)
(* Another tree breaks this one through the sentinel they share, and exactly when it leaves  *)
(* it children or red: what any tree leaves as its parent makes no difference.             *)
BreaksOnlyInDelFix ==
  [][Sound =>
       /\ ~ Sound' => linked \ linked' # {} \/ Elsewhere
       /\ Elsewhere => (Sound' <=> SentinelAsMade(tree'))
       /\ \A n \in linked \ linked' :
            \/ /\ Delete(n)
               /\ Sound' <=> ~ DelFixFails(tree, n)
               /\ linked' = {} \/ InOrder(tree', linked')
            \/ /\ Detach(n)
               /\ SearchTree(tree') /\ Under(tree', tree'.root) = linked']_vars

(* Walking a sound tree from its least node meets every node once, by key, and then   *)
(* ends: climbing back through parents and descending agree.  Walking back meets the     *)
(* same nodes, sbt_at counts them alike, and sbt_min and sbt_max find none of them.     *)
WalkIsInOrder ==
  Sound /\ linked # {} =>
    LET n == Cardinality(linked)
        walk == [i \in 0 .. n |-> sbt_walk(tree, Leftmost(tree, tree.root), i)]
    IN  /\ {walk[i] : i \in 0 .. (n - 1)} = linked
        /\ \A i \in 1 .. (n - 1) : tree.key[walk[i - 1]] < tree.key[walk[i]]
        /\ walk[n] = Null
        /\ \A i \in 0 .. (n - 1) : sbt_walk(tree, walk[n - 1], i - n) = walk[i]
        /\ sbt_walk(tree, walk[0], -2) = Null
        /\ \A i \in 0 .. (n - 1) : sbt_at(tree, tree.root, i) = walk[i]
        /\ IS_NULL(sbt_at(tree, tree.root, n))
        /\ \A side \in {"left", "right"} : sbt_end(tree, tree.root, side) = NILNODE
=============================================================================
