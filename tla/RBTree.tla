-------------------------------- MODULE RBTree --------------------------------
(***************************************************************************)
(* The red-black tree of src/src/sbtree.{h,cpp}, as operators that take a     *)
(* tree and return the tree the C++ function leaves behind.  A tree is its     *)
(* root pointer and, for every node and for the shared sentinel NILNODE, the    *)
(* fields of sbt_node.  NILNODE is an ordinary node in memory: the code reads   *)
(* its key, and deletion writes its parent.                                   *)
(***************************************************************************)
EXTENDS Integers, Sequences, FiniteSets

CONSTANTS Node,    (* the nodes                                              *)
          NILNODE, (* the address of the sentinel every leaf points to         *)
          Null     (* nullptr                                                *)

ASSUME AddressAssumption ==
  IsFiniteSet(Node) /\ NILNODE \notin Node /\ Null \notin Node /\ NILNODE # Null

Ptr == Node \cup {NILNODE}

Link == Ptr \cup {Null}

Tree == [root : Link, parent : [Ptr -> Link], left : [Ptr -> Link], right : [Ptr -> Link],
         key : [Ptr -> Int], color : [Ptr -> {"RED", "BLACK"}]]

IS_NULL(p) == p \in {Null, NILNODE}

(* The tree before any insertion.                                             *)
EmptyTree ==
  [root   |-> Null,
   parent |-> [p \in Ptr |-> Null],
   left   |-> [p \in Ptr |-> Null],
   right  |-> [p \in Ptr |-> Null],
   key    |-> [p \in Ptr |-> 0],
   color  |-> [p \in Ptr |-> "BLACK"]]

(* mk_tstn's RBTNode: red, on its own, both children the sentinel.              *)
NewNode(t, x, k) ==
  [t EXCEPT !.parent[x] = Null, !.left[x] = NILNODE, !.right[x] = NILNODE,
            !.key[x] = k, !.color[x] = "RED"]

(* The fields of a node that is not in use.                                      *)
Forget(t, x) ==
  [t EXCEPT !.parent[x] = Null, !.left[x] = Null, !.right[x] = Null, !.key[x] = 0,
            !.color[x] = "BLACK"]

(* A write the code makes only to a real node.                                 *)
SetReal(t, field, p, v) == IF IS_NULL(p) THEN t ELSE [t EXCEPT ![field][p] = v]

Other(side) == IF side = "left" THEN "right" ELSE "left"

(* c takes the place of x below p.                                              *)
Hang(t, p, side, x, c) ==
  IF p = Null THEN t
  ELSE [t EXCEPT ![IF t[side][p] = x THEN side ELSE Other(side)][p] = c]

-----------------------------------------------------------------------------
(* Relatives.                                                                 *)

is_black(t, x) == IS_NULL(x) \/ t.color[x] = "BLACK"

grandparent_of(t, x) == t.parent[t.parent[x]]

SideOf(t, x) == IF x = t.left[t.parent[x]] THEN "left" ELSE "right"

sibling_of(t, x) ==
  IF IS_NULL(t.parent[x]) THEN NILNODE ELSE t[Other(SideOf(t, x))][t.parent[x]]

uncle_of(t, x) == sibling_of(t, t.parent[x])
neice_of(t, x) == t[SideOf(t, x)][sibling_of(t, x)]

(* Not the mirror image of neice_of when both children of the parent are x.    *)
nephew_of(t, x) ==
  t[IF x = t.right[t.parent[x]] THEN "left" ELSE "right"][sibling_of(t, x)]

(* get_dir(node, true) and get_dir(node).                                      *)
Dir1(t, x) == IF x = t.right[t.parent[x]] THEN "right" ELSE "left"

get_dir(t, x) ==
  IF IS_NULL(t.parent[x]) \/ IS_NULL(grandparent_of(t, x)) THEN <<>>
  ELSE <<Dir1(t, t.parent[x]), Dir1(t, x)>>

-----------------------------------------------------------------------------
(* rotate_left and rotate_right: x goes down on the given side, its child on     *)
(* the other side comes up.                                                   *)
Rotate(t, x, side) ==
  LET o  == Other(side)
      c  == t[o][x]
      b  == t[side][c]
      p  == t.parent[x]
      t1 == SetReal([t EXCEPT ![o][x] = b], "parent", b, x)
      t2 == Hang(SetReal(t1, "parent", c, p), p, side, x, c)
  IN  [SetReal(t2, side, c, x) EXCEPT !.parent[x] = c]

(* sbt_rotate: the tree, and the node it returns, now above x.  The second half of a *)
(* double rotation starts from the node the first half brought below x.         *)
WithTop(t, x) == [tree |-> t, node |-> t.parent[x]]
Outer(t, x, d) == WithTop(Rotate(t, grandparent_of(t, x), Other(d)), x)
Inner(t, x, d) == Outer(t, t[d][x], d)

sbt_rotate(t, x) ==
  LET dir == get_dir(t, x)
  IN  CASE dir = <<>> -> WithTop(t, x)
        [] dir # <<>> /\ dir[1] = dir[2] -> Outer(t, x, dir[1])
        [] OTHER -> Inner(Rotate(t, t.parent[x], dir[1]), x, dir[1])

transplant(t, a, b) ==
  LET p  == t.parent[a]
      t1 == [t EXCEPT !.parent[b] = p]
  IN  IF IS_NULL(p) THEN t1 ELSE [t1 EXCEPT ![Dir1(t1, a)][p] = b]

-----------------------------------------------------------------------------
(* Search and insertion.                                                      *)

(* Where the walk of sbt_search and sbt_insert ends: the node with the key, or    *)
(* the null pointer it fell off at, and the node above it.                      *)
Descent(t, k) ==
  LET walk[s \in [at : Link, above : Link]] ==
        IF IS_NULL(s.at) \/ t.key[s.at] = k THEN s
        ELSE walk[[at |-> IF t.key[s.at] < k THEN t.right[s.at] ELSE t.left[s.at], above |-> s.at]]
  IN  walk[[at |-> t.root, above |-> t.root]]

(* The node with the key, or Null.                                             *)
sbt_search(t, k) ==
  LET x == Descent(t, k).at IN IF IS_NULL(x) THEN Null ELSE x

(* The key is refused also when the walk falls off at the sentinel and the       *)
(* sentinel's own key, 0, is the key inserted.                                  *)
Refuses(t, k) ==
  LET x == Descent(t, k).at IN x # Null /\ t.key[x] = k

sbt_insert(t, x) ==
  LET end == Descent(t, t.key[x])
      t1  == [t EXCEPT !.parent[x] = end.above]
  IN  IF IS_NULL(t.root) THEN [t1 EXCEPT !.root = x]
      ELSE [t1 EXCEPT ![IF t.key[end.above] < t.key[x] THEN "right" ELSE "left"][end.above] = x]

(* The node that came up is black, its children red.                             *)
Recolored(r) ==
  [r.tree EXCEPT !.color = [@ EXCEPT ![r.node] = "BLACK",
                                     ![r.tree.left[r.node]] = "RED",
                                     ![r.tree.right[r.node]] = "RED"]]

rbt_fix(tree, node) ==
  LET fix[s \in [tree : Tree, at : Node]] ==
        LET t == s.tree
            x == s.at
            p == t.parent[x]
            g == t.parent[p]
            u == uncle_of(t, x)
        IN  IF t.color[x] = "BLACK" \/ IS_NULL(p) \/ is_black(t, p) THEN t
            ELSE IF is_black(t, u) THEN Recolored(sbt_rotate(t, x))
            ELSE fix[[tree |-> [t EXCEPT !.color = [@ EXCEPT ![p] = "BLACK", ![g] = "RED", ![u] = "BLACK"]],
                      at   |-> g]]
  IN  fix[[tree |-> tree, at |-> node]]

(* What rbt_insert leaves when sbt_insert does not refuse the key.  A rotation about   *)
(* the root puts its new parent there.                                         *)
BlackRoot(t) ==
  LET root == IF t.parent[t.root] # Null THEN t.parent[t.root] ELSE t.root
  IN  [t EXCEPT !.root = root, !.color[root] = "BLACK"]

rbt_insert(t, x) == BlackRoot(rbt_fix(sbt_insert(t, x), x))

-----------------------------------------------------------------------------
(* Deletion and replacement.                                                  *)

(* The first three tests of rbt_del_fix end its loop with one or two rotations     *)
(* about the parent; the last goes on from the grandparent.                     *)
Repaired(t, x, sib, neice, nephew, side) ==
  LET p  == t.parent[x]
      t1 == IF is_black(t, neice) THEN t ELSE Rotate(t, sib, Other(side))
      t2 == Rotate(t1, p, side)
  IN  CASE t.color[p] = "RED" ->
             IF is_black(t, neice) THEN t2 ELSE [t2 EXCEPT !.color[t2.parent[x]] = "BLACK"]
        [] t.color[p] = "BLACK" /\ t.color[sib] = "RED" ->
             [Rotate(t, p, side) EXCEPT !.color = [@ EXCEPT ![p] = "RED", ![sib] = "BLACK"]]
        [] t.color[p] = "BLACK" /\ t.color[sib] = "BLACK" /\ ~ is_black(t, nephew) ->
             [Rotate(t, p, side) EXCEPT !.color[nephew] = "BLACK"]
        [] OTHER ->
             [sbt_rotate(t, neice).tree EXCEPT !.color[neice] = "BLACK"]

rbt_del_fix(tree, node) ==
  LET fix[s \in [tree : Tree, at : Ptr]] ==
        LET t      == s.tree
            x      == s.at
            p      == t.parent[x]
            sib    == sibling_of(t, x)
            neice  == neice_of(t, x)
            nephew == nephew_of(t, x)
            up     == [t EXCEPT !.color[sib] = "RED"]
            Done(u) == [u EXCEPT !.color[x] = "BLACK", !.root = IF IS_NULL(u.parent[x]) THEN x ELSE @]
        IN  IF IS_NULL(p) \/ t.color[x] = "RED" THEN Done(t)
            ELSE IF \/ t.color[p] = "RED" \/ t.color[sib] = "RED"
                    \/ ~ is_black(t, nephew) \/ ~ is_black(t, neice)
                 THEN Done(Repaired(t, x, sib, neice, nephew, Dir1(t, x)))
            ELSE IF IS_NULL(t.parent[p]) THEN up
            ELSE fix[[tree |-> up, at |-> t.parent[p]]]
  IN  fix[[tree |-> tree, at |-> node]]

(* The last node below x on one side.                                           *)
Farthest(t, x, side) ==
  LET down[y \in Ptr] == IF IS_NULL(t[side][y]) THEN y ELSE down[t[side][y]] IN down[x]

Leftmost(t, x) == Farthest(t, x, "left")

(* What takes d's place in the tree, cut = [tree, X, Y, black]: a leaf's sentinel, an     *)
(* only child, or the node Y of the next key, with X, its right child, in Y's place.   *)
Alone(t, d) ==
  LET R == t.right[d]
  IN  [tree |-> transplant(t, d, R), X |-> R, Y |-> R, black |-> is_black(t, d)]

OnlyChild(t, d, c) ==
  [tree |-> [transplant(t, d, c) EXCEPT !.color[c] = t.color[d]],
   X |-> c, Y |-> c, black |-> is_black(t, c)]

TakeRight(t, d, y) ==
  IF y = t.right[d] THEN t ELSE [t EXCEPT !.right[y] = t.right[d], !.parent[t.right[d]] = y]

NextKey(t, d, y) ==
  LET t1 == TakeRight(transplant(transplant(t, y, t.right[y]), d, y), d, y)
  IN  [tree |-> [t1 EXCEPT !.left[y] = t.left[d], !.parent[t.left[d]] = y,
                           !.color[y] = t.color[d]],
       X |-> t.right[y], Y |-> y, black |-> is_black(t, y)]

Cut(t, d) ==
  CASE IS_NULL(t.left[d]) /\ IS_NULL(t.right[d]) -> Alone(t, d)
    [] IS_NULL(t.right[d]) /\ ~ IS_NULL(t.left[d]) -> OnlyChild(t, d, t.left[d])
    [] IS_NULL(t.left[d]) /\ ~ IS_NULL(t.right[d]) -> OnlyChild(t, d, t.right[d])
    [] OTHER -> NextKey(t, d, Leftmost(t, t.right[d]))

(* Only a red replacement moves the root by itself.                             *)
Closed(cut, d) ==
  IF cut.black THEN rbt_del_fix(cut.tree, cut.X)
  ELSE [cut.tree EXCEPT !.root = IF @ = d THEN cut.Y ELSE @]

rbt_delete(t, d) == Closed(Cut([t EXCEPT !.parent[NILNODE] = d], d), d)

(* sbt_replace, of nodes with one key.                                         *)
sbt_replace(t, old, new) ==
  LET t1 == transplant(t, old, new)
      t2 == SetReal([t1 EXCEPT !.left[new] = t1.left[old]], "parent", t1.left[old], new)
      t3 == SetReal([t2 EXCEPT !.right[new] = t2.right[old]], "parent", t2.right[old], new)
  IN  [t3 EXCEPT !.color[new] = t.color[old]]

-----------------------------------------------------------------------------
(* Wrong: one step up is the next node.                                          *)
sbt_walk_forw_OneUp(t, x) ==
  IF IS_NULL(x) THEN Null
  ELSE IF IS_NULL(t.right[x]) THEN t.parent[x] ELSE Leftmost(t, t.right[x])

(* The next node on one side in order: nullptr steps to nullptr.                       *)
Neighbour(t, x, side) ==
  LET climb[y \in Ptr] ==
        LET p == t.parent[y] IN IF p # Null /\ y = t[side][p] THEN climb[p] ELSE p
  IN  IF IS_NULL(x) THEN Null
      ELSE IF IS_NULL(t[side][x]) THEN climb[x] ELSE Farthest(t, t[side][x], Other(side))

sbt_walk_forw(t, x) == Neighbour(t, x, "right")

sbt_walk_back(t, x) == Neighbour(t, x, "left")

(* -offset steps back are asked for, ~offset are made: one less.                     *)
sbt_walk(t, x, offset) ==
  LET forw[i \in 0 .. offset] == IF i = 0 THEN x ELSE sbt_walk_forw(t, forw[i - 1])
      back[i \in 0 .. (-offset - 1)] == IF i = 0 THEN x ELSE sbt_walk_back(t, back[i - 1])
  IN  IF offset < 0 THEN back[-offset - 1] ELSE forw[offset]

(* The nodes below x, x included: a broken tree may have cycles.                       *)
Under(t, x) ==
  LET below[S \in SUBSET Node] ==
        LET T == S \cup ({t[side][y] : side \in {"left", "right"}, y \in S} \cap Node)
        IN  IF T = S THEN S ELSE below[T]
  IN  below[{x} \cap Node]

(* sbt_at: the node that `index', counted up in order, meets at offset; found and index  *)
(* after the subtree y.                                                          *)
sbt_at(t, x, offset) ==
  LET at[y \in Under(t, x) \cup {NILNODE, Null}] ==
        [index \in Nat |->
           IF IS_NULL(y) THEN [found |-> y, index |-> index]
           ELSE LET left == at[t.left[y]][index]
                IN  IF ~ IS_NULL(left.found) THEN left
                    ELSE IF left.index = offset THEN [found |-> y, index |-> left.index]
                    ELSE at[t.right[y]][left.index + 1]]
  IN  at[x][0].found

(* sbt_min and sbt_max descend until the pointer is null, as only the sentinel's is.   *)
sbt_end(t, x, side) ==
  LET down[y \in Ptr] == IF t[side][y] = Null THEN y ELSE down[t[side][y]] IN down[x]

(* sbt_detach: d leaves the tree, and the node of the next key takes its place; neither    *)
(* colours nor the root are looked after.                                          *)
sbt_detach(t, d) ==
  IF IS_NULL(t.right[d]) THEN transplant(t, d, t.left[d])
  ELSE LET next == Leftmost(t, t.right[d])
           t1 == transplant(transplant(t, next, t.right[next]), d, next)
           t2 == [t1 EXCEPT !.left[next] = t1.left[d], !.right[next] = t1.right[d]]
       IN  SetReal(SetReal(t2, "parent", t2.left[next], next), "parent", t2.right[next], next)

-----------------------------------------------------------------------------
(* What a tree should be.                                                     *)

(* A binary search tree with the parent links that go with it, over a sentinel without      *)
(* children.                                                                  *)
SearchTree(t) ==
  /\ t \in Tree /\ t.left[NILNODE] = Null /\ t.right[NILNODE] = Null /\ t.key[NILNODE] = 0
  /\ t.root # NILNODE
  /\ t.root # Null => t.parent[t.root] = Null
  /\ \A x \in Under(t, t.root) : \A side \in {"left", "right"} :
       LET c == t[side][x]
       IN  /\ c # Null
           /\ c # NILNODE => t.parent[c] = x
           /\ \A y \in Under(t, c) :
                IF side = "left" THEN t.key[y] < t.key[x] ELSE t.key[y] > t.key[x]

(* The red-black rules, of a search tree: a black root over black leaves, which are the    *)
(* sentinel, no red node below a red one, and as many black nodes on every way down.      *)
RedBlack(t) ==
  LET T == Under(t, t.root)
      blacks[x \in T] ==
        (IF is_black(t, x) THEN 1 ELSE 0) + (IF x = t.root THEN 0 ELSE blacks[t.parent[x]])
      ends == {x \in T : IS_NULL(t.left[x]) \/ IS_NULL(t.right[x])}
  IN  /\ is_black(t, t.root) /\ t.color[NILNODE] = "BLACK"
      /\ \A x \in T \ {t.root} : is_black(t, x) \/ is_black(t, t.parent[x])
      /\ \A x, y \in ends : blacks[x] = blacks[y]

(* The node rbt_delete takes out of its place to delete d: if it is black,           *)
(* rbt_del_fix is called.                                                      *)
Moved(t, d) ==
  CASE IS_NULL(t.left[d]) /\ IS_NULL(t.right[d]) -> d
    [] IS_NULL(t.left[d]) /\ ~ IS_NULL(t.right[d]) -> t.right[d]
    [] IS_NULL(t.right[d]) /\ ~ IS_NULL(t.left[d]) -> t.left[d]
    [] OTHER -> Leftmost(t, t.right[d])

(* What rbt_del_fix makes of a red-black tree from which a black node was taken, x in its   *)
(* place, when x is black and has a parent.  If the parent is red, it is all right.  If it     *)
(* is black, a red node among sibling, niece and nephew has the tree rotated about the        *)
(* parent, and a red sibling, or none while there is a grandparent, is the wrong case.        *)
Kin(t, x) == {sibling_of(t, x), neice_of(t, x), nephew_of(t, x)}

AllBlack(t, x) == is_black(t, x) /\ ~ IS_NULL(t.parent[x]) /\ is_black(t, t.parent[x])

LosesColors(t, x) ==
  AllBlack(t, x) /\ \/ ~ is_black(t, sibling_of(t, x))
                    \/ /\ \A y \in Kin(t, x) : is_black(t, y)
                       /\ ~ IS_NULL(t.parent[t.parent[x]])

(* The rotation is about the root, and *root stays with the node that went down.           *)
LosesRoot(t, x) ==
  AllBlack(t, x) /\ IS_NULL(t.parent[t.parent[x]]) /\ \E y \in Kin(t, x) : ~ is_black(t, y)

(* Deleting the root by way of rbt_del_fix also leaves *root behind.                     *)
DelFixFails(t, d) ==
  is_black(t, Moved(t, d)) /\
    LET cut == Cut([t EXCEPT !.parent[NILNODE] = d], d)
    IN  t.root = d \/ LosesColors(cut.tree, cut.X) \/ LosesRoot(cut.tree, cut.X)
=============================================================================
