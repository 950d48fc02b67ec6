----------------------------- MODULE SBTreeProofs -----------------------------
(***************************************************************************)
(* Walks in a sound tree, insertions into one, and removals, of any nodes   *)
(* and keys.                                                               *)
(***************************************************************************)
EXTENDS SBTree, RBTreeProofs

LEMMA WalkIsInOrderAlways == WalkIsInOrder
<1> SUFFICES ASSUME Sound, linked # {}
             PROVE  WalkIsInOrder
  BY DEF WalkIsInOrder
<1> DEFINE U == Nodes(tree)
           K == tree.key
           n == Cardinality(linked)
           least == Leftmost(tree, tree.root)
           walk == [i \in 0 .. n |-> sbt_walk(tree, Leftmost(tree, tree.root), i)]
<1>1. SearchTree(tree) /\ U = linked
  BY DEF Sound, Nodes
<1>2. tree.root # Null
  <2>1. ASSUME tree.root = Null
        PROVE  FALSE
    <3>1. tree \in Tree /\ {tree.root} \cap Node = {}
      BY <1>1, <2>1, AddressAssumption DEF SearchTree
    <3>2. IsLeast(tree, {}, U)
      BY <3>1, UnderIsLeast DEF Nodes
    <3>3. Whole(tree, {}) /\ {} \in SUBSET Node /\ {} \subseteq {}
      BY DEF Whole
    <3>4. U \subseteq {}
      <4> HIDE DEF U
      <4> QED
        BY <3>2, <3>3 DEF IsLeast
    <3> QED
      BY <1>1, <3>4
  <2> QED
    BY <2>1
<1>3. Ordered(U, tree.root, tree.left, tree.right, tree.parent, Below(tree), K)
  BY <1>1, <1>2, SearchTreeIsOrdered
<1>4. Numbered(U, K) /\ Distinct(U, K) /\ Ranked(U, K) /\ n \in Nat /\ n = Cardinality(U)
  BY <1>1, <1>2, <1>3, AllRanked DEF Ordered
<1>5. \A i \in 0 .. n : walk[i] = sbt_walk(tree, least, i)
  OBVIOUS
<1>6. /\ \A i \in 0 .. (n - 1) : walk[i] \in U /\ Rank(U, K, walk[i]) = i
      /\ walk[n] = Null
  <2>1. ASSUME NEW i \in 0 .. n
        PROVE  /\ i < n => walk[i] \in U /\ Rank(U, K, walk[i]) = i
               /\ i = n => walk[i] = Null
    BY <1>1, <1>2, <1>4, <1>5, WalkUp
  <2> HIDE DEF walk, U, K, n
  <2> QED
    BY <1>4, <2>1
<1>7. \A x \in U : Rank(U, K, x) \in 0 .. (n - 1)
  BY <1>4, LowerFacts
<1>8. 0 \in 0 .. (n - 1) /\ n - 1 \in 0 .. (n - 1)
  <2>1. tree.root \in U
    BY <1>3 DEF Ordered, Linked
  <2> HIDE DEF U, K, n
  <2> QED
    BY <1>4, <1>7, <2>1
<1> HIDE DEF walk, n, least
<1>9. {walk[i] : i \in 0 .. (n - 1)} = U
  <2>1. ASSUME NEW x \in U
        PROVE  x \in {walk[i] : i \in 0 .. (n - 1)}
    <3>1. Rank(U, K, x) \in 0 .. (n - 1)
      BY <1>7
    <3>2. walk[Rank(U, K, x)] = x
      <4> HIDE DEF U, K
      <4> QED
        BY <1>4, <1>6, <3>1, RankTells
    <3> QED
      BY <3>1, <3>2
  <2> QED
    BY <1>6, <2>1
<1>10. \A i \in 1 .. (n - 1) : K[walk[i - 1]] < K[walk[i]]
  <2> SUFFICES ASSUME NEW i \in 1 .. (n - 1)
               PROVE  K[walk[i - 1]] < K[walk[i]]
    OBVIOUS
  <2>1. i \in 0 .. (n - 1) /\ i - 1 \in 0 .. (n - 1) /\ i - 1 < i
    BY <1>4
  <2>2. walk[i] \in U /\ walk[i - 1] \in U /\ Rank(U, K, walk[i]) = i /\ Rank(U, K, walk[i - 1]) = i - 1
    BY <1>6, <2>1
  <2> HIDE DEF U, K
  <2> QED
    BY <1>4, <2>1, <2>2, RankTells
<1>11. \A i \in 0 .. (n - 1) : sbt_walk(tree, walk[n - 1], i - n) = walk[i]
  <2> SUFFICES ASSUME NEW i \in 0 .. (n - 1), NEW w, w = sbt_walk(tree, walk[n - 1], i - n)
               PROVE  w = walk[i]
    OBVIOUS
  <2> DEFINE j == n - 1 - i
  <2>1. j \in Nat /\ j <= n - 1 /\ i - n = -j - 1 /\ (n - 1) - j = i
    BY <1>4
  <2>2. walk[n - 1] \in U /\ Rank(U, K, walk[n - 1]) = n - 1
    BY <1>6, <1>8
  <2>3. w = sbt_walk(tree, walk[n - 1], -j - 1)
    BY <2>1
  <2> HIDE DEF j
  <2>4. w \in U /\ Rank(U, K, w) = i
    BY <1>1, <1>2, <2>1, <2>2, <2>3, WalkDown
  <2>5. walk[i] \in U /\ Rank(U, K, walk[i]) = i
    BY <1>6
  <2> HIDE DEF U, K
  <2> QED
    BY <1>4, <2>4, <2>5, RankTells
<1>12. sbt_walk(tree, walk[0], -2) = Null
  <2>1. walk[0] \in U /\ Rank(U, K, walk[0]) = 0
    BY <1>6, <1>8
  <2>2. PICK f : /\ f[0] = walk[0] /\ sbt_walk(tree, walk[0], -1 - 1) = f[1]
                 /\ \A i \in 1 .. 1 : f[i] = sbt_walk_back(tree, f[i - 1])
    <3>1. walk[0] \in Nodes(tree) \cup {Null} /\ 1 \in Nat
      BY <2>1
    <3> QED
      BY <1>1, <1>2, <3>1, WalkBackward
  <2>3. sbt_walk(tree, walk[0], -2) = f[1] /\ f[1] = sbt_walk_back(tree, walk[0])
    <3>1. -1 - 1 = -2 /\ 1 \in 1 .. 1 /\ 1 - 1 = 0
      OBVIOUS
    <3>2. f[1] = sbt_walk_back(tree, f[1 - 1])
      BY <2>2, <3>1
    <3> QED
      BY <2>2, <3>1, <3>2
  <2>4. f[1] = Null \/ (f[1] \in U /\ IsNext(U, K, f[1], walk[0]))
    BY <1>1, <1>2, <2>1, <2>3, Backward
  <2>5. ASSUME f[1] \in U, IsNext(U, K, f[1], walk[0])
        PROVE  FALSE
    <3> HIDE DEF U, K
    <3>1. 0 = Rank(U, K, f[1]) + 1 /\ Rank(U, K, f[1]) \in Nat
      BY <1>4, <2>1, <2>5, NextRank, LowerFacts
    <3> QED
      BY <3>1
  <2> QED
    BY <2>3, <2>4, <2>5
<1>13. \A i \in 0 .. (n - 1) : sbt_at(tree, tree.root, i) = walk[i]
  <2> SUFFICES ASSUME NEW i \in 0 .. (n - 1)
               PROVE  sbt_at(tree, tree.root, i) = walk[i]
    OBVIOUS
  <2>1. i \in Nat /\ i < n
    BY <1>4
  <2>2. sbt_at(tree, tree.root, i) = NodeAt(U, K, i)
    BY <1>1, <1>2, <1>4, <2>1, AtIsByRank
  <2>3. walk[i] \in U /\ Rank(U, K, walk[i]) = i
    BY <1>6
  <2>4. NodeAt(U, K, Rank(U, K, walk[i])) = walk[i]
    <3> HIDE DEF U, K
    <3> QED
      BY <1>4, <2>3, NodeAtFacts
  <2> QED
    BY <2>2, <2>3, <2>4
<1>14. IS_NULL(sbt_at(tree, tree.root, n))
  BY <1>1, <1>2, <1>4, AtIsByRank DEF IS_NULL
<1>15. \A side \in {"left", "right"} : sbt_end(tree, tree.root, side) = NILNODE
  BY <1>1, <1>2, EndIsSentinel
<1> QED
  BY <1>1, <1>6, <1>9, <1>10, <1>11, <1>12, <1>13, <1>14, <1>15 DEF WalkIsInOrder, walk, n, least

(* Of a sound tree, forward and backward walks, sbt_at, sbt_min and sbt_max agree.              *)
THEOREM WalkIsInOrderHolds == Spec => []WalkIsInOrder
BY WalkIsInOrderAlways, PTL

-----------------------------------------------------------------------------
(* Heights: as many black nodes on every way down.                        *)

(* H[y] is the number of black nodes on every way down from y, y itself not counted; a link to  *)
(* a child adds the child.                                                             *)
Weight(t, H, y) == IF y = NILNODE THEN 0 ELSE H[y] + (IF t.color[y] = "BLACK" THEN 1 ELSE 0)

(* As high on both sides, everywhere in S.                                             *)
Tall(t, H, S) == \A y \in S : H[y] \in Nat /\ \A s \in Sides : H[y] = Weight(t, H, t[s][y])

(* A tree with one number of black nodes on every way down has heights.                *)
LEMMA TallExists ==
  ASSUME NEW t, NEW root, NEW B, Shaped(t, root, B), Even(t, root, B[root])
  PROVE  \E H : Tall(t, H, B[root])
<1> DEFINE U == B[root]
<1>1. PICK A, D : Counted(t, root, U, A) /\ Level(t, U, A, D)
  BY DEF Even
<1> DEFINE H == [y \in U |-> D - A[y]]
<1>2. \A y \in U : H[y] = D - A[y]
  OBVIOUS
<1> HIDE DEF H
<1>3. \A y \in U : A[y] \in Int
  BY <1>1 DEF Counted
<1>4. root \in U /\ t.parent[root] = Null /\ U \subseteq Node
  BY DEF Shaped
<1>5. D \in Int
  <2>1. PICK y \in U : \A side \in Sides : t[side][y] \notin U
    BY <1>4, ShapedLeast
  <2>2. t["left"][y] \in U \cup {NILNODE} /\ "left" \in Sides
    BY ShapedSides, SidesFacts
  <2> QED
    BY <1>1, <1>3, <2>1, <2>2 DEF Level
<1>6. \A y \in U : H[y] \in Int
  BY <1>2, <1>3, <1>5
<1>7. ASSUME NEW y \in U, NEW s \in Sides
      PROVE  H[y] = Weight(t, H, t[s][y])
  <2> DEFINE c == t[s][y]
  <2>1. CASE c = NILNODE
    <3>1. A[y] = D
      BY <1>1, <2>1 DEF Level
    <3> QED
      BY <1>2, <1>5, <2>1, <3>1 DEF Weight
  <2>2. CASE c # NILNODE
    <3>1. c \in U /\ t.parent[c] = y
      BY <2>2, ShapedSides
    <3>2. c # root
      BY <1>4, <3>1, AddressAssumption
    <3> HIDE DEF c
    <3>3. A[c] = (IF t.color[c] = "BLACK" THEN 1 ELSE 0) + A[y]
      BY <1>1, <3>1, <3>2 DEF Counted
    <3>4. H[y] = H[c] + (IF t.color[c] = "BLACK" THEN 1 ELSE 0)
      BY <1>2, <1>3, <1>5, <3>1, <3>3
    <3> QED
      BY <2>2, <3>4 DEF Weight, c
  <2> QED
    BY <2>1, <2>2
<1>8. \A y \in U : H[y] >= 0
  <2> DEFINE Bad == {y \in U : H[y] < 0}
  <2>1. ASSUME Bad # {}
        PROVE  FALSE
    <3>1. PICK y \in Bad : \A side \in Sides : t[side][y] \notin Bad
      <4> Bad \subseteq U
        OBVIOUS
      <4> HIDE DEF Bad
      <4> QED
        BY <2>1, ShapedLeast
    <3>2. y \in U /\ "left" \in Sides
      BY SidesFacts
    <3>3. H[y] = Weight(t, H, t["left"][y]) /\ t["left"][y] \in U \cup {NILNODE}
      BY <1>7, <3>2, ShapedSides
    <3>4. t["left"][y] \notin Bad
      BY <3>1, <3>2
    <3>5. t["left"][y] # NILNODE => H[t["left"][y]] \in Int /\ H[t["left"][y]] >= 0
      BY <1>6, <3>3, <3>4
    <3>6. H[y] >= 0
      BY <3>3, <3>5 DEF Weight
    <3> QED
      BY <1>6, <3>1, <3>6
  <2> QED
    BY <1>6, <2>1
<1>9. Tall(t, H, U)
  BY <1>6, <1>7, <1>8 DEF Tall
<1> QED
  BY <1>9

(* And the other way round.                                                            *)
LEMMA TallIsEven ==
  ASSUME NEW t, NEW root, NEW B, Shaped(t, root, B), NEW H, Tall(t, H, B[root]), t.color[NILNODE] = "BLACK"
  PROVE  Even(t, root, B[root])
<1> DEFINE U == B[root]
<1>1. PICK A : Counted(t, root, U, A)
  BY CountExists
<1> DEFINE D == A[root] + H[root]
<1>2. root \in U
  BY DEF Shaped
<1>3. \A y \in U : A[y] \in Int /\ H[y] \in Int
  BY <1>1 DEF Counted, Tall
<1> DEFINE Bad == {y \in U : A[y] + H[y] # D}
<1>4. ASSUME Bad # {}
      PROVE  FALSE
  <2>1. PICK y \in Bad : \A z \in Bad : Cardinality(B[z]) <= Cardinality(B[y])
    <3> Bad \subseteq U
      OBVIOUS
    <3> HIDE DEF Bad
    <3> QED
      BY <1>4, ShapedHighest
  <2>2. y \in U /\ y # root
    BY <2>1
  <2> DEFINE q == t.parent[y]
  <2>3. q \in U /\ Cardinality(B[y]) < Cardinality(B[q]) /\ \E s \in Sides : y = t[s][q]
    BY <2>2, ShapedParent
  <2>4. q \notin Bad
    <3>1. Cardinality(B[y]) \in Nat /\ Cardinality(B[q]) \in Nat
      BY <2>2, <2>3, ShapedSides, SidesFacts
    <3> HIDE DEF Bad
    <3> QED
      BY <2>1, <2>3, <3>1
  <2>5. A[q] + H[q] = D
    BY <2>3, <2>4
  <2>6. A[y] = (IF t.color[y] = "BLACK" THEN 1 ELSE 0) + A[q]
    BY <1>1, <2>2 DEF Counted
  <2>7. y # NILNODE
    BY <2>2, AddressAssumption DEF Shaped
  <2>8. H[q] = H[y] + (IF t.color[y] = "BLACK" THEN 1 ELSE 0)
    BY <2>3, <2>7 DEF Tall, Weight
  <2> HIDE DEF D, q
  <2>9. A[y] + H[y] = D
    BY <1>3, <2>2, <2>3, <2>5, <2>6, <2>8
  <2> QED
    BY <2>1, <2>9 DEF D
<1>5. Level(t, U, A, D)
  <2> SUFFICES ASSUME NEW y \in U, NEW s \in Sides, t[s][y] = NILNODE
               PROVE  A[y] = D
    BY DEF Level
  <2>1. H[y] = 0
    BY DEF Tall, Weight
  <2>2. A[y] + H[y] = D
    BY <1>4
  <2> HIDE DEF D
  <2> QED
    BY <1>3, <2>1, <2>2
<1> QED
  BY <1>1, <1>5 DEF Even

(* No way of counting fits what is below w.                                                *)
Lopsided(t, B, w) == \A H : ~ Tall(t, H, B[w])

(* Heights are what they are: no others do.                                            *)
LEMMA HeightIsOne ==
  ASSUME NEW t, NEW root, NEW B, Shaped(t, root, B), NEW w \in B[root],
         NEW G, Tall(t, G, B[w]), NEW H, Tall(t, H, B[w])
  PROVE  \A y \in B[w] : G[y] = H[y]
<1> DEFINE Bad == {y \in B[w] : G[y] # H[y]}
<1>1. ASSUME Bad # {}
      PROVE  FALSE
  <2>1. B[w] \subseteq B[root] /\ "left" \in Sides
    BY ShapedSides, SidesFacts
  <2>2. PICK y \in Bad : \A side \in Sides : t[side][y] \notin Bad
    <3> Bad \subseteq B[root]
      BY <2>1
    <3> HIDE DEF Bad
    <3> QED
      BY <1>1, ShapedLeast
  <2>3. y \in B[w] /\ y \in B[root] /\ t["left"][y] \notin Bad
    BY <2>1, <2>2
  <2>4. B[y] \subseteq B[w]
    BY <2>3, ShapedBelow
  <2>5. t["left"][y] # NILNODE => t["left"][y] \in B[w]
    BY <2>1, <2>3, <2>4, ShapedSides
  <2>6. G[y] = Weight(t, G, t["left"][y]) /\ H[y] = Weight(t, H, t["left"][y])
    BY <2>1, <2>3 DEF Tall
  <2>7. t["left"][y] # NILNODE => G[t["left"][y]] = H[t["left"][y]]
    BY <2>3, <2>5
  <2>8. G[y] = H[y]
    BY <2>6, <2>7 DEF Weight
  <2> QED
    BY <2>2, <2>8
<1> QED
  BY <1>1

(* What is below w is as uneven after a step that leaves it alone.                            *)
LEMMA LopsidedStays ==
  ASSUME NEW t, NEW root, NEW B, Shaped(t, root, B), NEW w \in B[root], Lopsided(t, B, w),
         NEW r, NEW E, E[w] = B[w],
         \A y \in B[w] : \A s \in Sides : r[s][y] = t[s][y],
         \A y \in B[w] : y # w => r.color[y] = t.color[y]
  PROVE  Lopsided(r, E, w)
<1> SUFFICES ASSUME NEW H, Tall(r, H, B[w])
             PROVE  Tall(t, H, B[w])
  BY DEF Lopsided
<1>1. ASSUME NEW y \in B[w], NEW s \in Sides
      PROVE  Weight(r, H, r[s][y]) = Weight(t, H, t[s][y])
  <2>1. r[s][y] = t[s][y]
    OBVIOUS
  <2>2. y \in B[root] /\ B[w] \subseteq B[root]
    BY ShapedSides
  <2>3. B[y] \subseteq B[w]
    BY ShapedBelow
  <2>4. t[s][y] # NILNODE => t[s][y] \in B[w] /\ t[s][y] # w
    <3>1. t[s][y] # NILNODE => t[s][y] \in B[t[s][y]] /\ B[t[s][y]] \subseteq B[y] /\ y \notin B[t[s][y]]
      BY <2>2, ShapedSides
    <3>2. ASSUME t[s][y] # NILNODE, t[s][y] = w
          PROVE  FALSE
      BY <3>1, <3>2
    <3> QED
      BY <2>3, <3>1, <3>2
  <2> QED
    BY <2>1, <2>4 DEF Weight
<1> QED
  BY <1>1 DEF Tall

-----------------------------------------------------------------------------
(* A node leaves its place, and another takes it.                         *)

(* What transplant writes: b is in a's place below p.                                     *)
Spliced(t, r, a, b, p) ==
  /\ r \in Tree /\ r.root = t.root /\ r.key = t.key /\ r.color = t.color
  /\ \A y \in Ptr :
       /\ r.parent[y] = IF y = b THEN p ELSE t.parent[y]
       /\ \A s \in Sides : r[s][y] = IF p # Null /\ y = p /\ t[s][p] = a THEN b ELSE t[s][y]

(* transplant, of a node with a parent or the root.                                    *)
LEMMA TransplantFields ==
  ASSUME NEW t \in Tree, NEW a \in Node, NEW b \in Ptr, a # b, NEW p \in Node \cup {Null}, p = t.parent[a],
         p # Null => (t.left[p] = a <=> t.right[p] # a)
  PROVE  Spliced(t, transplant(t, a, b), a, b, p)
<1> DEFINE r == transplant(t, a, b)
           par == [t.parent EXCEPT ![b] = p]
           t1 == [t EXCEPT !.parent[b] = p]
           one(f) == [f EXCEPT ![p] = b]
<1>1. /\ t.parent \in [Ptr -> Link] /\ t.left \in [Ptr -> Link] /\ t.right \in [Ptr -> Link]
      /\ t.key \in [Ptr -> Int] /\ t.color \in [Ptr -> {"RED", "BLACK"}] /\ t.root \in Link
      /\ a \in Ptr /\ b \in Link /\ p \in Link /\ (p # Null => p \in Ptr /\ p \in Node)
  BY DEF Tree, Link, Ptr
<1>2. t1 = [root |-> t.root, parent |-> par, left |-> t.left, right |-> t.right, key |-> t.key, color |-> t.color]
  BY DEF Tree
<1>3. par \in [Ptr -> Link] /\ \A y \in Ptr : par[y] = IF y = b THEN p ELSE t.parent[y]
  BY <1>1
<1>4. par[a] = t.parent[a]
  BY <1>1, <1>3
<1> HIDE DEF par
<1>5. /\ t1.root = t.root /\ t1.parent = par /\ t1.left = t.left /\ t1.right = t.right /\ t1.key = t.key
      /\ t1.color = t.color
  BY <1>2
<1>6. r = IF IS_NULL(p) THEN t1 ELSE [t1 EXCEPT ![Dir1(t1, a)][p] = b]
  BY DEF transplant
<1>7. Dir1(t1, a) = IF a = t.right[p] THEN "right" ELSE "left"
  BY <1>4, <1>5 DEF Dir1
<1>8. p # Null => ~ IS_NULL(p)
  BY <1>1, AddressAssumption DEF IS_NULL
<1> HIDE DEF t1, r
<1>9. CASE p = Null
  <2>1. r = t1
    BY <1>6, <1>9 DEF IS_NULL
  <2>2. r \in Tree
    BY <1>1, <1>2, <1>3, <2>1 DEF Tree
  <2>3. \A s \in Sides : r[s] = t[s]
    BY <1>5, <2>1 DEF Sides
  <2>4. Spliced(t, r, a, b, p)
    BY <1>3, <1>5, <1>9, <2>1, <2>2, <2>3 DEF Spliced
  <2> QED
    BY <2>4 DEF r
<1>10. CASE p # Null /\ a = t.right[p]
  <2> DEFINE f == one(t.right)
  <2>1. r = [t1 EXCEPT !["right"][p] = b]
    BY <1>6, <1>7, <1>8, <1>10
  <2>2. r = [root |-> t.root, parent |-> par, left |-> t.left, right |-> f, key |-> t.key, color |-> t.color]
    BY <1>2, <2>1
  <2>3. f \in [Ptr -> Link] /\ \A y \in Ptr : f[y] = IF y = p THEN b ELSE t.right[y]
    BY <1>1
  <2> HIDE DEF f
  <2>4. r \in Tree
    BY <1>1, <1>3, <2>2, <2>3 DEF Tree
  <2>5. /\ r.root = t.root /\ r.parent = par /\ r.left = t.left /\ r.right = f /\ r.key = t.key /\ r.color = t.color
    BY <2>2
  <2>6. t.left[p] # a
    BY <1>10
  <2>7. \A y \in Ptr : \A s \in Sides :
          r[s][y] = IF p # Null /\ y = p /\ t[s][p] = a THEN b ELSE t[s][y]
    BY <1>10, <2>3, <2>5, <2>6 DEF Sides
  <2>8. Spliced(t, r, a, b, p)
    BY <1>3, <2>4, <2>5, <2>7 DEF Spliced
  <2> QED
    BY <2>8 DEF r
<1>11. CASE p # Null /\ a # t.right[p]
  <2> DEFINE f == one(t.left)
  <2>1. r = [t1 EXCEPT !["left"][p] = b]
    BY <1>6, <1>7, <1>8, <1>11
  <2>2. r = [root |-> t.root, parent |-> par, left |-> f, right |-> t.right, key |-> t.key, color |-> t.color]
    BY <1>2, <2>1
  <2>3. f \in [Ptr -> Link] /\ \A y \in Ptr : f[y] = IF y = p THEN b ELSE t.left[y]
    BY <1>1
  <2> HIDE DEF f
  <2>4. r \in Tree
    BY <1>1, <1>3, <2>2, <2>3 DEF Tree
  <2>5. /\ r.root = t.root /\ r.parent = par /\ r.left = f /\ r.right = t.right /\ r.key = t.key /\ r.color = t.color
    BY <2>2
  <2>6. t.left[p] = a
    BY <1>11
  <2>7. \A y \in Ptr : \A s \in Sides :
          r[s][y] = IF p # Null /\ y = p /\ t[s][p] = a THEN b ELSE t[s][y]
    BY <1>11, <2>3, <2>5, <2>6 DEF Sides
  <2>8. Spliced(t, r, a, b, p)
    BY <1>3, <2>4, <2>5, <2>7 DEF Spliced
  <2> QED
    BY <2>8 DEF r
<1> QED
  BY <1>9, <1>10, <1>11

(* The parent of a node of the tree, for transplant.                                       *)
LEMMA ShapedLink ==
  ASSUME NEW t, NEW root, NEW B, Shaped(t, root, B), NEW a \in B[root], NEW p, p = t.parent[a]
  PROVE  /\ t \in Tree /\ a \in Node /\ p \in Node \cup {Null} /\ (p = Null <=> a = root)
         /\ p # Null => /\ p \in B[root] /\ (t.left[p] = a <=> t.right[p] # a)
                        /\ a \in B[p] /\ p \notin B[a]
<1>1. t \in Tree /\ B[root] \subseteq Node /\ t.parent[root] = Null
  BY DEF Shaped
<1>2. CASE a = root
  BY <1>1, <1>2
<1>3. CASE a # root
  <2>1. /\ p \in B[root] /\ p \in Node /\ p # Null /\ a \in B[p] /\ p \notin B[a]
        /\ \E side \in Sides : a = t[side][p]
    BY <1>3, ShapedParent
  <2>2. a # NILNODE
    BY <1>1, AddressAssumption
  <2>3. t["left"][p] # t["right"][p]
    <3>1. "left" \in Sides /\ Other("left") = "right"
      BY SidesFacts DEF Other
    <3>2. t["left"][p] # NILNODE => t["left"][p] # t[Other("left")][p]
      BY <2>1, <3>1, ShapedApart
    <3> QED
      BY <2>1, <2>2, <3>1, <3>2 DEF Sides
  <2>4. t.left[p] = a <=> t.right[p] # a
    BY <2>1, <2>3 DEF Sides
  <2> QED
    BY <1>1, <1>3, <2>1, <2>4
<1> QED
  BY <1>2, <1>3

(* What is below a node when d is gone.                                                *)
Without(B, d) == [y \in Ptr |-> B[y] \ {d}]

(* A node with at most one child gives its place to it.                                     *)
LEMMA SplicedIsShaped ==
  ASSUME NEW t, NEW root, NEW B, Shaped(t, root, B), NEW d \in B[root], B[root] # {d},
         NEW e \in Sides, t[Other(e)][d] = NILNODE, NEW p, p = t.parent[d],
         NEW r, Spliced(t, r, d, t[e][d], p)
  PROVE  /\ Shaped(r, IF d = root THEN t[e][d] ELSE root, Without(B, d))
         /\ Without(B, d)[IF d = root THEN t[e][d] ELSE root] = B[root] \ {d}
<1> DEFINE U == B[root]
           V == U \ {d}
           E == Without(B, d)
           c == t[e][d]
           top == IF d = root THEN c ELSE root
<1>1. /\ t \in Tree /\ t.left[NILNODE] = Null /\ t.right[NILNODE] = Null /\ t.key[NILNODE] = 0
      /\ U \subseteq Node /\ root \in U /\ t.parent[root] = Null /\ B[NILNODE] = {}
      /\ NILNODE \in Ptr /\ NILNODE \notin Node /\ U \subseteq Ptr /\ Null \notin Node
  BY AddressAssumption DEF Shaped, Ptr
<1>2. /\ p \in Node \cup {Null} /\ (p = Null <=> d = root)
      /\ p # Null => p \in U /\ (t.left[p] = d <=> t.right[p] # d) /\ d \in B[p] /\ p \notin B[d]
  BY ShapedLink
<1>3. B[d] = {d} \cup B[c] /\ c \in U \cup {NILNODE} /\ d \notin B[c] /\ c \in Ptr /\ c # d
      /\ B[c] \subseteq U /\ (c # NILNODE => c \in U /\ c \in B[c] /\ t.parent[c] = d)
  <2>1. B[d] = {d} \cup B[t[e][d]] \cup B[t[Other(e)][d]]
    BY DEF Shaped
  <2>2. B[t[Other(e)][d]] = {}
    BY <1>1
  <2> QED
    BY <2>1, <2>2, ShapedSides
<1>4. \A y \in Ptr : E[y] = B[y] \ {d}
  BY DEF Without
<1>0. Spliced(t, r, d, c, p)
  OBVIOUS
<1> HIDE DEF E, c
<1>5. E[d] = E[c]
  <2>1. d \in Ptr /\ E[d] = B[d] \ {d} /\ E[c] = B[c] \ {d}
    BY <1>1, <1>3, <1>4
  <2>2. B[d] \ {d} = B[c] /\ B[c] \ {d} = B[c]
    BY <1>3
  <2> QED
    BY <2>1, <2>2
<1>6. top \in V /\ E[top] = V
  <2>1. CASE d = root
    <3>1. c # NILNODE
      BY <1>1, <1>3, <2>1
    <3> QED
      BY <1>3, <1>4, <1>5, <2>1, <3>1
  <2>2. CASE d # root
    BY <1>1, <1>4, <2>2
  <2> QED
    BY <2>1, <2>2
<1>7. /\ r \in Tree /\ r.key = t.key
      /\ \A y \in Ptr :
           /\ r.parent[y] = IF y = c THEN p ELSE t.parent[y]
           /\ \A s \in Sides : r[s][y] = IF p # Null /\ y = p /\ t[s][p] = d THEN c ELSE t[s][y]
  BY <1>0 DEF Spliced
<1>8. r.left[NILNODE] = Null /\ r.right[NILNODE] = Null /\ r.key[NILNODE] = 0
  <2>1. NILNODE # p
    BY <1>1, <1>2, AddressAssumption
  <2>2. r["left"][NILNODE] = t["left"][NILNODE] /\ r["right"][NILNODE] = t["right"][NILNODE]
    BY <1>1, <1>7, <2>1, SidesFacts
  <2> QED
    BY <1>1, <1>7, <2>2
<1>9. r.parent[top] = Null
  <2>1. CASE d = root
    BY <1>2, <1>3, <1>7, <2>1
  <2>2. CASE d # root
    <3>1. root # c
      <4>1. c # NILNODE => t.parent[c] = d
        BY <1>3
      <4> QED
        BY <1>1, <4>1
    <3> QED
      BY <1>1, <1>7, <2>2, <3>1
  <2> QED
    BY <2>1, <2>2
<1>10. ASSUME NEW x \in V, NEW s \in Sides
       PROVE  /\ E[r[s][x]] = E[t[s][x]] /\ Hangs(r, V, E, x, s)
  <2>1. x \in U /\ x # d /\ x \in Ptr
    BY <1>1
  <2>2. /\ t[s][x] \in U \cup {NILNODE} /\ (t[s][x] # NILNODE => t.parent[t[s][x]] = x) /\ t[s][x] \in Ptr
        /\ \A y \in B[t[s][x]] : Sided(t, s, y, x)
    BY <2>1, ShapedSides
  <2>3. \A y \in E[t[s][x]] : Sided(r, s, y, x)
    BY <1>4, <1>7, <2>2 DEF Sided
  <2>4. CASE t[s][x] = d
    <3>1. p = x
      BY <1>1, <2>2, <2>4
    <3>2. r[s][x] = c
      BY <1>1, <1>7, <2>1, <2>4, <3>1
    <3>3. c # NILNODE => r.parent[c] = x /\ c \in V
      BY <1>3, <1>7, <3>1
    <3>4. E[r[s][x]] = E[t[s][x]]
      BY <1>5, <2>4, <3>2
    <3> QED
      BY <1>3, <2>3, <3>2, <3>3, <3>4 DEF Hangs
  <2>5. CASE t[s][x] # d
    <3>1. r[s][x] = t[s][x]
      BY <1>7, <2>1, <2>5
    <3>2. t[s][x] # NILNODE => t[s][x] # c
      BY <1>3, <2>1, <2>2
    <3>3. t[s][x] # NILNODE => r.parent[t[s][x]] = x
      BY <1>7, <2>2, <3>2
    <3> QED
      BY <2>2, <2>3, <2>5, <3>1, <3>3 DEF Hangs
  <2> QED
    BY <2>4, <2>5
<1>11. ASSUME NEW x \in V, NEW s \in Sides
       PROVE  E[x] \subseteq V /\ E[x] = {x} \cup E[r[s][x]] \cup E[r[Other(s)][x]]
  <2>1. x \in U /\ x # d /\ x \in Ptr /\ Other(s) \in Sides
    BY <1>1, SidesFacts
  <2>2. B[x] = {x} \cup B[t[s][x]] \cup B[t[Other(s)][x]] /\ B[x] \subseteq U
    BY <2>1 DEF Shaped
  <2>3. t[s][x] \in Ptr /\ t[Other(s)][x] \in Ptr
    BY <2>1, ShapedSides
  <2>4. E[x] = {x} \cup E[t[s][x]] \cup E[t[Other(s)][x]]
    BY <1>4, <2>1, <2>2, <2>3
  <2>5. E[r[s][x]] = E[t[s][x]] /\ E[r[Other(s)][x]] = E[t[Other(s)][x]]
    BY <1>10, <2>1
  <2> QED
    BY <1>4, <2>1, <2>2, <2>4, <2>5
<1>12. E[NILNODE] = {}
  BY <1>1, <1>4
<1> HIDE DEF top
<1>13. Shaped(r, top, E)
  <2>1. E[top] \subseteq Node /\ top \in E[top]
    BY <1>1, <1>6
  <2>2. \A x \in E[top] : \A s \in Sides :
           /\ E[x] \subseteq E[top] /\ E[x] = {x} \cup E[r[s][x]] \cup E[r[Other(s)][x]]
           /\ Hangs(r, E[top], E, x, s)
    <3> HIDE DEF V
    <3> SUFFICES ASSUME NEW x \in V, NEW s \in Sides
                 PROVE  /\ E[x] \subseteq V /\ E[x] = {x} \cup E[r[s][x]] \cup E[r[Other(s)][x]]
                        /\ Hangs(r, V, E, x, s)
      BY <1>6
    <3> QED
      BY <1>10, <1>11
  <2> QED
    BY <1>7, <1>8, <1>9, <1>12, <2>1, <2>2 DEF Shaped
<1> QED
  BY <1>6, <1>13 DEF top, E, c

(* The same, of a node that is not the root.                                           *)
LEMMA SplicedBelowRoot ==
  ASSUME NEW t, NEW root, NEW B, Shaped(t, root, B), NEW d \in B[root], d # root,
         NEW e \in Sides, t[Other(e)][d] = NILNODE, NEW r, Spliced(t, r, d, t[e][d], t.parent[d])
  PROVE  Shaped(r, root, Without(B, d)) /\ Without(B, d)[root] = B[root] \ {d}
<1>1. B[root] # {d}
  BY DEF Shaped
<1> DEFINE p == t.parent[d]
<1>2. Spliced(t, r, d, t[e][d], p) /\ p = t.parent[d]
  OBVIOUS
<1> HIDE DEF p
<1>3. /\ Shaped(r, IF d = root THEN t[e][d] ELSE root, Without(B, d))
      /\ Without(B, d)[IF d = root THEN t[e][d] ELSE root] = B[root] \ {d}
  BY <1>1, <1>2, SplicedIsShaped
<1> QED
  BY <1>3

(* y has taken d's place: d's children are y's and hang from it, and y hangs from d's parent.  *)
Replaced(t, r, d, y, p) ==
  /\ r \in Tree /\ r.root = t.root /\ r.key = t.key /\ r.parent[y] = p
  /\ \A s \in Sides : /\ r[s][y] = t[s][d]
                      /\ \A z \in Ptr : z # y =>
                           r[s][z] = IF p # Null /\ z = p /\ t[s][p] = d THEN y ELSE t[s][z]
  /\ \A z \in Node : z # y =>
       r.parent[z] = IF \E s \in Sides : z = t[s][d] THEN y ELSE t.parent[z]

(* y's key belongs where d's is.                                                          *)
Fits(t, U, B, d, y) ==
  /\ \A w \in U : \A s \in Sides : d \in B[t[s][w]] => Sided(t, s, y, w)
  /\ \A s \in Sides : \A z \in B[t[s][d]] : Sided(t, s, z, y)

(* y for d, in a set of nodes.                                                         *)
Swap(S, d, y) == IF d \in S THEN (S \ {d}) \cup {y} ELSE S

(* What is below a node when y has d's place.                                          *)
Seated(B, d, y) == [z \in Ptr |-> IF z = y THEN Swap(B[d], d, y) ELSE Swap(B[z], d, y)]

SeatTaken(root, B, d, y, r) ==
  /\ Shaped(r, IF d = root THEN y ELSE root, Seated(B, d, y))
  /\ Seated(B, d, y)[IF d = root THEN y ELSE root] = (B[root] \ {d}) \cup {y}

(* y fits where d was: the order is kept.                                              *)
LEMMA ReplacedIsShaped ==
  ASSUME NEW t, NEW root, NEW B, Shaped(t, root, B), NEW d \in B[root],
         NEW y \in Node, y \notin B[root], Fits(t, B[root], B, d, y), NEW p, p = t.parent[d],
         NEW r, Replaced(t, r, d, y, p)
  PROVE  SeatTaken(root, B, d, y, r)
<1> DEFINE U == B[root]
           V == (U \ {d}) \cup {y}
           F == Seated(B, d, y)
           top == IF d = root THEN y ELSE root
<1>1. /\ t \in Tree /\ t.left[NILNODE] = Null /\ t.right[NILNODE] = Null /\ t.key[NILNODE] = 0
      /\ U \subseteq Node /\ root \in U /\ t.parent[root] = Null /\ B[NILNODE] = {}
      /\ NILNODE \in Ptr /\ NILNODE \notin Node /\ U \subseteq Ptr /\ Null \notin Node /\ y \in Ptr
      /\ NILNODE # Null
  BY AddressAssumption DEF Shaped, Ptr
<1>2. /\ p \in Node \cup {Null} /\ (p = Null <=> d = root)
      /\ p # Null => p \in U /\ (t.left[p] = d <=> t.right[p] # d) /\ d \in B[p] /\ p \notin B[d]
  BY ShapedLink
<1>3. \A z \in Ptr : z # y => F[z] = Swap(B[z], d, y)
  BY DEF Seated
<1>4. F[y] = Swap(B[d], d, y)
  BY <1>1 DEF Seated
<1>5. d \in B[d] /\ B[d] \subseteq U /\ y \notin B[d]
  BY ShapedSides, SidesFacts
<1>6. F[top] = V /\ top \in V
  <2>1. CASE d = root
    BY <1>4, <1>5, <2>1 DEF Swap
  <2>2. CASE d # root
    <3>1. F[root] = Swap(B[root], d, y) /\ root # y
      BY <1>1, <1>3
    <3> QED
      BY <1>1, <2>2, <3>1 DEF Swap
  <2> QED
    BY <2>1, <2>2
<1>7. /\ r \in Tree /\ r.key = t.key /\ r.parent[y] = p
      /\ \A s \in Sides : r[s][y] = t[s][d]
      /\ \A s \in Sides : \A z \in Ptr : z # y =>
            r[s][z] = IF p # Null /\ z = p /\ t[s][p] = d THEN y ELSE t[s][z]
      /\ \A z \in Node : z # y =>
            r.parent[z] = IF \E s \in Sides : z = t[s][d] THEN y ELSE t.parent[z]
  BY DEF Replaced
<1>8. r.left[NILNODE] = Null /\ r.right[NILNODE] = Null /\ r.key[NILNODE] = 0
  <2>1. NILNODE # p /\ NILNODE # y
    BY <1>1, <1>2
  <2>2. r["left"][NILNODE] = t["left"][NILNODE] /\ r["right"][NILNODE] = t["right"][NILNODE]
    BY <1>1, <1>7, <2>1, SidesFacts
  <2> QED
    BY <1>1, <1>7, <2>2
<1>9. r.parent[top] = Null
  <2>1. CASE d = root
    BY <1>2, <1>7, <2>1
  <2>2. CASE d # root
    <3>1. \A s \in Sides : root # t[s][d]
      <4> SUFFICES ASSUME NEW s \in Sides, root = t[s][d]
                   PROVE  FALSE
        OBVIOUS
      <4>1. t[s][d] # NILNODE => t.parent[t[s][d]] = d
        BY ShapedSides
      <4> QED
        BY <1>1, <4>1
    <3> QED
      BY <1>1, <1>7, <2>2, <3>1
  <2> QED
    BY <2>1, <2>2
<1> HIDE DEF F
<1>10. ASSUME NEW x \in U, x # d, NEW s \in Sides
       PROVE  /\ F[r[s][x]] = Swap(B[t[s][x]], d, y) /\ Hangs(r, V, F, x, s)
  <2>1. x \in Ptr /\ x # y
    BY <1>1
  <2>2. /\ t[s][x] \in U \cup {NILNODE} /\ (t[s][x] # NILNODE => t.parent[t[s][x]] = x) /\ t[s][x] \in Ptr
        /\ \A z \in B[t[s][x]] : Sided(t, s, z, x)
    BY ShapedSides
  <2>3. \A z : Sided(r, s, z, x) <=> Sided(t, s, z, x)
    BY <1>7 DEF Sided
  <2>4. \A z \in Swap(B[t[s][x]], d, y) : Sided(r, s, z, x)
    <3>1. d \in B[t[s][x]] => Sided(t, s, y, x)
      BY DEF Fits
    <3> QED
      BY <2>2, <2>3, <3>1 DEF Swap
  <2>5. CASE t[s][x] = d
    <3>1. p = x
      BY <1>1, <2>2, <2>5
    <3>2. r[s][x] = y
      BY <1>1, <1>7, <2>1, <2>5, <3>1
    <3>3. F[r[s][x]] = Swap(B[t[s][x]], d, y)
      BY <1>4, <2>5, <3>2
    <3> QED
      BY <1>7, <2>4, <3>1, <3>2, <3>3 DEF Hangs
  <2>6. CASE t[s][x] # d
    <3>1. r[s][x] = t[s][x] /\ t[s][x] # y
      BY <1>1, <1>7, <2>1, <2>2, <2>6
    <3>2. F[r[s][x]] = Swap(B[t[s][x]], d, y)
      BY <1>3, <2>2, <3>1
    <3>3. ASSUME t[s][x] # NILNODE
          PROVE  r.parent[t[s][x]] = x
      <4>1. \A q \in Sides : t[s][x] # t[q][d]
        <5> SUFFICES ASSUME NEW q \in Sides, t[s][x] = t[q][d]
                     PROVE  FALSE
          OBVIOUS
        <5>1. t[q][d] # NILNODE => t.parent[t[q][d]] = d
          BY ShapedSides
        <5> QED
          BY <1>10, <2>2, <3>3, <5>1
      <4>2. t[s][x] \in Node
        BY <1>1, <2>2, <3>3
      <4> QED
        BY <1>7, <2>2, <3>1, <3>3, <4>1, <4>2
    <3> QED
      BY <2>2, <2>4, <2>6, <3>1, <3>2, <3>3 DEF Hangs
  <2> QED
    BY <2>5, <2>6
<1>11. ASSUME NEW s \in Sides
       PROVE  F[r[s][y]] = B[t[s][d]] /\ Hangs(r, V, F, y, s)
  <2>1. /\ t[s][d] \in U \cup {NILNODE} /\ t[s][d] \in Ptr /\ d \notin B[t[s][d]]
        /\ (t[s][d] # NILNODE => t[s][d] \in B[t[s][d]])
    BY ShapedSides
  <2>2. t[s][d] # y /\ t[s][d] # d
    BY <1>1, <2>1
  <2>3. r[s][y] = t[s][d] /\ F[r[s][y]] = B[t[s][d]]
    BY <1>3, <1>7, <2>1, <2>2 DEF Swap
  <2>4. t[s][d] # NILNODE => r.parent[t[s][d]] = y
    BY <1>1, <1>7, <2>1, <2>2
  <2>5. \A z \in B[t[s][d]] : Sided(r, s, z, y)
    <3>1. \A z \in B[t[s][d]] : Sided(t, s, z, y)
      BY DEF Fits
    <3> QED
      BY <1>7, <3>1 DEF Sided
  <2> QED
    BY <2>1, <2>2, <2>3, <2>4, <2>5 DEF Hangs
<1>12. ASSUME NEW x \in V, NEW s \in Sides
       PROVE  /\ F[x] \subseteq V /\ F[x] = {x} \cup F[r[s][x]] \cup F[r[Other(s)][x]]
              /\ Hangs(r, V, F, x, s)
  <2>1. Other(s) \in Sides
    BY SidesFacts
  <2>2. CASE x = y
    <3>1. B[d] = {d} \cup B[t[s][d]] \cup B[t[Other(s)][d]]
      BY DEF Shaped
    <3>2. F[r[s][y]] = B[t[s][d]] /\ F[r[Other(s)][y]] = B[t[Other(s)][d]] /\ Hangs(r, V, F, y, s)
      BY <1>11, <2>1
    <3>3. d \notin B[t[s][d]] /\ d \notin B[t[Other(s)][d]]
      BY <2>1, ShapedSides
    <3>4. F[y] = (B[d] \ {d}) \cup {y}
      BY <1>4, <1>5 DEF Swap
    <3>5. F[y] = {y} \cup F[r[s][y]] \cup F[r[Other(s)][y]]
      <4> HIDE DEF U, V
      <4> QED
        BY <3>1, <3>2, <3>3, <3>4
    <3>6. F[y] \subseteq V
      BY <1>5, <3>4
    <3> HIDE DEF V
    <3> QED
      BY <2>2, <3>2, <3>5, <3>6
  <2>3. CASE x # y
    <3>1. x \in U /\ x # d /\ x \in Ptr
      BY <1>1, <2>3
    <3>2. B[x] = {x} \cup B[t[s][x]] \cup B[t[Other(s)][x]] /\ B[x] \subseteq U
      BY <3>1 DEF Shaped
    <3>3. F[r[s][x]] = Swap(B[t[s][x]], d, y) /\ Hangs(r, V, F, x, s)
      BY <1>10, <3>1
    <3>4. F[r[Other(s)][x]] = Swap(B[t[Other(s)][x]], d, y)
      BY <1>10, <2>1, <3>1
    <3>5. F[x] = Swap(B[x], d, y)
      BY <1>3, <2>3, <3>1
    <3>6. F[x] \subseteq V
      BY <3>2, <3>5 DEF Swap
    <3>7. F[x] = {x} \cup F[r[s][x]] \cup F[r[Other(s)][x]]
      <4> HIDE DEF U, V
      <4> QED
        BY <3>1, <3>2, <3>3, <3>4, <3>5 DEF Swap
    <3> HIDE DEF V
    <3> QED
      BY <3>3, <3>6, <3>7
  <2> QED
    BY <2>2, <2>3
<1>13. F[NILNODE] = {}
  BY <1>1, <1>3 DEF Swap
<1>14. V \subseteq Node
  BY <1>1
<1> HIDE DEF top, V
<1>15. Shaped(r, top, F)
  <2>1. F[top] \subseteq Node /\ top \in F[top]
    BY <1>6, <1>14
  <2>2. \A x \in F[top] : \A s \in Sides :
           /\ F[x] \subseteq F[top] /\ F[x] = {x} \cup F[r[s][x]] \cup F[r[Other(s)][x]]
           /\ Hangs(r, F[top], F, x, s)
    <3> SUFFICES ASSUME NEW x \in V, NEW s \in Sides
                 PROVE  /\ F[x] \subseteq V /\ F[x] = {x} \cup F[r[s][x]] \cup F[r[Other(s)][x]]
                        /\ Hangs(r, V, F, x, s)
      BY <1>6
    <3> QED
      BY <1>12
  <2> QED
    BY <1>7, <1>8, <1>9, <1>13, <2>1, <2>2 DEF Shaped
<1> QED
  BY <1>6, <1>15 DEF SeatTaken, top, F, V

(* y is the node of the least key below x.                                                 *)
First(t, B, x, y) ==
  y \in B[x] /\ t.left[y] = NILNODE /\ \A z \in B[x] : z # y => t.key[y] < t.key[z]

(* That is where Leftmost gets to.                                                     *)
LEMMA FirstBelow ==
  ASSUME NEW t, NEW root, NEW B, Shaped(t, root, B), NEW x \in B[root]
  PROVE  First(t, B, x, Leftmost(t, x))
<1> DEFINE U == B[root]
<1>1. t \in Tree /\ U \subseteq Node /\ U \subseteq Ptr /\ Null \notin Node /\ NILNODE \notin Node /\ NILNODE # Null
  BY AddressAssumption DEF Shaped, Ptr
<1>2. PICK f : /\ \A y \in Ptr : f[y] = IF IS_NULL(t["left"][y]) THEN y ELSE f[t["left"][y]]
               /\ \A y : Farthest(t, y, "left") = f[y]
  BY <1>1, FarthestLoops
<1> DEFINE Bad == {y \in U : ~ First(t, B, y, f[y])}
<1>3. ASSUME Bad # {}
      PROVE  FALSE
  <2>1. PICK y \in Bad : \A side \in Sides : t[side][y] \notin Bad
    <3> Bad \subseteq U
      OBVIOUS
    <3> HIDE DEF Bad
    <3> QED
      BY <1>3, ShapedLeast
  <2> DEFINE l == t["left"][y]
             g == t["right"][y]
  <2>2. y \in U /\ "left" \in Sides /\ "right" \in Sides /\ Other("left") = "right"
    BY <2>1, SidesFacts DEF Other
  <2>3. B[y] = {y} \cup B[l] \cup B[g]
    BY <2>2 DEF Shaped
  <2>4. /\ l \in U \cup {NILNODE} /\ \A z \in B[l] : Sided(t, "left", z, y)
        /\ l = NILNODE => B[l] = {}
        /\ \A z \in B[g] : Sided(t, "right", z, y)
        /\ B[l] \subseteq U /\ B[g] \subseteq U
    BY <2>2, ShapedSides
  <2>5. l \notin Bad
    BY <2>1, <2>2
  <2>6. \A z \in U : t.key[z] \in Int
    BY <1>1 DEF Tree
  <2>7. (\A z \in B[l] : t.key[z] < t.key[y]) /\ (\A z \in B[g] : t.key[y] < t.key[z])
    <3>1. \A z \in B[l] : t.key[z] < t.key[y]
      BY <2>4 DEF Sided
    <3>2. \A z \in B[g] : t.key[z] > t.key[y]
      BY <2>4 DEF Sided
    <3> HIDE DEF g
    <3> QED
      BY <2>2, <2>4, <2>6, <3>1, <3>2
  <2>8. CASE l = NILNODE
    <3>1. f[y] = y
      BY <1>1, <1>2, <2>2, <2>8 DEF IS_NULL
    <3>2. \A z \in B[y] : z # y => z \in B[g]
      BY <2>3, <2>4, <2>8
    <3> HIDE DEF g
    <3>3. First(t, B, y, f[y])
      BY <2>2, <2>3, <2>7, <2>8, <3>1, <3>2 DEF First
    <3> QED
      BY <2>1, <3>3
  <2>9. CASE l # NILNODE
    <3>1. l \in U /\ ~ IS_NULL(l)
      BY <1>1, <2>4, <2>9 DEF IS_NULL
    <3>2. f[y] = f[l]
      BY <1>1, <1>2, <2>2, <3>1
    <3>3. First(t, B, l, f[l])
      BY <2>5, <3>1
    <3> HIDE DEF l, g
    <3>4. f[l] \in B[l] /\ t.left[f[l]] = NILNODE /\ (\A z \in B[l] : z # f[l] => t.key[f[l]] < t.key[z])
      BY <3>3 DEF First
    <3>5. t.key[f[l]] < t.key[y] /\ t.key[f[l]] \in Int /\ t.key[y] \in Int
      BY <2>2, <2>4, <2>6, <2>7, <3>4
    <3>6. ASSUME NEW z \in B[y], z # f[l]
          PROVE  t.key[f[l]] < t.key[z]
      <4>1. CASE z = y
        BY <3>5, <4>1
      <4>2. CASE z \in B[l]
        BY <3>4, <3>6, <4>2
      <4>3. CASE z \in B[g]
        <5>1. t.key[y] < t.key[z] /\ t.key[z] \in Int
          BY <2>4, <2>6, <2>7, <4>3
        <5> QED
          BY <3>5, <5>1
      <4> QED
        BY <2>3, <4>1, <4>2, <4>3
    <3>7. First(t, B, y, f[y])
      BY <2>3, <3>2, <3>4, <3>6 DEF First
    <3> QED
      BY <2>1, <3>7
  <2> QED
    BY <2>8, <2>9
<1>4. First(t, B, x, f[x])
  BY <1>3
<1>5. Leftmost(t, x) = f[x]
  BY <1>2 DEF Leftmost
<1> QED
  BY <1>4, <1>5

(* The last writes of a replacement.                                                     *)
LEMMA ReplacedFields ==
  ASSUME NEW t \in Tree, NEW d \in Node, NEW y \in Node, NEW p \in Node \cup {Null}, NEW u, Spliced(t, u, d, y, p),
         NEW r \in Tree, r.root = u.root, r.key = u.key,
         r.left = [u.left EXCEPT ![y] = t.left[d]], r.right = [u.right EXCEPT ![y] = t.right[d]],
         \A z \in Node : r.parent[z] = IF z = t.left[d] \/ z = t.right[d] THEN y ELSE u.parent[z],
         y # t.left[d], y # t.right[d]
  PROVE  Replaced(t, r, d, y, p)
<1>1. /\ u \in Tree /\ u.root = t.root /\ u.key = t.key
      /\ \A z \in Ptr :
           /\ u.parent[z] = IF z = y THEN p ELSE t.parent[z]
           /\ \A s \in Sides : u[s][z] = IF p # Null /\ z = p /\ t[s][p] = d THEN y ELSE t[s][z]
  BY DEF Spliced
<1>2. y \in Ptr /\ u.left \in [Ptr -> Link] /\ u.right \in [Ptr -> Link]
  BY <1>1 DEF Ptr, Tree
<1>3. r.left[y] = t.left[d] /\ r.right[y] = t.right[d]
  BY <1>2
<1>4. \A z \in Ptr : z # y => r.left[z] = u.left[z] /\ r.right[z] = u.right[z]
  BY <1>2
<1>5. \A s \in Sides : r[s][y] = t[s][d]
  BY <1>3 DEF Sides
<1>6. \A s \in Sides : \A z \in Ptr : z # y => r[s][z] = u[s][z]
  BY <1>4 DEF Sides
<1>7. r.parent[y] = p
  BY <1>1, <1>2
<1>8. \A z \in Node : z # y => r.parent[z] = IF \E s \in Sides : z = t[s][d] THEN y ELSE t.parent[z]
  <2> SUFFICES ASSUME NEW z \in Node, z # y
               PROVE  r.parent[z] = IF \E s \in Sides : z = t[s][d] THEN y ELSE t.parent[z]
    OBVIOUS
  <2>1. (\E s \in Sides : z = t[s][d]) <=> z = t.left[d] \/ z = t.right[d]
    BY DEF Sides
  <2>2. u.parent[z] = t.parent[z]
    BY <1>1 DEF Ptr
  <2> QED
    BY <2>1, <2>2
<1>9. r.root = t.root /\ r.key = t.key
  BY <1>1
<1>10. \A s \in Sides : \A z \in Ptr : z # y =>
         r[s][z] = IF p # Null /\ z = p /\ t[s][p] = d THEN y ELSE t[s][z]
  BY <1>1, <1>6
<1> QED
  BY <1>5, <1>7, <1>8, <1>9, <1>10 DEF Replaced

-----------------------------------------------------------------------------
(* The node of the next key is taken out, and sbt_detach.                 *)

(* y, the next after d, is out of the tree, its right child in its place.                    *)
TakenOut(t, root, B, d, y, u) ==
  /\ y \in B[t.right[d]] /\ y \in B[root] /\ y \in B[d] /\ y \in Node /\ y # d /\ y # root
  /\ t.left[y] = NILNODE /\ t.right[y] \in B[root] \cup {NILNODE} /\ t.parent[y] \in B[root]
  /\ t.right[y] # d /\ t.right[y] # y /\ t.left[d] # y /\ (t.left[d] # t.right[y] \/ t.left[d] = NILNODE)
  /\ Spliced(t, u, y, t.right[y], t.parent[y])
  /\ Shaped(u, root, Without(B, y)) /\ Without(B, y)[root] = B[root] \ {y}
  /\ d \in Without(B, y)[root] /\ y \notin Without(B, y)[root]
  /\ Fits(u, Without(B, y)[root], Without(B, y), d, y)
  /\ u.left[d] = t.left[d] /\ u.right[d] = IF t.parent[y] = d THEN t.right[y] ELSE t.right[d]
  /\ u.parent[d] = t.parent[d]

(* The next node can be taken out, and then fits where d is.                           *)
LEMMA NextTakenOut ==
  ASSUME NEW t, NEW root, NEW B, Shaped(t, root, B), NEW d \in B[root], t.right[d] # NILNODE,
         NEW y, y = Leftmost(t, t.right[d])
  PROVE  TakenOut(t, root, B, d, y, transplant(t, y, t.right[y]))
<1> DEFINE U == B[root]
           x == t.right[y]
           q == t.parent[y]
           u == transplant(t, y, x)
           E == Without(B, y)
           g == t["right"][d]
           l == t["left"][d]
<1>1. /\ t \in Tree /\ U \subseteq Node /\ root \in U /\ t.parent[root] = Null /\ B[NILNODE] = {}
      /\ NILNODE \in Ptr /\ NILNODE \notin Node /\ U \subseteq Ptr /\ Null \notin Node /\ NILNODE # Null
      /\ "left" \in Sides /\ "right" \in Sides /\ Other("left") = "right" /\ Other("right") = "left"
  BY AddressAssumption, SidesFacts DEF Shaped, Ptr, Other
<1>2. /\ g \in U /\ g \in B[g] /\ B[g] \subseteq B[d] /\ d \notin B[g] /\ B[d] \subseteq U
      /\ t.parent[g] = d /\ \A z \in B[g] : Sided(t, "right", z, d)
  BY <1>1, ShapedSides
<1>3. First(t, B, g, y)
  BY <1>2, FirstBelow
<1>4. y \in B[g] /\ t.left[y] = NILNODE /\ \A z \in B[g] : z # y => t.key[y] < t.key[z]
  BY <1>3 DEF First
<1>5. y \in U /\ y \in B[d] /\ y \in Node /\ y # d /\ y # root /\ y \in Ptr
  <2>1. y # root
    <3>1. root \in B[root] /\ (d # root => t.parent[d] \in U)
      BY <1>1, ShapedParent
    <3>2. y # root
      <4> SUFFICES ASSUME y = root
                   PROVE  FALSE
        OBVIOUS
      <4>1. d \in B[y]
        BY <1>1
      <4>2. B[y] \subseteq B[g]
        BY <1>2, <1>4, ShapedBelow
      <4> QED
        BY <1>2, <4>1, <4>2
    <3> QED
      BY <3>2
  <2> QED
    BY <1>1, <1>2, <1>4, <2>1
<1>6. /\ q \in U /\ q \in Node /\ q # Null /\ q # NILNODE /\ y \in B[q] /\ q \notin B[y] /\ q # y
      /\ q \in Node \cup {Null} /\ (t.left[q] = y <=> t.right[q] # y)
  BY <1>5, ShapedParent, ShapedLink
<1>7. /\ x \in U \cup {NILNODE} /\ x \in Ptr /\ x # y /\ B[x] \subseteq B[y] /\ y \notin B[x]
      /\ (x # NILNODE => x \in B[x] /\ t.parent[x] = y)
  <2>1. t["right"][y] = x
    OBVIOUS
  <2> HIDE DEF x
  <2> QED
    BY <1>1, <1>5, <2>1, ShapedSides
<1>8. d \notin B[y]
  <2>1. B[y] \subseteq B[g]
    BY <1>2, <1>4, ShapedBelow
  <2> QED
    BY <1>2, <2>1
<1>9. x # d
  BY <1>7, <1>8, <1>1
<1>10. Spliced(t, u, y, x, q)
  BY <1>1, <1>5, <1>6, <1>7, TransplantFields
<1>11. l \in U \cup {NILNODE} /\ (l # NILNODE => l # g /\ t.parent[l] = d /\ l \in B[l])
       /\ (\A z \in B[l] : z \notin B[g]) /\ \A z \in B[l] : Sided(t, "left", z, d)
  BY <1>1, ShapedSides, ShapedApart
<1>12. l # y /\ (l = NILNODE \/ l # x)
  <2>1. ASSUME l # NILNODE
        PROVE  l # y /\ l # x
    <3>1. l \notin B[g]
      BY <1>11, <2>1
    <3>2. x # NILNODE => x \in B[g]
      <4>1. B[y] \subseteq B[g]
        BY <1>2, <1>4, ShapedBelow
      <4> QED
        BY <1>7, <4>1
    <3> QED
      BY <1>4, <2>1, <3>1, <3>2
  <2> QED
    BY <1>1, <1>5, <2>1
<1>13. Shaped(u, root, E) /\ E[root] = U \ {y}
  <2>1. U # {y} /\ t[Other("right")][y] = NILNODE /\ t["right"][y] = x
    BY <1>1, <1>4, <1>5
  <2>2. q = t.parent[y]
    OBVIOUS
  <2> HIDE DEF x, u, E, q, g, l
  <2>3. y \in B[root] /\ y # root /\ "right" \in Sides /\ t[Other("right")][y] = NILNODE /\ x = t["right"][y]
    BY <1>1, <1>5, <2>1
  <2>4. Spliced(t, u, y, t["right"][y], t.parent[y])
    BY <1>10, <2>2, <2>3
  <2>5. Shaped(u, root, Without(B, y)) /\ Without(B, y)[root] = B[root] \ {y}
    BY <2>3, <2>4, SplicedBelowRoot
  <2> QED
    BY <2>5 DEF E
<1>14. d \in E[root] /\ y \notin E[root]
  BY <1>5, <1>13
<1>15. /\ u.key = t.key
       /\ \A z \in Ptr : /\ u.parent[z] = IF z = x THEN q ELSE t.parent[z]
                         /\ \A s \in Sides : u[s][z] = IF z = q /\ t[s][q] = y THEN x ELSE t[s][z]
  BY <1>6, <1>10 DEF Spliced
<1>16. \A z \in Ptr : E[z] = B[z] \ {y}
  BY DEF Without
<1>17. d \in Ptr /\ d \in U /\ d \in B[d]
  BY <1>1, ShapedSides
<1> HIDE DEF u, E, x, q
<1>18. u.parent[d] = t.parent[d]
  BY <1>9, <1>15, <1>17
<1>19. u["left"][d] = l
  BY <1>1, <1>12, <1>15, <1>17
<1>20. u["right"][d] = IF q = d THEN x ELSE g
  <2>1. CASE q = d
    <3>1. g = y
      <4>1. PICK s \in Sides : y = t[s][q]
        BY <1>5, ShapedParent DEF q
      <4> QED
        BY <1>12, <2>1, <4>1 DEF Sides
    <3> QED
      BY <1>1, <1>15, <1>17, <2>1, <3>1
  <2>2. CASE q # d
    BY <1>1, <1>15, <1>17, <2>2
  <2> QED
    BY <2>1, <2>2
<1>21. Fits(u, E[root], E, d, y)
  <2>1. ASSUME NEW w \in E[root], NEW s \in Sides, d \in E[u[s][w]]
        PROVE  Sided(u, s, y, w)
    <3>1. w \in U /\ w \in Ptr
      BY <1>1, <1>13
    <3>2. /\ t[s][w] \in Ptr /\ (t[s][w] # NILNODE => t[s][w] \in U) /\ B[t[s][w]] \subseteq U
          /\ \A z \in B[t[s][w]] : Sided(t, s, z, w)
      BY <3>1, ShapedSides
    <3>3. d \in B[t[s][w]]
      <4>1. CASE w = q /\ t[s][q] = y
        <5>1. d \in E[x]
          BY <1>15, <2>1, <3>1, <4>1
        <5>2. E[x] \subseteq B[x]
          BY <1>7, <1>16
        <5> QED
          BY <1>7, <1>8, <5>1, <5>2
      <4>2. CASE ~ (w = q /\ t[s][q] = y)
        <5>1. d \in E[t[s][w]]
          BY <1>15, <2>1, <3>1, <4>2
        <5> QED
          BY <1>16, <3>2, <5>1
      <4> QED
        BY <4>1, <4>2
    <3>4. t[s][w] # NILNODE
      BY <1>1, <3>3
    <3>5. B[d] \subseteq B[t[s][w]]
      BY <3>2, <3>3, <3>4, ShapedBelow
    <3>6. Sided(t, s, y, w)
      BY <1>5, <3>2, <3>5
    <3> QED
      BY <1>15, <3>6 DEF Sided
  <2>2. \A z \in U \cup {y} : t.key[z] \in Int
    BY <1>1, <1>5 DEF Tree
  <2>3. \A z \in E[l] : u.key[z] < u.key[y]
    <3> SUFFICES ASSUME NEW z \in E[l]
                 PROVE  t.key[z] < t.key[y]
      BY <1>15
    <3>1. z \in B[l] /\ z \in U
      BY <1>1, <1>11, <1>16, ShapedSides
    <3>2. Sided(t, "left", z, d) /\ Sided(t, "right", y, d)
      BY <1>2, <1>4, <1>11, <3>1
    <3>3. t.key[z] < t.key[d] /\ t.key[y] > t.key[d]
      BY <3>2 DEF Sided
    <3> QED
      BY <1>5, <1>17, <2>2, <3>1, <3>3
  <2>4. \A z \in E[u["right"][d]] : u.key[z] > u.key[y]
    <3> SUFFICES ASSUME NEW z \in E[u["right"][d]]
                 PROVE  t.key[z] > t.key[y]
      BY <1>15
    <3>1. z \in B[g] /\ z # y
      <4>1. CASE q = d
        <5>1. E[u["right"][d]] = B[x] \ {y}
          BY <1>7, <1>16, <1>20, <4>1
        <5>2. B[y] \subseteq B[g]
          BY <1>2, <1>4, ShapedBelow
        <5> QED
          BY <1>7, <5>1, <5>2
      <4>2. CASE q # d
        <5>1. E[u["right"][d]] = B[g] \ {y}
          <6>1. g \in Ptr
            BY <1>1, <1>2
          <6> HIDE DEF g
          <6> QED
            BY <1>16, <1>20, <4>2, <6>1
        <5> QED
          BY <5>1
      <4> QED
        BY <4>1, <4>2
    <3>2. z \in U
      BY <1>2, <3>1
    <3>3. t.key[y] < t.key[z]
      BY <1>4, <3>1
    <3> QED
      BY <1>5, <2>2, <3>2, <3>3
  <2>5. \A s \in Sides : \A z \in E[u[s][d]] : Sided(u, s, z, y)
    <3>1. \A z \in E[u["left"][d]] : Sided(u, "left", z, y)
      BY <1>19, <2>3 DEF Sided
    <3>2. \A z \in E[u["right"][d]] : Sided(u, "right", z, y)
      BY <2>4 DEF Sided
    <3> QED
      BY <3>1, <3>2 DEF Sides
  <2> QED
    BY <2>1, <2>5 DEF Fits
<1>22. u.left[d] = t.left[d] /\ u.right[d] = IF q = d THEN x ELSE t.right[d]
  BY <1>19, <1>20
<1> QED
  BY <1>4, <1>5, <1>6, <1>7, <1>9, <1>10, <1>12, <1>13, <1>14, <1>18, <1>21, <1>22 DEF TakenOut, u, E, x, q

(* The next node hangs where d did.                                                     *)
Hung(u, v, d, y) ==
  /\ Spliced(u, v, d, y, u.parent[d]) /\ u \in Tree /\ d \in Node /\ y \in Node
  /\ u.parent[d] \in Node \cup {Null} /\ v.left[d] = u.left[d] /\ v.right[d] = u.right[d]
  /\ u.left[d] \in Node \cup {NILNODE} /\ u.right[d] \in Node \cup {NILNODE}
  /\ y # u.left[d] /\ y # u.right[d]

LEMMA NextHung ==
  ASSUME NEW t, NEW root, NEW B, NEW d, NEW y, NEW u, TakenOut(t, root, B, d, y, u)
  PROVE  Hung(u, transplant(u, d, y), d, y)
<1> DEFINE E == Without(B, y)
           p == u.parent[d]
<1>1. Shaped(u, root, E) /\ d \in E[root] /\ y \notin E[root] /\ y \in Node /\ y # d
  BY DEF TakenOut
<1>2. p = u.parent[d]
  OBVIOUS
<1> HIDE DEF E, p
<1>3. /\ u \in Tree /\ d \in Node /\ p \in Node \cup {Null}
      /\ p # Null => p \in E[root] /\ (u.left[p] = d <=> u.right[p] # d) /\ d \in E[p] /\ p \notin E[d]
  BY <1>1, <1>2, ShapedLink
<1>4. y \in Ptr /\ d \in Ptr
  BY <1>1, <1>3 DEF Ptr
<1>5. Spliced(u, transplant(u, d, y), d, y, p)
  BY <1>1, <1>2, <1>3, <1>4, TransplantFields
<1>6. p # d
  <2>1. d \in E[d]
    BY <1>1, ShapedSides, SidesFacts
  <2> QED
    BY <1>3, <2>1, AddressAssumption
<1>7. \A s \in Sides : transplant(u, d, y)[s][d] = u[s][d]
  BY <1>4, <1>5, <1>6 DEF Spliced
<1>8. \A s \in Sides : u[s][d] \in E[root] \cup {NILNODE}
  BY <1>1, ShapedSides
<1>9. E[root] \subseteq Node /\ NILNODE \notin Node
  BY <1>1, AddressAssumption DEF Shaped
<1>10. u.left[d] \in E[root] \cup {NILNODE} /\ u.right[d] \in E[root] \cup {NILNODE}
  BY <1>8 DEF Sides
<1>11. transplant(u, d, y).left[d] = u.left[d] /\ transplant(u, d, y).right[d] = u.right[d]
  BY <1>7 DEF Sides
<1> QED
  BY <1>1, <1>2, <1>3, <1>5, <1>9, <1>10, <1>11 DEF Hung

(* What sbt_detach writes last, of a node with a right child.                               *)
Handed(v, d, y) == [v EXCEPT !.left[y] = v.left[d], !.right[y] = v.right[d]]

(* The children d had learn that y is their parent.                                    *)
Adopting(w, y) == SetReal(SetReal(w, "parent", w.left[y], y), "parent", w.right[y], y)

Adopted(w, r, a, y) ==
  /\ r \in Tree /\ r.root = w.root /\ r.key = w.key /\ r.left = w.left /\ r.right = w.right /\ r.color = w.color
  /\ \A z \in Ptr : r.parent[z] = IF z = a /\ a # NILNODE THEN y ELSE w.parent[z]

LEMMA SetParent ==
  ASSUME NEW w \in Tree, NEW a \in Node \cup {NILNODE}, NEW y \in Node
  PROVE  Adopted(w, SetReal(w, "parent", a, y), a, y)
<1> DEFINE r == SetReal(w, "parent", a, y)
           pa == [w.parent EXCEPT ![a] = y]
<1>1. /\ w.parent \in [Ptr -> Link] /\ w.left \in [Ptr -> Link] /\ w.right \in [Ptr -> Link]
      /\ w.key \in [Ptr -> Int] /\ w.color \in [Ptr -> {"RED", "BLACK"}] /\ w.root \in Link
      /\ a \in Ptr /\ y \in Link
  BY DEF Tree, Ptr, Link
<1>2. CASE a = NILNODE
  <2>1. r = w
    BY <1>2 DEF SetReal, IS_NULL
  <2> HIDE DEF r
  <2>2. r \in Tree /\ r.root = w.root /\ r.key = w.key /\ r.left = w.left /\ r.right = w.right /\ r.color = w.color
    BY <2>1
  <2>3. \A z \in Ptr : r.parent[z] = IF z = a /\ a # NILNODE THEN y ELSE w.parent[z]
    BY <1>2, <2>1
  <2> QED
    BY <2>2, <2>3 DEF r, Adopted
<1>3. CASE a # NILNODE
  <2>1. ~ IS_NULL(a)
    BY <1>3, AddressAssumption DEF IS_NULL
  <2>2. r = [root |-> w.root, parent |-> pa, left |-> w.left, right |-> w.right, key |-> w.key, color |-> w.color]
    BY <2>1 DEF SetReal, Tree
  <2>3. pa \in [Ptr -> Link] /\ \A z \in Ptr : pa[z] = IF z = a THEN y ELSE w.parent[z]
    BY <1>1
  <2> HIDE DEF r, pa
  <2>4. r \in Tree
    BY <1>1, <2>2, <2>3 DEF Tree
  <2>5. r.root = w.root /\ r.key = w.key /\ r.left = w.left /\ r.right = w.right /\ r.color = w.color /\ r.parent = pa
    BY <2>2
  <2>6. \A z \in Ptr : r.parent[z] = IF z = a /\ a # NILNODE THEN y ELSE w.parent[z]
    BY <1>3, <2>3, <2>5
  <2> QED
    BY <2>4, <2>5, <2>6 DEF r, Adopted
<1> QED
  BY <1>2, <1>3

HandedTo(v, w, d, y) ==
  /\ w \in Tree /\ w.root = v.root /\ w.key = v.key /\ w.parent = v.parent /\ w.color = v.color
  /\ w.left = [v.left EXCEPT ![y] = v.left[d]] /\ w.right = [v.right EXCEPT ![y] = v.right[d]]
  /\ w.left[y] = v.left[d] /\ w.right[y] = v.right[d]

LEMMA HandedFields ==
  ASSUME NEW v \in Tree, NEW d \in Node, NEW y \in Node
  PROVE  HandedTo(v, Handed(v, d, y), d, y)
<1> DEFINE w == Handed(v, d, y)
           lf == [v.left EXCEPT ![y] = v.left[d]]
           rg == [v.right EXCEPT ![y] = v.right[d]]
<1>1. /\ v.parent \in [Ptr -> Link] /\ v.left \in [Ptr -> Link] /\ v.right \in [Ptr -> Link]
      /\ v.key \in [Ptr -> Int] /\ v.color \in [Ptr -> {"RED", "BLACK"}] /\ v.root \in Link
      /\ d \in Ptr /\ y \in Ptr
  BY DEF Tree, Ptr
<1>2. w = [root |-> v.root, parent |-> v.parent, left |-> lf, right |-> rg, key |-> v.key, color |-> v.color]
  <2>1. w = [[v EXCEPT !.left = lf] EXCEPT !.right = rg]
    BY DEF Handed, Tree
  <2> HIDE DEF lf, rg, w
  <2> QED
    BY <2>1 DEF Tree
<1>3. lf \in [Ptr -> Link] /\ rg \in [Ptr -> Link] /\ lf[y] = v.left[d] /\ rg[y] = v.right[d]
  BY <1>1
<1> HIDE DEF lf, rg, w
<1>4. w \in Tree
  BY <1>1, <1>2, <1>3 DEF Tree
<1>5. /\ w.root = v.root /\ w.key = v.key /\ w.parent = v.parent /\ w.color = v.color /\ w.left = lf /\ w.right = rg
  BY <1>2
<1>6. w.left[y] = v.left[d] /\ w.right[y] = v.right[d]
  BY <1>3, <1>5
<1> QED
  BY <1>4, <1>5, <1>6 DEF lf, rg, w, HandedTo

(* With that, y has taken the place of d.                                              *)
LEMMA DetachFields ==
  ASSUME NEW u, NEW v, NEW d, NEW y, Hung(u, v, d, y)
  PROVE  /\ Replaced(u, Adopting(Handed(v, d, y), y), d, y, u.parent[d])
         /\ Adopting(Handed(v, d, y), y).color = v.color
<1> DEFINE p == u.parent[d]
           a == u.left[d]
           b == u.right[d]
           w == Handed(v, d, y)
           z1 == SetReal(w, "parent", a, y)
           r == Adopting(w, y)
<1>1. /\ Spliced(u, v, d, y, p) /\ u \in Tree /\ d \in Node /\ y \in Node /\ p \in Node \cup {Null}
      /\ v.left[d] = a /\ v.right[d] = b /\ a \in Node \cup {NILNODE} /\ b \in Node \cup {NILNODE}
      /\ y # a /\ y # b
  BY DEF Hung
<1>2. v \in Tree
  BY <1>1 DEF Spliced
<1> HIDE DEF p, w
<1>3. /\ w \in Tree /\ w.root = v.root /\ w.key = v.key /\ w.parent = v.parent /\ w.color = v.color
      /\ w.left = [v.left EXCEPT ![y] = v.left[d]] /\ w.right = [v.right EXCEPT ![y] = v.right[d]]
      /\ w.left[y] = v.left[d] /\ w.right[y] = v.right[d]
  <2>1. HandedTo(v, Handed(v, d, y), d, y)
    BY <1>1, <1>2, HandedFields
  <2> QED
    BY <2>1 DEF w, HandedTo
<1>4. r = SetReal(z1, "parent", b, y)
  <2>1. w.left[y] = a /\ w.right[y] = b
    BY <1>1, <1>3
  <2> QED
    BY <2>1 DEF Adopting
<1> HIDE DEF a, b, r
<1>5. /\ z1 \in Tree /\ z1.root = w.root /\ z1.key = w.key /\ z1.left = w.left /\ z1.right = w.right
      /\ z1.color = w.color /\ \A z \in Ptr : z1.parent[z] = IF z = a /\ a # NILNODE THEN y ELSE w.parent[z]
  <2>1. Adopted(w, z1, a, y)
    BY <1>1, <1>3, SetParent
  <2> QED
    BY <2>1 DEF Adopted
<1> HIDE DEF z1
<1>6. /\ r \in Tree /\ r.root = z1.root /\ r.key = z1.key /\ r.left = z1.left /\ r.right = z1.right
      /\ r.color = z1.color /\ \A z \in Ptr : r.parent[z] = IF z = b /\ b # NILNODE THEN y ELSE z1.parent[z]
  <2>1. Adopted(z1, r, b, y)
    BY <1>1, <1>4, <1>5, SetParent
  <2> QED
    BY <2>1 DEF Adopted
<1>7. \A z \in Node : r.parent[z] = IF z = a \/ z = b THEN y ELSE v.parent[z]
  <2> SUFFICES ASSUME NEW z \in Node
               PROVE  r.parent[z] = IF z = a \/ z = b THEN y ELSE v.parent[z]
    OBVIOUS
  <2>1. z \in Ptr /\ z # NILNODE
    BY AddressAssumption DEF Ptr
  <2>2. z1.parent[z] = IF z = a THEN y ELSE v.parent[z]
    BY <1>3, <1>5, <2>1
  <2> QED
    BY <1>6, <2>1, <2>2
<1>8. /\ r.root = v.root /\ r.key = v.key /\ r.color = v.color
      /\ r.left = [v.left EXCEPT ![y] = u.left[d]] /\ r.right = [v.right EXCEPT ![y] = u.right[d]]
  BY <1>1, <1>3, <1>5, <1>6 DEF a, b
<1>9. \A z \in Node : r.parent[z] = IF z = u.left[d] \/ z = u.right[d] THEN y ELSE v.parent[z]
  BY <1>7 DEF a, b
<1>10. y # u.left[d] /\ y # u.right[d]
  BY <1>1 DEF a, b
<1>11. r.root = v.root /\ r.key = v.key
  BY <1>8
<1>12. r.left = [v.left EXCEPT ![y] = u.left[d]] /\ r.right = [v.right EXCEPT ![y] = u.right[d]]
  BY <1>8
<1>13. r \in Tree
  BY <1>6
<1>14. u \in Tree /\ d \in Node /\ y \in Node /\ p \in Node \cup {Null} /\ Spliced(u, v, d, y, p)
  BY <1>1
<1>15. Replaced(u, r, d, y, p)
  BY <1>9, <1>10, <1>11, <1>12, <1>13, <1>14, ReplacedFields
<1> QED
  BY <1>8, <1>15 DEF p, r, w

(* sbt_detach, of a node other than the root, keeps the order.                              *)
LEMMA DetachKeepsShape ==
  ASSUME NEW t, NEW root, NEW B, Shaped(t, root, B), NEW d \in B[root], d # root
  PROVE  /\ \E F : Shaped(sbt_detach(t, d), root, F) /\ F[root] = B[root] \ {d}
         /\ sbt_detach(t, d).root = t.root
<1> DEFINE r == sbt_detach(t, d)
           y == Leftmost(t, t.right[d])
           u == transplant(t, y, t.right[y])
           v == transplant(u, d, y)
           w == Handed(v, d, y)
<1>1. /\ t.right[d] \in B[root] \cup {NILNODE} /\ t.left[d] \in B[root] \cup {NILNODE}
      /\ B[root] \subseteq Node /\ t["right"][d] = t.right[d] /\ t["left"][d] = t.left[d]
      /\ "left" \in Sides /\ Other("left") = "right" /\ t \in Tree /\ d \in Node
      /\ t.left[d] # d
  <2>1. /\ t["right"][d] \in B[root] \cup {NILNODE} /\ t["left"][d] \in B[root] \cup {NILNODE}
        /\ d \notin B[t["left"][d]] /\ (t["left"][d] # NILNODE => t["left"][d] \in B[t["left"][d]])
    BY ShapedSides, SidesFacts
  <2>2. B[root] \subseteq Node /\ NILNODE \notin Node /\ t \in Tree
    BY AddressAssumption DEF Shaped
  <2> QED
    BY <2>1, <2>2, SidesFacts DEF Other
<1>2. IS_NULL(t.right[d]) <=> t.right[d] = NILNODE
  BY <1>1, AddressAssumption DEF IS_NULL
<1>3. CASE t.right[d] = NILNODE
  <2>1. r = transplant(t, d, t.left[d])
    BY <1>2, <1>3 DEF sbt_detach
  <2>2. /\ t.parent[d] \in Node \cup {Null}
        /\ t.parent[d] # Null => (t.left[t.parent[d]] = d <=> t.right[t.parent[d]] # d)
    BY ShapedLink
  <2>3. Spliced(t, r, d, t.left[d], t.parent[d])
    <3>1. t.left[d] \in Ptr
      BY <1>1 DEF Ptr
    <3> HIDE DEF r
    <3> QED
      BY <1>1, <2>1, <2>2, <3>1, TransplantFields
  <2> HIDE DEF r
  <2>4. Spliced(t, r, d, t["left"][d], t.parent[d]) /\ t[Other("left")][d] = NILNODE
    BY <1>1, <1>3, <2>3
  <2>5. Shaped(r, root, Without(B, d)) /\ Without(B, d)[root] = B[root] \ {d}
    BY <1>1, <2>4, SplicedBelowRoot
  <2>6. r.root = t.root
    BY <2>4 DEF Spliced
  <2> QED
    BY <2>5, <2>6 DEF r
<1>4. CASE t.right[d] # NILNODE
  <2>1. r = Adopting(w, y)
    BY <1>2, <1>4 DEF sbt_detach, Adopting, Handed
  <2> DEFINE E == Without(B, y)
  <2>2. TakenOut(t, root, B, d, y, u)
    BY <1>4, NextTakenOut
  <2> HIDE DEF y, u
  <2>3. Hung(u, v, d, y)
    BY <2>2, NextHung
  <2> HIDE DEF v, r
  <2>4. Replaced(u, r, d, y, u.parent[d])
    BY <2>1, <2>3, DetachFields
  <2>5. /\ Shaped(u, root, E) /\ d \in E[root] /\ y \in Node /\ y \notin E[root] /\ y \in B[root] /\ y # d
        /\ Fits(u, E[root], E, d, y) /\ E[root] = B[root] \ {y}
    BY <2>2 DEF TakenOut
  <2> HIDE DEF E
  <2>6. Shaped(r, root, Seated(E, d, y)) /\ Seated(E, d, y)[root] = (E[root] \ {d}) \cup {y}
    <3> DEFINE p == u.parent[d]
    <3>1. p = u.parent[d] /\ Replaced(u, r, d, y, p)
      BY <2>4
    <3> HIDE DEF p
    <3>2. SeatTaken(root, E, d, y, r)
      BY <2>5, <3>1, ReplacedIsShaped
    <3> QED
      BY <3>2 DEF SeatTaken
  <2>7. (E[root] \ {d}) \cup {y} = B[root] \ {d}
    BY <2>5
  <2>8. Shaped(r, root, Seated(E, d, y)) /\ Seated(E, d, y)[root] = B[root] \ {d}
    BY <2>6, <2>7
  <2>9. r.root = t.root
    BY <2>2, <2>4 DEF Replaced, TakenOut, Spliced
  <2> QED
    BY <2>8, <2>9 DEF r
<1> QED
  BY <1>3, <1>4

(* The fields of d are cleared.                                                        *)
LEMMA ForgetIs ==
  ASSUME NEW t \in Tree, NEW d \in Node
  PROVE  Forget(t, d) = [root |-> t.root, parent |-> [t.parent EXCEPT ![d] = Null],
                         left |-> [t.left EXCEPT ![d] = Null], right |-> [t.right EXCEPT ![d] = Null],
                         key |-> [t.key EXCEPT ![d] = 0], color |-> [t.color EXCEPT ![d] = "BLACK"]]
<1> DEFINE par == [t.parent EXCEPT ![d] = Null]
           lf == [t.left EXCEPT ![d] = Null]
           rg == [t.right EXCEPT ![d] = Null]
           ks == [t.key EXCEPT ![d] = 0]
           cs == [t.color EXCEPT ![d] = "BLACK"]
           n == Forget(t, d)
<1>1. n = [[[t EXCEPT !.parent = par, !.left = lf] EXCEPT !.right = rg] EXCEPT !.key = ks, !.color = cs]
  BY DEF Forget, Tree
<1> HIDE DEF par, lf, rg, ks, cs, n
<1>2. n = [root |-> t.root, parent |-> par, left |-> lf, right |-> rg, key |-> ks, color |-> cs]
  BY <1>1 DEF Tree
<1> QED
  BY <1>2 DEF par, lf, rg, ks, cs, n

(* A node that is not in use may be forgotten.                                             *)
LEMMA ForgetAgrees ==
  ASSUME NEW t, NEW root, NEW B, Shaped(t, root, B), NEW d \in Node, d \notin B[root]
  PROVE  AgreeOn(t, Forget(t, d), B[root]) /\ Forget(t, d).root = t.root
<1> DEFINE n == Forget(t, d)
           par == [t.parent EXCEPT ![d] = Null]
           lf == [t.left EXCEPT ![d] = Null]
           rg == [t.right EXCEPT ![d] = Null]
           ks == [t.key EXCEPT ![d] = 0]
           cs == [t.color EXCEPT ![d] = "BLACK"]
<1>0. t \in Tree /\ t.left[NILNODE] = Null /\ t.right[NILNODE] = Null /\ t.key[NILNODE] = 0
  BY DEF Shaped
<1>1. /\ t.parent \in [Ptr -> Link] /\ t.left \in [Ptr -> Link] /\ t.right \in [Ptr -> Link]
      /\ t.key \in [Ptr -> Int] /\ t.color \in [Ptr -> {"RED", "BLACK"}] /\ t.root \in Link
      /\ d \in Ptr /\ Null \in Link /\ NILNODE \in Ptr /\ NILNODE # d
  BY <1>0, AddressAssumption DEF Tree, Link, Ptr
<1>2. n = [root |-> t.root, parent |-> par, left |-> lf, right |-> rg, key |-> ks, color |-> cs]
  BY <1>0, ForgetIs
<1>3. /\ par \in [Ptr -> Link] /\ lf \in [Ptr -> Link] /\ rg \in [Ptr -> Link]
      /\ ks \in [Ptr -> Int] /\ cs \in [Ptr -> {"RED", "BLACK"}]
  BY <1>1
<1>4. \A y \in Ptr : y # d => /\ lf[y] = t.left[y] /\ rg[y] = t.right[y] /\ par[y] = t.parent[y]
                              /\ ks[y] = t.key[y] /\ cs[y] = t.color[y]
  BY <1>1
<1> HIDE DEF par, lf, rg, ks, cs
<1>5. n \in Tree
  BY <1>1, <1>2, <1>3 DEF Tree
<1>6. n.root = t.root /\ n.parent = par /\ n.left = lf /\ n.right = rg /\ n.key = ks /\ n.color = cs
  BY <1>2
<1> HIDE DEF n
<1>7. \A y \in B[root] : y \in Ptr /\ y # d
  BY DEF Shaped, Ptr
<1>8. AgreeOn(t, n, B[root])
  BY <1>0, <1>1, <1>4, <1>5, <1>6, <1>7 DEF AgreeOn
<1> QED
  BY <1>6, <1>8 DEF n

(* sbt_detach of a node other than the root of a search tree of any size.                      *)
LEMMA DetachIsInOrder ==
  ASSUME NEW t, SearchTree(t), NEW d \in Nodes(t), d # t.root, NEW r, r = Forget(sbt_detach(t, d), d)
  PROVE  SearchTree(r) /\ Nodes(r) = Nodes(t) \ {d}
<1> DEFINE v == sbt_detach(t, d)
           B == Below(t)
<1>1. t.root # Null
  BY NoRootNoNodes DEF SearchTree
<1>2. Shaped(t, t.root, B) /\ B[t.root] = Nodes(t)
  BY <1>1, SearchTreeIsShaped, ShapedIsSearchTree
<1> HIDE DEF B
<1>3. d \in B[t.root] /\ d \in Node
  BY <1>2 DEF Shaped
<1>4. PICK F : Shaped(v, t.root, F) /\ F[t.root] = B[t.root] \ {d}
  BY <1>2, <1>3, DetachKeepsShape
<1>5. v.root = t.root
  BY <1>2, <1>3, DetachKeepsShape
<1> HIDE DEF v
<1>6. AgreeOn(v, Forget(v, d), F[t.root]) /\ Forget(v, d).root = v.root
  BY <1>3, <1>4, ForgetAgrees
<1>7. r = Forget(v, d)
  BY DEF v
<1>8. Shaped(r, t.root, F)
  BY <1>4, <1>6, <1>7, AgreeShapes
<1>9. Shaped(r, r.root, F) /\ F[r.root] = Nodes(t) \ {d}
  BY <1>2, <1>4, <1>5, <1>6, <1>7, <1>8
<1> QED
  BY <1>9, ShapedIsSearchTree

-----------------------------------------------------------------------------
(* A black leaf is gone, and the tree is rotated about its parent.        *)

(* What is known of a rotation, whatever colours are written with it.                         *)
Spun(t, root, B, x, side, c, b, p, r) ==
  /\ Pivot(t, B[root], x, side, c, b, p) /\ PivotHas(t, root, B, x, side, c, b, p)
  /\ Turned(t, r, x, side, c, b, p)
  /\ Shaped(r, TurnedRoot(root, x, c), TurnedBelow(t, B, x, side, c, b))
  /\ TurnedBelow(t, B, x, side, c, b)[TurnedRoot(root, x, c)] = B[root]
  /\ ParentsTurned(t, r, B[root], root, x, side, c, b, p)
  /\ ChildrenTurned(t, r, B[root], x, side, c, b)

LEMMA TurnedSpins ==
  ASSUME NEW t, NEW root, NEW B, Shaped(t, root, B), NEW x, NEW side, NEW c, NEW b, NEW p,
         Pivot(t, B[root], x, side, c, b, p), NEW r, Turned(t, r, x, side, c, b, p)
  PROVE  Spun(t, root, B, x, side, c, b, p, r)
<1>1. PivotHas(t, root, B, x, side, c, b, p)
  BY PivotFacts
<1>2. /\ Shaped(r, TurnedRoot(root, x, c), TurnedBelow(t, B, x, side, c, b))
      /\ TurnedBelow(t, B, x, side, c, b)[TurnedRoot(root, x, c)] = B[root]
  BY TurnedIsShaped
<1>3. ParentsTurned(t, r, B[root], root, x, side, c, b, p)
  BY TurnedParents
<1>4. ChildrenTurned(t, r, B[root], x, side, c, b)
  BY TurnedChildren
<1> QED
  BY <1>1, <1>2, <1>3, <1>4 DEF Spun

Rotated(t, root, B, x, side, c, b, p, r) ==
  Spun(t, root, B, x, side, c, b, p, r) /\ r.color = t.color /\ r.root = t.root

(* Rotate is such a rotation.                                                          *)
LEMMA RotateSpins ==
  ASSUME NEW t, NEW root, NEW B, Shaped(t, root, B), NEW x, NEW side, NEW c, NEW b, NEW p,
         Pivot(t, B[root], x, side, c, b, p)
  PROVE  Rotated(t, root, B, x, side, c, b, p, Rotate(t, x, side))
<1>1. PivotHas(t, root, B, x, side, c, b, p)
  BY PivotFacts
<1>2. /\ c = t[Other(side)][x] /\ b = t[side][c] /\ p = t.parent[x] /\ t \in Tree
  BY DEF Pivot, Shaped
<1>3. /\ x \in Node /\ c \in Node /\ side \in Sides /\ b \in Ptr /\ p \in Node \cup {Null}
      /\ x # c /\ x # p /\ c # p /\ b # x /\ b # c
  BY <1>1 DEF PivotHas
<1>4. /\ Turned(t, Rotate(t, x, side), x, side, c, b, p)
      /\ Rotate(t, x, side).color = t.color /\ Rotate(t, x, side).root = t.root
  BY <1>2, <1>3, RotateFields
<1>5. Spun(t, root, B, x, side, c, b, p, Rotate(t, x, side))
  BY <1>4, TurnedSpins
<1> QED
  BY <1>4, <1>5 DEF Rotated

(* Colours written after it.                                                            *)
LEMMA PaintedSpins ==
  ASSUME NEW t, NEW root, NEW B, Shaped(t, root, B), NEW x, NEW side, NEW c, NEW b, NEW p, NEW q,
         Spun(t, root, B, x, side, c, b, p, q), NEW r, SameShape(q, r)
  PROVE  Spun(t, root, B, x, side, c, b, p, r)
<1>1. Pivot(t, B[root], x, side, c, b, p) /\ PivotHas(t, root, B, x, side, c, b, p) /\ Turned(t, q, x, side, c, b, p)
  BY DEF Spun
<1>2. Other(side) \in Sides /\ side \in Sides
  BY <1>1 DEF PivotHas
<1>3. r[side] = q[side] /\ r[Other(side)] = q[Other(side)] /\ r.parent = q.parent /\ r.key = q.key /\ r \in Tree
  BY <1>2 DEF SameShape, Sides
<1>4. Turned(t, r, x, side, c, b, p)
  BY <1>1, <1>3 DEF Turned
<1> QED
  BY <1>1, <1>4, TurnedSpins

(* What must be so of the black nodes around a rotation for the tree to be as even after it as    *)
(* it was before, the nodes of Z not counted.                                             *)
Balanced(t, r, H, G, Z, U, x, side, c, b) ==
  /\ \A y \in U : y # x /\ y # c => G[y] = H[y]
  /\ \A y \in U : y # x /\ t.parent[y] # x /\ t.parent[y] # c => r.color[y] = t.color[y]
  /\ x \notin Z => /\ G[x] \in Nat /\ G[x] = Weight(r, G, t[side][x]) /\ G[x] = Weight(r, G, b)
  /\ c \notin Z => /\ G[c] \in Nat /\ G[c] = Weight(r, G, x) /\ G[c] = Weight(r, G, t[Other(side)][c])

(* Heights after a rotation, but for those that changed places.                        *)
LEMMA SpunTall ==
  ASSUME NEW t, NEW root, NEW B, Shaped(t, root, B), NEW x, NEW side, NEW c, NEW b, NEW p, NEW r,
         Spun(t, root, B, x, side, c, b, p, r), NEW Z, NEW H, Tall(t, H, (B[root] \ {x, c}) \ Z),
         NEW G, Balanced(t, r, H, G, Z, B[root], x, side, c, b),
         p \in Z \/ p = Null \/ Weight(r, G, c) = Weight(t, H, x)
  PROVE  Tall(r, G, B[root] \ Z)
<1> DEFINE U == B[root]
<1>1. /\ Pivot(t, U, x, side, c, b, p) /\ PivotHas(t, root, B, x, side, c, b, p)
      /\ Turned(t, r, x, side, c, b, p) /\ ChildrenTurned(t, r, U, x, side, c, b)
  BY DEF Spun
<1>2. /\ side \in Sides /\ x \in U /\ c \in U /\ x # c /\ p # x /\ p # c /\ p = t.parent[x] /\ t.parent[c] = x
      /\ Other(side) \in Sides /\ x \in Node /\ c \in Node
  BY <1>1 DEF Pivot, PivotHas
<1>3. U \subseteq Ptr /\ NILNODE \notin U
  BY AddressAssumption DEF Shaped, Ptr
<1>4. /\ r[Other(side)][x] = b /\ r[side][x] = t[side][x]
      /\ r[Other(side)][c] = t[Other(side)][c] /\ r[side][c] = x
  BY <1>1 DEF ChildrenTurned
<1>5. \A s \in Sides : s = side \/ s = Other(side)
  BY <1>2, SidesFacts
<1>6. \A y \in U : \A s \in Sides : y # x /\ y # c =>
        r[s][y] = IF p # Null /\ y = p /\ t[s][p] = x THEN c ELSE t[s][y]
  <2> SUFFICES ASSUME NEW y \in U, NEW s \in Sides, y # x, y # c
               PROVE  r[s][y] = IF p # Null /\ y = p /\ t[s][p] = x THEN c ELSE t[s][y]
    OBVIOUS
  <2>1. y \in Ptr
    BY <1>3
  <2>2. CASE s = side
    BY <1>1, <2>1, <2>2 DEF Turned
  <2>3. CASE s = Other(side)
    <3>1. r[s][y] = IF p # Null /\ y = p /\ t[side][p] # x THEN c ELSE t[s][y]
      BY <1>1, <2>1, <2>3 DEF Turned
    <3>2. p # Null /\ y = p => (t[side][p] # x <=> t[s][p] = x)
      <4> SUFFICES ASSUME p # Null, y = p
                   PROVE  t[side][p] # x <=> t[s][p] = x
        OBVIOUS
      <4>1. x = t[side][p] \/ x = t[Other(side)][p]
        BY <1>1, PivotAbove
      <4>2. x # NILNODE
        BY <1>2, AddressAssumption
      <4>3. t[side][p] # NILNODE => t[side][p] # t[Other(side)][p]
        BY <1>2, ShapedApart
      <4> QED
        BY <2>3, <4>1, <4>2, <4>3
    <3> QED
      BY <3>1, <3>2
  <2> QED
    BY <1>5, <2>2, <2>3
<1>7. ASSUME NEW y \in U, y \notin Z, y # x, y # c, NEW s \in Sides
      PROVE  G[y] \in Nat /\ G[y] = Weight(r, G, r[s][y])
  <2>1. G[y] = H[y] /\ H[y] \in Nat /\ H[y] = Weight(t, H, t[s][y])
    BY <1>7 DEF Balanced, Tall
  <2>2. r[s][y] = IF p # Null /\ y = p /\ t[s][p] = x THEN c ELSE t[s][y]
    BY <1>6, <1>7
  <2>3. CASE p # Null /\ y = p /\ t[s][p] = x
    <3>1. Weight(r, G, c) = Weight(t, H, x)
      BY <1>7, <2>3
    <3> QED
      BY <2>1, <2>2, <2>3, <3>1
  <2>4. CASE ~ (p # Null /\ y = p /\ t[s][p] = x)
    <3> DEFINE z == t[s][y]
    <3>1. z \in U \cup {NILNODE} /\ (z # NILNODE => t.parent[z] = y)
      BY ShapedSides
    <3>2. y # Null
      BY <1>3, AddressAssumption DEF Ptr
    <3>3. z # NILNODE => z # x /\ z # c
      BY <1>2, <1>7, <2>4, <3>1, <3>2
    <3> HIDE DEF z
    <3>4. z # NILNODE => G[z] = H[z] /\ r.color[z] = t.color[z]
      BY <1>7, <3>1, <3>3 DEF Balanced
    <3>5. Weight(r, G, z) = Weight(t, H, z)
      BY <3>4 DEF Weight
    <3> QED
      BY <2>1, <2>2, <2>4, <3>5 DEF z
  <2> QED
    BY <2>3, <2>4
<1>8. ASSUME x \notin Z, NEW s \in Sides
      PROVE  G[x] \in Nat /\ G[x] = Weight(r, G, r[s][x])
  BY <1>4, <1>5, <1>8 DEF Balanced
<1>9. ASSUME c \notin Z, NEW s \in Sides
      PROVE  G[c] \in Nat /\ G[c] = Weight(r, G, r[s][c])
  BY <1>4, <1>5, <1>9 DEF Balanced
<1>10. ASSUME NEW y \in U \ Z, NEW s \in Sides
       PROVE  G[y] \in Nat /\ G[y] = Weight(r, G, r[s][y])
  BY <1>7, <1>8, <1>9, <1>10
<1> QED
  BY <1>2, <1>10 DEF Tall

(* The relatives the repair after a deletion looks at, of what is on side s of p: a node, or the   *)
(* sentinel when it is p that its parent field says.                                        *)
Related(t, x, p, s, sib) ==
  /\ t.parent[x] = p /\ SideOf(t, x) = s /\ Dir1(t, x) = s /\ sibling_of(t, x) = sib
  /\ neice_of(t, x) = t[s][sib] /\ nephew_of(t, x) = t[Other(s)][sib] /\ ~ IS_NULL(p)

(* sibling_of, neice_of and nephew_of are what they are called.                        *)
LEMMA RelativesOf ==
  ASSUME NEW t, NEW root, NEW B, Shaped(t, root, B), NEW p \in B[root], NEW s \in Sides,
         NEW x, x = t[s][p], t.parent[x] = p, NEW sib, sib = t[Other(s)][p], sib # NILNODE
  PROVE  Related(t, x, p, s, sib)
<1>1. p \in Node /\ ~ IS_NULL(p)
  BY AddressAssumption DEF Shaped, IS_NULL
<1>2. x # sib
  BY SidesFacts, ShapedApart
<1>3. CASE s = "left"
  <2>1. x = t.left[p] /\ x # t.right[p] /\ Other(s) = "right"
    BY <1>2, <1>3 DEF Other
  <2>2. SideOf(t, x) = s /\ Dir1(t, x) = s
    BY <1>3, <2>1 DEF SideOf, Dir1
  <2>3. sibling_of(t, x) = sib
    BY <1>1, <2>2 DEF sibling_of
  <2>4. nephew_of(t, x) = t["right"][sib]
    BY <2>1, <2>3 DEF nephew_of
  <2> QED
    BY <1>1, <2>1, <2>2, <2>3, <2>4 DEF Related, neice_of
<1>4. CASE s = "right"
  <2>1. x = t.right[p] /\ x # t.left[p] /\ Other(s) = "left"
    BY <1>2, <1>4 DEF Other
  <2>2. SideOf(t, x) = s /\ Dir1(t, x) = s
    BY <1>4, <2>1 DEF SideOf, Dir1
  <2>3. sibling_of(t, x) = sib
    BY <1>1, <2>2 DEF sibling_of
  <2>4. nephew_of(t, x) = t["left"][sib]
    BY <2>1, <2>3 DEF nephew_of
  <2> QED
    BY <1>1, <2>1, <2>2, <2>3, <2>4 DEF Related, neice_of
<1> QED
  BY <1>3, <1>4 DEF Sides

(* A red-black tree from which a black leaf was taken on side s of p: its other side has one      *)
(* black node more.                                                                   *)
Hole(t, root, B, H, p, s) ==
  /\ Shaped(t, root, B) /\ p \in B[root] /\ s \in Sides /\ t[s][p] = NILNODE /\ t.parent[NILNODE] = p
  /\ Tall(t, H, B[root] \ {p}) /\ H[p] = 1 /\ Weight(t, H, t[Other(s)][p]) = 1
  /\ Mild(t, root, B[root]) /\ t.color[root] = "BLACK" /\ t.color[NILNODE] = "BLACK"

(* As it should be below root.                                                             *)
Mended(r, root, U) ==
  \E E, G : /\ Shaped(r, root, E) /\ E[root] = U /\ Tall(r, G, U) /\ Mild(r, root, U)
            /\ r.color[root] = "BLACK" /\ r.color[NILNODE] = "BLACK"

(* The sibling and its children.                                                           *)
HoleKid(t, root, B, H, p, sib, y) ==
  /\ y \in B[root] \cup {NILNODE} /\ y # p /\ y # sib
  /\ y # NILNODE => /\ t.parent[y] = sib /\ y # root /\ y \in B[sib] /\ H[y] \in Nat
                    /\ (t.color[sib] = "RED" => t.color[y] = "BLACK")
                    /\ (t.color[sib] = "BLACK" => t.color[y] = "RED" /\ H[y] = 0)

HoleKin(t, root, B, H, p, s, sib, nc, nw) ==
  /\ sib = t[Other(s)][p] /\ nc = t[s][sib] /\ nw = t[Other(s)][sib]
  /\ Related(t, NILNODE, p, s, sib)
  /\ sib \in B[root] /\ sib \in Node /\ t.parent[sib] = p /\ sib # p /\ sib # root
  /\ H[sib] = (IF t.color[sib] = "BLACK" THEN 0 ELSE 1)
  /\ Weight(t, H, nc) = H[sib] /\ Weight(t, H, nw) = H[sib]
  /\ HoleKid(t, root, B, H, p, sib, nc) /\ HoleKid(t, root, B, H, p, sib, nw)
  /\ nc # NILNODE => nc # nw
  /\ p \notin B[sib] /\ B[sib] \subseteq B[p] /\ B[sib] \subseteq B[root]

(* There is a sibling, and its children are leaves, if it has any.                     *)
LEMMA HoleHasKin ==
  ASSUME NEW t, NEW root, NEW B, NEW H, NEW p, NEW s, Hole(t, root, B, H, p, s),
         NEW sib, sib = t[Other(s)][p], NEW nc, nc = t[s][sib], NEW nw, nw = t[Other(s)][sib]
  PROVE  HoleKin(t, root, B, H, p, s, sib, nc, nw)
<1> DEFINE U == B[root]
<1>1. /\ Shaped(t, root, B) /\ p \in U /\ s \in Sides /\ t[s][p] = NILNODE /\ t.parent[NILNODE] = p
      /\ Tall(t, H, U \ {p}) /\ H[p] = 1 /\ Weight(t, H, sib) = 1 /\ Mild(t, root, U)
      /\ Other(s) \in Sides /\ t \in Tree /\ U \subseteq Node /\ t.parent[root] = Null
  BY SidesFacts DEF Hole, Shaped
<1>2. \A y \in U : y \in Ptr /\ y # NILNODE /\ y # Null /\ t.color[y] \in {"RED", "BLACK"}
  BY <1>1, AddressAssumption DEF Tree, Ptr
<1>3. sib # NILNODE
  BY <1>1 DEF Weight
<1>4. /\ sib \in U /\ t.parent[sib] = p /\ p \notin B[sib] /\ B[sib] \subseteq B[p] /\ B[sib] \subseteq U
      /\ sib \in B[sib] /\ sib \in Node
  BY <1>1, <1>3, ShapedSides
<1>5. sib # p /\ sib # root
  BY <1>1, <1>2, <1>4
<1>6. Related(t, NILNODE, p, s, sib)
  BY <1>1, <1>3, RelativesOf
<1>7. /\ H[sib] \in Nat /\ H[sib] = (IF t.color[sib] = "BLACK" THEN 0 ELSE 1)
      /\ Weight(t, H, nc) = H[sib] /\ Weight(t, H, nw) = H[sib]
  <2>1. H[sib] \in Nat /\ \A e \in Sides : H[sib] = Weight(t, H, t[e][sib])
    BY <1>1, <1>4, <1>5 DEF Tall
  <2>2. t.color[sib] = "BLACK" => H[sib] + 1 = 1
    BY <1>1, <1>3 DEF Weight
  <2>3. t.color[sib] # "BLACK" => H[sib] + 0 = 1
    BY <1>1, <1>3 DEF Weight
  <2> QED
    BY <1>1, <2>1, <2>2, <2>3
<1>8. ASSUME NEW e \in Sides, t[e][sib] # NILNODE
      PROVE  LET y == t[e][sib]
             IN  /\ y \in U /\ y # p /\ y # sib /\ t.parent[y] = sib /\ y # root /\ y \in B[sib] /\ H[y] \in Nat
                 /\ (t.color[sib] = "RED" => t.color[y] = "BLACK")
                 /\ (t.color[sib] = "BLACK" => t.color[y] = "RED" /\ H[y] = 0)
  <2> DEFINE y == t[e][sib]
  <2>1. y \in U /\ t.parent[y] = sib /\ y \in B[y] /\ B[y] \subseteq B[sib] /\ sib \notin B[y]
    BY <1>1, <1>4, <1>8, ShapedSides
  <2>2. Weight(t, H, y) = H[sib]
    BY <1>1, <1>4, <1>5, <1>7 DEF Tall
  <2>3. y # NILNODE
    BY <1>8
  <2> HIDE DEF y
  <2>4. y # p /\ y # sib /\ y # root /\ y \in B[sib]
    BY <1>1, <1>2, <1>4, <2>1
  <2>5. H[y] \in Nat
    BY <1>1, <2>1, <2>4 DEF Tall
  <2>6. t.color[sib] = "RED" => t.color[y] = "BLACK"
    BY <1>1, <2>1, <2>4 DEF Mild
  <2>7. t.color[sib] = "BLACK" => t.color[y] = "RED" /\ H[y] = 0
    <3>1. SUFFICES ASSUME t.color[sib] = "BLACK"
                   PROVE  t.color[y] = "RED" /\ H[y] = 0
      OBVIOUS
    <3>2. H[sib] = 0
      BY <1>7, <3>1
    <3>3. H[y] + (IF t.color[y] = "BLACK" THEN 1 ELSE 0) = 0
      BY <2>2, <2>3, <3>2 DEF Weight
    <3> QED
      BY <1>2, <2>1, <2>5, <3>3
  <2> QED
    BY <2>1, <2>4, <2>5, <2>6, <2>7 DEF y
<1>9. HoleKid(t, root, B, H, p, sib, nc) /\ HoleKid(t, root, B, H, p, sib, nw)
  BY <1>1, <1>2, <1>4, <1>8 DEF HoleKid
<1>10. nc # NILNODE => nc # nw
  BY <1>1, <1>4, ShapedApart
<1> QED
  BY <1>1, <1>4, <1>5, <1>6, <1>7, <1>9, <1>10 DEF HoleKin

(* One rotation about the parent, the niece going over to it: the parent is red and the niece the  *)
(* sentinel, or the parent is black and the nephew, red until now, turns so.                     *)
OneTurn(t, r, p, sib, nc, nw) ==
  /\ \A y \in Ptr : y # nw => r.color[y] = t.color[y]
  /\ \/ t.color[p] = "RED" /\ nc = NILNODE /\ r.color[nw] = t.color[nw]
     \/ t.color[p] = "BLACK" /\ nw # NILNODE /\ r.color[nw] = "BLACK"

(* One rotation fills the hole.                                                        *)
LEMMA OnceMended ==
  ASSUME NEW t, NEW root, NEW B, NEW H, NEW p, NEW s, Hole(t, root, B, H, p, s),
         NEW sib, NEW nc, NEW nw, HoleKin(t, root, B, H, p, s, sib, nc, nw), t.color[sib] = "BLACK",
         NEW g, NEW r, Spun(t, root, B, p, s, sib, nc, g, r), OneTurn(t, r, p, sib, nc, nw)
  PROVE  Mended(r, TurnedRoot(root, p, sib), B[root])
<1> DEFINE U == B[root]
           top == TurnedRoot(root, p, sib)
           E == TurnedBelow(t, B, p, s, sib, nc)
           G == [y \in U |-> IF y = p THEN 0 ELSE IF y = sib THEN (IF t.color[p] = "RED" THEN 0 ELSE 1) ELSE H[y]]
<1>1. /\ Shaped(t, root, B) /\ p \in U /\ s \in Sides /\ t[s][p] = NILNODE
      /\ Tall(t, H, U \ {p}) /\ H[p] = 1 /\ Mild(t, root, U)
      /\ t.color[root] = "BLACK" /\ t.color[NILNODE] = "BLACK" /\ t \in Tree /\ U \subseteq Node
  BY DEF Hole, Shaped
<1>2. \A y \in U : y \in Ptr /\ y # NILNODE /\ y # Null /\ t.color[y] \in {"RED", "BLACK"}
  BY <1>1, AddressAssumption DEF Tree, Ptr
<1>3. /\ sib \in U /\ t.parent[sib] = p /\ sib # p /\ sib # root /\ H[sib] = 0
      /\ nw = t[Other(s)][sib] /\ Weight(t, H, nc) = 0 /\ Weight(t, H, nw) = 0
  BY DEF HoleKin
<1>4. /\ nc \in U \cup {NILNODE} /\ nc # p /\ nc # sib /\ nw \in U \cup {NILNODE} /\ nw # p /\ nw # sib
      /\ (nc # NILNODE => t.parent[nc] = sib /\ nc # nw) /\ (nw # NILNODE => t.parent[nw] = sib /\ H[nw] = 0)
  BY DEF HoleKin, HoleKid
<1>5. \A y \in U : G[y] = IF y = p THEN 0 ELSE IF y = sib THEN (IF t.color[p] = "RED" THEN 0 ELSE 1) ELSE H[y]
  OBVIOUS
<1> HIDE DEF G
<1>6. r.color[p] = t.color[p] /\ r.color[sib] = "BLACK" /\ r.color[NILNODE] = "BLACK"
      /\ (nc # NILNODE => r.color[nc] = t.color[nc])
      /\ \A y \in U : y # nw => r.color[y] = t.color[y]
  <2>1. NILNODE \in Ptr
    BY DEF Ptr
  <2>2. \A y \in U : y # nw => r.color[y] = t.color[y]
    BY <1>2 DEF OneTurn
  <2>3. r.color[NILNODE] = "BLACK"
    BY <1>1, <2>1 DEF OneTurn
  <2> QED
    BY <1>1, <1>3, <1>4, <2>2, <2>3
<1>7. Weight(r, G, NILNODE) = 0
  BY DEF Weight
<1>8. Weight(r, G, nc) = 0
  <2>1. CASE nc = NILNODE
    BY <1>7, <2>1
  <2>2. CASE nc # NILNODE
    <3>1. G[nc] = H[nc] /\ r.color[nc] = t.color[nc]
      BY <1>4, <1>5, <1>6, <2>2
    <3> QED
      BY <1>3, <2>2, <3>1 DEF Weight
  <2> QED
    BY <2>1, <2>2
<1>9. G[sib] = Weight(r, G, p)
  <2>1. Weight(r, G, p) = G[p] + (IF r.color[p] = "BLACK" THEN 1 ELSE 0)
    BY <1>1, <1>2 DEF Weight
  <2>2. G[p] = 0 /\ G[sib] = (IF t.color[p] = "RED" THEN 0 ELSE 1) /\ t.color[p] \in {"RED", "BLACK"}
    BY <1>1, <1>2, <1>3, <1>5
  <2> QED
    BY <1>6, <2>1, <2>2
<1>10. G[sib] = Weight(r, G, nw)
  <2>1. G[sib] = (IF t.color[p] = "RED" THEN 0 ELSE 1)
    BY <1>3, <1>5
  <2>2. CASE t.color[p] = "RED" /\ nc = NILNODE /\ r.color[nw] = t.color[nw]
    <3>1. nw # NILNODE => G[nw] = H[nw]
      BY <1>4, <1>5
    <3>2. Weight(r, G, nw) = Weight(t, H, nw)
      BY <2>2, <3>1 DEF Weight
    <3> QED
      BY <1>3, <2>1, <2>2, <3>2
  <2>3. CASE t.color[p] = "BLACK" /\ nw # NILNODE /\ r.color[nw] = "BLACK"
    <3>1. G[nw] = 0
      BY <1>4, <1>5, <2>3
    <3>2. Weight(r, G, nw) = 0 + 1
      BY <2>3, <3>1 DEF Weight
    <3> QED
      BY <2>1, <2>3, <3>2
  <2> QED
    BY <2>2, <2>3 DEF OneTurn
<1>11. Weight(r, G, sib) = Weight(t, H, p)
  <2>1. Weight(r, G, sib) = G[sib] + 1
    BY <1>2, <1>3, <1>6 DEF Weight
  <2>2. Weight(t, H, p) = 1 + (IF t.color[p] = "BLACK" THEN 1 ELSE 0)
    BY <1>1, <1>2 DEF Weight
  <2>3. G[sib] = (IF t.color[p] = "RED" THEN 0 ELSE 1) /\ t.color[p] \in {"RED", "BLACK"}
    BY <1>1, <1>2, <1>3, <1>5
  <2> QED
    BY <2>1, <2>2, <2>3
<1>12. Balanced(t, r, H, G, {}, U, p, s, sib, nc)
  <2>1. \A y \in U : y # p /\ y # sib => G[y] = H[y]
    BY <1>5
  <2>2. \A y \in U : y # p /\ t.parent[y] # p /\ t.parent[y] # sib => r.color[y] = t.color[y]
    BY <1>2, <1>4, <1>6
  <2>3. G[p] \in Nat /\ G[p] = Weight(r, G, t[s][p]) /\ G[p] = Weight(r, G, nc)
    BY <1>1, <1>5, <1>7, <1>8
  <2>4. G[sib] \in Nat
    BY <1>3, <1>5
  <2> QED
    BY <1>3, <1>9, <1>10, <2>1, <2>2, <2>3, <2>4 DEF Balanced
<1>13. Tall(r, G, U)
  <2>1. Tall(t, H, (U \ {p, sib}) \ {})
    BY <1>1 DEF Tall
  <2>2. Tall(r, G, U \ {})
    BY <1>1, <1>11, <1>12, <2>1, SpunTall
  <2> QED
    BY <2>2 DEF Tall
<1>14. /\ Shaped(r, top, E) /\ E[top] = U /\ ParentsTurned(t, r, U, root, p, s, sib, nc, g)
  BY DEF Spun
<1>15. \A y \in U : r.parent[y] = IF y = p THEN sib ELSE IF y = sib THEN g
                                 ELSE IF y = nc THEN p ELSE t.parent[y]
  BY <1>14 DEF ParentsTurned
<1>16. Mild(r, top, U)
  <2> SUFFICES ASSUME NEW y \in U, y # top, r.color[y] # "BLACK"
               PROVE  r.color[r.parent[y]] = "BLACK"
    BY DEF Mild
  <2>1. y # sib
    BY <1>6
  <2>2. CASE y = p
    BY <1>6, <1>15, <2>1, <2>2
  <2>3. CASE y # p /\ y = nc
    <3>1. t.color[p] = "BLACK"
      BY <1>2, <2>3 DEF OneTurn
    <3> QED
      BY <1>6, <1>15, <2>1, <2>3, <3>1
  <2>4. CASE y # p /\ y # nc
    <3>1. r.parent[y] = t.parent[y]
      BY <1>15, <2>1, <2>4
    <3>2. t.color[y] # "BLACK"
      <4>1. r.color[y] = t.color[y]
        BY <1>2, <1>6, <2>4 DEF OneTurn
      <4> QED
        BY <4>1
    <3>3. y # root
      BY <1>1, <3>2
    <3>4. t.color[t.parent[y]] = "BLACK" /\ t.parent[y] \in U
      BY <1>1, <3>2, <3>3, ShapedParent DEF Mild
    <3>5. t.parent[y] = nw => r.color[nw] = "BLACK"
      BY <3>4 DEF OneTurn
    <3> QED
      BY <1>6, <3>1, <3>4, <3>5
  <2> QED
    BY <2>2, <2>3, <2>4
<1>17. r.color[top] = "BLACK"
  <2>1. CASE p = root
    BY <1>6, <2>1 DEF TurnedRoot
  <2>2. CASE p # root
    <3>1. top = root /\ root \in U
      BY <1>1, <2>2 DEF TurnedRoot, Shaped
    <3>2. root = nw => r.color[nw] = "BLACK"
      BY <1>1 DEF OneTurn
    <3> QED
      BY <1>1, <1>6, <3>1, <3>2
  <2> QED
    BY <2>1, <2>2
<1> HIDE DEF E, top
<1> QED
  BY <1>6, <1>13, <1>14, <1>16, <1>17 DEF Mended, top

(* The niece, red, comes up over the sibling.                                               *)
NieceUp(t, root, B, p, s, sib, nc, b, q) ==
  Spun(t, root, B, sib, Other(s), nc, b, p, q) /\ q.color = t.color

NieceBelow(t, B, s, sib, nc, b) == TurnedBelow(t, B, sib, Other(s), nc, b)

NieceIsUp(t, root, B, H, p, s, sib, nc, b, q) ==
  /\ Shaped(q, root, NieceBelow(t, B, s, sib, nc, b)) /\ NieceBelow(t, B, s, sib, nc, b)[root] = B[root]
  /\ b = NILNODE /\ q[s][p] = NILNODE /\ q[Other(s)][p] = nc /\ q[s][nc] = NILNODE /\ q[Other(s)][nc] = sib
  /\ \A y \in B[root] : q.parent[y] = IF y = sib THEN nc ELSE IF y = nc THEN p ELSE t.parent[y]
  /\ Tall(q, H, B[root] \ {p, nc})

LEMMA NieceComesUp ==
  ASSUME NEW t, NEW root, NEW B, NEW H, NEW p, NEW s, Hole(t, root, B, H, p, s),
         NEW sib, NEW nc, NEW nw, HoleKin(t, root, B, H, p, s, sib, nc, nw), t.color[sib] = "BLACK", nc # NILNODE,
         NEW b, NEW q, NieceUp(t, root, B, p, s, sib, nc, b, q)
  PROVE  NieceIsUp(t, root, B, H, p, s, sib, nc, b, q)
<1> DEFINE U == B[root]
           o == Other(s)
           E == NieceBelow(t, B, s, sib, nc, b)
<1>1. /\ Shaped(t, root, B) /\ p \in U /\ s \in Sides /\ t[s][p] = NILNODE
      /\ Tall(t, H, U \ {p}) /\ H[p] = 1 /\ Mild(t, root, U) /\ t \in Tree /\ U \subseteq Node
      /\ o \in Sides /\ Other(o) = s /\ s # o
  BY SidesFacts DEF Hole, Shaped
<1>2. \A y \in U : y \in Ptr /\ y # NILNODE /\ y # Null /\ t.color[y] \in {"RED", "BLACK"}
  BY <1>1, AddressAssumption DEF Tree, Ptr
<1>3. /\ sib \in U /\ sib # p /\ sib # root /\ H[sib] = 0 /\ sib = t[o][p] /\ t.parent[sib] = p
      /\ nc = t[s][sib] /\ nw = t[o][sib] /\ Weight(t, H, nw) = 0
      /\ nc \in U /\ nc # p /\ nc # sib /\ t.parent[nc] = sib /\ t.color[nc] = "RED" /\ H[nc] = 0 /\ nc # root
      /\ nw # p /\ nw # sib /\ nw # nc
  BY DEF HoleKin, HoleKid
<1>4. /\ Pivot(t, U, sib, o, nc, b, p) /\ Turned(t, q, sib, o, nc, b, p) /\ ChildrenTurned(t, q, U, sib, o, nc, b)
      /\ Shaped(q, TurnedRoot(root, sib, nc), E) /\ E[TurnedRoot(root, sib, nc)] = U
      /\ ParentsTurned(t, q, U, root, sib, o, nc, b, p)
  BY DEF NieceUp, Spun, NieceBelow
<1>5. TurnedRoot(root, sib, nc) = root
  BY <1>3 DEF TurnedRoot
<1>6. b = t[o][nc]
  BY <1>4 DEF Pivot
<1>7. ASSUME NEW e \in Sides
      PROVE  t[e][nc] = NILNODE
  <2> DEFINE z == t[e][nc]
  <2>1. ASSUME z # NILNODE
        PROVE  FALSE
    <3>0. nc \in B[root] /\ Shaped(t, root, B)
      BY <1>1, <1>3
    <3>1. z \in U /\ t.parent[z] = nc /\ z \in B[z] /\ nc \notin B[z] /\ B[z] \subseteq B[nc]
      BY <2>1, <3>0, ShapedSides
    <3>2. Weight(t, H, z) = 0
      BY <1>1, <1>3 DEF Tall
    <3> HIDE DEF z
    <3>3. z # p
      <4>1. p \notin B[sib] /\ nc \in B[sib]
        BY <1>3 DEF HoleKin, HoleKid
      <4>2. z = p => p \in B[nc] /\ B[nc] \subseteq B[sib]
        <5>1. B[nc] \subseteq B[sib]
          BY <1>1, <1>3, <4>1, ShapedBelow
        <5>2. z \in B[nc]
          BY <3>1
        <5> QED
          BY <5>1, <5>2
      <4> QED
        BY <4>1, <4>2
    <3>4. H[z] \in Nat
      BY <1>1, <3>1, <3>3 DEF Tall
    <3>5. H[z] + (IF t.color[z] = "BLACK" THEN 1 ELSE 0) = 0
      BY <1>2, <3>1, <3>2 DEF Weight
    <3>6. t.color[z] # "BLACK"
      BY <3>4, <3>5
    <3>7. z # root
      BY <1>1, <1>2, <1>3, <3>1 DEF Shaped
    <3> QED
      BY <1>1, <1>3, <3>1, <3>6, <3>7 DEF Mild
  <2> QED
    BY <2>1
<1>8. b = NILNODE
  BY <1>1, <1>6, <1>7
<1>9. q[s][nc] = NILNODE /\ q[o][nc] = sib
  BY <1>1, <1>4, <1>7 DEF ChildrenTurned
<1>10. q[s][p] = NILNODE /\ q[o][p] = nc
  <2>1. p \in Ptr /\ p # nc /\ p # sib /\ p # Null
    BY <1>1, <1>2, <1>3
  <2>2. t[o][p] = sib
    BY <1>3
  <2>3. q[o][p] = nc
    BY <1>1, <2>1, <2>2, <1>4 DEF Turned
  <2>4. q[s][p] = t[s][p]
    BY <1>1, <2>1, <2>2, <1>4 DEF Turned
  <2> QED
    BY <1>1, <2>3, <2>4
<1>11. \A y \in U : q.parent[y] = IF y = sib THEN nc ELSE IF y = nc THEN p ELSE t.parent[y]
  BY <1>2, <1>4, <1>8 DEF ParentsTurned
<1>12. Balanced(t, q, H, H, {p, nc}, U, sib, o, nc, b)
  <2>1. q.color = t.color
    BY DEF NieceUp
  <2>2. Weight(q, H, t[o][sib]) = 0
    BY <1>3, <2>1 DEF Weight
  <2>3. Weight(q, H, b) = 0
    BY <1>8 DEF Weight
  <2> QED
    BY <1>3, <2>1, <2>2, <2>3 DEF Balanced
<1>13. Tall(q, H, U \ {p, nc})
  <2>1. Tall(t, H, (U \ {sib, nc}) \ {p, nc})
    BY <1>1 DEF Tall
  <2>2. Spun(t, root, B, sib, o, nc, b, p, q) /\ p \in {p, nc}
    BY DEF NieceUp
  <2> QED
    BY <1>1, <1>12, <2>1, <2>2, SpunTall
<1> HIDE DEF E
<1> QED
  BY <1>4, <1>5, <1>8, <1>9, <1>10, <1>11, <1>13 DEF E, NieceIsUp

(* Then the parent goes down below the niece, black.                                        *)
TwoTurns(t, r, p, nc) ==
  /\ \A y \in Ptr : y # p /\ y # nc => r.color[y] = t.color[y]
  /\ r.color[p] = "BLACK" /\ r.color[nc] = t.color[p]

(* Two rotations fill the hole.                                                        *)
LEMMA TwiceMended ==
  ASSUME NEW t, NEW root, NEW B, NEW H, NEW p, NEW s, Hole(t, root, B, H, p, s),
         NEW sib, NEW nc, NEW nw, HoleKin(t, root, B, H, p, s, sib, nc, nw), t.color[sib] = "BLACK", nc # NILNODE,
         NEW b, NEW q, NieceUp(t, root, B, p, s, sib, nc, b, q),
         NEW g, g = t.parent[p], NEW r, Spun(q, root, NieceBelow(t, B, s, sib, nc, b), p, s, nc, NILNODE, g, r),
         TwoTurns(t, r, p, nc)
  PROVE  Mended(r, TurnedRoot(root, p, nc), B[root])
<1> DEFINE U == B[root]
           o == Other(s)
           E == NieceBelow(t, B, s, sib, nc, b)
           F == TurnedBelow(q, E, p, s, nc, NILNODE)
           top == TurnedRoot(root, p, nc)
           G == [y \in U |-> IF y = p THEN 0 ELSE IF y = nc THEN 1 ELSE H[y]]
<1>1. /\ Shaped(t, root, B) /\ p \in U /\ s \in Sides /\ Tall(t, H, U \ {p}) /\ H[p] = 1 /\ Mild(t, root, U)
      /\ t.color[root] = "BLACK" /\ t.color[NILNODE] = "BLACK" /\ t \in Tree /\ U \subseteq Node /\ root \in U
  BY DEF Hole, Shaped
<1>2. \A y \in U : y \in Ptr /\ y # NILNODE /\ y # Null /\ t.color[y] \in {"RED", "BLACK"}
  BY <1>1, AddressAssumption DEF Tree, Ptr
<1>3. /\ sib \in U /\ sib # p /\ H[sib] = 0 /\ nc \in U /\ nc # p /\ nc # sib /\ t.color[nc] = "RED" /\ nc # root
      /\ t.parent[nc] = sib /\ t.parent[sib] = p
  BY DEF HoleKin, HoleKid
<1>4. /\ Shaped(q, root, E) /\ E[root] = U
      /\ q[s][p] = NILNODE /\ q[o][p] = nc /\ q[s][nc] = NILNODE /\ q[o][nc] = sib
      /\ \A y \in U : q.parent[y] = IF y = sib THEN nc ELSE IF y = nc THEN p ELSE t.parent[y]
      /\ Tall(q, H, U \ {p, nc})
  <2>1. NieceIsUp(t, root, B, H, p, s, sib, nc, b, q)
    BY NieceComesUp
  <2> QED
    BY <2>1 DEF NieceIsUp
<1>5. q.color = t.color
  BY DEF NieceUp
<1>0. Spun(q, root, E, p, s, nc, NILNODE, g, r)
  OBVIOUS
<1> HIDE DEF E
<1>6. /\ Shaped(r, top, F) /\ F[top] = U /\ ParentsTurned(q, r, U, root, p, s, nc, NILNODE, g)
  BY <1>0, <1>4 DEF Spun
<1>7. \A y \in U : G[y] = IF y = p THEN 0 ELSE IF y = nc THEN 1 ELSE H[y]
  OBVIOUS
<1> HIDE DEF G
<1>8. /\ \A y \in U : y # p /\ y # nc => r.color[y] = t.color[y]
      /\ r.color[p] = "BLACK" /\ r.color[nc] = t.color[p] /\ r.color[NILNODE] = "BLACK"
  <2>1. NILNODE \in Ptr /\ NILNODE # p /\ NILNODE # nc
    BY <1>1, <1>2, <1>3 DEF Ptr
  <2> QED
    BY <1>1, <1>2, <2>1 DEF TwoTurns
<1>9. Weight(r, G, NILNODE) = 0
  BY DEF Weight
<1>10. Weight(r, G, p) = 1
  BY <1>1, <1>2, <1>7, <1>8 DEF Weight
<1>11. Weight(r, G, sib) = 1
  <2>1. G[sib] = 0 /\ r.color[sib] = "BLACK"
    BY <1>3, <1>7, <1>8
  <2> QED
    BY <1>2, <1>3, <2>1 DEF Weight
<1>12. Weight(r, G, nc) = Weight(q, H, p)
  BY <1>1, <1>2, <1>3, <1>5, <1>7, <1>8 DEF Weight
<1>13. Balanced(q, r, H, G, {}, U, p, s, nc, NILNODE)
  <2>1. \A y \in U : y # p /\ y # nc => G[y] = H[y]
    BY <1>7
  <2>2. \A y \in U : y # p /\ q.parent[y] # p /\ q.parent[y] # nc => r.color[y] = q.color[y]
    BY <1>3, <1>4, <1>5, <1>8
  <2>3. G[p] \in Nat /\ G[p] = Weight(r, G, q[s][p]) /\ G[p] = Weight(r, G, NILNODE)
    BY <1>1, <1>4, <1>7, <1>9
  <2>4. G[nc] \in Nat /\ G[nc] = Weight(r, G, p) /\ G[nc] = Weight(r, G, q[o][nc])
    BY <1>3, <1>4, <1>7, <1>10, <1>11
  <2> QED
    BY <2>1, <2>2, <2>3, <2>4 DEF Balanced
<1>14. Tall(r, G, U)
  <2>1. Tall(q, H, (U \ {p, nc}) \ {})
    BY <1>4 DEF Tall
  <2>2. Tall(r, G, U \ {})
    <3>1. Tall(q, H, (E[root] \ {p, nc}) \ {}) /\ Balanced(q, r, H, G, {}, E[root], p, s, nc, NILNODE)
      BY <1>4, <1>13, <2>1
    <3>2. Tall(r, G, E[root] \ {})
      BY <1>0, <1>4, <1>12, <3>1, SpunTall
    <3> QED
      BY <1>4, <3>2
  <2> QED
    BY <2>2 DEF Tall
<1>15. \A y \in U : r.parent[y] = IF y = p THEN nc ELSE IF y = nc THEN g ELSE q.parent[y]
  BY <1>2, <1>6 DEF ParentsTurned
<1>16. Mild(r, top, U)
  <2> SUFFICES ASSUME NEW y \in U, y # top, r.color[y] # "BLACK"
               PROVE  r.color[r.parent[y]] = "BLACK"
    BY DEF Mild
  <2>1. y # p /\ y # sib
    BY <1>3, <1>8
  <2>2. CASE y = nc
    <3>1. r.parent[y] = t.parent[p] /\ t.color[p] # "BLACK" /\ p # root
      BY <1>1, <1>3, <1>8, <1>15, <2>2 DEF TurnedRoot
    <3>2. t.parent[p] \in U /\ t.color[t.parent[p]] = "BLACK" /\ t.parent[p] # p
      BY <1>1, <3>1, ShapedParent DEF Mild
    <3>3. t.parent[p] # nc
      BY <1>3, <3>2
    <3> QED
      BY <1>8, <3>1, <3>2, <3>3
  <2>3. CASE y # nc
    <3>1. r.parent[y] = t.parent[y]
      BY <1>4, <1>15, <2>1, <2>3
    <3>2. t.color[y] # "BLACK" /\ y # root
      BY <1>1, <1>8, <2>1, <2>3
    <3>3. t.parent[y] \in U /\ t.color[t.parent[y]] = "BLACK"
      BY <1>1, <3>2, ShapedParent DEF Mild
    <3>4. t.parent[y] # nc
      BY <1>3, <3>3
    <3> QED
      BY <1>8, <3>1, <3>3, <3>4
  <2> QED
    BY <2>2, <2>3
<1>17. r.color[top] = "BLACK"
  BY <1>1, <1>3, <1>8 DEF TurnedRoot
<1> HIDE DEF F, top
<1> QED
  BY <1>6, <1>8, <1>14, <1>16, <1>17 DEF Mended, top

(* Shaped, and beyond repair by colours.                                                   *)
Spoilt(r, U) == \E top, E, w : Shaped(r, top, E) /\ E[top] = U /\ w \in U /\ Lopsided(r, E, w)

(* Uneven below x, and even above.                                                        *)
Drift(t, root, B, x) ==
  /\ Shaped(t, root, B) /\ x \in B[root] /\ \E w \in B[x] : Lopsided(t, B, w)
  /\ \E H : Tall(t, H, B[root] \ B[x]) /\ H[x] \in Nat /\ H[x] >= 1

(* One colour written.                                                                 *)
Painted(t, r, x, c) ==
  /\ SameShape(t, r) /\ r.root = t.root /\ \A y \in Ptr : r.color[y] = IF y = x THEN c ELSE t.color[y]

LEMMA PaintFields ==
  ASSUME NEW t \in Tree, NEW x \in Ptr, NEW c \in {"RED", "BLACK"}
  PROVE  Painted(t, [t EXCEPT !.color[x] = c], x, c)
<1> DEFINE r == [t EXCEPT !.color[x] = c]
           col == [t.color EXCEPT ![x] = c]
<1>1. /\ t.parent \in [Ptr -> Link] /\ t.left \in [Ptr -> Link] /\ t.right \in [Ptr -> Link]
      /\ t.key \in [Ptr -> Int] /\ t.color \in [Ptr -> {"RED", "BLACK"}] /\ t.root \in Link
  BY DEF Tree
<1>2. r = [root |-> t.root, parent |-> t.parent, left |-> t.left, right |-> t.right, key |-> t.key, color |-> col]
  BY DEF Tree
<1>3. col \in [Ptr -> {"RED", "BLACK"}] /\ \A y \in Ptr : col[y] = IF y = x THEN c ELSE t.color[y]
  BY <1>1
<1> HIDE DEF r, col
<1>4. r \in Tree
  BY <1>1, <1>2, <1>3 DEF Tree
<1>5. /\ r.root = t.root /\ r.parent = t.parent /\ r.left = t.left /\ r.right = t.right /\ r.key = t.key
      /\ r.color = col
  BY <1>2
<1> QED
  BY <1>3, <1>4, <1>5 DEF Painted, SameShape, r

(* A red sibling: the parent goes down with nothing on one side and a black node on the other.  *)
LEMMA RedSiblingSpoils ==
  ASSUME NEW t, NEW root, NEW B, NEW H, NEW p, NEW s, Hole(t, root, B, H, p, s),
         NEW sib, NEW nc, NEW nw, HoleKin(t, root, B, H, p, s, sib, nc, nw), t.color[sib] = "RED",
         NEW g, NEW r, Spun(t, root, B, p, s, sib, nc, g, r), \A y \in B[root] : y # p /\ y # sib => r.color[y] = t.color[y]
  PROVE  Spoilt(r, B[root])
<1> DEFINE top == TurnedRoot(root, p, sib)
           E == TurnedBelow(t, B, p, s, sib, nc)
<1>1. Shaped(r, top, E) /\ E[top] = B[root] /\ ChildrenTurned(t, r, B[root], p, s, sib, nc)
  BY DEF Spun
<1>2. p \in B[root] /\ s \in Sides /\ t[s][p] = NILNODE /\ Shaped(t, root, B) /\ Other(s) \in Sides
  BY SidesFacts DEF Hole
<1>3. /\ Weight(t, H, nc) = 1 /\ nc \in B[root] \cup {NILNODE} /\ nc # p /\ nc # sib
      /\ nc # NILNODE => t.color[nc] = "BLACK"
  BY DEF HoleKin, HoleKid
<1>4. nc # NILNODE
  BY <1>3 DEF Weight
<1>5. r.color[nc] = "BLACK" /\ nc \in B[root]
  BY <1>3, <1>4
<1>6. r[s][p] = NILNODE /\ r[Other(s)][p] = nc
  BY <1>1, <1>2 DEF ChildrenTurned
<1> HIDE DEF E, top
<1>7. p \in E[p] /\ nc \in E[p]
  <2>1. p \in E[top]
    BY <1>1, <1>2
  <2>2. p \in E[p] /\ E[r[Other(s)][p]] \subseteq E[p] /\ (r[Other(s)][p] # NILNODE => r[Other(s)][p] \in E[r[Other(s)][p]])
    BY <1>1, <1>2, <2>1, ShapedSides
  <2> QED
    BY <1>4, <1>6, <2>2
<1>8. ASSUME NEW G, Tall(r, G, E[p])
      PROVE  FALSE
  <2>1. G[p] = Weight(r, G, NILNODE) /\ G[p] = Weight(r, G, nc)
    BY <1>2, <1>6, <1>7, <1>8 DEF Tall
  <2>2. G[nc] \in Nat
    BY <1>7, <1>8 DEF Tall
  <2>3. Weight(r, G, nc) = G[nc] + 1 /\ Weight(r, G, NILNODE) = 0
    BY <1>4, <1>5 DEF Weight
  <2>4. 0 = G[nc] + 1
    BY <2>1, <2>3
  <2> QED
    BY <2>2, <2>4
<1>9. Lopsided(r, E, p)
  BY <1>8 DEF Lopsided
<1> QED
  BY <1>1, <1>2, <1>9 DEF Spoilt

(* All black: the sibling turns red, and below the parent all is even, one less than before.      *)
LEMMA SiblingReddened ==
  ASSUME NEW t, NEW root, NEW B, NEW H, NEW p, NEW s, Hole(t, root, B, H, p, s), t.color[p] = "BLACK",
         NEW sib, HoleKin(t, root, B, H, p, s, sib, NILNODE, NILNODE), t.color[sib] = "BLACK",
         NEW r, Painted(t, r, sib, "RED")
  PROVE  /\ p = root => Mended(r, root, B[root])
         /\ p # root => Drift(r, root, B, t.parent[p])
<1> DEFINE U == B[root]
<1>1. /\ Shaped(t, root, B) /\ p \in U /\ s \in Sides /\ t[s][p] = NILNODE
      /\ Tall(t, H, U \ {p}) /\ H[p] = 1 /\ Mild(t, root, U)
      /\ t.color[root] = "BLACK" /\ t.color[NILNODE] = "BLACK" /\ t \in Tree /\ U \subseteq Node /\ root \in U
      /\ Other(s) \in Sides /\ \A e \in Sides : e = s \/ e = Other(s)
  BY SidesFacts DEF Hole, Shaped
<1>2. \A y \in U : y \in Ptr /\ y # NILNODE /\ y # Null /\ t.color[y] \in {"RED", "BLACK"}
  BY <1>1, AddressAssumption DEF Tree, Ptr
<1>3. /\ sib \in U /\ t.parent[sib] = p /\ sib # p /\ sib # root /\ H[sib] = 0 /\ sib = t[Other(s)][p]
      /\ t[s][sib] = NILNODE /\ t[Other(s)][sib] = NILNODE /\ p \notin B[sib] /\ B[sib] \subseteq B[p]
  BY DEF HoleKin
<1>4. Shaped(r, root, B) /\ \A e \in Sides : r[e] = t[e]
  BY <1>1, SameShapeFacts DEF Painted
<1>5. /\ r.parent = t.parent /\ r.color[NILNODE] = "BLACK"
      /\ \A y \in U : r.color[y] = IF y = sib THEN "RED" ELSE t.color[y]
  <2>1. NILNODE \in Ptr /\ NILNODE # sib
    BY <1>2, <1>3 DEF Ptr
  <2> QED
    BY <1>1, <1>2, <2>1 DEF Painted, SameShape
<1>6. ASSUME p = root
      PROVE  Mended(r, root, U)
  <2> DEFINE G == [y \in U |-> IF y = p THEN 0 ELSE H[y]]
  <2>1. \A y \in U : G[y] = IF y = p THEN 0 ELSE H[y]
    OBVIOUS
  <2> HIDE DEF G
  <2>2. Weight(r, G, NILNODE) = 0
    BY DEF Weight
  <2>3. Weight(r, G, sib) = 0
    BY <1>2, <1>3, <1>5, <2>1 DEF Weight
  <2>4. ASSUME NEW y \in U, NEW e \in Sides
        PROVE  G[y] \in Nat /\ G[y] = Weight(r, G, r[e][y])
    <3>1. r[e][y] = t[e][y]
      BY <1>4
    <3>2. CASE y = p
      BY <1>1, <1>3, <2>1, <2>2, <2>3, <3>1, <3>2
    <3>3. CASE y # p
      <4> DEFINE z == t[e][y]
      <4>1. H[y] \in Nat /\ H[y] = Weight(t, H, z) /\ G[y] = H[y]
        BY <1>1, <2>1, <3>3 DEF Tall
      <4>2. z # NILNODE => z \in U /\ t.parent[z] = y
        BY <1>1, ShapedSides
      <4>3. z # NILNODE => z # p /\ z # sib
        BY <1>1, <1>2, <1>3, <1>6, <3>3, <4>2 DEF Shaped
      <4> HIDE DEF z
      <4>4. z # NILNODE => G[z] = H[z] /\ r.color[z] = t.color[z]
        BY <1>5, <2>1, <4>2, <4>3
      <4>5. Weight(r, G, z) = Weight(t, H, z)
        BY <4>4 DEF Weight
      <4> QED
        BY <3>1, <4>1, <4>5 DEF z
    <3> QED
      BY <3>2, <3>3
  <2>5. Tall(r, G, U)
    BY <1>1, <2>4 DEF Tall
  <2>6. Mild(r, root, U)
    <3> SUFFICES ASSUME NEW y \in U, y # root, r.color[y] # "BLACK"
                 PROVE  r.color[r.parent[y]] = "BLACK"
      BY DEF Mild
    <3>1. CASE y = sib
      BY <1>1, <1>3, <1>5, <1>6, <3>1
    <3>2. CASE y # sib
      <4>1. t.color[t.parent[y]] = "BLACK" /\ t.parent[y] \in U /\ \E e \in Sides : y = t[e][t.parent[y]]
        BY <1>1, <1>5, <3>2, ShapedParent DEF Mild
      <4>2. t.parent[y] # sib
        BY <1>1, <1>2, <1>3, <4>1
      <4> QED
        BY <1>5, <4>1, <4>2
    <3> QED
      BY <3>1, <3>2
  <2>7. r.color[root] = "BLACK"
    BY <1>1, <1>3, <1>5
  <2> QED
    BY <1>4, <1>5, <2>5, <2>6, <2>7 DEF Mended
<1>7. ASSUME p # root
      PROVE  Drift(r, root, B, t.parent[p])
  <2> DEFINE g == t.parent[p]
  <2>1. /\ g \in U /\ p \in B[g] /\ g \notin B[p] /\ g # p /\ \E e \in Sides : p = t[e][g]
    BY <1>1, <1>7, ShapedParent
  <2>2. PICK e \in Sides : p = t[e][g]
    BY <2>1
  <2> HIDE DEF g
  <2> DEFINE w == t[Other(e)][g]
  <2>3. Other(e) \in Sides
    BY SidesFacts
  <2>4. /\ H[g] \in Nat /\ H[g] = Weight(t, H, p) /\ H[g] = Weight(t, H, w)
    BY <1>1, <2>1, <2>2, <2>3 DEF Tall
  <2>5. H[g] = 2
    BY <1>1, <1>2, <2>4 DEF Weight
  <2>6. w # NILNODE
    BY <2>4, <2>5 DEF Weight
  <2>7. w \in U /\ w \in B[w] /\ B[w] \subseteq U /\ B[w] \subseteq B[g] /\ g \notin B[w]
    BY <1>1, <2>1, <2>3, <2>6, ShapedSides
  <2>8. g \in B[g] /\ B[g] \subseteq U
    BY <1>1, <2>1, <2>3, ShapedSides
  <2>9. p \notin B[w] /\ sib \notin B[w]
    <3>1. \A y \in B[p] : y \notin B[w]
      BY <1>1, <2>1, <2>2, ShapedApart
    <3>2. p \in B[p] /\ sib \in B[sib]
      BY <1>1, <1>3, ShapedSides
    <3> QED
      BY <1>3, <3>1, <3>2
  <2> HIDE DEF w
  <2>10. ASSUME NEW y \in B[w], NEW d \in Sides
         PROVE  H[y] \in Nat /\ H[y] = Weight(r, H, r[d][y])
    <3>1. y \in U /\ y # p /\ r[d][y] = t[d][y]
      BY <1>4, <2>7, <2>9
    <3>2. H[y] \in Nat /\ H[y] = Weight(t, H, t[d][y])
      BY <1>1, <3>1 DEF Tall
    <3>3. B[t[d][y]] \subseteq B[y] /\ (t[d][y] # NILNODE => t[d][y] \in B[t[d][y]] /\ t[d][y] \in U)
      BY <1>1, <3>1, ShapedSides
    <3>4. B[y] \subseteq B[w]
      BY <1>1, <2>7, ShapedBelow
    <3>5. t[d][y] # NILNODE => t[d][y] # sib
      BY <2>9, <3>3, <3>4
    <3>6. Weight(r, H, t[d][y]) = Weight(t, H, t[d][y])
      BY <1>5, <3>3, <3>5 DEF Weight
    <3> QED
      BY <3>1, <3>2, <3>6
  <2>11. Tall(r, H, B[w])
    BY <2>10 DEF Tall
  <2>12. ASSUME NEW G, Tall(r, G, B[g])
         PROVE  FALSE
    <3>1. /\ G[g] = Weight(r, G, r[e][g]) /\ G[g] = Weight(r, G, r[Other(e)][g])
      BY <2>3, <2>8, <2>12 DEF Tall
    <3>2. r[e][g] = p /\ r[Other(e)][g] = w
      BY <1>4, <2>2, <2>3 DEF w
    <3>3. Tall(r, G, B[w])
      BY <2>7, <2>12 DEF Tall
    <3>4. G[w] = H[w]
      BY <1>4, <2>7, <2>11, <3>3, HeightIsOne
    <3>5. r.color[w] = t.color[w]
      BY <1>5, <2>7, <2>9
    <3>6. Weight(r, G, w) = 2
      BY <2>4, <2>5, <2>6, <3>4, <3>5 DEF Weight
    <3>7. G[p] = 0
      <4>1. G[p] = Weight(r, G, r[s][p]) /\ r[s][p] = NILNODE
        BY <1>1, <1>4, <2>1, <2>12 DEF Tall
      <4> QED
        BY <4>1 DEF Weight
    <3>8. Weight(r, G, p) = 1
      <4>1. r.color[p] = "BLACK" /\ p # NILNODE
        BY <1>1, <1>2, <1>3, <1>5
      <4> QED
        BY <3>7, <4>1 DEF Weight
    <3>9. G[g] = Weight(r, G, p) /\ G[g] = Weight(r, G, w)
      BY <3>1, <3>2
    <3>10. G[g] = 1 /\ G[g] = 2
      BY <3>6, <3>8, <3>9
    <3> QED
      BY <3>10
  <2>13. Lopsided(r, B, g)
    BY <2>12 DEF Lopsided
  <2>14. ASSUME NEW y \in U \ B[g], NEW d \in Sides
         PROVE  H[y] \in Nat /\ H[y] = Weight(r, H, r[d][y])
    <3>1. y \in U /\ y # p /\ r[d][y] = t[d][y]
      BY <1>4, <2>1
    <3>2. H[y] \in Nat /\ H[y] = Weight(t, H, t[d][y])
      BY <1>1, <3>1 DEF Tall
    <3>3. t[d][y] # NILNODE => t.parent[t[d][y]] = y /\ t[d][y] \in U
      BY <1>1, <3>1, ShapedSides
    <3>4. t[d][y] # NILNODE => t[d][y] # sib
      BY <1>3, <3>1, <3>3
    <3>5. Weight(r, H, t[d][y]) = Weight(t, H, t[d][y])
      BY <1>5, <3>3, <3>4 DEF Weight
    <3> QED
      BY <3>1, <3>2, <3>5
  <2>15. Tall(r, H, U \ B[g])
    BY <2>14 DEF Tall
  <2>16. Drift(r, root, B, g)
    BY <1>4, <2>1, <2>5, <2>8, <2>13, <2>15 DEF Drift
  <2> QED
    BY <2>16 DEF g
<1> QED
  BY <1>6, <1>7

-----------------------------------------------------------------------------
(* The loop of rbt_del_fix.                                               *)

(* Colours do not change the shape.                                                    *)
LEMMA ColorsFields ==
  ASSUME NEW t \in Tree, NEW col \in [Ptr -> {"RED", "BLACK"}]
  PROVE  /\ SameShape(t, [t EXCEPT !.color = col]) /\ [t EXCEPT !.color = col].root = t.root
         /\ [t EXCEPT !.color = col].color = col
<1> DEFINE r == [t EXCEPT !.color = col]
<1>1. /\ t.parent \in [Ptr -> Link] /\ t.left \in [Ptr -> Link] /\ t.right \in [Ptr -> Link]
      /\ t.key \in [Ptr -> Int] /\ t.root \in Link
  BY DEF Tree
<1>2. r = [root |-> t.root, parent |-> t.parent, left |-> t.left, right |-> t.right, key |-> t.key, color |-> col]
  BY DEF Tree
<1> HIDE DEF r
<1>3. r \in Tree
  BY <1>1, <1>2 DEF Tree
<1>4. /\ r.root = t.root /\ r.parent = t.parent /\ r.left = t.left /\ r.right = t.right /\ r.key = t.key
      /\ r.color = col
  BY <1>2
<1> QED
  BY <1>3, <1>4 DEF SameShape, r

(* The turns of rbt_del_fix.                                                              *)
DelStop(t, x) == IS_NULL(t.parent[x]) \/ t.color[x] = "RED"

(* Where the loop ends with a rotation.                                                *)
DelTurns(t, x) ==
  \/ t.color[t.parent[x]] = "RED" \/ t.color[sibling_of(t, x)] = "RED"
  \/ ~ is_black(t, nephew_of(t, x)) \/ ~ is_black(t, neice_of(t, x))

DelUp(t, x) == [t EXCEPT !.color[sibling_of(t, x)] = "RED"]

DelDone(u, x) == [u EXCEPT !.color[x] = "BLACK", !.root = IF IS_NULL(u.parent[x]) THEN x ELSE @]

DelTurned(t, x) == Repaired(t, x, sibling_of(t, x), neice_of(t, x), nephew_of(t, x), Dir1(t, x))

(* rbt_del_fix is a loop.                                                              *)
LEMMA DelFixLoops ==
  ASSUME NEW t0 \in Tree, NEW node \in Ptr
  PROVE  \E f : /\ \A t \in Tree, x \in Ptr :
                     f[[tree |-> t, at |-> x]] =
                       IF DelStop(t, x) THEN DelDone(t, x)
                       ELSE IF DelTurns(t, x) THEN DelDone(DelTurned(t, x), x)
                       ELSE IF IS_NULL(t.parent[t.parent[x]]) THEN DelUp(t, x)
                       ELSE f[[tree |-> DelUp(t, x), at |-> t.parent[t.parent[x]]]]
                /\ rbt_del_fix(t0, node) = f[[tree |-> t0, at |-> node]]
<1> DEFINE D == [tree : Tree, at : Ptr]
           Ends(s) == DelStop(s.tree, s.at) \/ DelTurns(s.tree, s.at) \/ IS_NULL(s.tree.parent[s.tree.parent[s.at]])
           end(s) == IF DelStop(s.tree, s.at) THEN DelDone(s.tree, s.at)
                     ELSE IF DelTurns(s.tree, s.at) THEN DelDone(DelTurned(s.tree, s.at), s.at)
                     ELSE DelUp(s.tree, s.at)
           on(s) == [tree |-> DelUp(s.tree, s.at), at |-> s.tree.parent[s.tree.parent[s.at]]]
           Turns(f) == f = [s \in D |->
                              IF DelStop(s.tree, s.at) THEN DelDone(s.tree, s.at)
                              ELSE IF DelTurns(s.tree, s.at) THEN DelDone(DelTurned(s.tree, s.at), s.at)
                              ELSE IF IS_NULL(s.tree.parent[s.tree.parent[s.at]]) THEN DelUp(s.tree, s.at)
                              ELSE f[on(s)]]
           fix == CHOOSE f : Turns(f)
           Stop == {s \in D : Ends(s)}
           v == [s \in D |-> end(s)]
           nx == [s \in D |-> on(s)]
<1>1. \A s \in D : s \notin Stop => nx[s] \in D
  <2> SUFFICES ASSUME NEW s \in D, ~ Ends(s)
               PROVE  on(s) \in D
    OBVIOUS
  <2> DEFINE t == s.tree
             x == s.at
             p == t.parent[x]
             g == t.parent[p]
  <2>1. /\ t \in Tree /\ x \in Ptr /\ ~ DelStop(t, x) /\ ~ IS_NULL(g)
        /\ t.parent \in [Ptr -> Link] /\ t.color \in [Ptr -> {"RED", "BLACK"}]
    BY DEF Tree
  <2> HIDE DEF t, x
  <2>2. p \in Ptr
    BY <2>1 DEF DelStop, IS_NULL, Ptr, Link
  <2>3. g \in Ptr
    BY <2>1, <2>2 DEF Link, Ptr, IS_NULL
  <2> DEFINE col == [t.color EXCEPT ![sibling_of(t, x)] = "RED"]
  <2>4. col \in [Ptr -> {"RED", "BLACK"}]
    BY <2>1
  <2>5. DelUp(t, x) = [t EXCEPT !.color = col]
    BY <2>1 DEF DelUp, Tree
  <2>6. DelUp(t, x) \in Tree
    <3> HIDE DEF col
    <3> QED
      BY <2>1, <2>4, <2>5, ColorsFields DEF SameShape
  <2> QED
    BY <2>3, <2>6 DEF t, x
<1>2. PICK f : Loops(D, Stop, nx, v, f)
  <2> HIDE DEF D, Stop, nx, v
  <2> QED
    BY <1>1, LoopsExist
<1>3. f = [s \in D |-> IF s \in Stop THEN v[s] ELSE f[nx[s]]]
  BY <1>2 DEF Loops
<1>4. \A s \in D : (IF s \in Stop THEN v[s] ELSE f[nx[s]])
                     = IF DelStop(s.tree, s.at) THEN DelDone(s.tree, s.at)
                       ELSE IF DelTurns(s.tree, s.at) THEN DelDone(DelTurned(s.tree, s.at), s.at)
                       ELSE IF IS_NULL(s.tree.parent[s.tree.parent[s.at]]) THEN DelUp(s.tree, s.at)
                       ELSE f[on(s)]
  <2> HIDE DEF on, D
  <2> QED
    OBVIOUS
<1>5. Turns(f)
  <2> HIDE DEF Stop, nx, v, D, on
  <2> QED
    BY <1>3, <1>4
<1>6. Turns(fix)
  <2> HIDE DEF Turns
  <2> QED
    BY <1>5
<1>7. rbt_del_fix(t0, node) = fix[[tree |-> t0, at |-> node]]
  BY DEF rbt_del_fix, DelStop, DelDone, DelTurns, DelTurned, DelUp
<1> HIDE DEF fix
<1>8. ASSUME NEW t \in Tree, NEW x \in Ptr
      PROVE  fix[[tree |-> t, at |-> x]] =
               IF DelStop(t, x) THEN DelDone(t, x)
               ELSE IF DelTurns(t, x) THEN DelDone(DelTurned(t, x), x)
               ELSE IF IS_NULL(t.parent[t.parent[x]]) THEN DelUp(t, x)
               ELSE fix[[tree |-> DelUp(t, x), at |-> t.parent[t.parent[x]]]]
  <2> DEFINE s == [tree |-> t, at |-> x]
  <2>1. s \in D /\ s.tree = t /\ s.at = x
    OBVIOUS
  <2>2. on(s) = [tree |-> DelUp(t, x), at |-> t.parent[t.parent[x]]]
    BY <2>1
  <2> HIDE DEF s, D, on
  <2>3. fix[s] = IF DelStop(t, x) THEN DelDone(t, x)
                 ELSE IF DelTurns(t, x) THEN DelDone(DelTurned(t, x), x)
                 ELSE IF IS_NULL(t.parent[t.parent[x]]) THEN DelUp(t, x)
                 ELSE fix[on(s)]
    BY <1>6, <2>1
  <2> QED
    BY <2>2, <2>3 DEF s
<1> QED
  BY <1>7, <1>8

(* The last writes of a turn that ends the loop.                                            *)
LEMMA DoneFields ==
  ASSUME NEW u \in Tree, NEW x \in Ptr, NEW r, r = DelDone(u, x)
  PROVE  /\ SameShape(u, r) /\ \A y \in Ptr : r.color[y] = IF y = x THEN "BLACK" ELSE u.color[y]
         /\ r.root = IF IS_NULL(u.parent[x]) THEN x ELSE u.root
<1> DEFINE col == [u.color EXCEPT ![x] = "BLACK"]
           top == IF IS_NULL(u.parent[x]) THEN x ELSE u.root
<1>1. /\ u.parent \in [Ptr -> Link] /\ u.left \in [Ptr -> Link] /\ u.right \in [Ptr -> Link]
      /\ u.key \in [Ptr -> Int] /\ u.color \in [Ptr -> {"RED", "BLACK"}] /\ u.root \in Link /\ x \in Link
  BY DEF Tree, Link
<1>2. r = [[u EXCEPT !.color = col] EXCEPT !.root = top]
  BY DEF DelDone, Tree
<1>3. col \in [Ptr -> {"RED", "BLACK"}] /\ \A y \in Ptr : col[y] = IF y = x THEN "BLACK" ELSE u.color[y]
  BY <1>1
<1>4. top \in Link
  BY <1>1
<1> HIDE DEF col, top
<1>5. r = [root |-> top, parent |-> u.parent, left |-> u.left, right |-> u.right, key |-> u.key, color |-> col]
  BY <1>2 DEF Tree
<1>6. r \in Tree
  BY <1>1, <1>3, <1>4, <1>5 DEF Tree
<1>7. /\ r.root = top /\ r.parent = u.parent /\ r.left = u.left /\ r.right = u.right /\ r.key = u.key /\ r.color = col
  BY <1>5
<1> QED
  BY <1>3, <1>6, <1>7 DEF SameShape, top

(* The double rotation, by way of sbt_rotate or not.                                        *)
LEMMA NieceTwice ==
  ASSUME NEW t, NEW root, NEW B, Shaped(t, root, B), NEW p \in B[root], NEW s \in Sides,
         NEW sib, sib = t[Other(s)][p], NEW nc, NEW b, Pivot(t, B[root], sib, Other(s), nc, b, p),
         NEW q, Spun(t, root, B, sib, Other(s), nc, b, p, q), q = Rotate(t, sib, Other(s))
  PROVE  sbt_rotate(t, nc).tree = Rotate(q, p, s)
<1> DEFINE o == Other(s)
           U == B[root]
<1>1. o \in Sides /\ Other(o) = s /\ s # o
  BY SidesFacts
<1>2. /\ PivotHas(t, root, B, sib, o, nc, b, p) /\ ParentsTurned(t, q, U, root, sib, o, nc, b, p)
      /\ ChildrenTurned(t, q, U, sib, o, nc, b)
  BY DEF Spun
<1>3. /\ sib \in U /\ sib # root /\ nc = t[s][sib] /\ nc # NILNODE /\ nc \in U /\ t.parent[nc] = sib /\ t.parent[sib] = p
      /\ nc # sib /\ nc # root /\ nc # p /\ sib # p
  <2>1. sib \in U /\ nc = t[s][sib] /\ nc # NILNODE /\ nc \in U /\ t.parent[nc] = sib /\ t.parent[sib] = p /\ nc # root
        /\ nc # sib /\ nc # p /\ sib # p
    BY <1>1, <1>2 DEF PivotHas, Pivot
  <2>2. sib # root
    <3>1. U \subseteq Node /\ t.parent[root] = Null
      BY DEF Shaped
    <3> QED
      BY <2>1, <3>1, AddressAssumption
  <2> QED
    BY <2>1, <2>2
<1>4. Dir1(t, sib) = o
  BY <1>1, <1>3, SideTells
<1>5. Dir1(t, nc) = s
  BY <1>1, <1>3, SideTells
<1>6. ~ IS_NULL(t.parent[nc]) /\ ~ IS_NULL(grandparent_of(t, nc))
  <2>1. U \subseteq Node
    BY DEF Shaped
  <2> QED
    BY <1>3, <2>1, AddressAssumption DEF IS_NULL, grandparent_of
<1>7. get_dir(t, nc) = <<o, s>>
  BY <1>3, <1>4, <1>5, <1>6 DEF get_dir
<1>8. sbt_rotate(t, nc) = Inner(Rotate(t, t.parent[nc], o), nc, o)
  <2> DEFINE dir == get_dir(t, nc)
  <2>1. dir # <<>> /\ dir[1] = o /\ dir[2] = s
    BY <1>7
  <2> HIDE DEF dir
  <2>2. ~ (dir = <<>>) /\ ~ (dir # <<>> /\ dir[1] = dir[2])
    BY <1>1, <2>1
  <2>3. sbt_rotate(t, nc) = CASE dir = <<>> -> WithTop(t, nc)
                              [] dir # <<>> /\ dir[1] = dir[2] -> Outer(t, nc, dir[1])
                              [] OTHER -> Inner(Rotate(t, t.parent[nc], dir[1]), nc, dir[1])
    BY DEF sbt_rotate, dir
  <2>4. sbt_rotate(t, nc) = Inner(Rotate(t, t.parent[nc], dir[1]), nc, dir[1])
    BY <2>2, <2>3
  <2> QED
    BY <2>1, <2>4
<1>9. sbt_rotate(t, nc) = Inner(q, nc, o)
  BY <1>3, <1>8
<1>10. q[o][nc] = sib
  BY <1>1, <1>2 DEF ChildrenTurned
<1>11. q.parent[sib] = nc /\ q.parent[nc] = p
  BY <1>2, <1>3 DEF ParentsTurned
<1>12. Inner(q, nc, o) = WithTop(Rotate(q, p, s), sib)
  BY <1>1, <1>10, <1>11 DEF Inner, Outer, grandparent_of
<1> QED
  BY <1>9, <1>12 DEF WithTop

(* What the repair writes, case by case.                                                   *)
LEMMA RepairedIs ==
  ASSUME NEW t, NEW x, NEW sib, NEW nc, NEW nw, NEW s, NEW p, p = t.parent[x],
         NEW q, q = Rotate(Rotate(t, sib, Other(s)), p, s)
  PROVE  /\ t.color[p] = "RED" /\ is_black(t, nc) => Repaired(t, x, sib, nc, nw, s) = Rotate(t, p, s)
         /\ t.color[p] = "RED" /\ ~ is_black(t, nc) =>
              Repaired(t, x, sib, nc, nw, s) = [q EXCEPT !.color[q.parent[x]] = "BLACK"]
         /\ t.color[p] = "BLACK" /\ t.color[sib] = "RED" =>
              Repaired(t, x, sib, nc, nw, s)
                = [Rotate(t, p, s) EXCEPT !.color = [@ EXCEPT ![p] = "RED", ![sib] = "BLACK"]]
         /\ t.color[p] = "BLACK" /\ t.color[sib] = "BLACK" /\ ~ is_black(t, nw) =>
              Repaired(t, x, sib, nc, nw, s) = [Rotate(t, p, s) EXCEPT !.color[nw] = "BLACK"]
         /\ t.color[p] = "BLACK" /\ t.color[sib] = "BLACK" /\ is_black(t, nw) =>
              Repaired(t, x, sib, nc, nw, s) = [sbt_rotate(t, nc).tree EXCEPT !.color[nc] = "BLACK"]
<1>1. is_black(t, nc) => Repaired(t, x, sib, nc, nw, s) =
        CASE t.color[p] = "RED" -> Rotate(t, p, s)
          [] t.color[p] = "BLACK" /\ t.color[sib] = "RED" ->
               [Rotate(t, p, s) EXCEPT !.color = [@ EXCEPT ![p] = "RED", ![sib] = "BLACK"]]
          [] t.color[p] = "BLACK" /\ t.color[sib] = "BLACK" /\ ~ is_black(t, nw) ->
               [Rotate(t, p, s) EXCEPT !.color[nw] = "BLACK"]
          [] OTHER -> [sbt_rotate(t, nc).tree EXCEPT !.color[nc] = "BLACK"]
  BY DEF Repaired
<1>2. ~ is_black(t, nc) => Repaired(t, x, sib, nc, nw, s) =
        CASE t.color[p] = "RED" -> [q EXCEPT !.color[q.parent[x]] = "BLACK"]
          [] t.color[p] = "BLACK" /\ t.color[sib] = "RED" ->
               [Rotate(t, p, s) EXCEPT !.color = [@ EXCEPT ![p] = "RED", ![sib] = "BLACK"]]
          [] t.color[p] = "BLACK" /\ t.color[sib] = "BLACK" /\ ~ is_black(t, nw) ->
               [Rotate(t, p, s) EXCEPT !.color[nw] = "BLACK"]
          [] OTHER -> [sbt_rotate(t, nc).tree EXCEPT !.color[nc] = "BLACK"]
  BY DEF Repaired
<1> DEFINE A == Repaired(t, x, sib, nc, nw, s)
           R1 == [q EXCEPT !.color[q.parent[x]] = "BLACK"]
           R2 == [Rotate(t, p, s) EXCEPT !.color = [@ EXCEPT ![p] = "RED", ![sib] = "BLACK"]]
           R3 == [Rotate(t, p, s) EXCEPT !.color[nw] = "BLACK"]
           R4 == [sbt_rotate(t, nc).tree EXCEPT !.color[nc] = "BLACK"]
           R5 == Rotate(t, p, s)
           cp == t.color[p]
           cs == t.color[sib]
           bw == is_black(t, nw)
           bc == is_black(t, nc)
<1>3. bc => A = CASE cp = "RED" -> R5 [] cp = "BLACK" /\ cs = "RED" -> R2
                  [] cp = "BLACK" /\ cs = "BLACK" /\ ~ bw -> R3 [] OTHER -> R4
  BY <1>1
<1>4. ~ bc => A = CASE cp = "RED" -> R1 [] cp = "BLACK" /\ cs = "RED" -> R2
                    [] cp = "BLACK" /\ cs = "BLACK" /\ ~ bw -> R3 [] OTHER -> R4
  BY <1>2
<1> HIDE DEF A, R1, R2, R3, R4, R5, cp, cs, bw, bc
<1>5. /\ cp = "RED" /\ bc => A = R5
      /\ cp = "RED" /\ ~ bc => A = R1
      /\ cp = "BLACK" /\ cs = "RED" => A = R2
      /\ cp = "BLACK" /\ cs = "BLACK" /\ ~ bw => A = R3
      /\ cp = "BLACK" /\ cs = "BLACK" /\ bw => A = R4
  BY <1>3, <1>4
<1> QED
  BY <1>5 DEF A, R1, R2, R3, R4, R5, cp, cs, bw, bc

(* What the repair after a black leaf was taken decides by.                                  *)
HoleChoice(t, root, p, sib, nc, nw) ==
  /\ ~ DelStop(t, NILNODE)
  /\ DelTurns(t, NILNODE) <=> \/ t.color[p] = "RED" \/ t.color[sib] = "RED"
                              \/ ~ is_black(t, nw) \/ ~ is_black(t, nc)
  /\ LosesColors(t, NILNODE) <=> /\ t.color[p] = "BLACK"
                                 /\ t.color[sib] = "RED" \/ (is_black(t, nc) /\ is_black(t, nw) /\ p # root)
  /\ LosesRoot(t, NILNODE) <=> /\ t.color[p] = "BLACK" /\ p = root
                               /\ t.color[sib] = "RED" \/ ~ is_black(t, nc) \/ ~ is_black(t, nw)
  /\ IS_NULL(t.parent[p]) <=> p = root
  /\ t.color[sib] = "BLACK" => (is_black(t, nc) <=> nc = NILNODE) /\ (is_black(t, nw) <=> nw = NILNODE)
  /\ t.color[p] = "RED" => t.color[sib] = "BLACK" /\ p # root
  /\ t.color[p] \in {"RED", "BLACK"} /\ t.color[sib] \in {"RED", "BLACK"}

LEMMA HoleChooses ==
  ASSUME NEW t, NEW root, NEW B, NEW H, NEW p, NEW s, Hole(t, root, B, H, p, s),
         NEW sib, NEW nc, NEW nw, HoleKin(t, root, B, H, p, s, sib, nc, nw)
  PROVE  HoleChoice(t, root, p, sib, nc, nw)
<1> DEFINE U == B[root]
<1>1. /\ Shaped(t, root, B) /\ p \in U /\ s \in Sides /\ t.parent[NILNODE] = p /\ Mild(t, root, U)
      /\ t.color[root] = "BLACK" /\ t.color[NILNODE] = "BLACK" /\ t \in Tree /\ U \subseteq Node /\ t.parent[root] = Null
  BY DEF Hole, Shaped
<1>2. \A y \in U : y \in Ptr /\ ~ IS_NULL(y) /\ y # NILNODE /\ t.color[y] \in {"RED", "BLACK"}
  BY <1>1, AddressAssumption DEF Tree, Ptr, IS_NULL
<1>3. /\ sibling_of(t, NILNODE) = sib /\ neice_of(t, NILNODE) = nc /\ nephew_of(t, NILNODE) = nw
      /\ sib \in U /\ t.parent[sib] = p /\ sib # root
  BY DEF HoleKin, Related
<1>4. /\ nc \in U \cup {NILNODE} /\ nw \in U \cup {NILNODE}
      /\ nc # NILNODE => (t.color[sib] = "BLACK" => t.color[nc] = "RED")
      /\ nw # NILNODE => (t.color[sib] = "BLACK" => t.color[nw] = "RED")
  BY DEF HoleKin, HoleKid
<1>5. is_black(t, NILNODE)
  BY DEF is_black, IS_NULL
<1>6. \A y \in U : is_black(t, y) <=> t.color[y] = "BLACK"
  BY <1>2 DEF is_black
<1>7. IS_NULL(t.parent[p]) <=> p = root
  <2>1. CASE p = root
    BY <1>1, <2>1 DEF IS_NULL
  <2>2. CASE p # root
    <3>1. t.parent[p] # Null /\ t.parent[p] # NILNODE
      BY <1>1, <2>2, ShapedParent
    <3> QED
      BY <2>2, <3>1 DEF IS_NULL
  <2> QED
    BY <2>1, <2>2
<1>8. t.color[sib] = "BLACK" => (is_black(t, nc) <=> nc = NILNODE) /\ (is_black(t, nw) <=> nw = NILNODE)
  BY <1>4, <1>5, <1>6
<1>9. ~ DelStop(t, NILNODE)
  BY <1>1, <1>2 DEF DelStop
<1>10. DelTurns(t, NILNODE) <=> \/ t.color[p] = "RED" \/ t.color[sib] = "RED"
                                \/ ~ is_black(t, nw) \/ ~ is_black(t, nc)
  BY <1>1, <1>3 DEF DelTurns
<1>11. AllBlack(t, NILNODE) <=> t.color[p] = "BLACK"
  BY <1>1, <1>2, <1>5, <1>6 DEF AllBlack
<1>12. \A P : P = t.parent[p] => P = t.parent[t.parent[NILNODE]]
  BY <1>1
<1>13. Kin(t, NILNODE) = {sib, nc, nw}
  BY <1>3 DEF Kin
<1>14. is_black(t, sib) <=> t.color[sib] = "BLACK"
  BY <1>3, <1>6
<1>15. t.color[p] \in {"RED", "BLACK"} /\ t.color[sib] \in {"RED", "BLACK"}
  BY <1>1, <1>2, <1>3
<1>16. LosesColors(t, NILNODE) <=> /\ t.color[p] = "BLACK"
                                   /\ t.color[sib] = "RED" \/ (is_black(t, nc) /\ is_black(t, nw) /\ p # root)
  BY <1>3, <1>7, <1>11, <1>12, <1>13, <1>14, <1>15 DEF LosesColors
<1>17. LosesRoot(t, NILNODE) <=> /\ t.color[p] = "BLACK" /\ p = root
                                 /\ t.color[sib] = "RED" \/ ~ is_black(t, nc) \/ ~ is_black(t, nw)
  BY <1>7, <1>11, <1>12, <1>13, <1>14, <1>15 DEF LosesRoot
<1>18. t.color[p] = "RED" => t.color[sib] = "BLACK" /\ p # root
  BY <1>1, <1>3 DEF Mild
<1> QED
  BY <1>7, <1>8, <1>9, <1>10, <1>15, <1>16, <1>17, <1>18 DEF HoleChoice

(* What the repair may end with, bad being the cases it gets wrong: as it should be, beyond         *)
(* repair, or with *root left behind.                                                    *)
Ended(t, r, root, U, bad) ==
  \/ ~ bad /\ r.root = t.root /\ Mended(r, root, U)
  \/ bad /\ Spoilt(r, U)
  \/ bad /\ r.root = t.root /\ \E top \in U \ {root} : Mended(r, top, U)

(* The last writes change nothing when it is NILNODE they are made to.                           *)
LEMMA DoneAtHole ==
  ASSUME NEW t, NEW u \in Tree, NEW p, ~ IS_NULL(p), u.parent[NILNODE] = p, u.color[NILNODE] = "BLACK",
         u.root = t.root, NEW r, r = DelDone(u, NILNODE)
  PROVE  SameShape(u, r) /\ r.root = t.root /\ \A y \in Ptr : r.color[y] = u.color[y]
<1>1. NILNODE \in Ptr
  BY DEF Ptr
<1>2. /\ SameShape(u, r) /\ \A y \in Ptr : r.color[y] = IF y = NILNODE THEN "BLACK" ELSE u.color[y]
      /\ r.root = IF IS_NULL(u.parent[NILNODE]) THEN NILNODE ELSE u.root
  BY <1>1, DoneFields
<1> QED
  BY <1>2

(* A rotation leaves the sentinel's parent alone.                                      *)
LEMMA TurnedSentinel ==
  ASSUME NEW t, NEW root, NEW B, NEW x, NEW side, NEW c, NEW b, NEW p, NEW r,
         Spun(t, root, B, x, side, c, b, p, r)
  PROVE  r \in Tree /\ r.parent[NILNODE] = t.parent[NILNODE]
<1>1. NILNODE \in Ptr
  BY DEF Ptr
<1>2. Turned(t, r, x, side, c, b, p) /\ x \in Node /\ c \in Node
  BY DEF Spun, PivotHas
<1> QED
  BY <1>1, <1>2, AddressAssumption DEF Turned

(* It is lost when the loop starts at the sentinel.                                    *)
Loses(t) == LosesColors(t, NILNODE) \/ LosesRoot(t, NILNODE)

(* A rotation mends it, but for *root.                                                    *)
LEMMA EndedBy ==
  ASSUME NEW t, NEW root, NEW U, NEW p, NEW sib, NEW nc, NEW nw, HoleChoice(t, root, p, sib, nc, nw),
         t.color[sib] = "BLACK", t.color[p] = "RED" \/ nc # NILNODE \/ nw # NILNODE,
         NEW c \in U, c # root, NEW r, r.root = t.root, Mended(r, TurnedRoot(root, p, c), U)
  PROVE  Ended(t, r, root, U, Loses(t))
<1>1. CASE p = root
  <2>1. t.color[p] = "BLACK" /\ LosesRoot(t, NILNODE)
    BY <1>1 DEF HoleChoice
  <2>2. TurnedRoot(root, p, c) = c
    BY <1>1 DEF TurnedRoot
  <2>3. Mended(r, c, U)
    BY <2>2
  <2> QED
    BY <2>1, <2>3 DEF Ended, Loses
<1>2. CASE p # root
  <2>1. ~ LosesRoot(t, NILNODE) /\ ~ LosesColors(t, NILNODE)
    BY <1>2 DEF HoleChoice
  <2>2. TurnedRoot(root, p, c) = root
    BY <1>2 DEF TurnedRoot
  <2>3. Mended(r, root, U)
    BY <2>2
  <2> QED
    BY <2>1, <2>3 DEF Ended, Loses
<1> QED
  BY <1>1, <1>2

(* The parent turns, alone.                                                              *)
LEMMA HoleTurns ==
  ASSUME NEW t, NEW root, NEW B, NEW H, NEW p, NEW s, Hole(t, root, B, H, p, s),
         NEW sib, NEW nc, NEW nw, HoleKin(t, root, B, H, p, s, sib, nc, nw),
         NEW q, q = Rotate(t, p, s), NEW g, g = t.parent[p],
         NEW u, SameShape(q, u), u.root = q.root, u.color[NILNODE] = "BLACK",
         NEW r, r = DelDone(u, NILNODE)
  PROVE  /\ Spun(t, root, B, p, s, sib, nc, g, r) /\ r.root = t.root /\ q.color = t.color
         /\ \A y \in Ptr : r.color[y] = u.color[y]
<1>1. /\ Shaped(t, root, B) /\ p \in B[root] /\ s \in Sides /\ t.parent[NILNODE] = p /\ B[root] \subseteq Node
  BY DEF Hole, Shaped
<1>2. sib = t[Other(s)][p] /\ nc = t[s][sib] /\ sib \in Node
  BY DEF HoleKin
<1>3. Pivot(t, B[root], p, s, sib, nc, g)
  BY <1>1, <1>2, AddressAssumption DEF Pivot
<1>4. Rotated(t, root, B, p, s, sib, nc, g, q)
  BY <1>1, <1>3, RotateSpins
<1>5. Spun(t, root, B, p, s, sib, nc, g, q) /\ q.color = t.color /\ q.root = t.root
  BY <1>4 DEF Rotated
<1>6. Spun(t, root, B, p, s, sib, nc, g, u)
  BY <1>1, <1>5, PaintedSpins
<1>7. u \in Tree /\ u.parent[NILNODE] = p
  BY <1>1, <1>6, TurnedSentinel
<1>8. ~ IS_NULL(p) /\ u.root = t.root
  BY <1>1, <1>5, AddressAssumption DEF IS_NULL
<1>9. SameShape(u, r) /\ r.root = t.root /\ \A y \in Ptr : r.color[y] = u.color[y]
  BY <1>7, <1>8, DoneAtHole
<1>10. Spun(t, root, B, p, s, sib, nc, g, r)
  BY <1>1, <1>6, <1>9, PaintedSpins
<1> QED
  BY <1>5, <1>9, <1>10

(* One rotation.                                                                       *)
LEMMA HoleOnce ==
  ASSUME NEW t, NEW root, NEW B, NEW H, NEW p, NEW s, Hole(t, root, B, H, p, s),
         NEW sib, NEW nc, NEW nw, HoleKin(t, root, B, H, p, s, sib, nc, nw), t.color[sib] = "BLACK",
         HoleChoice(t, root, p, sib, nc, nw),
         \/ t.color[p] = "RED" /\ nc = NILNODE
         \/ t.color[p] = "BLACK" /\ nw # NILNODE,
         NEW r, r = DelDone(Repaired(t, NILNODE, sib, nc, nw, s), NILNODE)
  PROVE  Ended(t, r, root, B[root], Loses(t))
<1> DEFINE q == Rotate(t, p, s)
           u == Repaired(t, NILNODE, sib, nc, nw, s)
           g == t.parent[p]
<1>1. /\ Shaped(t, root, B) /\ p \in B[root] /\ s \in Sides /\ t.parent[NILNODE] = p /\ B[root] \subseteq Node
      /\ t.color[NILNODE] = "BLACK" /\ t \in Tree
  BY DEF Hole, Shaped
<1>2. /\ sib = t[Other(s)][p] /\ nc = t[s][sib] /\ sib \in Node /\ sib \in B[root] /\ sib # root
      /\ nw \in B[root] \cup {NILNODE}
  BY DEF HoleKin, HoleKid
<1>3. Rotated(t, root, B, p, s, sib, nc, g, q)
  <2>1. Pivot(t, B[root], p, s, sib, nc, g)
    BY <1>1, <1>2, AddressAssumption DEF Pivot
  <2> HIDE DEF g
  <2> QED
    BY <1>1, <2>1, RotateSpins
<1>4. q \in Tree /\ q.color = t.color /\ q.root = t.root
  BY <1>3, TurnedSentinel DEF Rotated
<1>5. (nc = NILNODE <=> is_black(t, nc)) /\ (nw = NILNODE <=> is_black(t, nw))
  BY DEF HoleChoice
<1>6. nw \in Ptr /\ NILNODE \in Ptr
  BY <1>1, <1>2 DEF Ptr
<1>7. /\ SameShape(q, u) /\ u.root = q.root /\ u.color[NILNODE] = "BLACK"
      /\ \A y \in Ptr : y # nw => u.color[y] = t.color[y]
      /\ t.color[p] = "RED" => u.color[nw] = t.color[nw]
      /\ t.color[p] = "BLACK" => u.color[nw] = "BLACK"
  <2>1. CASE t.color[p] = "RED" /\ nc = NILNODE
    <3>1. u = q
      BY <1>1, <1>5, <2>1, RepairedIs
    <3> HIDE DEF u
    <3>2. SameShape(q, q)
      BY <1>4 DEF SameShape
    <3> QED
      BY <1>1, <1>4, <2>1, <3>1, <3>2
  <2>2. CASE t.color[p] = "BLACK" /\ nw # NILNODE
    <3>1. u = [q EXCEPT !.color[nw] = "BLACK"]
      BY <1>1, <1>5, <2>2, RepairedIs
    <3> HIDE DEF u, q
    <3>2. Painted(q, u, nw, "BLACK")
      BY <1>4, <1>6, <3>1, PaintFields
    <3> QED
      BY <1>1, <1>4, <1>6, <2>2, <3>2 DEF Painted
  <2> QED
    BY <2>1, <2>2
<1> HIDE DEF u, q, g
<1>8. r = DelDone(u, NILNODE)
  BY DEF u
<1>9. q = Rotate(t, p, s) /\ g = t.parent[p]
  BY DEF q, g
<1>10. /\ Spun(t, root, B, p, s, sib, nc, g, r) /\ r.root = t.root
       /\ \A y \in Ptr : r.color[y] = u.color[y]
  BY <1>7, <1>8, <1>9, HoleTurns
<1>11. OneTurn(t, r, p, sib, nc, nw)
  BY <1>6, <1>7, <1>10 DEF OneTurn
<1>12. Mended(r, TurnedRoot(root, p, sib), B[root])
  BY <1>10, <1>11, OnceMended
<1> QED
  BY <1>2, <1>10, <1>12, EndedBy

(* A red sibling.                                                                    *)
LEMMA HoleSpoils ==
  ASSUME NEW t, NEW root, NEW B, NEW H, NEW p, NEW s, Hole(t, root, B, H, p, s),
         NEW sib, NEW nc, NEW nw, HoleKin(t, root, B, H, p, s, sib, nc, nw),
         HoleChoice(t, root, p, sib, nc, nw), t.color[sib] = "RED",
         NEW r, r = DelDone(Repaired(t, NILNODE, sib, nc, nw, s), NILNODE)
  PROVE  Ended(t, r, root, B[root], Loses(t))
<1> DEFINE q == Rotate(t, p, s)
           u == Repaired(t, NILNODE, sib, nc, nw, s)
           g == t.parent[p]
<1>1. /\ Shaped(t, root, B) /\ p \in B[root] /\ s \in Sides /\ t.parent[NILNODE] = p /\ B[root] \subseteq Node
      /\ t.color[NILNODE] = "BLACK" /\ t \in Tree
  BY DEF Hole, Shaped
<1>2. /\ sib = t[Other(s)][p] /\ nc = t[s][sib] /\ sib \in Node /\ sib \in B[root] /\ sib # root
      /\ t.color[p] = "BLACK" /\ LosesColors(t, NILNODE)
  <2>1. t.color[p] = "BLACK" /\ LosesColors(t, NILNODE)
    BY DEF HoleChoice
  <2> QED
    BY <2>1 DEF HoleKin
<1>3. Rotated(t, root, B, p, s, sib, nc, g, q)
  <2>1. Pivot(t, B[root], p, s, sib, nc, g)
    BY <1>1, <1>2, AddressAssumption DEF Pivot
  <2> HIDE DEF g
  <2> QED
    BY <1>1, <2>1, RotateSpins
<1>4. q \in Tree /\ q.color = t.color /\ q.root = t.root
  BY <1>3, TurnedSentinel DEF Rotated
<1>5. p \in Ptr /\ sib \in Ptr /\ p # NILNODE /\ sib # NILNODE /\ NILNODE \in Ptr
  BY <1>1, <1>2, AddressAssumption DEF Ptr
<1>6. /\ SameShape(q, u) /\ u.root = q.root /\ u.color[NILNODE] = "BLACK"
      /\ \A y \in Ptr : y # p /\ y # sib => u.color[y] = t.color[y]
  <2> DEFINE col == [q.color EXCEPT ![p] = "RED", ![sib] = "BLACK"]
  <2>1. u = [q EXCEPT !.color = col]
    BY <1>1, <1>2, RepairedIs
  <2>2. t.color \in [Ptr -> {"RED", "BLACK"}]
    BY <1>1 DEF Tree
  <2>3. /\ col \in [Ptr -> {"RED", "BLACK"}]
        /\ \A y \in Ptr : y # p /\ y # sib => col[y] = t.color[y]
    BY <1>4, <1>5, <2>2
  <2> HIDE DEF col, u, q
  <2>4. SameShape(q, u) /\ u.root = q.root /\ u.color = col
    BY <1>4, <2>1, <2>3, ColorsFields
  <2> QED
    BY <1>1, <1>5, <2>3, <2>4
<1> HIDE DEF u, q, g
<1>8. r = DelDone(u, NILNODE)
  BY DEF u
<1>9. q = Rotate(t, p, s) /\ g = t.parent[p]
  BY DEF q, g
<1>10. /\ Spun(t, root, B, p, s, sib, nc, g, r)
       /\ \A y \in Ptr : r.color[y] = u.color[y]
  BY <1>6, <1>8, <1>9, HoleTurns
<1>11. \A y \in B[root] : y # p /\ y # sib => r.color[y] = t.color[y]
  BY <1>1, <1>6, <1>10 DEF Ptr
<1>12. Spoilt(r, B[root])
  BY <1>10, <1>11, RedSiblingSpoils
<1> QED
  BY <1>2, <1>12 DEF Ended, Loses

(* The niece is red: two rotations.                                                      *)
LEMMA HoleTwice ==
  ASSUME NEW t, NEW root, NEW B, NEW H, NEW p, NEW s, Hole(t, root, B, H, p, s),
         NEW sib, NEW nc, NEW nw, HoleKin(t, root, B, H, p, s, sib, nc, nw), t.color[sib] = "BLACK",
         HoleChoice(t, root, p, sib, nc, nw), nc # NILNODE,
         t.color[p] = "RED" \/ (t.color[p] = "BLACK" /\ nw = NILNODE),
         NEW r, r = DelDone(Repaired(t, NILNODE, sib, nc, nw, s), NILNODE)
  PROVE  Ended(t, r, root, B[root], Loses(t))
<1> DEFINE o == Other(s)
           b == t[o][nc]
           q == Rotate(t, sib, o)
           E == NieceBelow(t, B, s, sib, nc, b)
           g == t.parent[p]
           z == Rotate(q, p, s)
           u == Repaired(t, NILNODE, sib, nc, nw, s)
<1>1. /\ Shaped(t, root, B) /\ p \in B[root] /\ s \in Sides /\ t.parent[NILNODE] = p /\ B[root] \subseteq Node
      /\ t.color[NILNODE] = "BLACK" /\ t \in Tree /\ o \in Sides /\ Other(o) = s
  BY SidesFacts DEF Hole, Shaped
<1>2. /\ sib = t[o][p] /\ nc = t[s][sib] /\ sib \in Node /\ sib \in B[root] /\ sib # root /\ sib # p
      /\ t.parent[sib] = p /\ nc \in B[root] /\ nc # p /\ nc # sib /\ nc # root /\ t.color[nc] = "RED"
  BY DEF HoleKin, HoleKid
<1>3. /\ p \in Ptr /\ nc \in Ptr /\ NILNODE \in Ptr /\ p # NILNODE /\ p # Null
  BY <1>1, <1>2, AddressAssumption DEF Ptr
<1>4. Pivot(t, B[root], sib, o, nc, b, p)
  BY <1>1, <1>2 DEF Pivot
<1> HIDE DEF b
<1>5. Rotated(t, root, B, sib, o, nc, b, p, q)
  BY <1>1, <1>4, RotateSpins
<1>6. NieceUp(t, root, B, p, s, sib, nc, b, q)
  BY <1>5 DEF Rotated, NieceUp
<1>7. q.color = t.color /\ q.root = t.root /\ q.parent[NILNODE] = p
  BY <1>1, <1>5, TurnedSentinel DEF Rotated
<1>8. sbt_rotate(t, nc).tree = z
  <2>1. Spun(t, root, B, sib, o, nc, b, p, q)
    BY <1>6 DEF NieceUp
  <2>2. q = Rotate(t, sib, Other(s))
    OBVIOUS
  <2>3. sib = t[Other(s)][p]
    BY <1>2
  <2>4. p \in B[root] /\ s \in Sides /\ Shaped(t, root, B)
    BY <1>1
  <2> HIDE DEF q, z, o
  <2>5. Pivot(t, B[root], sib, Other(s), nc, b, p) /\ Spun(t, root, B, sib, Other(s), nc, b, p, q)
    BY <1>4, <2>1 DEF o
  <2>6. sbt_rotate(t, nc).tree = Rotate(q, p, s)
    BY <2>2, <2>3, <2>4, <2>5, NieceTwice
  <2> QED
    BY <2>6 DEF z
<1>9. /\ t.color[p] = "RED" => u = [z EXCEPT !.color[z.parent[NILNODE]] = "BLACK"]
      /\ t.color[p] = "BLACK" => u = [sbt_rotate(t, nc).tree EXCEPT !.color[nc] = "BLACK"]
  <2>1. ~ is_black(t, nc) /\ (nw = NILNODE => is_black(t, nw))
    BY DEF HoleChoice
  <2> QED
    BY <1>1, <2>1, RepairedIs
<1>10. r = DelDone(u, NILNODE)
  OBVIOUS
<1> HIDE DEF q, u
<1>11. NieceIsUp(t, root, B, H, p, s, sib, nc, b, q)
  BY <1>6, NieceComesUp
<1>12. /\ Shaped(q, root, E) /\ E[root] = B[root] /\ q[s][nc] = NILNODE /\ q[o][p] = nc /\ q.parent[p] = g
  BY <1>1, <1>2, <1>11 DEF NieceIsUp
<1> HIDE DEF E, g
<1>13. Pivot(q, E[root], p, s, nc, NILNODE, g)
  BY <1>1, <1>2, <1>12 DEF Pivot
<1>14. Rotated(q, root, E, p, s, nc, NILNODE, g, z)
  BY <1>12, <1>13, RotateSpins
<1> HIDE DEF z
<1>15. Spun(q, root, E, p, s, nc, NILNODE, g, z) /\ z.color = t.color /\ z.root = t.root
       /\ z \in Tree /\ z.parent[NILNODE] = p
  BY <1>7, <1>14, TurnedSentinel DEF Rotated
<1>16. \E y \in {p, nc} : Painted(z, u, y, "BLACK") /\ (t.color[p] = "RED" <=> y = p)
  <2>1. CASE t.color[p] = "RED"
    <3>1. u = [z EXCEPT !.color[p] = "BLACK"]
      BY <1>9, <1>15, <2>1
    <3>2. Painted(z, u, p, "BLACK")
      BY <1>3, <1>15, <3>1, PaintFields
    <3> QED
      BY <2>1, <3>2
  <2>2. CASE t.color[p] = "BLACK"
    <3>1. u = [z EXCEPT !.color[nc] = "BLACK"]
      BY <1>8, <1>9, <2>2
    <3>2. Painted(z, u, nc, "BLACK")
      BY <1>3, <1>15, <3>1, PaintFields
    <3> QED
      BY <1>2, <2>2, <3>2
  <2> QED
    BY <2>1, <2>2
<1>17. /\ SameShape(z, u) /\ u.root = t.root
       /\ \A y \in Ptr : y # p /\ y # nc => u.color[y] = t.color[y]
       /\ u.color[p] = "BLACK" /\ u.color[nc] = t.color[p]
  BY <1>2, <1>3, <1>15, <1>16 DEF Painted
<1>18. Spun(q, root, E, p, s, nc, NILNODE, g, u)
  BY <1>12, <1>15, <1>17, PaintedSpins
<1>19. u \in Tree /\ u.parent[NILNODE] = p /\ u.color[NILNODE] = "BLACK" /\ ~ IS_NULL(p)
  <2>1. u.color[NILNODE] = t.color[NILNODE]
    BY <1>1, <1>2, <1>3, <1>17, AddressAssumption
  <2> QED
    BY <1>1, <1>3, <1>15, <1>17, <2>1 DEF SameShape, IS_NULL
<1>20. SameShape(u, r) /\ r.root = t.root /\ \A y \in Ptr : r.color[y] = u.color[y]
  BY <1>10, <1>17, <1>19, DoneAtHole
<1>21. Spun(q, root, E, p, s, nc, NILNODE, g, r)
  BY <1>12, <1>18, <1>20, PaintedSpins
<1>22. TwoTurns(t, r, p, nc)
  BY <1>3, <1>17, <1>20 DEF TwoTurns
<1>23. Mended(r, TurnedRoot(root, p, nc), B[root])
  <2>1. g = t.parent[p] /\ E = NieceBelow(t, B, s, sib, nc, b)
    BY DEF g, E
  <2>2. Spun(q, root, NieceBelow(t, B, s, sib, nc, b), p, s, nc, NILNODE, g, r)
    BY <1>21, <2>1
  <2> QED
    BY <1>6, <1>22, <2>1, <2>2, TwiceMended
<1> QED
  BY <1>2, <1>20, <1>23, EndedBy

(* The first turn of the repair after a black leaf was taken.                                  *)
LEMMA HoleTurn ==
  ASSUME NEW t, NEW root, NEW B, NEW H, NEW p, NEW s, Hole(t, root, B, H, p, s)
  PROVE  /\ ~ DelStop(t, NILNODE) /\ (IS_NULL(t.parent[t.parent[NILNODE]]) <=> p = root)
         /\ DelTurns(t, NILNODE) =>
              Ended(t, DelDone(DelTurned(t, NILNODE), NILNODE), root, B[root], Loses(t))
         /\ ~ DelTurns(t, NILNODE) /\ p = root => Ended(t, DelUp(t, NILNODE), root, B[root], Loses(t))
         /\ ~ DelTurns(t, NILNODE) /\ p # root =>
              Loses(t) /\ Drift(DelUp(t, NILNODE), root, B, t.parent[t.parent[NILNODE]])
<1> DEFINE sib == t[Other(s)][p]
           nc == t[s][sib]
           nw == t[Other(s)][sib]
<1>1. HoleKin(t, root, B, H, p, s, sib, nc, nw)
  BY HoleHasKin
<1> HIDE DEF sib, nc, nw
<1>2. HoleChoice(t, root, p, sib, nc, nw)
  BY <1>1, HoleChooses
<1>3. /\ sibling_of(t, NILNODE) = sib /\ neice_of(t, NILNODE) = nc /\ nephew_of(t, NILNODE) = nw
      /\ Dir1(t, NILNODE) = s /\ t.parent[NILNODE] = p
  BY <1>1 DEF HoleKin, Related
<1>4. ~ DelStop(t, NILNODE) /\ (IS_NULL(t.parent[t.parent[NILNODE]]) <=> p = root)
  BY <1>2, <1>3 DEF HoleChoice
<1>5. ASSUME DelTurns(t, NILNODE)
      PROVE  Ended(t, DelDone(DelTurned(t, NILNODE), NILNODE), root, B[root], Loses(t))
  <2> DEFINE r == DelDone(Repaired(t, NILNODE, sib, nc, nw, s), NILNODE)
  <2>1. r = DelDone(DelTurned(t, NILNODE), NILNODE)
    BY <1>3 DEF DelTurned
  <2>2. r = DelDone(Repaired(t, NILNODE, sib, nc, nw, s), NILNODE)
    OBVIOUS
  <2> HIDE DEF r
  <2>3. CASE t.color[sib] = "RED"
    BY <1>1, <1>2, <2>1, <2>2, <2>3, HoleSpoils
  <2>4. CASE t.color[sib] = "BLACK" /\ \/ t.color[p] = "RED" /\ nc = NILNODE
                                       \/ t.color[p] = "BLACK" /\ nw # NILNODE
    BY <1>1, <1>2, <2>1, <2>2, <2>4, HoleOnce
  <2>5. CASE t.color[sib] = "BLACK" /\ nc # NILNODE
               /\ (t.color[p] = "RED" \/ (t.color[p] = "BLACK" /\ nw = NILNODE))
    BY <1>1, <1>2, <2>1, <2>2, <2>5, HoleTwice
  <2> QED
    BY <1>2, <1>5, <2>1, <2>3, <2>4, <2>5 DEF HoleChoice
<1>6. ASSUME ~ DelTurns(t, NILNODE)
      PROVE  /\ p = root => Ended(t, DelUp(t, NILNODE), root, B[root], Loses(t))
             /\ p # root => Loses(t) /\ Drift(DelUp(t, NILNODE), root, B, t.parent[p])
  <2>1. /\ t.color[p] = "BLACK" /\ t.color[sib] = "BLACK" /\ nc = NILNODE /\ nw = NILNODE
    BY <1>2, <1>6 DEF HoleChoice
  <2>2. /\ p = root => ~ LosesColors(t, NILNODE) /\ ~ LosesRoot(t, NILNODE)
        /\ p # root => LosesColors(t, NILNODE)
    BY <1>2, <2>1 DEF HoleChoice
  <2> DEFINE r == DelUp(t, NILNODE)
  <2>3. Painted(t, r, sib, "RED") /\ r.root = t.root
    <3>1. t \in Tree /\ sib \in Ptr
      BY <1>1 DEF Hole, Shaped, HoleKin, Ptr
    <3>2. r = [t EXCEPT !.color[sib] = "RED"]
      BY <1>3 DEF DelUp
    <3> HIDE DEF r
    <3>3. Painted(t, r, sib, "RED")
      BY <3>1, <3>2, PaintFields
    <3> QED
      BY <3>3 DEF Painted
  <2> HIDE DEF r
  <2>4. HoleKin(t, root, B, H, p, s, sib, NILNODE, NILNODE)
    BY <1>1, <2>1
  <2>5. (p = root => Mended(r, root, B[root])) /\ (p # root => Drift(r, root, B, t.parent[p]))
    BY <2>1, <2>3, <2>4, SiblingReddened
  <2> QED
    BY <2>2, <2>3, <2>5 DEF Ended, Loses, r
<1> QED
  BY <1>3, <1>4, <1>5, <1>6

-----------------------------------------------------------------------------
(* The loop goes on above, where it mends nothing.                        *)

(* Later turns of the repair go on about nodes above what is uneven, and leave it so.                *)
DriftBy(t, root, B, x, w, H) ==
  /\ Shaped(t, root, B) /\ x \in B[root] /\ w \in B[x] /\ Lopsided(t, B, w)
  /\ Tall(t, H, B[root] \ B[x]) /\ H[x] \in Nat /\ H[x] >= 1

LEMMA DriftIsBy ==
  ASSUME NEW t, NEW root, NEW B, NEW x
  PROVE  Drift(t, root, B, x) <=> \E w, H : DriftBy(t, root, B, x, w, H)
BY DEF Drift, DriftBy

(* Colours written elsewhere, and on w itself, change nothing.                                   *)
LEMMA PaintedLopsided ==
  ASSUME NEW t, NEW root, NEW B, Shaped(t, root, B), NEW w \in B[root], Lopsided(t, B, w),
         NEW r, SameShape(t, r), \A y \in B[w] : y # w => r.color[y] = t.color[y]
  PROVE  Lopsided(r, B, w) /\ Spoilt(r, B[root])
<1>1. Shaped(r, root, B) /\ \A side \in Sides : r[side] = t[side]
  BY SameShapeFacts
<1>2. \A y \in B[w] : \A s \in Sides : r[s][y] = t[s][y]
  BY <1>1
<1>3. Lopsided(r, B, w)
  BY <1>2, LopsidedStays
<1> QED
  BY <1>1, <1>3 DEF Spoilt

(* A rotation above leaves it so.                                                      *)
LEMMA SpunLopsided ==
  ASSUME NEW t, NEW root, NEW B, Shaped(t, root, B), NEW x, NEW side, NEW c, NEW b, NEW p, NEW r,
         Spun(t, root, B, x, side, c, b, p, r), NEW w \in B[root], Lopsided(t, B, w),
         x \notin B[w], c \notin B[w], p \notin B[w],
         \A y \in B[w] : y # w => r.color[y] = t.color[y],
         NEW E, E = TurnedBelow(t, B, x, side, c, b)
  PROVE  E[w] = B[w] /\ Lopsided(r, E, w) /\ Spoilt(r, B[root])
<1>1. /\ Turned(t, r, x, side, c, b, p) /\ PivotHas(t, root, B, x, side, c, b, p)
      /\ Shaped(r, TurnedRoot(root, x, c), E) /\ E[TurnedRoot(root, x, c)] = B[root]
  BY DEF Spun
<1>2. w \in B[w] /\ w \in Ptr /\ B[w] \subseteq B[root] /\ B[root] \subseteq Node
  BY SidesFacts, ShapedSides DEF Shaped
<1>3. E[w] = B[w]
  BY <1>2 DEF TurnedBelow
<1>4. \A y \in B[w] : \A s \in Sides : r[s][y] = t[s][y]
  <2>1. side \in Sides /\ Sides = {side, Other(side)}
    BY <1>1, SidesFacts DEF PivotHas
  <2>2. ASSUME NEW y \in B[w]
        PROVE  r[side][y] = t[side][y] /\ r[Other(side)][y] = t[Other(side)][y]
    <3>1. y \in Ptr /\ y # x /\ y # c /\ y # p
      BY <1>2, <2>2 DEF Ptr
    <3> QED
      BY <1>1, <3>1 DEF Turned
  <2> QED
    BY <2>1, <2>2
<1> HIDE DEF TurnedBelow
<1>5. Lopsided(r, E, w)
  BY <1>3, <1>4, LopsidedStays
<1>6. Spoilt(r, B[root])
  BY <1>1, <1>2, <1>5 DEF Spoilt
<1> QED
  BY <1>3, <1>5, <1>6

(* The relatives are nodes, all of them outside what is below x.                                  *)
DriftKin(t, root, B, H, x, p, s, sib, nc, nw) ==
  /\ p \in B[root] /\ s \in Sides /\ x = t[s][p] /\ sib = t[Other(s)][p]
  /\ nc = t[s][sib] /\ nw = t[Other(s)][sib] /\ Related(t, x, p, s, sib)
  /\ sib \in B[root] /\ nc \in B[root] /\ nw \in B[root]
  /\ B[x] \subseteq B[p] /\ p \notin B[x] /\ sib \notin B[x] /\ nc \notin B[x] /\ nw \notin B[x]
  /\ B[sib] \subseteq B[p] /\ x \notin B[sib] /\ p \notin B[sib] /\ nc \in B[sib] /\ B[nc] \subseteq B[sib]
  /\ t.parent[sib] = p /\ sib # p /\ t.parent[nc] = sib /\ H[p] \in Nat

LEMMA DriftHasKin ==
  ASSUME NEW t, NEW root, NEW B, NEW x, NEW w, NEW H, DriftBy(t, root, B, x, w, H), ~ DelStop(t, x)
  PROVE  \E p, s, sib, nc, nw : DriftKin(t, root, B, H, x, p, s, sib, nc, nw)
<1> DEFINE U == B[root]
           p == t.parent[x]
<1>1. /\ Shaped(t, root, B) /\ x \in U /\ Tall(t, H, U \ B[x]) /\ H[x] \in Nat /\ H[x] >= 1
      /\ ~ IS_NULL(p) /\ t.color[x] # "RED" /\ t \in Tree /\ t.parent[root] = Null /\ U \subseteq Node
  BY DEF DriftBy, DelStop, Shaped
<1>2. \A y \in U : y \in Ptr /\ y # NILNODE /\ t.color[y] \in {"RED", "BLACK"}
  BY <1>1, AddressAssumption DEF Tree, Ptr
<1>3. x # root
  BY <1>1 DEF IS_NULL
<1>4. /\ p \in U /\ x \in B[p] /\ p \notin B[x]
  BY <1>1, <1>3, ShapedParent
<1>5. PICK s \in Sides : x = t[s][p]
  BY <1>1, <1>3, ShapedParent
<1> DEFINE o == Other(s)
           sib == t[o][p]
           nc == t[s][sib]
           nw == t[o][sib]
<1>6. o \in Sides /\ Other(o) = s
  BY SidesFacts
<1> HIDE DEF p, o
<1>7. x # NILNODE /\ B[x] \subseteq B[p] /\ \A y \in B[x] : y \notin B[sib]
  <2>1. x # NILNODE
    BY <1>1, <1>2
  <2>2. B[t[s][p]] \subseteq B[p]
    BY <1>1, <1>4, ShapedSides
  <2>3. \A y \in B[t[s][p]] : y \notin B[t[Other(s)][p]]
    BY <1>1, <1>4, ShapedApart
  <2> QED
    BY <1>5, <2>1, <2>2, <2>3 DEF o
<1>8. H[p] \in Nat /\ H[p] = Weight(t, H, x) /\ H[p] = Weight(t, H, sib)
  BY <1>1, <1>4, <1>5, <1>6 DEF Tall
<1>9. H[p] >= 2
  <2>1. H[p] = H[x] + 1
    BY <1>1, <1>2, <1>7, <1>8 DEF Weight
  <2> QED
    BY <1>1, <2>1
<1>10. sib # NILNODE
  BY <1>8, <1>9 DEF Weight
<1>11. /\ sib \in U /\ t.parent[sib] = p /\ p \notin B[sib] /\ B[sib] \subseteq B[p] /\ sib \in B[sib]
  BY <1>1, <1>4, <1>6, <1>10, ShapedSides
<1>12. /\ sib \notin B[x] /\ x \in B[x]
  BY <1>1, <1>6, <1>7, <1>11, ShapedSides
<1>13. H[sib] \in Nat /\ H[sib] = Weight(t, H, nc) /\ H[sib] = Weight(t, H, nw)
  BY <1>1, <1>6, <1>11, <1>12 DEF Tall
<1>14. H[sib] >= 1
  <2>1. H[p] = H[sib] + (IF t.color[sib] = "BLACK" THEN 1 ELSE 0)
    BY <1>8, <1>10 DEF Weight
  <2> QED
    BY <1>9, <1>13, <2>1
<1>15. nc # NILNODE /\ nw # NILNODE
  BY <1>13, <1>14 DEF Weight
<1>16. ASSUME NEW e \in Sides, t[e][sib] # NILNODE
       PROVE  /\ t[e][sib] \in U /\ t[e][sib] \in B[sib] /\ B[t[e][sib]] \subseteq B[sib]
              /\ t.parent[t[e][sib]] = sib
  <2>1. /\ t[e][sib] \in U /\ t[e][sib] \in B[t[e][sib]] /\ B[t[e][sib]] \subseteq B[sib]
        /\ t.parent[t[e][sib]] = sib
    BY <1>1, <1>11, <1>16, ShapedSides
  <2> QED
    BY <2>1
<1>17. /\ nc \in U /\ nc \in B[sib] /\ B[nc] \subseteq B[sib] /\ t.parent[nc] = sib
       /\ nw \in U /\ nw \in B[sib]
  BY <1>6, <1>15, <1>16
<1>18. Related(t, x, p, s, sib)
  <2>1. t.parent[x] = p
    BY DEF p
  <2> QED
    BY <1>1, <1>4, <1>5, <1>10, <2>1, RelativesOf DEF o
<1>19. DriftKin(t, root, B, H, x, p, s, sib, nc, nw)
  BY <1>4, <1>5, <1>7, <1>8, <1>11, <1>12, <1>17, <1>18 DEF DriftKin, o
<1> QED
  BY <1>19

(* Two nodes are not below each other.                                                     *)
LEMMA BelowOnce ==
  ASSUME NEW t, NEW root, NEW B, Shaped(t, root, B), NEW x \in B[root], NEW w \in B[x], x \in B[w]
  PROVE  w = x
<1> SUFFICES ASSUME w # x
             PROVE  FALSE
  OBVIOUS
<1>1. w \in B[root] /\ B[w] \subseteq B[x]
  BY SidesFacts, ShapedSides, ShapedBelow
<1>2. B[x] \subseteq B[w]
  BY <1>1, ShapedBelow
<1>3. B[x] = B[w]
  BY <1>1, <1>2
<1>4. t.parent[w] \in B[x]
  BY ShapedBelow
<1>5. t.parent[x] \in B[w]
  BY <1>1, ShapedBelow
<1>6. CASE w # root
  <2>1. t.parent[w] \notin B[w]
    BY <1>1, <1>6, ShapedParent
  <2> QED
    BY <1>3, <1>4, <2>1
<1>7. CASE x # root
  <2>1. t.parent[x] \notin B[x]
    BY <1>7, ShapedParent
  <2> QED
    BY <1>3, <1>5, <2>1
<1> QED
  BY <1>6, <1>7

(* Where w is, below x.                                                                *)
LEMMA DriftBelow ==
  ASSUME NEW t, NEW root, NEW B, NEW x, NEW w, NEW H, DriftBy(t, root, B, x, w, H)
  PROVE  /\ Shaped(t, root, B) /\ x \in B[root] /\ w \in B[root] /\ Lopsided(t, B, w) /\ t \in Tree
         /\ B[root] \subseteq Node /\ x \in Ptr /\ B[w] \subseteq B[x] /\ B[w] \subseteq Ptr
         /\ \A y \in B[w] : y # w => y # x
<1>1. /\ Shaped(t, root, B) /\ x \in B[root] /\ w \in B[x] /\ Lopsided(t, B, w) /\ t \in Tree
      /\ B[root] \subseteq Node
  BY DEF DriftBy, Shaped
<1>2. x \in Ptr /\ B[x] \subseteq B[root] /\ w \in B[root]
  BY <1>1, SidesFacts, ShapedSides
<1>3. B[w] \subseteq B[x]
  BY <1>1, ShapedBelow
<1>4. x \in B[w] => w = x
  BY <1>1, BelowOnce
<1> QED
  BY <1>1, <1>2, <1>3, <1>4 DEF Ptr

LEMMA DriftStops ==
  ASSUME NEW t, NEW root, NEW B, NEW x, NEW w, NEW H, DriftBy(t, root, B, x, w, H)
  PROVE  Spoilt(DelDone(t, x), B[root])
<1> DEFINE r == DelDone(t, x)
<1>1. /\ Shaped(t, root, B) /\ x \in B[root] /\ w \in B[root] /\ Lopsided(t, B, w) /\ t \in Tree
      /\ x \in Ptr /\ B[w] \subseteq Ptr /\ \A y \in B[w] : y # w => y # x
  BY DriftBelow
<1>2. SameShape(t, r) /\ \A y \in Ptr : y # x => r.color[y] = t.color[y]
  BY <1>1, DoneFields
<1> HIDE DEF r
<1>3. \A y \in B[w] : y # w => r.color[y] = t.color[y]
  BY <1>1, <1>2
<1>4. Spoilt(r, B[root])
  BY <1>1, <1>2, <1>3, PaintedLopsided
<1> QED
  BY <1>4 DEF r

(* A turn that ends the loop, after the parent went down once, writes colours to z and to x at     *)
(* most.                                                                             *)
LEMMA DriftOnce ==
  ASSUME NEW t, NEW root, NEW B, NEW x, NEW w, NEW H, DriftBy(t, root, B, x, w, H),
         NEW p, NEW s, NEW sib, NEW nc, NEW nw, DriftKin(t, root, B, H, x, p, s, sib, nc, nw),
         NEW q, q = Rotate(t, p, s), NEW u, SameShape(q, u), \A y \in B[w] : u.color[y] = q.color[y]
  PROVE  Spoilt(DelDone(u, x), B[root])
<1> DEFINE g == t.parent[p]
           r == DelDone(u, x)
           E == TurnedBelow(t, B, p, s, sib, nc)
<1>1. /\ Shaped(t, root, B) /\ x \in B[root] /\ w \in B[root] /\ Lopsided(t, B, w) /\ t \in Tree
      /\ B[root] \subseteq Node /\ x \in Ptr /\ B[w] \subseteq B[x] /\ B[w] \subseteq Ptr
      /\ \A y \in B[w] : y # w => y # x
  BY DriftBelow
<1>2. /\ p \in B[root] /\ s \in Sides /\ sib = t[Other(s)][p] /\ nc = t[s][sib] /\ sib \in B[root]
      /\ B[x] \subseteq B[p] /\ p \notin B[x] /\ sib \notin B[x]
  BY DEF DriftKin
<1>3. Pivot(t, B[root], p, s, sib, nc, g)
  BY <1>1, <1>2, AddressAssumption DEF Pivot
<1>4. g \notin B[p]
  <2>1. PivotHas(t, root, B, p, s, sib, nc, g)
    BY <1>1, <1>3, PivotFacts
  <2>2. B[p] \subseteq Node
    BY <1>1, <1>2, ShapedSides
  <2> QED
    BY <2>1, <2>2, AddressAssumption DEF PivotHas
<1> HIDE DEF g, r, E
<1>5. Rotated(t, root, B, p, s, sib, nc, g, q)
  BY <1>1, <1>3, RotateSpins
<1>6. Spun(t, root, B, p, s, sib, nc, g, u) /\ q.color = t.color
  <2>1. Spun(t, root, B, p, s, sib, nc, g, q) /\ q.color = t.color
    BY <1>5 DEF Rotated
  <2> QED
    BY <1>1, <2>1, PaintedSpins
<1>7. SameShape(u, r) /\ \A y \in Ptr : y # x => r.color[y] = u.color[y]
  <2>1. u \in Tree
    BY DEF SameShape
  <2> QED
    BY <1>1, <2>1, DoneFields DEF r
<1>8. Spun(t, root, B, p, s, sib, nc, g, r)
  BY <1>1, <1>6, <1>7, PaintedSpins
<1>9. \A y \in B[w] : y # w => r.color[y] = t.color[y]
  BY <1>1, <1>6, <1>7
<1>10. p \notin B[w] /\ sib \notin B[w] /\ g \notin B[w]
  BY <1>1, <1>2, <1>4
<1>11. E = TurnedBelow(t, B, p, s, sib, nc)
  BY DEF E
<1>12. Spoilt(r, B[root])
  BY <1>1, <1>8, <1>9, <1>10, <1>11, SpunLopsided
<1> QED
  BY <1>12 DEF r

(* The same after two.                                                                 *)
LEMMA DriftTwice ==
  ASSUME NEW t, NEW root, NEW B, NEW x, NEW w, NEW H, DriftBy(t, root, B, x, w, H),
         NEW p, NEW s, NEW sib, NEW nc, NEW nw, DriftKin(t, root, B, H, x, p, s, sib, nc, nw),
         NEW z, z = Rotate(Rotate(t, sib, Other(s)), p, s)
  PROVE  /\ z \in Tree /\ z.color = t.color /\ z.parent[x] = p /\ sbt_rotate(t, nc).tree = z
         /\ \A u : SameShape(z, u) /\ (\A y \in B[w] : u.color[y] = z.color[y]) => Spoilt(DelDone(u, x), B[root])
<1> DEFINE o == Other(s)
           b == t[o][nc]
           q == Rotate(t, sib, o)
           E == TurnedBelow(t, B, sib, o, nc, b)
<1>1. /\ Shaped(t, root, B) /\ x \in B[root] /\ w \in B[root] /\ Lopsided(t, B, w) /\ t \in Tree
      /\ B[root] \subseteq Node /\ x \in Ptr /\ B[w] \subseteq B[x] /\ B[w] \subseteq Ptr
      /\ (\A y \in B[w] : y # w => y # x) /\ w \in B[x]
  <2>1. w \in B[x]
    BY DEF DriftBy
  <2> QED
    BY <2>1, DriftBelow
<1>2. /\ p \in B[root] /\ s \in Sides /\ sib = t[o][p] /\ nc = t[s][sib] /\ sib \in B[root]
      /\ x = t[s][p] /\ nc \in B[root] /\ nc \notin B[x] /\ t.parent[sib] = p /\ sib # p /\ t.parent[nc] = sib
      /\ B[x] \subseteq B[p] /\ p \notin B[x] /\ sib \notin B[x] /\ x \notin B[sib] /\ p \notin B[sib]
      /\ nc \in B[sib] /\ B[nc] \subseteq B[sib] /\ B[sib] \subseteq B[p]
  BY DEF DriftKin
<1>3. o \in Sides /\ Other(o) = s /\ o # s
  BY <1>2, SidesFacts
<1>4. Pivot(t, B[root], sib, o, nc, b, p)
  BY <1>1, <1>2, <1>3, AddressAssumption DEF Pivot
<1>5. PivotHas(t, root, B, sib, o, nc, b, p)
  BY <1>1, <1>4, PivotFacts
<1>6. b \notin B[x] /\ b # x
  <2>1. b \in B[root] \cup {NILNODE} /\ (b # NILNODE => b \in B[b]) /\ B[b] \subseteq B[nc]
    <3>1. b = t[o][nc] /\ nc \in B[root] /\ o \in Sides
      BY <1>2, <1>3
    <3> HIDE DEF b, o
    <3> QED
      BY <1>1, <3>1, ShapedSides
  <2>2. x \in B[x] /\ B[x] \subseteq B[root]
    BY <1>1, SidesFacts, ShapedSides
  <2>3. ASSUME b \in B[x]
        PROVE  FALSE
    <3>1. b # NILNODE
      BY <1>1, <2>2, <2>3, AddressAssumption
    <3>2. b \in B[t[o][p]] /\ t[s][p] = x
      BY <1>2, <2>1, <3>1
    <3> QED
      BY <1>1, <1>2, <2>3, <3>2, ShapedApart
  <2> QED
    BY <2>2, <2>3
<1> HIDE DEF b
<1>7. Rotated(t, root, B, sib, o, nc, b, p, q)
  BY <1>1, <1>4, RotateSpins
<1>8. Spun(t, root, B, sib, o, nc, b, p, q) /\ q.color = t.color
  BY <1>7 DEF Rotated
<1>9. sbt_rotate(t, nc).tree = z
  <2>1. q = Rotate(t, sib, Other(s)) /\ z = Rotate(q, p, s)
    OBVIOUS
  <2>2. sib = t[Other(s)][p] /\ p \in B[root] /\ s \in Sides
    BY <1>2
  <2> HIDE DEF q, o
  <2>3. Pivot(t, B[root], sib, Other(s), nc, b, p) /\ Spun(t, root, B, sib, Other(s), nc, b, p, q)
    BY <1>4, <1>8 DEF o
  <2>4. sbt_rotate(t, nc).tree = Rotate(q, p, s)
    BY <1>1, <2>1, <2>2, <2>3, NieceTwice
  <2> QED
    BY <2>1, <2>4
<1>10. z = Rotate(q, p, s)
  OBVIOUS
<1> HIDE DEF q
<1>11. /\ Turned(t, q, sib, o, nc, b, p) /\ Shaped(q, TurnedRoot(root, sib, nc), E)
       /\ E[TurnedRoot(root, sib, nc)] = B[root]
  BY <1>8 DEF Spun
<1>12. sib # root
  <2>1. t.parent[root] = Null
    BY <1>1 DEF Shaped
  <2> QED
    BY <1>1, <1>2, <2>1, AddressAssumption
<1>13. Shaped(q, root, E) /\ E[root] = B[root]
  BY <1>11, <1>12 DEF TurnedRoot
<1>14. E[w] = B[w] /\ Lopsided(q, E, w)
  <2>1. \A y \in B[w] : y # w => q.color[y] = t.color[y]
    BY <1>8
  <2>2. sib \notin B[w] /\ nc \notin B[w] /\ p \notin B[w]
    BY <1>1, <1>2
  <2> QED
    BY <1>1, <1>8, <2>1, <2>2, SpunLopsided
<1>15. E[x] = B[x] /\ E[p] = B[p]
  <2>1. x # sib /\ x # nc /\ p # sib /\ p # nc /\ p \in Ptr
    <3>1. x \in B[x] /\ p \in B[p]
      BY <1>1, <1>2, SidesFacts, ShapedSides
    <3>2. p \in Ptr
      BY <1>1, <1>2 DEF Ptr
    <3> QED
      BY <1>2, <3>1, <3>2
  <2> QED
    BY <1>1, <2>1 DEF TurnedBelow
<1>16. q[s][p] = x /\ q[o][p] = nc /\ q.parent[x] = p /\ q.parent[p] = t.parent[p]
  <2>1. /\ p # nc /\ p # Null /\ p \in Ptr /\ b # p /\ x # sib /\ x # nc /\ x \in Node
    <3>1. p \notin B[sib] /\ x \in B[x]
      BY <1>1, <1>2, SidesFacts, ShapedSides
    <3> QED
      BY <1>1, <1>2, <1>5, <3>1, AddressAssumption DEF Ptr, PivotHas
  <2>2. t[o][p] = sib /\ t[s][p] = x /\ t.parent[x] = p
    <3>1. t.parent[x] = p
      BY DEF DriftKin, Related
    <3> QED
      BY <1>2, <3>1
  <2>3. q[s][p] = x /\ q[o][p] = nc
    <3>1. q[Other(o)][p] = IF p = sib THEN b ELSE IF p # Null /\ p = p /\ t[o][p] # sib THEN nc ELSE t[Other(o)][p]
      BY <1>11, <2>1 DEF Turned
    <3>2. q[o][p] = IF p = nc THEN sib ELSE IF p # Null /\ p = p /\ t[o][p] = sib THEN nc ELSE t[o][p]
      BY <1>11, <2>1 DEF Turned
    <3> QED
      BY <1>2, <1>3, <2>1, <2>2, <3>1, <3>2
  <2>4. q.parent[x] = p /\ q.parent[p] = t.parent[p]
    <3>1. \A y \in Ptr : q.parent[y] = IF y = sib THEN nc ELSE IF y = nc THEN p
                                        ELSE IF y = b /\ b # NILNODE THEN sib ELSE t.parent[y]
      BY <1>11 DEF Turned
    <3> QED
      BY <1>1, <1>2, <1>6, <2>1, <2>2, <3>1
  <2> QED
    BY <2>3, <2>4
<1> DEFINE g == q.parent[p]
           b2 == q[s][nc]
<1>17. Pivot(q, E[root], p, s, nc, b2, g)
  BY <1>1, <1>2, <1>3, <1>13, <1>16, AddressAssumption DEF Pivot
<1>18. PivotHas(q, root, E, p, s, nc, b2, g)
  BY <1>13, <1>17, PivotFacts
<1> HIDE DEF g, b2, E
<1>19. Rotated(q, root, E, p, s, nc, b2, g, z)
  BY <1>10, <1>13, <1>17, RotateSpins
<1>20. Spun(q, root, E, p, s, nc, b2, g, z) /\ z.color = t.color
  BY <1>8, <1>19 DEF Rotated
<1>21. z \in Tree /\ z.parent[x] = p
  <2>1. Turned(q, z, p, s, nc, b2, g)
    BY <1>20 DEF Spun
  <2>2. x # p /\ x # nc /\ x \in Ptr
    <3>1. x \in B[x]
      BY <1>1, SidesFacts, ShapedSides
    <3> QED
      BY <1>1, <1>2, <3>1
  <2>3. x = b2 /\ b2 # NILNODE => q.parent[x] = nc
    BY <1>18 DEF PivotHas
  <2>4. b2 = NILNODE \/ b2 # x
    BY <1>16, <2>2, <2>3, <1>18 DEF PivotHas
  <2> QED
    BY <1>16, <2>1, <2>2, <2>4 DEF Turned
<1>22. ASSUME NEW u, SameShape(z, u), \A y \in B[w] : u.color[y] = z.color[y]
       PROVE  Spoilt(DelDone(u, x), B[root])
  <2> DEFINE r == DelDone(u, x)
             F == TurnedBelow(q, E, p, s, nc, b2)
  <2>1. Spun(q, root, E, p, s, nc, b2, g, u)
    BY <1>13, <1>20, <1>22, PaintedSpins
  <2>2. SameShape(u, r) /\ \A y \in Ptr : y # x => r.color[y] = u.color[y]
    <3>1. u \in Tree
      BY <1>22 DEF SameShape
    <3> QED
      BY <1>1, <3>1, DoneFields
  <2>3. F = TurnedBelow(q, E, p, s, nc, b2)
    OBVIOUS
  <2> HIDE DEF r, F
  <2>4. Spun(q, root, E, p, s, nc, b2, g, r)
    BY <1>13, <2>1, <2>2, PaintedSpins
  <2>5. \A y \in E[w] : y # w => r.color[y] = q.color[y]
    BY <1>1, <1>8, <1>14, <1>20, <1>22, <2>2
  <2>6. p \notin E[w] /\ nc \notin E[w] /\ g \notin E[w]
    <3>1. g \notin E[p]
      <4>1. E[p] \subseteq Node
        BY <1>1, <1>2, <1>13, ShapedSides
      <4> QED
        BY <1>18, <4>1, AddressAssumption DEF PivotHas
    <3> QED
      BY <1>1, <1>2, <1>14, <1>15, <3>1
  <2>7. w \in E[root]
    BY <1>1, <1>13
  <2>8. Spoilt(r, E[root])
    BY <1>13, <1>14, <2>3, <2>4, <2>5, <2>6, <2>7, SpunLopsided
  <2> QED
    BY <1>13, <2>8 DEF r
<1> QED
  BY <1>9, <1>20, <1>21, <1>22

(* The loop ends, and it is still so.                                                  *)
LEMMA DriftTurns ==
  ASSUME NEW t, NEW root, NEW B, NEW x, NEW w, NEW H, DriftBy(t, root, B, x, w, H),
         ~ DelStop(t, x), DelTurns(t, x)
  PROVE  Spoilt(DelDone(DelTurned(t, x), x), B[root])
<1>1. PICK p, s, sib, nc, nw : DriftKin(t, root, B, H, x, p, s, sib, nc, nw)
  BY DriftHasKin
<1> DEFINE z == Rotate(Rotate(t, sib, Other(s)), p, s)
           q == Rotate(t, p, s)
           u == Repaired(t, x, sib, nc, nw, s)
<1>2. /\ Shaped(t, root, B) /\ t \in Tree /\ B[root] \subseteq Node /\ x \in Ptr /\ B[w] \subseteq B[x] /\ B[w] \subseteq Ptr
  BY DriftBelow
<1>3. /\ p \in B[root] /\ s \in Sides /\ sib = t[Other(s)][p] /\ nc = t[s][sib] /\ sib \in B[root]
      /\ nc \in B[root] /\ nw \in B[root]
      /\ p \notin B[w] /\ sib \notin B[w] /\ nc \notin B[w] /\ nw \notin B[w]
      /\ t.parent[x] = p /\ sibling_of(t, x) = sib /\ neice_of(t, x) = nc /\ nephew_of(t, x) = nw /\ Dir1(t, x) = s
  BY <1>1, <1>2 DEF DriftKin, Related
<1>4. p \in Ptr /\ sib \in Ptr /\ nc \in Ptr /\ nw \in Ptr
  BY <1>2, <1>3 DEF Ptr
<1>5. t.color[p] \in {"RED", "BLACK"} /\ t.color[sib] \in {"RED", "BLACK"}
  BY <1>2, <1>4 DEF Tree
<1>6. DelTurned(t, x) = u
  BY <1>3 DEF DelTurned
<1>7. \/ t.color[p] = "RED" \/ t.color[sib] = "RED" \/ ~ is_black(t, nw) \/ ~ is_black(t, nc)
  BY <1>3 DEF DelTurns
<1>8. /\ z \in Tree /\ z.color = t.color /\ z.parent[x] = p /\ sbt_rotate(t, nc).tree = z
      /\ \A v : SameShape(z, v) /\ (\A y \in B[w] : v.color[y] = z.color[y]) => Spoilt(DelDone(v, x), B[root])
  BY <1>1, DriftTwice
<1>9. q \in Tree /\ q.color = t.color
  <2>1. Pivot(t, B[root], p, s, sib, nc, t.parent[p])
    BY <1>2, <1>3, AddressAssumption DEF Pivot
  <2>2. Rotated(t, root, B, p, s, sib, nc, t.parent[p], q)
    BY <1>2, <2>1, RotateSpins
  <2> QED
    BY <2>2, TurnedSentinel DEF Rotated
<1>10. /\ t.color[p] = "RED" /\ is_black(t, nc) => u = q
       /\ t.color[p] = "RED" /\ ~ is_black(t, nc) => u = [z EXCEPT !.color[z.parent[x]] = "BLACK"]
       /\ t.color[p] = "BLACK" /\ t.color[sib] = "RED" =>
            u = [q EXCEPT !.color = [@ EXCEPT ![p] = "RED", ![sib] = "BLACK"]]
       /\ t.color[p] = "BLACK" /\ t.color[sib] = "BLACK" /\ ~ is_black(t, nw) =>
            u = [q EXCEPT !.color[nw] = "BLACK"]
       /\ t.color[p] = "BLACK" /\ t.color[sib] = "BLACK" /\ is_black(t, nw) =>
            u = [sbt_rotate(t, nc).tree EXCEPT !.color[nc] = "BLACK"]
  BY <1>3, RepairedIs
<1>11. q = Rotate(t, p, s)
  OBVIOUS
<1> HIDE DEF q, z, u
<1>12. ASSUME SameShape(q, u), \A y \in B[w] : u.color[y] = q.color[y]
       PROVE  Spoilt(DelDone(u, x), B[root])
  BY <1>1, <1>11, <1>12, DriftOnce
<1>13. ASSUME SameShape(z, u), \A y \in B[w] : u.color[y] = z.color[y]
       PROVE  Spoilt(DelDone(u, x), B[root])
  BY <1>8, <1>13
<1>14. CASE t.color[p] = "RED" /\ is_black(t, nc)
  <2>1. u = q
    BY <1>10, <1>14
  <2>2. SameShape(q, u)
    BY <1>9, <2>1 DEF SameShape
  <2> QED
    BY <1>6, <1>12, <2>1, <2>2
<1>15. CASE t.color[p] = "RED" /\ ~ is_black(t, nc)
  <2>1. u = [z EXCEPT !.color[p] = "BLACK"]
    BY <1>8, <1>10, <1>15
  <2>2. Painted(z, u, p, "BLACK")
    BY <1>4, <1>8, <2>1, PaintFields
  <2>3. SameShape(z, u) /\ \A y \in B[w] : u.color[y] = z.color[y]
    BY <1>2, <1>3, <2>2 DEF Painted
  <2> QED
    BY <1>6, <1>13, <2>3
<1>16. CASE t.color[p] = "BLACK" /\ t.color[sib] = "RED"
  <2> DEFINE col == [q.color EXCEPT ![p] = "RED", ![sib] = "BLACK"]
  <2>1. u = [q EXCEPT !.color = col]
    BY <1>10, <1>16
  <2>2. q.color \in [Ptr -> {"RED", "BLACK"}]
    BY <1>9 DEF Tree
  <2>3. col \in [Ptr -> {"RED", "BLACK"}] /\ \A y \in Ptr : y # p /\ y # sib => col[y] = q.color[y]
    BY <1>4, <2>2
  <2> HIDE DEF col
  <2>4. SameShape(q, u) /\ u.color = col
    BY <1>9, <2>1, <2>3, ColorsFields
  <2>5. \A y \in B[w] : u.color[y] = q.color[y]
    BY <1>2, <1>3, <2>3, <2>4
  <2> QED
    BY <1>6, <1>12, <2>4, <2>5
<1>17. CASE t.color[p] = "BLACK" /\ t.color[sib] = "BLACK" /\ ~ is_black(t, nw)
  <2>1. u = [q EXCEPT !.color[nw] = "BLACK"]
    BY <1>10, <1>17
  <2>2. Painted(q, u, nw, "BLACK")
    BY <1>4, <1>9, <2>1, PaintFields
  <2>3. SameShape(q, u) /\ \A y \in B[w] : u.color[y] = q.color[y]
    BY <1>2, <1>3, <2>2 DEF Painted
  <2> QED
    BY <1>6, <1>12, <2>3
<1>18. CASE t.color[p] = "BLACK" /\ t.color[sib] = "BLACK" /\ is_black(t, nw)
  <2>1. u = [z EXCEPT !.color[nc] = "BLACK"]
    BY <1>8, <1>10, <1>18
  <2>2. Painted(z, u, nc, "BLACK")
    BY <1>4, <1>8, <2>1, PaintFields
  <2>3. SameShape(z, u) /\ \A y \in B[w] : u.color[y] = z.color[y]
    BY <1>2, <1>3, <2>2 DEF Painted
  <2> QED
    BY <1>6, <1>13, <2>3
<1> QED
  BY <1>5, <1>14, <1>15, <1>16, <1>17, <1>18

(* All black: only the sibling's colour changes, and the repair goes on above.                     *)
LEMMA DriftClimbs ==
  ASSUME NEW t, NEW root, NEW B, NEW x, NEW w, NEW H, DriftBy(t, root, B, x, w, H),
         ~ DelStop(t, x), ~ DelTurns(t, x), NEW g, g = t.parent[t.parent[x]], NEW r, r = DelUp(t, x)
  PROVE  /\ Spoilt(r, B[root])
         /\ ~ IS_NULL(g) => /\ DriftBy(r, root, B, g, w, H) /\ Cardinality(B[x]) < Cardinality(B[g])
<1> DEFINE U == B[root]
<1>1. PICK p, s, sib, nc, nw : DriftKin(t, root, B, H, x, p, s, sib, nc, nw)
  BY DriftHasKin
<1>2. /\ Shaped(t, root, B) /\ t \in Tree /\ U \subseteq Node /\ x \in Ptr /\ x \in U /\ w \in U
      /\ B[w] \subseteq B[x] /\ B[w] \subseteq Ptr /\ Lopsided(t, B, w) /\ t.parent[root] = Null
  <2>1. t.parent[root] = Null
    BY DEF DriftBy, Shaped
  <2> QED
    BY <2>1, DriftBelow
<1>3. w \in B[x] /\ Tall(t, H, U \ B[x]) /\ H[x] \in Nat /\ H[x] >= 1
  BY DEF DriftBy
<1>4. /\ p \in U /\ s \in Sides /\ x = t[s][p] /\ sib \in U /\ t.parent[sib] = p /\ t.parent[x] = p
      /\ p \notin B[x] /\ sib \notin B[x] /\ B[x] \subseteq B[p] /\ sibling_of(t, x) = sib
      /\ sib # p /\ p \notin B[sib] /\ H[p] \in Nat
  BY <1>1 DEF DriftKin, Related
<1>5. p \in Ptr /\ sib \in Ptr /\ p # NILNODE
  BY <1>2, <1>4, AddressAssumption DEF Ptr
<1>6. t.color[p] = "BLACK"
  BY <1>2, <1>4, <1>5 DEF DelTurns, Tree
<1>7. Painted(t, r, sib, "RED")
  <2>1. r = [t EXCEPT !.color[sib] = "RED"]
    BY <1>4 DEF DelUp
  <2> QED
    BY <1>2, <1>5, <2>1, PaintFields
<1>8. SameShape(t, r) /\ \A y \in Ptr : r.color[y] = IF y = sib THEN "RED" ELSE t.color[y]
  BY <1>7 DEF Painted
<1>9. Lopsided(r, B, w) /\ Spoilt(r, U)
  <2>1. \A y \in B[w] : y # w => r.color[y] = t.color[y]
    BY <1>2, <1>4, <1>8
  <2> QED
    BY <1>2, <1>8, <2>1, PaintedLopsided
<1>10. ASSUME ~ IS_NULL(g)
       PROVE  DriftBy(r, root, B, g, w, H) /\ Cardinality(B[x]) < Cardinality(B[g])
  <2>1. g = t.parent[p] /\ p # root
    BY <1>2, <1>4, <1>10 DEF IS_NULL
  <2>2. /\ g \in U /\ p \in B[g] /\ g \notin B[p] /\ Cardinality(B[p]) < Cardinality(B[g])
        /\ \E e \in Sides : p = t[e][g]
    BY <1>2, <1>4, <2>1, ShapedParent
  <2>3. B[p] \subseteq B[g]
    BY <1>2, <2>2, ShapedBelow
  <2>4. x # root
    <3>1. p # Null
      BY <1>2, <1>4, AddressAssumption
    <3> QED
      BY <1>2, <1>4, <3>1
  <2>5. Cardinality(B[x]) < Cardinality(B[p])
    <3>1. Cardinality(B[x]) < Cardinality(B[t.parent[x]])
      BY <1>2, <2>4, ShapedParent
    <3> QED
      BY <1>4, <3>1
  <2>6. Cardinality(B[x]) \in Nat /\ Cardinality(B[p]) \in Nat /\ Cardinality(B[g]) \in Nat
    <3>1. \A y \in B[root] : Cardinality(B[y]) \in Nat
      BY <1>2, SidesFacts, ShapedSides
    <3>2. x \in B[root] /\ p \in B[root] /\ g \in B[root]
      BY <1>2, <1>4, <2>2
    <3> HIDE DEF U
    <3> QED
      BY <3>1, <3>2
  <2>7. Cardinality(B[x]) < Cardinality(B[g])
    BY <2>2, <2>5, <2>6
  <2>8. Shaped(r, root, B) /\ \A e \in Sides : r[e] = t[e]
    BY <1>2, <1>8, SameShapeFacts
  <2>9. H[g] \in Nat /\ H[g] >= 1
    <3>1. PICK e \in Sides : p = t[e][g]
      BY <2>2
    <3>2. g \in U \ B[x]
      BY <1>4, <2>2
    <3>3. H[g] \in Nat /\ H[g] = Weight(t, H, p)
      BY <1>3, <3>1, <3>2 DEF Tall
    <3>4. Weight(t, H, p) = H[p] + 1
      BY <1>5, <1>6 DEF Weight
    <3> QED
      BY <1>4, <3>3, <3>4
  <2>10. ASSUME NEW y \in U \ B[g], NEW e \in Sides
         PROVE  H[y] \in Nat /\ H[y] = Weight(r, H, r[e][y])
    <3>1. y \in U \ B[x]
      BY <1>4, <2>3
    <3>2. H[y] \in Nat /\ H[y] = Weight(t, H, t[e][y])
      BY <1>3, <3>1 DEF Tall
    <3>3. t[e][y] # NILNODE => t[e][y] \in U /\ t.parent[t[e][y]] = y
      BY <1>2, ShapedSides
    <3>4. t[e][y] # sib
      BY <1>2, <1>4, <1>5, <2>2, <3>3, AddressAssumption
    <3>5. t[e][y] # NILNODE => t[e][y] \in Ptr
      BY <1>2, <3>3 DEF Ptr
    <3>6. Weight(r, H, t[e][y]) = Weight(t, H, t[e][y])
      BY <1>8, <3>4, <3>5 DEF Weight
    <3> QED
      BY <2>8, <3>2, <3>6
  <2>11. Tall(r, H, U \ B[g])
    BY <1>4, <2>10 DEF Tall
  <2>12. w \in B[g]
    BY <1>3, <1>4, <2>3
  <2> QED
    BY <1>9, <2>2, <2>7, <2>8, <2>9, <2>11, <2>12 DEF DriftBy
<1> QED
  BY <1>9, <1>10

(* The loop of rbt_del_fix.                                                             *)
DelFixes(f) ==
  \A t \in Tree, x \in Ptr :
    f[[tree |-> t, at |-> x]] =
      IF DelStop(t, x) THEN DelDone(t, x)
      ELSE IF DelTurns(t, x) THEN DelDone(DelTurned(t, x), x)
      ELSE IF IS_NULL(t.parent[t.parent[x]]) THEN DelUp(t, x)
      ELSE f[[tree |-> DelUp(t, x), at |-> t.parent[t.parent[x]]]]

(* Either the loop ends here, or it goes on higher up.                                 *)
LEMMA DriftTurn ==
  ASSUME NEW t, NEW root, NEW B, NEW x, Drift(t, root, B, x), NEW f, DelFixes(f),
         ~ Spoilt(f[[tree |-> t, at |-> x]], B[root])
  PROVE  \E r, g : /\ Drift(r, root, B, g) /\ Cardinality(B[x]) < Cardinality(B[g]) /\ g \in B[root]
                   /\ ~ Spoilt(f[[tree |-> r, at |-> g]], B[root])
<1>1. PICK w, H : DriftBy(t, root, B, x, w, H)
  BY DriftIsBy
<1>2. t \in Tree /\ x \in Ptr
  BY <1>1, DriftBelow
<1> DEFINE g == t.parent[t.parent[x]]
           r == DelUp(t, x)
           v == f[[tree |-> t, at |-> x]]
<1>3. v = IF DelStop(t, x) THEN DelDone(t, x)
          ELSE IF DelTurns(t, x) THEN DelDone(DelTurned(t, x), x)
          ELSE IF IS_NULL(g) THEN r
          ELSE f[[tree |-> r, at |-> g]]
  BY <1>2 DEF DelFixes
<1>4. ~ Spoilt(v, B[root])
  OBVIOUS
<1>5. g = t.parent[t.parent[x]] /\ r = DelUp(t, x)
  OBVIOUS
<1> HIDE DEF g, r, v
<1>6. ~ DelStop(t, x)
  <2>1. ASSUME DelStop(t, x)
        PROVE  FALSE
    <3>1. v = DelDone(t, x)
      BY <1>3, <2>1
    <3>2. Spoilt(DelDone(t, x), B[root])
      BY <1>1, DriftStops
    <3> QED
      BY <1>4, <3>1, <3>2
  <2> QED
    BY <2>1
<1>7. ~ DelTurns(t, x)
  <2>1. ASSUME DelTurns(t, x)
        PROVE  FALSE
    <3>1. v = DelDone(DelTurned(t, x), x)
      BY <1>3, <1>6, <2>1
    <3>2. Spoilt(DelDone(DelTurned(t, x), x), B[root])
      BY <1>1, <1>6, <2>1, DriftTurns
    <3> QED
      BY <1>4, <3>1, <3>2
  <2> QED
    BY <2>1
<1>8. /\ Spoilt(r, B[root])
      /\ ~ IS_NULL(g) => DriftBy(r, root, B, g, w, H) /\ Cardinality(B[x]) < Cardinality(B[g])
  BY <1>1, <1>5, <1>6, <1>7, DriftClimbs
<1>9. v = IF IS_NULL(g) THEN r ELSE f[[tree |-> r, at |-> g]]
  BY <1>3, <1>6, <1>7
<1>10. ~ IS_NULL(g)
  BY <1>4, <1>8, <1>9
<1>11. Drift(r, root, B, g) /\ Cardinality(B[x]) < Cardinality(B[g])
  BY <1>8, <1>10, DriftIsBy
<1>12. g \in B[root]
  BY <1>11 DEF Drift
<1>13. ~ Spoilt(f[[tree |-> r, at |-> g]], B[root])
  BY <1>4, <1>9, <1>10
<1> QED
  BY <1>11, <1>12, <1>13

(* Once the repair went on from the grandparent it ends with a tree beyond repair.                 *)
LEMMA DriftIsLost ==
  ASSUME NEW t, NEW root, NEW B, NEW x, Drift(t, root, B, x), NEW f, DelFixes(f)
  PROVE  Spoilt(f[[tree |-> t, at |-> x]], B[root])
<1>1. Shaped(t, root, B) /\ x \in B[root]
  BY DEF Drift
<1> DEFINE Wrong(y) == \E s : Drift(s, root, B, y) /\ ~ Spoilt(f[[tree |-> s, at |-> y]], B[root])
           Bad == {y \in B[root] : Wrong(y)}
<1>2. Bad = {}
  <2>1. SUFFICES ASSUME Bad # {}
                 PROVE  FALSE
    OBVIOUS
  <2>2. PICK y \in Bad : \A z \in Bad : Cardinality(B[z]) <= Cardinality(B[y])
    <3>1. Bad \subseteq B[root]
      OBVIOUS
    <3> HIDE DEF Bad
    <3> QED
      BY <1>1, <2>1, <3>1, ShapedHighest
  <2>3. PICK s : Drift(s, root, B, y) /\ ~ Spoilt(f[[tree |-> s, at |-> y]], B[root])
    BY <2>2
  <2>4. PICK r, g : /\ Drift(r, root, B, g) /\ Cardinality(B[y]) < Cardinality(B[g]) /\ g \in B[root]
                    /\ ~ Spoilt(f[[tree |-> r, at |-> g]], B[root])
    BY <2>3, DriftTurn
  <2>5. Wrong(g)
    BY <2>4
  <2> HIDE DEF Wrong
  <2>6. g \in Bad /\ y \in B[root]
    BY <2>2, <2>4, <2>5
  <2>7. Cardinality(B[y]) \in Nat /\ Cardinality(B[g]) \in Nat
    BY <1>1, <2>4, <2>6, SidesFacts, ShapedSides
  <2> HIDE DEF Bad
  <2>8. Cardinality(B[g]) <= Cardinality(B[y])
    BY <2>2, <2>6
  <2> QED
    BY <2>4, <2>7, <2>8
<1>3. ~ Wrong(x)
  BY <1>1, <1>2
<1> QED
  BY <1>3

(* What rbt_del_fix makes of a tree from which a black leaf was taken.                            *)
LEMMA HoleEnds ==
  ASSUME NEW t, NEW root, NEW B, NEW H, NEW p, NEW s, Hole(t, root, B, H, p, s)
  PROVE  Ended(t, rbt_del_fix(t, NILNODE), root, B[root], Loses(t))
<1>1. t \in Tree /\ NILNODE \in Ptr
  BY DEF Hole, Shaped, Ptr
<1>2. PICK f : DelFixes(f) /\ rbt_del_fix(t, NILNODE) = f[[tree |-> t, at |-> NILNODE]]
  BY <1>1, DelFixLoops DEF DelFixes
<1> DEFINE g == t.parent[t.parent[NILNODE]]
           r == DelUp(t, NILNODE)
           v == f[[tree |-> t, at |-> NILNODE]]
           bad == Loses(t)
<1>3. v = IF DelStop(t, NILNODE) THEN DelDone(t, NILNODE)
          ELSE IF DelTurns(t, NILNODE) THEN DelDone(DelTurned(t, NILNODE), NILNODE)
          ELSE IF IS_NULL(g) THEN r
          ELSE f[[tree |-> r, at |-> g]]
  BY <1>1, <1>2 DEF DelFixes
<1>4. /\ ~ DelStop(t, NILNODE) /\ (IS_NULL(g) <=> p = root)
      /\ DelTurns(t, NILNODE) => Ended(t, DelDone(DelTurned(t, NILNODE), NILNODE), root, B[root], bad)
      /\ ~ DelTurns(t, NILNODE) /\ p = root => Ended(t, r, root, B[root], bad)
      /\ ~ DelTurns(t, NILNODE) /\ p # root => bad /\ Drift(r, root, B, g)
  BY HoleTurn
<1> HIDE DEF g, r, v, bad
<1>5. Ended(t, v, root, B[root], bad)
  <2>1. CASE DelTurns(t, NILNODE)
    BY <1>3, <1>4, <2>1
  <2>2. CASE ~ DelTurns(t, NILNODE) /\ p = root
    BY <1>3, <1>4, <2>2
  <2>3. CASE ~ DelTurns(t, NILNODE) /\ p # root
    <3>1. bad /\ Drift(r, root, B, g) /\ v = f[[tree |-> r, at |-> g]]
      BY <1>3, <1>4, <2>3
    <3>2. Spoilt(v, B[root])
      BY <1>2, <3>1, DriftIsLost
    <3> QED
      BY <3>1, <3>2 DEF Ended
  <2> QED
    BY <2>1, <2>2, <2>3
<1> QED
  BY <1>2, <1>5 DEF v, bad

-----------------------------------------------------------------------------
(* What rbt_delete hands to rbt_del_fix.                                  *)

(* A red-black tree below root, with its heights.                                      *)
Healthy(t, root, B, H) ==
  /\ Shaped(t, root, B) /\ Tall(t, H, B[root]) /\ Mild(t, root, B[root])
  /\ t.color[root] = "BLACK" /\ t.color[NILNODE] = "BLACK"

(* A black node without one child is out of the tree, and the other, x, is in its place on side s of  *)
(* p: one black node is missing there.                                                    *)
Gap(t, root, B, H, x, p, s) ==
  /\ Shaped(t, root, B) /\ p \in B[root] /\ s \in Sides /\ x = t[s][p] /\ Weight(t, H, x) = 0
  /\ Tall(t, H, B[root] \ {p}) /\ H[p] = 1 /\ Weight(t, H, t[Other(s)][p]) = 1
  /\ Mild(t, root, B[root] \ {x}) /\ t.color[root] = "BLACK" /\ t.color[NILNODE] = "BLACK"
  /\ x # NILNODE => t.color[x] = "RED"

LEMMA HealthyIsMended ==
  ASSUME NEW t, NEW root, NEW B, NEW H, Healthy(t, root, B, H)
  PROVE  Mended(t, root, B[root])
BY DEF Healthy, Mended

(* When x is the sentinel, that is the hole the repair starts from.                    *)
LEMMA GapIsHole ==
  ASSUME NEW t, NEW root, NEW B, NEW H, NEW p, NEW s, Gap(t, root, B, H, NILNODE, p, s), t.parent[NILNODE] = p
  PROVE  Hole(t, root, B, H, p, s)
<1>1. Shaped(t, root, B) /\ B[root] \subseteq Node /\ Mild(t, root, B[root] \ {NILNODE})
  BY DEF Gap, Shaped
<1>2. B[root] \ {NILNODE} = B[root]
  BY <1>1, AddressAssumption
<1> QED
  BY <1>1, <1>2 DEF Gap, Hole

(* A red node in the gap is painted black.                                                   *)
LEMMA GapPainted ==
  ASSUME NEW t, NEW root, NEW B, NEW H, NEW x, NEW p, NEW s, Gap(t, root, B, H, x, p, s), x # NILNODE,
         NEW r, SameShape(t, r), \A y \in Ptr : r.color[y] = IF y = x THEN "BLACK" ELSE t.color[y]
  PROVE  Healthy(r, root, B, H)
<1> DEFINE U == B[root]
<1>1. /\ Shaped(t, root, B) /\ p \in U /\ s \in Sides /\ x = t[s][p] /\ Weight(t, H, x) = 0
      /\ Tall(t, H, U \ {p}) /\ H[p] = 1 /\ Weight(t, H, t[Other(s)][p]) = 1
      /\ Mild(t, root, U \ {x}) /\ t.color[root] = "BLACK" /\ t.color[NILNODE] = "BLACK" /\ t.color[x] = "RED"
      /\ U \subseteq Node /\ root \in U
  BY DEF Gap, Shaped
<1>2. \A y \in U : y \in Ptr /\ y # NILNODE
  BY <1>1, AddressAssumption DEF Ptr
<1>3. Shaped(r, root, B) /\ \A e \in Sides : r[e] = t[e]
  BY <1>1, SameShapeFacts
<1>4. NILNODE \in Ptr /\ r.color[NILNODE] = "BLACK" /\ r.color[root] = "BLACK" /\ r.color[x] = "BLACK" /\ x \in U
      /\ t.parent[x] = p /\ Other(s) \in Sides /\ Sides = {s, Other(s)}
  <2>1. NILNODE \in Ptr
    BY DEF Ptr
  <2>2. x \in U /\ t.parent[x] = p
    BY <1>1, ShapedSides
  <2> QED
    BY <1>1, <1>2, <2>1, <2>2, SidesFacts
<1>5. H[x] = 0 /\ Weight(r, H, x) = 1
  <2>1. H[x] + 0 = 0
    BY <1>1 DEF Weight
  <2>2. x \in U \ {p}
    <3>1. p \notin B[t[s][p]] /\ x \in B[x]
      BY <1>1, <1>4, ShapedSides
    <3> QED
      BY <1>1, <1>4, <3>1
  <2>3. H[x] \in Nat
    BY <1>1, <2>2 DEF Tall
  <2> QED
    BY <1>4, <2>1, <2>3 DEF Weight
<1>6. \A y \in U \cup {NILNODE} : y # x => Weight(r, H, y) = Weight(t, H, y)
  BY <1>2 DEF Weight
<1>7. ASSUME NEW y \in U, NEW e \in Sides
      PROVE  H[y] \in Nat /\ H[y] = Weight(r, H, r[e][y])
  <2>1. t[e][y] \in U \cup {NILNODE} /\ (t[e][y] # NILNODE => t.parent[t[e][y]] = y)
    BY <1>1, ShapedSides
  <2>2. CASE y = p
    <3>1. t[Other(s)][p] # x
      <4>1. t[s][p] # NILNODE => t[s][p] # t[Other(s)][p]
        BY <1>1, ShapedApart
      <4> QED
        BY <1>1, <4>1
    <3>2. Weight(r, H, t[Other(s)][p]) = 1
      <4>1. t[Other(s)][p] \in U \cup {NILNODE}
        BY <1>1, <1>4, ShapedSides
      <4> QED
        BY <1>1, <1>6, <3>1, <4>1
    <3>3. Weight(r, H, t[s][p]) = 1
      BY <1>1, <1>5
    <3>4. e = s \/ e = Other(s)
      BY <1>4
    <3>5. Weight(r, H, t[e][p]) = 1
      BY <3>2, <3>3, <3>4
    <3> QED
      BY <1>1, <1>3, <2>2, <3>5
  <2>3. CASE y # p
    <3>1. H[y] \in Nat /\ H[y] = Weight(t, H, t[e][y])
      BY <1>1, <2>3 DEF Tall
    <3>2. t[e][y] # x
      BY <1>2, <1>4, <2>1, <2>3
    <3> QED
      BY <1>3, <1>6, <2>1, <3>1, <3>2
  <2> QED
    BY <2>2, <2>3
<1>8. Tall(r, H, U)
  BY <1>1, <1>7 DEF Tall
<1>9. Mild(r, root, U)
  <2> SUFFICES ASSUME NEW y \in U, y # root, r.color[y] # "BLACK"
               PROVE  r.color[r.parent[y]] = "BLACK"
    BY DEF Mild
  <2>1. y # x
    BY <1>4
  <2>2. t.color[y] # "BLACK"
    BY <1>2, <2>1
  <2>3. t.color[t.parent[y]] = "BLACK"
    BY <1>1, <2>1, <2>2 DEF Mild
  <2>4. t.parent[y] \in Ptr /\ r.parent = t.parent
    BY <1>1, ShapedParent DEF SameShape
  <2> QED
    BY <2>3, <2>4
<1> QED
  BY <1>3, <1>4, <1>8, <1>9 DEF Healthy

(* What a node without a child on one side is like.                                          *)
LEMMA HalfLeaf ==
  ASSUME NEW t, NEW root, NEW B, NEW H, Healthy(t, root, B, H), NEW m \in B[root],
         NEW e \in Sides, t[Other(e)][m] = NILNODE, NEW x, x = t[e][m]
  PROVE  /\ H[m] = 0 /\ Weight(t, H, x) = 0 /\ x \in B[root] \cup {NILNODE}
         /\ x # NILNODE => /\ t.color[x] = "RED" /\ H[x] = 0 /\ t.parent[x] = m /\ x # root /\ x # m
                           /\ t.color[m] = "BLACK"
<1>1. /\ Shaped(t, root, B) /\ Tall(t, H, B[root]) /\ Mild(t, root, B[root]) /\ t.parent[root] = Null
      /\ Other(e) \in Sides /\ t \in Tree /\ B[root] \subseteq Node
  BY SidesFacts DEF Healthy, Shaped
<1>2. H[m] = Weight(t, H, NILNODE) /\ H[m] = Weight(t, H, x)
  BY <1>1 DEF Tall
<1>3. H[m] = 0 /\ Weight(t, H, x) = 0
  BY <1>2 DEF Weight
<1>4. x \in B[root] \cup {NILNODE} /\ (x # NILNODE => x \in B[root] /\ t.parent[x] = m /\ m \notin B[x] /\ x \in B[x])
  BY <1>1, ShapedSides
<1>5. ASSUME x # NILNODE
      PROVE  t.color[x] = "RED" /\ H[x] = 0 /\ x # root /\ x # m /\ t.color[m] = "BLACK"
  <2>1. H[x] \in Nat
    BY <1>1, <1>4, <1>5 DEF Tall
  <2>2. H[x] + (IF t.color[x] = "BLACK" THEN 1 ELSE 0) = 0
    BY <1>3, <1>5 DEF Weight
  <2>3. t.color[x] # "BLACK" /\ H[x] = 0
    BY <2>1, <2>2
  <2>4. x # root
    BY <1>1, <1>4, <1>5, AddressAssumption
  <2>5. t.color[m] = "BLACK"
    BY <1>1, <1>4, <1>5, <2>3, <2>4 DEF Mild
  <2>6. t.color[x] \in {"RED", "BLACK"}
    BY <1>1, <1>4, <1>5 DEF Tree, Ptr
  <2> QED
    BY <1>4, <1>5, <2>3, <2>4, <2>5, <2>6
<1> QED
  BY <1>3, <1>4, <1>5

(* A node without a child on one side is out, and the other child is in its place.                *)
LEMMA SplicedIsGap ==
  ASSUME NEW t, NEW root, NEW B, NEW H, Healthy(t, root, B, H), NEW m \in B[root], m # root,
         NEW e \in Sides, t[Other(e)][m] = NILNODE, NEW x, x = t[e][m], NEW p, p = t.parent[m],
         NEW u, Spliced(t, u, m, x, p)
  PROVE  /\ t.color[m] = "RED" => x = NILNODE /\ Healthy(u, root, Without(B, m), H)
         /\ t.color[m] = "BLACK" => \E s \in Sides : Gap(u, root, Without(B, m), H, x, p, s)
<1> DEFINE U == B[root]
           E == Without(B, m)
<1>1. /\ Shaped(t, root, B) /\ Tall(t, H, U) /\ Mild(t, root, U) /\ t.color[root] = "BLACK" /\ t.color[NILNODE] = "BLACK"
      /\ t \in Tree /\ U \subseteq Node /\ t.parent[root] = Null /\ root \in U
  BY DEF Healthy, Shaped
<1>2. /\ H[m] = 0 /\ Weight(t, H, x) = 0 /\ x \in U \cup {NILNODE}
      /\ x # NILNODE => t.color[x] = "RED" /\ t.parent[x] = m /\ x # m /\ t.color[m] = "BLACK"
  BY HalfLeaf
<1>3. Shaped(u, root, E) /\ E[root] = U \ {m}
  BY <1>1, SplicedBelowRoot
<1>4. /\ u.color = t.color /\ u \in Tree
      /\ \A y \in Ptr :
           /\ u.parent[y] = IF y = x THEN p ELSE t.parent[y]
           /\ \A s \in Sides : u[s][y] = IF p # Null /\ y = p /\ t[s][p] = m THEN x ELSE t[s][y]
  BY DEF Spliced
<1>5. /\ p \in U /\ p # m /\ p # Null /\ \E s \in Sides : m = t[s][p]
  BY <1>1, ShapedParent
<1>6. PICK s \in Sides : m = t[s][p]
  BY <1>5
<1>7. m # NILNODE /\ \A y \in U : y \in Ptr /\ y # NILNODE
  BY <1>1, AddressAssumption DEF Ptr
<1>8. \A G : \A y : Weight(u, G, y) = Weight(t, G, y)
  BY <1>4 DEF Weight
<1>9. t[Other(s)][p] # m /\ Other(s) \in Sides /\ Sides = {s, Other(s)}
  <2>1. t[s][p] # NILNODE => t[s][p] # t[Other(s)][p]
    BY <1>1, <1>5, ShapedApart
  <2> QED
    BY <1>6, <1>7, <2>1, SidesFacts
<1>10. u[s][p] = x /\ u[Other(s)][p] = t[Other(s)][p]
  BY <1>4, <1>5, <1>6, <1>7, <1>9
<1> HIDE DEF E, U
<1>11. H[p] \in Nat /\ H[p] = Weight(t, H, m) /\ H[p] = Weight(t, H, t[Other(s)][p])
  BY <1>1, <1>5, <1>6, <1>9 DEF Tall
<1>12. ASSUME NEW y \in E[root], NEW d \in Sides, y # p
       PROVE  H[y] \in Nat /\ H[y] = Weight(u, H, u[d][y])
  <2>1. y \in U /\ u[d][y] = t[d][y]
    BY <1>3, <1>4, <1>7, <1>12
  <2>2. H[y] \in Nat /\ H[y] = Weight(t, H, t[d][y])
    BY <1>1, <2>1 DEF Tall
  <2> QED
    BY <1>8, <2>1, <2>2
<1>13. Tall(u, H, E[root] \ {p})
  BY <1>6, <1>12 DEF Tall
<1>14. Mild(u, root, E[root] \ {x})
  <2> SUFFICES ASSUME NEW y \in E[root] \ {x}, y # root, u.color[y] # "BLACK"
               PROVE  u.color[u.parent[y]] = "BLACK"
    BY DEF Mild
  <2>1. y \in U /\ u.parent[y] = t.parent[y]
    BY <1>3, <1>4, <1>7
  <2> QED
    BY <1>1, <1>4, <2>1 DEF Mild
<1>15. p \in E[root]
  BY <1>3, <1>5
<1>16. ASSUME t.color[m] = "RED"
       PROVE  x = NILNODE /\ Healthy(u, root, E, H)
  <2>1. x = NILNODE
    BY <1>2, <1>16
  <2>2. E[root] \ {x} = E[root]
    BY <1>3, <1>7, <2>1
  <2>3. H[p] = 0
    BY <1>2, <1>7, <1>11, <1>16 DEF Weight
  <2>4. Weight(u, H, x) = 0 /\ H[p] = Weight(u, H, u[Other(s)][p])
    BY <1>2, <1>8, <1>10, <1>11
  <2>5. ASSUME NEW d \in Sides
        PROVE  H[p] = Weight(u, H, u[d][p])
    <3>1. d = s \/ d = Other(s)
      BY <1>9
    <3> QED
      BY <1>10, <2>3, <2>4, <3>1
  <2>6. ASSUME NEW y \in E[root], NEW d \in Sides
        PROVE  H[y] \in Nat /\ H[y] = Weight(u, H, u[d][y])
    <3>1. CASE y = p
      BY <1>11, <2>5, <3>1
    <3>2. CASE y # p
      BY <1>12, <3>2
    <3> QED
      BY <3>1, <3>2
  <2>7. Tall(u, H, E[root])
    BY <1>6, <2>6 DEF Tall
  <2> QED
    BY <1>1, <1>3, <1>4, <1>14, <2>1, <2>2, <2>7 DEF Healthy
<1>17. ASSUME t.color[m] = "BLACK"
       PROVE  Gap(u, root, E, H, x, p, s)
  <2>1. H[p] = 1
    <3>1. H[p] = H[m] + 1
      BY <1>7, <1>11, <1>17 DEF Weight
    <3> QED
      BY <1>2, <3>1
  <2>2. Weight(u, H, x) = 0 /\ Weight(u, H, u[Other(s)][p]) = 1
    BY <1>2, <1>8, <1>10, <1>11, <2>1
  <2>3. x # NILNODE => u.color[x] = "RED"
    BY <1>2, <1>4
  <2> QED
    BY <1>1, <1>3, <1>4, <1>6, <1>10, <1>13, <1>14, <1>15, <2>1, <2>2, <2>3 DEF Gap
<1> QED
  BY <1>16, <1>17 DEF E

(* y for d.                                                                           *)
Took(z, d, y) == IF z = d THEN y ELSE z

TookRoot(root, d, y) == IF d = root THEN y ELSE root

(* In d's place, and in d's colour.                                                       *)
Sat(u, r, d, y, p) ==
  /\ Replaced(u, r, d, y, p) /\ r.color[y] = u.color[d]
  /\ \A z \in Ptr : z # y => r.color[z] = u.color[z]

(* All is as it was, with y for d.                                                        *)
Carried(u, r, root, U, H, G, d, y) ==
  /\ \A z \in U \cup {NILNODE} : /\ Weight(r, G, Took(z, d, y)) = Weight(u, H, z)
                                 /\ r.color[Took(z, d, y)] = u.color[z]
  /\ \A z \in U : G[Took(z, d, y)] = H[z] /\ \A s \in Sides : r[s][Took(z, d, y)] = Took(u[s][z], d, y)
  /\ \A z \in U : z # root => r.parent[Took(z, d, y)] = Took(u.parent[z], d, y)
  /\ \A v \in (U \ {d}) \cup {y} : \E z \in U : v = Took(z, d, y)
  /\ \A z \in U : Took(z, d, y) \in (U \ {d}) \cup {y}

LEMMA SatIsCarried ==
  ASSUME NEW u, NEW root, NEW E, Shaped(u, root, E), NEW d \in E[root], NEW y \in Node, y \notin E[root],
         NEW p, p = u.parent[d], NEW r, Sat(u, r, d, y, p), NEW H,
         NEW G, \A z : z \in E[root] \cup {y} => G[z] = IF z = y THEN H[d] ELSE H[z]
  PROVE  Carried(u, r, root, E[root], H, G, d, y)
<1> DEFINE U == E[root]
           T(z) == Took(z, d, y)
<1>1. /\ \A s \in Sides : /\ r[s][y] = u[s][d]
                          /\ \A z \in Ptr : z # y => r[s][z] = IF p # Null /\ z = p /\ u[s][p] = d THEN y ELSE u[s][z]
      /\ \A z \in Node : z # y => r.parent[z] = IF \E s \in Sides : z = u[s][d] THEN y ELSE u.parent[z]
      /\ r.parent[y] = p /\ r.color[y] = u.color[d] /\ \A z \in Ptr : z # y => r.color[z] = u.color[z]
  BY DEF Sat, Replaced
<1>2. U \subseteq Node /\ NILNODE \notin U /\ NILNODE # y /\ NILNODE # d /\ U \subseteq Ptr /\ NILNODE \in Ptr
      /\ y \in Ptr /\ d \in Ptr /\ y # d /\ Null \notin U
  BY AddressAssumption DEF Shaped, Ptr
<1>3. ASSUME NEW z \in U
      PROVE  G[T(z)] = H[z] /\ r.color[T(z)] = u.color[z]
  <2>1. z # y /\ z \in Ptr
    BY <1>2
  <2> QED
    BY <1>1, <2>1 DEF Took
<1>4. r.color[T(NILNODE)] = u.color[NILNODE] /\ T(NILNODE) = NILNODE
  BY <1>1, <1>2 DEF Took
<1>5. ASSUME NEW z \in U \cup {NILNODE}
      PROVE  Weight(r, G, T(z)) = Weight(u, H, z)
  <2>1. CASE z = NILNODE
    BY <1>4, <2>1 DEF Weight
  <2>2. CASE z # NILNODE
    <3>1. G[T(z)] = H[z] /\ r.color[T(z)] = u.color[z]
      BY <1>3, <2>2
    <3>2. T(z) # NILNODE
      BY <1>2, <2>2 DEF Took
    <3> HIDE DEF T
    <3> QED
      BY <2>2, <3>1, <3>2 DEF Weight
  <2> QED
    BY <2>1, <2>2
<1>6. ASSUME NEW z \in U, NEW s \in Sides
      PROVE  r[s][T(z)] = T(u[s][z])
  <2>1. u[s][z] # NILNODE => u.parent[u[s][z]] = z
    BY ShapedSides
  <2>2. CASE z = d
    <3>1. u[s][d] # d
      <4>1. d \notin E[u[s][d]] /\ (u[s][d] # NILNODE => u[s][d] \in E[u[s][d]])
        BY ShapedSides
      <4> QED
        BY <1>2, <4>1
    <3> QED
      BY <1>1, <2>2, <3>1 DEF Took
  <2>3. CASE z # d
    <3>1. z \in Ptr /\ z # y /\ z # Null
      BY <1>2
    <3>2. r[s][z] = IF p # Null /\ z = p /\ u[s][p] = d THEN y ELSE u[s][z]
      BY <1>1, <3>1
    <3>3. u[s][z] = d => z = p /\ p # Null
      BY <1>2, <2>1, <3>1
    <3> QED
      BY <2>3, <3>2, <3>3 DEF Took
  <2> QED
    BY <2>2, <2>3
<1>7. ASSUME NEW z \in U, z # root
      PROVE  r.parent[T(z)] = T(u.parent[z])
  <2>1. CASE z = d
    <3>1. u.parent[z] # z
      BY <1>7, ShapedParent
    <3> QED
      BY <1>1, <2>1, <3>1 DEF Took
  <2>2. CASE z # d
    <3>1. z \in Node /\ z # y
      BY <1>2
    <3>2. (\E s \in Sides : z = u[s][d]) <=> u.parent[z] = d
      <4>1. \A s \in Sides : z = u[s][d] => u.parent[z] = d
        BY <1>2, ShapedSides
      <4>2. \E s \in Sides : z = u[s][u.parent[z]]
        BY <1>7, ShapedParent
      <4> QED
        BY <4>1, <4>2
    <3> QED
      BY <1>1, <2>2, <3>1, <3>2 DEF Took
  <2> QED
    BY <2>1, <2>2
<1>8. \A v \in (U \ {d}) \cup {y} : \E z \in U : v = T(z)
  BY DEF Took
<1>9. \A z \in U : T(z) \in (U \ {d}) \cup {y}
  BY DEF Took
<1> QED
  BY <1>3, <1>4, <1>5, <1>6, <1>7, <1>8, <1>9 DEF Carried

(* What y takes from d in a tree it is not in.                                            *)
Takes(u, root, U, d, y, V, top) ==
  /\ \E E : Shaped(u, root, E) /\ U = E[root]
  /\ d \in U /\ y \in Node /\ y \notin U
  /\ V = (U \ {d}) \cup {y} /\ top = TookRoot(root, d, y)

TallBut(u, H, U, Z) == Tall(u, H, U \ Z)

MildBut(u, root, U, x) ==
  /\ Mild(u, root, U \ {x}) /\ u.color[root] = "BLACK" /\ u.color[NILNODE] = "BLACK"

(* Counts and reds are as they were.                                                       *)
LEMMA CarriedTall ==
  ASSUME NEW u, NEW root, NEW U, NEW d, NEW y, NEW V, NEW top, Takes(u, root, U, d, y, V, top),
         NEW r, NEW H, NEW G, Carried(u, r, root, U, H, G, d, y),
         NEW Z, TallBut(u, H, U, Z),
         NEW W, \A z \in Z : Took(z, d, y) \in W
  PROVE  TallBut(r, G, V, W)
<1> PICK E : Shaped(u, root, E) /\ U = E[root]
  BY DEF Takes
<1>0. /\ d \in U /\ y \in Node /\ y \notin U /\ Tall(u, H, U \ Z)
      /\ V = (U \ {d}) \cup {y}
  BY DEF Takes, TallBut
<1>1. /\ \A z \in U \cup {NILNODE} : Weight(r, G, Took(z, d, y)) = Weight(u, H, z)
      /\ \A z \in U : G[Took(z, d, y)] = H[z] /\ \A s \in Sides : r[s][Took(z, d, y)] = Took(u[s][z], d, y)
      /\ \A v \in V : \E z \in U : v = Took(z, d, y)
  BY <1>0 DEF Carried
<1>2. ASSUME NEW v \in V \ W, NEW s \in Sides
      PROVE  G[v] \in Nat /\ G[v] = Weight(r, G, r[s][v])
  <2>1. PICK z \in U : v = Took(z, d, y)
    BY <1>1, <1>2
  <2>2. z \in U \ Z
    BY <1>2, <2>1
  <2>3. H[z] \in Nat /\ H[z] = Weight(u, H, u[s][z])
    BY <1>0, <2>2 DEF Tall
  <2>4. u[s][z] \in U \cup {NILNODE}
    BY <1>0, ShapedSides
  <2>5. G[v] = H[z] /\ r[s][v] = Took(u[s][z], d, y)
    BY <1>1, <2>1
  <2> QED
    BY <1>1, <2>3, <2>4, <2>5
<1> QED
  BY <1>2, SidesFacts DEF Tall, TallBut

LEMMA CarriedMild ==
  ASSUME NEW u, NEW root, NEW U, NEW d, NEW y, NEW V, NEW top, Takes(u, root, U, d, y, V, top),
         NEW r, NEW H, NEW G, Carried(u, r, root, U, H, G, d, y),
         NEW x, x # d, MildBut(u, root, U, x)
  PROVE  MildBut(r, top, V, x)
<1> PICK E : Shaped(u, root, E) /\ U = E[root]
  BY DEF Takes
<1>0. /\ d \in U /\ y \in Node /\ y \notin U /\ Mild(u, root, U \ {x})
      /\ u.color[root] = "BLACK" /\ u.color[NILNODE] = "BLACK"
      /\ V = (U \ {d}) \cup {y} /\ top = TookRoot(root, d, y)
  BY DEF Takes, MildBut
<1>1. /\ \A z \in U \cup {NILNODE} : r.color[Took(z, d, y)] = u.color[z]
      /\ \A z \in U : z # root => r.parent[Took(z, d, y)] = Took(u.parent[z], d, y)
      /\ \A v \in V : \E z \in U : v = Took(z, d, y)
  BY <1>0 DEF Carried
<1>2. root \in U /\ U \subseteq Node
  BY <1>0 DEF Shaped
<1>3. top = Took(root, d, y) /\ NILNODE = Took(NILNODE, d, y)
  BY <1>0, <1>2, AddressAssumption DEF Took, TookRoot
<1>4. r.color[top] = "BLACK" /\ r.color[NILNODE] = "BLACK"
  BY <1>0, <1>1, <1>2, <1>3
<1>5. ASSUME NEW v \in V \ {x}, v # top, r.color[v] # "BLACK"
      PROVE  r.color[r.parent[v]] = "BLACK"
  <2>1. PICK z \in U : v = Took(z, d, y)
    BY <1>1, <1>5
  <2>2. z # root
    BY <1>3, <1>5, <2>1
  <2>3. z # x
    BY <1>0, <1>5, <2>1 DEF Took
  <2>4. u.color[z] # "BLACK"
    BY <1>1, <1>5, <2>1
  <2>5. u.color[u.parent[z]] = "BLACK"
    BY <1>0, <2>2, <2>3, <2>4 DEF Mild
  <2>6. u.parent[z] \in U
    BY <1>0, <2>2, ShapedParent
  <2> QED
    BY <1>1, <2>1, <2>2, <2>5, <2>6
<1>6. Mild(r, top, V \ {x})
  BY <1>5 DEF Mild
<1> QED
  BY <1>4, <1>6 DEF MildBut

(* A healthy tree is healthy with y for d.                                             *)
LEMMA HealthySits ==
  ASSUME NEW u, NEW root, NEW E, NEW H, Healthy(u, root, E, H), NEW d \in E[root], NEW y \in Node, y \notin E[root],
         Fits(u, E[root], E, d, y), NEW p, p = u.parent[d], NEW r, Sat(u, r, d, y, p)
  PROVE  Mended(r, TookRoot(root, d, y), (E[root] \ {d}) \cup {y})
<1> DEFINE U == E[root]
           G == [z \in E[root] \cup {y} |-> IF z = y THEN H[d] ELSE H[z]]
           V == (E[root] \ {d}) \cup {y}
           top == TookRoot(root, d, y)
           F == Seated(E, d, y)
<1>1. /\ Shaped(u, root, E) /\ Tall(u, H, E[root]) /\ Mild(u, root, E[root]) /\ u.color[root] = "BLACK"
      /\ u.color[NILNODE] = "BLACK" /\ E[root] \subseteq Node
  BY DEF Healthy, Shaped
<1>2. Replaced(u, r, d, y, p)
  BY DEF Sat
<1>3. SeatTaken(root, E, d, y, r)
  BY <1>1, <1>2, ReplacedIsShaped
<1>4. Shaped(r, top, F) /\ F[top] = V
  BY <1>3 DEF SeatTaken, TookRoot
<1>5. \A z : z \in E[root] \cup {y} => G[z] = IF z = y THEN H[d] ELSE H[z]
  OBVIOUS
<1>6. U = E[root] /\ V = (E[root] \ {d}) \cup {y} /\ top = TookRoot(root, d, y)
  OBVIOUS
<1> HIDE DEF U, G, V, top, F
<1>7. Carried(u, r, root, U, H, G, d, y)
  BY <1>1, <1>5, <1>6, SatIsCarried
<1>8. Takes(u, root, U, d, y, V, top)
  BY <1>1, <1>6 DEF Takes
<1>9. TallBut(u, H, U, {})
  <2>1. E[root] \ {} = E[root]
    OBVIOUS
  <2> QED
    BY <1>1, <1>6, <2>1 DEF TallBut
<1>10. \A z \in {} : Took(z, d, y) \in {}
  OBVIOUS
<1>11. TallBut(r, G, V, {})
  BY <1>7, <1>8, <1>9, <1>10, CarriedTall
<1>12. MildBut(u, root, U, NILNODE) /\ NILNODE # d
  BY <1>1, <1>6, AddressAssumption DEF Mild, MildBut
<1>13. MildBut(r, top, V, NILNODE)
  BY <1>7, <1>8, <1>12, CarriedMild
<1>14. V \ {} = V /\ V \ {NILNODE} = V
  BY <1>1, <1>6, AddressAssumption
<1>15. Mended(r, top, V)
  BY <1>4, <1>11, <1>13, <1>14 DEF Mended, MildBut, TallBut
<1> QED
  BY <1>6, <1>15

(* A gap is where it was, with y for d.                                                *)
LEMMA GapSits ==
  ASSUME NEW u, NEW root, NEW E, NEW H, NEW x, NEW q, NEW s, Gap(u, root, E, H, x, q, s),
         NEW d \in E[root], x # d, NEW y \in Node, y \notin E[root],
         Fits(u, E[root], E, d, y), NEW p, p = u.parent[d], NEW r, Sat(u, r, d, y, p)
  PROVE  \E F, G : /\ Gap(r, TookRoot(root, d, y), F, G, x, Took(q, d, y), s)
                   /\ F[TookRoot(root, d, y)] = (E[root] \ {d}) \cup {y}
<1> DEFINE U == E[root]
           G == [z \in E[root] \cup {y} |-> IF z = y THEN H[d] ELSE H[z]]
           V == (E[root] \ {d}) \cup {y}
           top == TookRoot(root, d, y)
           F == Seated(E, d, y)
           t == Took(q, d, y)
<1>1. /\ Shaped(u, root, E) /\ q \in E[root] /\ s \in Sides /\ x = u[s][q] /\ Weight(u, H, x) = 0
      /\ Tall(u, H, E[root] \ {q}) /\ H[q] = 1 /\ Weight(u, H, u[Other(s)][q]) = 1
      /\ Mild(u, root, E[root] \ {x}) /\ u.color[root] = "BLACK" /\ u.color[NILNODE] = "BLACK"
      /\ (x # NILNODE => u.color[x] = "RED") /\ E[root] \subseteq Node /\ Other(s) \in Sides
  BY SidesFacts DEF Gap, Shaped
<1>2. Replaced(u, r, d, y, p)
  BY DEF Sat
<1>3. SeatTaken(root, E, d, y, r)
  BY <1>1, <1>2, ReplacedIsShaped
<1>4. Shaped(r, top, F) /\ F[top] = V
  BY <1>3 DEF SeatTaken, TookRoot
<1>5. \A z : z \in E[root] \cup {y} => G[z] = IF z = y THEN H[d] ELSE H[z]
  OBVIOUS
<1>6. U = E[root] /\ V = (E[root] \ {d}) \cup {y} /\ top = TookRoot(root, d, y) /\ t = Took(q, d, y)
  OBVIOUS
<1> HIDE DEF U, G, V, top, F, t
<1>7. Carried(u, r, root, U, H, G, d, y)
  BY <1>1, <1>5, <1>6, SatIsCarried
<1>8. Takes(u, root, U, d, y, V, top)
  BY <1>1, <1>6 DEF Takes
<1>16. TallBut(r, G, V, {t})
  <2>1. TallBut(u, H, U, {q})
    BY <1>1, <1>6 DEF TallBut
  <2>2. \A z \in {q} : Took(z, d, y) \in {t}
    BY <1>6
  <2> QED
    BY <1>7, <1>8, <2>1, <2>2, CarriedTall
<1>17. MildBut(u, root, U, x)
  BY <1>1, <1>6 DEF MildBut
<1>18. MildBut(r, top, V, x)
  BY <1>7, <1>8, <1>17, CarriedMild
<1>9. Mild(r, top, V \ {x}) /\ r.color[top] = "BLACK" /\ r.color[NILNODE] = "BLACK"
  BY <1>18 DEF MildBut
<1>10. /\ \A z \in E[root] \cup {NILNODE} : /\ Weight(r, G, Took(z, d, y)) = Weight(u, H, z)
                                           /\ r.color[Took(z, d, y)] = u.color[z]
       /\ \A z \in E[root] : G[Took(z, d, y)] = H[z]
                              /\ \A e \in Sides : r[e][Took(z, d, y)] = Took(u[e][z], d, y)
       /\ \A z \in E[root] : Took(z, d, y) \in V
  BY <1>6, <1>7 DEF Carried
<1>11. Took(x, d, y) = x /\ x \in E[root] \cup {NILNODE} /\ u[Other(s)][q] \in E[root] \cup {NILNODE}
  BY <1>1, ShapedSides DEF Took
<1>12. x = r[s][t] /\ Weight(r, G, x) = 0 /\ G[t] = 1 /\ t \in V
  <2>1. r[s][t] = Took(x, d, y)
    BY <1>1, <1>6, <1>10
  <2>2. Weight(r, G, x) = Weight(u, H, x)
    BY <1>10, <1>11
  <2> QED
    BY <1>1, <1>6, <1>10, <1>11, <2>1, <2>2
<1>13. Weight(r, G, r[Other(s)][t]) = 1
  <2>1. r[Other(s)][t] = Took(u[Other(s)][q], d, y)
    BY <1>1, <1>6, <1>10
  <2> QED
    BY <1>1, <1>10, <1>11, <2>1
<1>14. x # NILNODE => r.color[x] = "RED"
  BY <1>1, <1>10, <1>11
<1>15. Gap(r, top, F, G, x, t, s)
  BY <1>1, <1>4, <1>16, <1>9, <1>12, <1>13, <1>14 DEF Gap, TallBut
<1> QED
  BY <1>4, <1>6, <1>15

-----------------------------------------------------------------------------
(* The ways of rbt_delete.                                                *)

(* Which of its ways rbt_delete goes.                                                      *)
CutWays(t, d) ==
  /\ t.left[d] = NILNODE /\ t.right[d] = NILNODE => Cut(t, d) = Alone(t, d) /\ Moved(t, d) = d
  /\ \A s \in Sides : t[s][d] # NILNODE /\ t[Other(s)][d] = NILNODE =>
       Cut(t, d) = OnlyChild(t, d, t[s][d]) /\ Moved(t, d) = t[s][d]
  /\ t.left[d] # NILNODE /\ t.right[d] # NILNODE =>
       /\ Cut(t, d) = NextKey(t, d, Leftmost(t, t.right[d]))
       /\ Moved(t, d) = Leftmost(t, t.right[d])

LEMMA CutGoes ==
  ASSUME NEW t, NEW root, NEW B, Shaped(t, root, B), NEW d \in B[root]
  PROVE  CutWays(t, d)
<1>1. t.left[d] # Null /\ t.right[d] # Null /\ t["right"][d] = t.right[d] /\ t["left"][d] = t.left[d]
      /\ Other("left") = "right" /\ Other("right") = "left"
  <2>1. t["right"][d] \in B[root] \cup {NILNODE} /\ t["left"][d] \in B[root] \cup {NILNODE}
    BY ShapedSides, SidesFacts
  <2>2. B[root] \subseteq Node
    BY DEF Shaped
  <2> QED
    BY <2>1, <2>2, AddressAssumption DEF Other
<1>2. (IS_NULL(t.left[d]) <=> t.left[d] = NILNODE) /\ (IS_NULL(t.right[d]) <=> t.right[d] = NILNODE)
  BY <1>1 DEF IS_NULL
<1>3. CASE t.left[d] = NILNODE /\ t.right[d] = NILNODE
  <2>1. Cut(t, d) = Alone(t, d) /\ Moved(t, d) = d
    BY <1>2, <1>3 DEF Cut, Moved
  <2> QED
    BY <1>1, <1>3, <2>1 DEF CutWays, Sides
<1>4. CASE t.left[d] = NILNODE /\ t.right[d] # NILNODE
  <2>1. Cut(t, d) = OnlyChild(t, d, t.right[d]) /\ Moved(t, d) = t.right[d]
    BY <1>2, <1>4 DEF Cut, Moved
  <2> QED
    BY <1>1, <1>4, <2>1 DEF CutWays, Sides
<1>5. CASE t.left[d] # NILNODE /\ t.right[d] = NILNODE
  <2>1. Cut(t, d) = OnlyChild(t, d, t.left[d]) /\ Moved(t, d) = t.left[d]
    BY <1>2, <1>5 DEF Cut, Moved
  <2> QED
    BY <1>1, <1>5, <2>1 DEF CutWays, Sides
<1>6. CASE t.left[d] # NILNODE /\ t.right[d] # NILNODE
  <2>1. Cut(t, d) = NextKey(t, d, Leftmost(t, t.right[d])) /\ Moved(t, d) = Leftmost(t, t.right[d])
    BY <1>2, <1>6 DEF Cut, Moved
  <2> QED
    BY <1>1, <1>6, <2>1 DEF CutWays, Sides
<1> QED
  BY <1>3, <1>4, <1>5, <1>6

(* What rbt_delete comes to.                                                              *)
FixLoses(cut) == LosesColors(cut.tree, cut.X) \/ LosesRoot(cut.tree, cut.X)

DeleteEnds(t, cut, r, root, d, V) ==
  /\ V = {} => cut.black /\ r.root = NILNODE /\ r \in Tree
  /\ V # {} /\ ~ cut.black => Mended(r, r.root, V)
  /\ V # {} /\ cut.black => \E top : (d # root => top = root) /\ Ended(t, r, top, V, FixLoses(cut))

(* rbt_del_fix has nothing to climb to, or meets a red node.                                 *)
LEMMA FixStopsAtOnce ==
  ASSUME NEW t \in Tree, NEW x \in Ptr, DelStop(t, x)
  PROVE  rbt_del_fix(t, x) = DelDone(t, x)
<1>1. PICK f : DelFixes(f) /\ rbt_del_fix(t, x) = f[[tree |-> t, at |-> x]]
  BY DelFixLoops DEF DelFixes
<1>2. f[[tree |-> t, at |-> x]] = DelDone(t, x)
  BY <1>1 DEF DelFixes
<1> QED
  BY <1>1, <1>2

(* The last node of the tree.                                                              *)
LEMMA LastIsDeleted ==
  ASSUME NEW t, NEW root, NEW B, NEW H, Healthy(t, root, B, H), t.left[root] = NILNODE, t.right[root] = NILNODE,
         NEW cut, cut = Cut(t, root), NEW r, r = Closed(cut, root)
  PROVE  cut.black /\ r.root = NILNODE /\ r \in Tree /\ B[root] \ {root} = {}
<1>1. /\ Shaped(t, root, B) /\ root \in B[root] /\ root \in Node /\ t \in Tree /\ t.parent[root] = Null
      /\ B[NILNODE] = {} /\ t.color[root] = "BLACK"
  BY DEF Healthy, Shaped
<1>2. cut = Alone(t, root)
  <2>1. CutWays(t, root)
    BY <1>1, CutGoes
  <2> QED
    BY <2>1 DEF CutWays
<1> DEFINE u == transplant(t, root, NILNODE)
<1>3. cut.tree = u /\ cut.X = NILNODE /\ cut.black
  <2>1. cut.tree = u /\ cut.X = NILNODE /\ cut.black = is_black(t, root)
    BY <1>2 DEF Alone
  <2>2. is_black(t, root)
    BY <1>1 DEF is_black
  <2> QED
    BY <2>1, <2>2
<1>4. Spliced(t, u, root, NILNODE, Null)
  <2>1. NILNODE \in Ptr /\ root # NILNODE
    BY <1>1, AddressAssumption DEF Ptr
  <2> DEFINE p == t.parent[root]
  <2>2. p = t.parent[root] /\ p \in Node \cup {Null} /\ (p # Null => (t.left[p] = root <=> t.right[p] # root))
    BY <1>1
  <2>3. p = Null
    BY <1>1
  <2> HIDE DEF p
  <2>4. Spliced(t, u, root, NILNODE, p)
    BY <1>1, <2>1, <2>2, TransplantFields
  <2> QED
    BY <2>3, <2>4
<1> HIDE DEF u
<1>5. u \in Tree /\ NILNODE \in Ptr /\ IS_NULL(u.parent[NILNODE])
  <2>1. NILNODE \in Ptr
    BY DEF Ptr
  <2> QED
    BY <1>4, <2>1 DEF Spliced, IS_NULL
<1>6. r = DelDone(u, NILNODE)
  <2>1. DelStop(u, NILNODE)
    BY <1>5 DEF DelStop
  <2>2. rbt_del_fix(u, NILNODE) = DelDone(u, NILNODE)
    BY <1>5, <2>1, FixStopsAtOnce
  <2> QED
    BY <1>3, <2>2 DEF Closed
<1>7. r.root = NILNODE /\ r \in Tree
  BY <1>5, <1>6, DoneFields DEF SameShape
<1>8. B[root] = {root}
  <2>1. B[root] = {root} \cup B[t["left"][root]] \cup B[t[Other("left")][root]]
    BY <1>1 DEF Shaped, Sides
  <2> QED
    BY <1>1, <2>1 DEF Other
<1> QED
  BY <1>3, <1>7, <1>8

(* A leaf below others.                                                                   *)
LEMMA LeafIsDeleted ==
  ASSUME NEW t, NEW root, NEW B, NEW H, Healthy(t, root, B, H), t.root = root, NEW d \in B[root], d # root,
         t.left[d] = NILNODE, t.right[d] = NILNODE,
         NEW cut, cut = Cut(t, d), NEW r, r = Closed(cut, d)
  PROVE  DeleteEnds(t, cut, r, root, d, B[root] \ {d})
<1> DEFINE V == B[root] \ {d}
           u == transplant(t, d, NILNODE)
           p == t.parent[d]
           E == Without(B, d)
<1>1. Shaped(t, root, B) /\ root \in B[root] /\ t \in Tree /\ t.color[d] \in {"RED", "BLACK"} /\ d \in Node
  <2>1. Shaped(t, root, B) /\ root \in B[root] /\ t \in Tree /\ d \in Ptr /\ d \in Node
    BY DEF Healthy, Shaped, Ptr
  <2> QED
    BY <2>1 DEF Tree
<1>2. p \in B[root] /\ p \in Node /\ V # {} /\ p = t.parent[d] /\ (t.left[p] = d <=> t.right[p] # d)
  <2>1. p \in Node \cup {Null} /\ p # Null /\ p \in B[root] /\ (t.left[p] = d <=> t.right[p] # d)
    BY <1>1, ShapedLink
  <2> QED
    BY <1>1, <2>1
<1> HIDE DEF p
<1>3. cut = Alone(t, d)
  <2>1. CutWays(t, d)
    BY <1>1, CutGoes
  <2> QED
    BY <2>1 DEF CutWays
<1>4. cut.tree = u /\ cut.X = NILNODE /\ (cut.black <=> t.color[d] = "BLACK") /\ cut.Y = NILNODE
  <2>1. cut.tree = u /\ cut.X = NILNODE /\ cut.black = is_black(t, d) /\ cut.Y = NILNODE
    BY <1>3 DEF Alone
  <2>2. is_black(t, d) <=> t.color[d] = "BLACK"
    BY <1>1, AddressAssumption DEF is_black, IS_NULL
  <2> QED
    BY <2>1, <2>2
<1>5. Spliced(t, u, d, NILNODE, p)
  <2>1. NILNODE \in Ptr /\ d # NILNODE
    BY <1>1, AddressAssumption DEF Ptr
  <2> QED
    BY <1>1, <1>2, <2>1, TransplantFields
<1> HIDE DEF u
<1>6. "left" \in Sides /\ t[Other("left")][d] = NILNODE /\ NILNODE = t["left"][d]
  BY DEF Sides, Other
<1>7. /\ t.color[d] = "RED" => Healthy(u, root, E, H)
      /\ t.color[d] = "BLACK" => \E s \in Sides : Gap(u, root, E, H, NILNODE, p, s)
  BY <1>2, <1>5, <1>6, SplicedIsGap
<1>8. E[root] = V /\ u.root = root /\ u.parent[NILNODE] = p
  <2>1. NILNODE \in Ptr
    BY DEF Ptr
  <2>2. E[root] = V
    <3>1. root \in Ptr
      BY <1>1 DEF Shaped, Ptr
    <3> QED
      BY <3>1 DEF Without
  <2> QED
    BY <1>5, <2>1, <2>2 DEF Spliced
<1> HIDE DEF E, V
<1>9. CASE ~ cut.black
  <2>1. Healthy(u, root, E, H)
    BY <1>1, <1>4, <1>7, <1>9
  <2>2. Mended(u, root, V)
    BY <1>8, <2>1, HealthyIsMended
  <2>3. r = u
    <3>1. r = [u EXCEPT !.root = IF @ = d THEN NILNODE ELSE @]
      BY <1>4, <1>9 DEF Closed
    <3>2. u \in Tree
      BY <1>5 DEF Spliced
    <3> QED
      BY <1>8, <3>1, <3>2 DEF Tree
  <2>4. Mended(r, r.root, V)
    BY <1>8, <2>2, <2>3
  <2> QED
    BY <1>2, <1>9, <2>4 DEF DeleteEnds, V
<1>10. CASE cut.black
  <2>1. PICK s \in Sides : Gap(u, root, E, H, NILNODE, p, s)
    BY <1>4, <1>7, <1>10
  <2>2. Hole(u, root, E, H, p, s)
    BY <1>8, <2>1, GapIsHole
  <2>3. Ended(u, rbt_del_fix(u, NILNODE), root, E[root], Loses(u))
    BY <2>2, HoleEnds
  <2>4. r = rbt_del_fix(u, NILNODE)
    BY <1>4, <1>10 DEF Closed
  <2>5. FixLoses(cut) <=> Loses(u)
    BY <1>4 DEF FixLoses, Loses
  <2>6. Ended(t, r, root, V, FixLoses(cut))
    BY <1>8, <2>3, <2>4, <2>5 DEF Ended
  <2> QED
    BY <1>2, <1>10, <2>6 DEF DeleteEnds, V
<1> QED
  BY <1>9, <1>10 DEF V

(* *root is written and nothing else.                                                  *)
LEMMA RootSet ==
  ASSUME NEW t \in Tree, NEW d, NEW c \in Link, NEW r, r = [t EXCEPT !.root = IF @ = d THEN c ELSE @]
  PROVE  SameShape(t, r) /\ r.color = t.color /\ r.root = IF t.root = d THEN c ELSE t.root
<1>1. r.parent = t.parent /\ r.left = t.left /\ r.right = t.right /\ r.key = t.key
  BY DEF Tree
<1>2. r.color = t.color /\ r.root = IF t.root = d THEN c ELSE t.root
  BY DEF Tree
<1>3. r \in Tree
  BY DEF Tree
<1> QED
  BY <1>1, <1>2, <1>3 DEF SameShape

(* A red leaf has its black parent's place and colour.                                        *)
ChildTakes(t, r, u, d, c, p) ==
  /\ Spliced(t, u, d, c, p) /\ SameShape(u, r) /\ \A y \in Ptr : r.color[y] = IF y = c THEN "BLACK" ELSE u.color[y]
  /\ r.root = IF t.root = d THEN c ELSE t.root

(* An only child is such a leaf.                                                       *)
LEMMA OnlyChildTakes ==
  ASSUME NEW t, NEW root, NEW B, NEW H, Healthy(t, root, B, H), NEW d \in B[root],
         NEW e \in Sides, NEW c, c = t[e][d], c # NILNODE, t[Other(e)][d] = NILNODE,
         NEW cut, cut = Cut(t, d), NEW r, r = Closed(cut, d)
  PROVE  ~ cut.black /\ \E u : ChildTakes(t, r, u, d, c, t.parent[d])
<1> DEFINE u == transplant(t, d, c)
           p == t.parent[d]
           w == [u EXCEPT !.color[c] = "BLACK"]
<1>1. /\ Shaped(t, root, B) /\ root \in B[root] /\ t \in Tree /\ d \in Node /\ d \in Ptr /\ c \in B[root] /\ c \in Node
      /\ c \in Ptr /\ c \in Link /\ c # NILNODE /\ c # Null
  <2>1. Shaped(t, root, B) /\ root \in B[root] /\ t \in Tree /\ d \in Node /\ B[root] \subseteq Node
    BY DEF Healthy, Shaped
  <2>2. c \in B[root] \cup {NILNODE}
    BY <2>1, ShapedSides
  <2> QED
    BY <2>1, <2>2, AddressAssumption DEF Ptr, Link
<1>2. t.color[c] = "RED" /\ c # d /\ t.color[d] = "BLACK"
  BY HalfLeaf
<1>3. cut = OnlyChild(t, d, c)
  <2>1. CutWays(t, d)
    BY <1>1, CutGoes
  <2> QED
    BY <2>1 DEF CutWays
<1>4. p = t.parent[d] /\ p \in Node \cup {Null} /\ (p # Null => (t.left[p] = d <=> t.right[p] # d))
  BY <1>1, ShapedLink
<1> HIDE DEF p
<1>5. Spliced(t, u, d, c, p)
  BY <1>1, <1>2, <1>4, TransplantFields
<1>6. cut.tree = w /\ cut.Y = c /\ cut.black = is_black(t, c)
  BY <1>2, <1>3 DEF OnlyChild
<1>7. ~ cut.black
  <2>1. ~ is_black(t, c)
    BY <1>1, <1>2 DEF is_black, IS_NULL
  <2> QED
    BY <1>6, <2>1
<1> HIDE DEF u
<1>8. u \in Tree /\ u.root = t.root /\ u.color = t.color
  BY <1>5 DEF Spliced
<1>9. Painted(u, w, c, "BLACK")
  BY <1>1, <1>8, PaintFields
<1> HIDE DEF w
<1>10. w \in Tree /\ SameShape(u, w) /\ w.root = u.root /\ \A y \in Ptr : w.color[y] = IF y = c THEN "BLACK" ELSE u.color[y]
  BY <1>9 DEF Painted, SameShape
<1>11. r = [w EXCEPT !.root = IF @ = d THEN c ELSE @]
  BY <1>6, <1>7 DEF Closed
<1>12. SameShape(w, r) /\ r.color = w.color /\ r.root = IF w.root = d THEN c ELSE w.root
  BY <1>1, <1>10, <1>11, RootSet
<1>13. SameShape(u, r)
  BY <1>10, <1>12 DEF SameShape
<1>14. ChildTakes(t, r, u, d, c, p)
  BY <1>5, <1>8, <1>10, <1>12, <1>13 DEF ChildTakes
<1> QED
  BY <1>4, <1>7, <1>14

(* When d is the root, the child is all that is left.                                  *)
LEMMA ChildOfRoot ==
  ASSUME NEW t, NEW root, NEW B, NEW H, Healthy(t, root, B, H),
         NEW e \in Sides, NEW c, c = t[e][root], c # NILNODE, t[Other(e)][root] = NILNODE,
         NEW u, NEW r, ChildTakes(t, r, u, root, c, Null)
  PROVE  Mended(r, c, B[root] \ {root})
<1> DEFINE V == B[root] \ {root}
           F == Without(B, root)
<1>1. /\ Shaped(t, root, B) /\ Tall(t, H, B[root]) /\ Mild(t, root, B[root]) /\ t.color[NILNODE] = "BLACK"
      /\ root \in B[root] /\ B[root] \subseteq Node /\ t.parent[root] = Null /\ t \in Tree
  BY DEF Healthy, Shaped
<1>2. /\ Spliced(t, u, root, c, Null) /\ SameShape(u, r)
      /\ \A y \in Ptr : r.color[y] = IF y = c THEN "BLACK" ELSE u.color[y]
  BY DEF ChildTakes
<1>3. H[c] = 0 /\ H[root] = 0 /\ t.color[c] = "RED" /\ t.parent[c] = root /\ c # root /\ c \in B[root]
  <2>1. root \in B[root]
    BY <1>1
  <2> QED
    BY <2>1, HalfLeaf
<1>4. Shaped(u, c, F) /\ F[c] = V
  <2> DEFINE p == t.parent[root]
             d == root
  <2>1. p = t.parent[d] /\ p = Null /\ B[root] # {d} /\ d \in B[root] /\ d = root
    BY <1>1, <1>3
  <2>2. Spliced(t, u, d, t[e][d], p) /\ t[Other(e)][d] = NILNODE
    BY <1>2, <2>1
  <2> HIDE DEF p, d
  <2>3. Shaped(u, IF d = root THEN t[e][d] ELSE root, Without(B, d))
    BY <1>1, <2>1, <2>2, SplicedIsShaped
  <2>4. Shaped(u, c, F)
    BY <2>1, <2>3
  <2>5. F[c] = V
    <3>1. c \in Ptr
      BY <1>1, <1>3 DEF Ptr
    <3>2. F[c] = B[c] \ {root}
      BY <3>1 DEF Without
    <3>3. B[root] = {root} \cup B[t[e][root]] \cup B[t[Other(e)][root]] /\ B[NILNODE] = {}
      BY <1>1 DEF Shaped
    <3>4. B[root] = {root} \cup B[c]
      BY <3>3
    <3> QED
      BY <3>2, <3>4
  <2> QED
    BY <2>4, <2>5
<1>5. Shaped(r, c, F)
  BY <1>2, <1>4, SameShapeFacts
<1>6. /\ \A y \in Ptr : /\ r.parent[y] = IF y = c THEN Null ELSE t.parent[y]
                        /\ r.color[y] = IF y = c THEN "BLACK" ELSE t.color[y]
      /\ \A s \in Sides : \A y \in Ptr : r[s][y] = t[s][y]
  <2>1. \A y \in Ptr : u.parent[y] = (IF y = c THEN Null ELSE t.parent[y]) /\ u.color[y] = t.color[y]
    BY <1>2 DEF Spliced
  <2>2. \A s \in Sides : \A y \in Ptr : u[s][y] = t[s][y]
    BY <1>2 DEF Spliced
  <2>3. \A s \in Sides : r[s] = u[s]
    BY <1>2, <1>4, SameShapeFacts
  <2> QED
    BY <1>2, <2>1, <2>2, <2>3 DEF SameShape
<1>7. \A y \in V : y \in Ptr /\ y # NILNODE
  BY <1>1, AddressAssumption DEF Ptr
<1>8. Tall(r, H, V)
  <2>1. ASSUME NEW y \in V, NEW s \in Sides
        PROVE  H[y] \in Nat /\ H[y] = Weight(r, H, r[s][y])
    <3>1. H[y] \in Nat /\ H[y] = Weight(t, H, t[s][y])
      BY <1>1 DEF Tall
    <3>2. r[s][y] = t[s][y]
      BY <1>6, <1>7
    <3>3. t[s][y] # c
      <4>1. t[s][y] # NILNODE => t.parent[t[s][y]] = y
        BY <1>1, ShapedSides
      <4> QED
        BY <1>3, <4>1
    <3>4. t[s][y] \in Ptr
      <4>1. t[s][y] \in B[root] \cup {NILNODE}
        BY <1>1, ShapedSides
      <4> QED
        BY <1>1, <4>1 DEF Ptr
    <3> QED
      BY <1>6, <3>1, <3>2, <3>3, <3>4 DEF Weight
  <2> QED
    BY <2>1, SidesFacts DEF Tall
<1>9. Mild(r, c, V)
  <2> SUFFICES ASSUME NEW y \in V, y # c, r.color[y] # "BLACK"
               PROVE  r.color[r.parent[y]] = "BLACK"
    BY DEF Mild
  <2>1. t.color[y] # "BLACK" /\ r.parent[y] = t.parent[y]
    BY <1>6, <1>7
  <2>2. t.color[t.parent[y]] = "BLACK" /\ t.parent[y] \in B[root]
    BY <1>1, <2>1, ShapedParent DEF Mild
  <2>3. t.parent[y] \in Ptr
    BY <1>1, <2>2 DEF Ptr
  <2> QED
    BY <1>6, <2>1, <2>2, <2>3
<1>10. r.color[c] = "BLACK" /\ r.color[NILNODE] = "BLACK"
  BY <1>1, <1>3, <1>6, AddressAssumption DEF Ptr
<1> QED
  BY <1>4, <1>5, <1>8, <1>9, <1>10 DEF Mended

(* The deletion of a node with one child is all right.                                 *)
LEMMA ParentIsDeleted ==
  ASSUME NEW t, NEW root, NEW B, NEW H, Healthy(t, root, B, H), t.root = root, NEW d \in B[root],
         NEW e \in Sides, NEW c, c = t[e][d], c # NILNODE, t[Other(e)][d] = NILNODE,
         NEW cut, cut = Cut(t, d), NEW r, r = Closed(cut, d)
  PROVE  DeleteEnds(t, cut, r, root, d, B[root] \ {d})
<1> DEFINE V == B[root] \ {d}
           E == Without(B, d)
<1>1. ~ cut.black
  BY OnlyChildTakes
<1>2. PICK u : ChildTakes(t, r, u, d, c, t.parent[d])
  BY OnlyChildTakes
<1>3. t.color[d] = "BLACK" /\ c # d /\ c \in B[root]
  BY HalfLeaf
<1>4. V # {}
  BY <1>3
<1>5. CASE d = root
  <2>1. Mended(r, c, B[root] \ {root})
    <3>1. t.parent[root] = Null
      BY DEF Healthy, Shaped
    <3>2. ChildTakes(t, r, u, root, c, Null)
      BY <1>2, <1>5, <3>1
    <3> QED
      BY <1>5, <3>2, ChildOfRoot
  <2>2. r.root = c
    BY <1>2, <1>5 DEF ChildTakes
  <2> QED
    BY <1>1, <1>4, <1>5, <2>1, <2>2 DEF DeleteEnds
<1>6. CASE d # root
  <2> DEFINE p == t.parent[d]
  <2>1. Spliced(t, u, d, c, p) /\ p = t.parent[d]
    BY <1>2 DEF ChildTakes
  <2> HIDE DEF p
  <2>2. PICK s \in Sides : Gap(u, root, E, H, c, p, s)
    BY <1>3, <1>6, <2>1, SplicedIsGap
  <2>3. SameShape(u, r) /\ (\A y \in Ptr : r.color[y] = IF y = c THEN "BLACK" ELSE u.color[y]) /\ r.root = root
    BY <1>2, <1>6 DEF ChildTakes
  <2>4. Healthy(r, root, E, H)
    BY <2>2, <2>3, GapPainted
  <2>5. E[root] = V
    <3>1. root \in Ptr
      BY DEF Healthy, Shaped, Ptr
    <3> QED
      BY <3>1 DEF Without
  <2> HIDE DEF E
  <2>6. Mended(r, r.root, V)
    BY <2>3, <2>4, <2>5, HealthyIsMended
  <2> QED
    BY <1>1, <1>4, <2>6 DEF DeleteEnds
<1> QED
  BY <1>5, <1>6

(* The node of the next key has d's children and colour.                                     *)
GivenRight(v, w, y, b) ==
  /\ w \in Tree /\ w.root = v.root /\ w.key = v.key /\ w.left = v.left /\ w.color = v.color
  /\ w.right = [v.right EXCEPT ![y] = b] /\ w.parent = [v.parent EXCEPT ![b] = y]

RightGiven(v, y, b) == [v EXCEPT !.right[y] = b, !.parent[b] = y]

LEMMA RightIsGiven ==
  ASSUME NEW v \in Tree, NEW y \in Node, NEW b \in Ptr
  PROVE  GivenRight(v, RightGiven(v, y, b), y, b)
<1> DEFINE w == RightGiven(v, y, b)
           R == [v.right EXCEPT ![y] = b]
           P == [v.parent EXCEPT ![b] = y]
<1>1. y \in Ptr /\ y \in Link /\ b \in Link
  BY DEF Ptr, Link
<1>2. v.right \in [Ptr -> Link] /\ v.parent \in [Ptr -> Link]
  BY DEF Tree
<1>3. R \in [Ptr -> Link] /\ P \in [Ptr -> Link]
  BY <1>1, <1>2
<1>4. w = [v EXCEPT !.right = R, !.parent = P]
  BY DEF Tree, RightGiven
<1> HIDE DEF R, P, w
<1>5. w = [root |-> v.root, parent |-> P, left |-> v.left, right |-> R, key |-> v.key, color |-> v.color]
  BY <1>4 DEF Tree
<1>6. w.root = v.root /\ w.parent = P /\ w.left = v.left /\ w.right = R /\ w.key = v.key /\ w.color = v.color
  BY <1>5
<1>7. w \in Tree
  BY <1>3, <1>5 DEF Tree
<1> QED
  BY <1>6, <1>7 DEF GivenRight, R, P, w

GivenLeft(v, w, y, a, c) ==
  /\ w \in Tree /\ w.root = v.root /\ w.key = v.key /\ w.right = v.right
  /\ w.left = [v.left EXCEPT ![y] = a] /\ w.parent = [v.parent EXCEPT ![a] = y]
  /\ w.color = [v.color EXCEPT ![y] = c]

LeftGiven(v, y, a, c) == [v EXCEPT !.left[y] = a, !.parent[a] = y, !.color[y] = c]

LEMMA LeftIsGiven ==
  ASSUME NEW v \in Tree, NEW y \in Node, NEW a \in Ptr, NEW c \in {"RED", "BLACK"}
  PROVE  GivenLeft(v, LeftGiven(v, y, a, c), y, a, c)
<1> DEFINE w == LeftGiven(v, y, a, c)
           L == [v.left EXCEPT ![y] = a]
           P == [v.parent EXCEPT ![a] = y]
           C == [v.color EXCEPT ![y] = c]
<1>1. y \in Ptr /\ y \in Link /\ a \in Link
  BY DEF Ptr, Link
<1>2. v.left \in [Ptr -> Link] /\ v.parent \in [Ptr -> Link] /\ v.color \in [Ptr -> {"RED", "BLACK"}]
  BY DEF Tree
<1>3. L \in [Ptr -> Link] /\ P \in [Ptr -> Link] /\ C \in [Ptr -> {"RED", "BLACK"}]
  BY <1>1, <1>2
<1>4. w = [v EXCEPT !.left = L, !.parent = P, !.color = C]
  BY DEF Tree, LeftGiven
<1> HIDE DEF L, P, C, w
<1>5. w = [root |-> v.root, parent |-> P, left |-> L, right |-> v.right, key |-> v.key, color |-> C]
  BY <1>4 DEF Tree
<1>6. w.root = v.root /\ w.parent = P /\ w.left = L /\ w.right = v.right /\ w.key = v.key /\ w.color = C
  BY <1>5
<1>7. w \in Tree
  BY <1>3, <1>5 DEF Tree
<1> QED
  BY <1>6, <1>7 DEF GivenLeft, L, P, C, w

(* What there is to be had of d.                                                           *)
Leaves(u, d, a, b, p, c) ==
  a = u.left[d] /\ b = u.right[d] /\ p = u.parent[d] /\ c = u.color[d] /\ a # NILNODE

(* Which is how y has d's place and colour.                                                  *)
LEMMA GivenIsSat ==
  ASSUME NEW u, NEW v, NEW d, NEW y, Hung(u, v, d, y), NEW a, NEW b, NEW p, NEW c, Leaves(u, d, a, b, p, c),
         NEW w, GivenRight(v, w, y, b), NEW r, GivenLeft(w, r, y, a, c)
  PROVE  /\ Sat(u, r, d, y, p) /\ r.root = u.root
         /\ r.parent[NILNODE] = IF b = NILNODE THEN y ELSE u.parent[NILNODE]
<1>1. /\ Spliced(u, v, d, y, p) /\ u \in Tree /\ d \in Node /\ y \in Node /\ p \in Node \cup {Null}
      /\ v.left[d] = a /\ v.right[d] = b /\ a \in Node \cup {NILNODE} /\ b \in Node \cup {NILNODE}
      /\ y # a /\ y # b /\ a # NILNODE /\ a = u.left[d] /\ b = u.right[d] /\ c = u.color[d]
  BY DEF Hung, Leaves
<1>2. /\ w \in Tree /\ w.root = v.root /\ w.key = v.key /\ w.left = v.left /\ w.color = v.color
      /\ w.right = [v.right EXCEPT ![y] = b] /\ w.parent = [v.parent EXCEPT ![b] = y]
  BY DEF GivenRight
<1>3. /\ r \in Tree /\ r.root = w.root /\ r.key = w.key /\ r.right = w.right
      /\ r.left = [w.left EXCEPT ![y] = a] /\ r.parent = [w.parent EXCEPT ![a] = y]
      /\ r.color = [w.color EXCEPT ![y] = c]
  BY DEF GivenLeft
<1>4. v \in Tree /\ v.color = u.color /\ v.root = u.root /\ \A z \in Ptr : v.parent[z] = IF z = y THEN p ELSE u.parent[z]
  BY <1>1 DEF Spliced
<1>5. NILNODE \in Ptr /\ y \in Ptr /\ y # NILNODE /\ a \in Ptr /\ b \in Ptr /\ \A z \in Node : z \in Ptr
  BY <1>1, AddressAssumption DEF Ptr
<1>6. v.parent \in [Ptr -> Link] /\ w.parent \in [Ptr -> Link] /\ v.color \in [Ptr -> {"RED", "BLACK"}]
  BY <1>2, <1>4 DEF Tree
<1>7. \A z \in Ptr : r.parent[z] = IF z = a \/ z = b THEN y ELSE v.parent[z]
  BY <1>2, <1>3, <1>5, <1>6
<1>8. \A z \in Node : r.parent[z] = IF z = u.left[d] \/ z = u.right[d] THEN y ELSE v.parent[z]
  BY <1>1, <1>5, <1>7
<1>9. r.root = v.root /\ r.key = v.key
  BY <1>2, <1>3
<1>10. r.left = [v.left EXCEPT ![y] = u.left[d]] /\ r.right = [v.right EXCEPT ![y] = u.right[d]]
  BY <1>1, <1>2, <1>3
<1>11. y # u.left[d] /\ y # u.right[d] /\ r \in Tree
  BY <1>1, <1>3
<1>15. u \in Tree /\ d \in Node /\ y \in Node /\ p \in Node \cup {Null} /\ Spliced(u, v, d, y, p)
  BY <1>1
<1>12. Replaced(u, r, d, y, p)
  BY <1>15, <1>8, <1>9, <1>10, <1>11, ReplacedFields
<1>13. r.color[y] = u.color[d] /\ \A z \in Ptr : z # y => r.color[z] = u.color[z]
  BY <1>1, <1>2, <1>3, <1>4, <1>5, <1>6
<1>14. r.parent[NILNODE] = IF b = NILNODE THEN y ELSE u.parent[NILNODE]
  BY <1>1, <1>4, <1>5, <1>7
<1> QED
  BY <1>4, <1>9, <1>12, <1>13, <1>14 DEF Sat

(* What NextKey leaves: y in the place and colour of d.                                *)
NextTakes(t, u, cut, d, y) ==
  /\ Sat(u, cut.tree, d, y, u.parent[d]) /\ cut.tree.root = t.root
  /\ t.right[y] = NILNODE => cut.tree.parent[NILNODE] = Took(t.parent[y], d, y)
  /\ cut.X = t.right[y] /\ cut.Y = y /\ cut.black = is_black(t, y)

LEMMA NextKeyTakes ==
  ASSUME NEW t, NEW root, NEW B, Shaped(t, root, B), NEW d \in B[root], NEW y, NEW u, TakenOut(t, root, B, d, y, u),
         u = transplant(t, y, t.right[y]), t.left[d] # NILNODE, t.right[d] # NILNODE
  PROVE  NextTakes(t, u, NextKey(t, d, y), d, y)
<1> DEFINE v == transplant(u, d, y)
           a == u.left[d]
           b == u.right[d]
           p == u.parent[d]
           c == u.color[d]
           w == RightGiven(v, y, b)
           r == LeftGiven(w, y, a, c)
           cut == NextKey(t, d, y)
           x == t.right[y]
           q == t.parent[y]
<1>1. Hung(u, v, d, y)
  BY NextHung
<1>2. /\ Spliced(t, u, y, x, q) /\ u.left[d] = t.left[d] /\ u.right[d] = (IF q = d THEN x ELSE t.right[d])
      /\ y # d /\ y \in Node /\ q \in B[root] /\ u.parent[d] = t.parent[d] /\ Shaped(u, root, Without(B, y))
  BY DEF TakenOut
<1>3. /\ Spliced(u, v, d, y, p) /\ u \in Tree /\ d \in Node /\ v.left[d] = a /\ v.right[d] = b
      /\ a \in Node \cup {NILNODE} /\ b \in Node \cup {NILNODE} /\ y # a /\ y # b
  BY <1>1 DEF Hung
<1>4. u.root = t.root /\ u.color = t.color /\ u.parent[NILNODE] = (IF NILNODE = x THEN q ELSE t.parent[NILNODE])
      /\ v \in Tree
  <2>1. NILNODE \in Ptr
    BY DEF Ptr
  <2> HIDE DEF v, x, q
  <2> QED
    BY <1>2, <1>3, <2>1 DEF Spliced
<1>5. Leaves(u, d, a, b, p, c)
  BY <1>2 DEF Leaves
<1>6. cut.tree = r /\ cut.X = x /\ cut.Y = y /\ cut.black = is_black(t, y)
  <2>1. TakeRight(v, d, y) = w
    BY <1>3 DEF TakeRight, RightGiven
  <2>2. a = t.left[d] /\ c = t.color[d]
    BY <1>2, <1>4
  <2>3. cut = [tree |-> [w EXCEPT !.left[y] = t.left[d], !.parent[t.left[d]] = y, !.color[y] = t.color[d]],
               X |-> t.right[y], Y |-> y, black |-> is_black(t, y)]
    BY <2>1 DEF NextKey
  <2>4. r = [w EXCEPT !.left[y] = t.left[d], !.parent[t.left[d]] = y, !.color[y] = t.color[d]]
    BY <2>2 DEF LeftGiven
  <2> HIDE DEF r, w, cut
  <2> QED
    BY <2>3, <2>4
<1>7. a \in Ptr /\ b \in Ptr /\ d \in Ptr /\ c \in {"RED", "BLACK"}
  <2>1. d \in Ptr
    BY <1>3 DEF Ptr
  <2> QED
    BY <1>3, <2>1 DEF Tree, Ptr
<1> HIDE DEF v, a, b, p, c, cut
<1>8. GivenRight(v, w, y, b)
  BY <1>2, <1>4, <1>7, RightIsGiven
<1> HIDE DEF w
<1>9. GivenLeft(w, r, y, a, c)
  <2>1. w \in Tree
    BY <1>8 DEF GivenRight
  <2> QED
    BY <1>2, <1>7, <2>1, LeftIsGiven
<1> HIDE DEF r
<1>10. /\ Sat(u, r, d, y, p) /\ r.root = u.root
       /\ r.parent[NILNODE] = IF b = NILNODE THEN y ELSE u.parent[NILNODE]
  BY <1>1, <1>5, <1>8, <1>9, GivenIsSat
<1>11. x = NILNODE => r.parent[NILNODE] = Took(q, d, y)
  <2>1. b = IF q = d THEN x ELSE t.right[d]
    BY <1>2 DEF b
  <2> QED
    BY <1>4, <1>10, <2>1 DEF Took
<1>12. p = u.parent[d]
  BY DEF p
<1> HIDE DEF x, q
<1>13. NextTakes(t, u, cut, d, y)
  BY <1>4, <1>6, <1>10, <1>11, <1>12 DEF NextTakes, x, q
<1> QED
  BY <1>13 DEF cut

(* Only *root differs.                                                                 *)
LEMMA MendedSame ==
  ASSUME NEW w, NEW top, NEW V, Mended(w, top, V), NEW r, SameShape(w, r), r.color = w.color
  PROVE  Mended(r, top, V)
<1>1. PICK E, G : /\ Shaped(w, top, E) /\ E[top] = V /\ Tall(w, G, V) /\ Mild(w, top, V)
                  /\ w.color[top] = "BLACK" /\ w.color[NILNODE] = "BLACK"
  BY DEF Mended
<1>2. Shaped(r, top, E) /\ \A s \in Sides : r[s] = w[s]
  BY <1>1, SameShapeFacts
<1>3. \A s \in Sides, z \in V : r[s][z] = w[s][z]
  BY <1>2
<1>4. Tall(r, G, V)
  <2>1. ASSUME NEW z \in V, NEW s \in Sides
        PROVE  G[z] \in Nat /\ G[z] = Weight(r, G, r[s][z])
    <3>1. G[z] \in Nat /\ G[z] = Weight(w, G, w[s][z])
      BY <1>1 DEF Tall
    <3> QED
      BY <1>3, <3>1 DEF Weight
  <2> QED
    BY <2>1, SidesFacts DEF Tall
<1>5. Mild(r, top, V)
  BY <1>1 DEF Mild, SameShape
<1> QED
  BY <1>1, <1>2, <1>4, <1>5 DEF Mended

(* The tree y is out of is healthy, or has a gap where y was.                                  *)
LEMMA RedNextIsDeleted ==
  ASSUME NEW t, NEW root, t.root = root, NEW d, NEW y, NEW u, NEW cut, NextTakes(t, u, cut, d, y), NEW E, NEW H,
         Healthy(u, root, E, H), d \in E[root], y \in Node, y \notin E[root], Fits(u, E[root], E, d, y),
         is_black(t, y) = FALSE, NEW r, r = Closed(cut, d)
  PROVE  ~ cut.black /\ Mended(r, r.root, (E[root] \ {d}) \cup {y})
<1> DEFINE p == u.parent[d]
           w == cut.tree
           top == TookRoot(root, d, y)
<1>1. Sat(u, w, d, y, p) /\ w.root = root /\ cut.Y = y /\ cut.black = FALSE /\ p = u.parent[d]
  BY DEF NextTakes
<1> HIDE DEF p, w
<1>2. Mended(w, top, (E[root] \ {d}) \cup {y})
  BY <1>1, HealthySits
<1>3. w \in Tree /\ y \in Link
  BY <1>1 DEF Sat, Replaced, Link, Ptr
<1>4. r = [w EXCEPT !.root = IF @ = d THEN y ELSE @]
  BY <1>1 DEF Closed, w
<1>5. SameShape(w, r) /\ r.color = w.color /\ r.root = IF w.root = d THEN y ELSE w.root
  BY <1>3, <1>4, RootSet
<1>6. r.root = top
  BY <1>1, <1>5 DEF TookRoot
<1> HIDE DEF top
<1>7. Mended(r, top, (E[root] \ {d}) \cup {y})
  BY <1>2, <1>5, MendedSame
<1> QED
  BY <1>1, <1>6, <1>7

(* There is such a gap.                                                                *)
GapAround(r, top, V, x, q, s) == \E F, G : Gap(r, top, F, G, x, q, s) /\ F[top] = V

LEMMA GapTakenAlong ==
  ASSUME NEW u, NEW root, NEW E, NEW H, NEW x, NEW q, NEW s, Gap(u, root, E, H, x, q, s),
         NEW d \in E[root], x # d, NEW y \in Node, y \notin E[root],
         Fits(u, E[root], E, d, y), NEW p, p = u.parent[d], NEW r, Sat(u, r, d, y, p),
         NEW V, V = (E[root] \ {d}) \cup {y}
  PROVE  GapAround(r, TookRoot(root, d, y), V, x, Took(q, d, y), s)
<1>1. \E F, G : /\ Gap(r, TookRoot(root, d, y), F, G, x, Took(q, d, y), s)
                 /\ F[TookRoot(root, d, y)] = (E[root] \ {d}) \cup {y}
  BY GapSits
<1> QED
  BY <1>1 DEF GapAround

(* rbt_del_fix was called, and came to this.                                           *)
RepairEnds(t, cut, r, root, d, V) ==
  \E top : (d # root => top = root) /\ Ended(t, r, top, V, FixLoses(cut))

(* A black y leaves a gap, or a red child that can be painted.                         *)
LEMMA BlackNextIsDeleted ==
  ASSUME NEW t, NEW root, t.root = root, NEW d, NEW y, NEW u, NEW cut, NextTakes(t, u, cut, d, y), NEW E, NEW H,
         NEW x, x = t.right[y], NEW q, q = t.parent[y], NEW s, Gap(u, root, E, H, x, q, s),
         d \in E[root], x # d, y \in Node, y \notin E[root], Fits(u, E[root], E, d, y),
         is_black(t, y) = TRUE, NEW r, r = Closed(cut, d), NEW V, V = (E[root] \ {d}) \cup {y}
  PROVE  cut.black /\ RepairEnds(t, cut, r, root, d, V)
<1> DEFINE p == u.parent[d]
           w == cut.tree
           top == TookRoot(root, d, y)
           m == Took(q, d, y)
<1>1. /\ Sat(u, w, d, y, p) /\ w.root = root /\ cut.X = x /\ cut.black = TRUE /\ p = u.parent[d]
      /\ x = NILNODE => w.parent[NILNODE] = m
  BY DEF NextTakes
<1> HIDE DEF p, w
<1>2. PICK F, G : Gap(w, top, F, G, x, m, s) /\ F[top] = V
  <2>1. GapAround(w, TookRoot(root, d, y), V, x, Took(q, d, y), s)
    BY <1>1, GapTakenAlong
  <2> QED
    BY <2>1 DEF GapAround
<1> HIDE DEF m
<1>3. d # root => top = root
  BY DEF TookRoot
<1> HIDE DEF top
<1>4. r = rbt_del_fix(w, x) /\ (FixLoses(cut) <=> LosesColors(w, x) \/ LosesRoot(w, x))
  BY <1>1 DEF Closed, FixLoses, w
<1>5. CASE x = NILNODE
  <2>1. Hole(w, top, F, G, m, s)
    BY <1>1, <1>2, <1>5, GapIsHole
  <2>2. Ended(w, rbt_del_fix(w, NILNODE), top, F[top], Loses(w))
    BY <2>1, HoleEnds
  <2>3. FixLoses(cut) <=> Loses(w)
    BY <1>4, <1>5 DEF Loses
  <2>4. Ended(t, r, top, V, FixLoses(cut))
    BY <1>1, <1>2, <1>4, <1>5, <2>2, <2>3 DEF Ended
  <2> QED
    BY <1>1, <1>3, <2>4 DEF RepairEnds
<1>6. CASE x # NILNODE
  <2>1. /\ Shaped(w, top, F) /\ m \in F[top] /\ s \in Sides /\ x = w[s][m] /\ w.color[x] = "RED"
        /\ w \in Tree /\ F[top] \subseteq Node
    BY <1>2, <1>6 DEF Gap, Shaped
  <2>2. x \in Node /\ x \in Ptr /\ w.parent[x] = m /\ ~ IS_NULL(w.parent[x]) /\ ~ is_black(w, x)
    <3>1. x \in F[top] /\ w.parent[x] = m
      BY <1>6, <2>1, ShapedSides
    <3> QED
      BY <2>1, <3>1, AddressAssumption DEF Ptr, IS_NULL, is_black
  <2>3. r = DelDone(w, x)
    <3>1. DelStop(w, x)
      BY <2>1 DEF DelStop
    <3> QED
      BY <1>4, <2>1, <2>2, <3>1, FixStopsAtOnce
  <2>4. /\ SameShape(w, r) /\ \A z \in Ptr : r.color[z] = IF z = x THEN "BLACK" ELSE w.color[z]
        /\ r.root = IF IS_NULL(w.parent[x]) THEN x ELSE w.root
    BY <2>1, <2>2, <2>3, DoneFields
  <2>5. Healthy(r, top, F, G)
    BY <1>2, <1>6, <2>4, GapPainted
  <2>6. Mended(r, top, V)
    <3>1. Mended(r, top, F[top])
      BY <2>5, HealthyIsMended
    <3> QED
      BY <1>2, <3>1
  <2>7. ~ FixLoses(cut)
    BY <1>4, <2>2 DEF LosesColors, LosesRoot, AllBlack
  <2>8. Ended(t, r, top, V, FixLoses(cut))
    BY <1>1, <2>2, <2>4, <2>6, <2>7 DEF Ended
  <2> QED
    BY <1>1, <1>3, <2>8 DEF RepairEnds
<1> QED
  BY <1>5, <1>6

(* The deletion of a node with two children.                                           *)
LEMMA NextIsDeleted ==
  ASSUME NEW t, NEW root, NEW B, NEW H, Healthy(t, root, B, H), t.root = root, NEW d \in B[root],
         t.left[d] # NILNODE, t.right[d] # NILNODE,
         NEW cut, cut = Cut(t, d), NEW r, r = Closed(cut, d)
  PROVE  DeleteEnds(t, cut, r, root, d, B[root] \ {d})
<1> DEFINE V == B[root] \ {d}
           y == Leftmost(t, t.right[d])
           u == transplant(t, y, t.right[y])
           E == Without(B, y)
           x == t.right[y]
           q == t.parent[y]
<1>1. Shaped(t, root, B)
  BY DEF Healthy
<1>2. cut = NextKey(t, d, y)
  <2>1. CutWays(t, d)
    BY <1>1, CutGoes
  <2> QED
    BY <2>1 DEF CutWays
<1>3. TakenOut(t, root, B, d, y, u)
  BY <1>1, NextTakenOut
<1>4. u = transplant(t, y, t.right[y]) /\ x = t.right[y] /\ q = t.parent[y]
  OBVIOUS
<1> HIDE DEF y, u
<1>5. NextTakes(t, u, cut, d, y)
  BY <1>1, <1>2, <1>3, <1>4, NextKeyTakes
<1> HIDE DEF x, q
<1>6. /\ y \in B[root] /\ y \in Node /\ y # d /\ y # root /\ t.left[y] = NILNODE /\ x # d
      /\ Spliced(t, u, y, x, q) /\ E[root] = B[root] \ {y} /\ d \in E[root] /\ y \notin E[root]
      /\ Fits(u, E[root], E, d, y)
  BY <1>3 DEF TakenOut, x, q
<1>7. "right" \in Sides /\ t[Other("right")][y] = NILNODE /\ x = t["right"][y]
  BY <1>4, <1>6 DEF Sides, Other
<1>8. /\ t.color[y] = "RED" => Healthy(u, root, E, H)
      /\ t.color[y] = "BLACK" => \E s \in Sides : Gap(u, root, E, H, x, q, s)
  BY <1>4, <1>6, <1>7, SplicedIsGap
<1> HIDE DEF E
<1>9. V = (E[root] \ {d}) \cup {y} /\ V # {}
  BY <1>6
<1>10. t.color[y] \in {"RED", "BLACK"} /\ (is_black(t, y) <=> t.color[y] = "BLACK")
  <2>1. y \in Ptr /\ t \in Tree
    BY <1>1, <1>6 DEF Ptr, Shaped
  <2> QED
    BY <1>6, <2>1, AddressAssumption DEF Tree, is_black, IS_NULL
<1> HIDE DEF V
<1>11. CASE t.color[y] = "RED"
  <2>1. is_black(t, y) = FALSE
    BY <1>10, <1>11
  <2>2. ~ cut.black /\ Mended(r, r.root, (E[root] \ {d}) \cup {y})
    BY <1>5, <1>6, <1>8, <1>11, <2>1, RedNextIsDeleted
  <2>3. DeleteEnds(t, cut, r, root, d, V)
    BY <1>9, <2>2 DEF DeleteEnds
  <2> QED
    BY <2>3 DEF V
<1>12. CASE t.color[y] = "BLACK"
  <2>1. is_black(t, y) = TRUE
    BY <1>10, <1>12
  <2>2. PICK s \in Sides : Gap(u, root, E, H, x, q, s)
    BY <1>8, <1>12
  <2>3. cut.black /\ RepairEnds(t, cut, r, root, d, V)
    BY <1>4, <1>5, <1>6, <1>9, <2>1, <2>2, BlackNextIsDeleted
  <2>4. DeleteEnds(t, cut, r, root, d, V)
    BY <1>9, <2>3 DEF DeleteEnds, RepairEnds
  <2> QED
    BY <2>4 DEF V
<1> QED
  BY <1>10, <1>11, <1>12

-----------------------------------------------------------------------------
(* What is left of a red-black tree.                                      *)

(* All ways of rbt_delete.                                                             *)
LEMMA EveryDeletionEnds ==
  ASSUME NEW t, NEW root, NEW B, NEW H, Healthy(t, root, B, H), t.root = root, NEW d \in B[root],
         NEW cut, cut = Cut(t, d), NEW r, r = Closed(cut, d)
  PROVE  DeleteEnds(t, cut, r, root, d, B[root] \ {d})
<1>1. t["right"][d] = t.right[d] /\ t["left"][d] = t.left[d] /\ Other("left") = "right" /\ Other("right") = "left"
      /\ "left" \in Sides /\ "right" \in Sides
  BY DEF Other, Sides
<1>2. CASE t.left[d] = NILNODE /\ t.right[d] = NILNODE /\ d = root
  <2>1. cut.black /\ r.root = NILNODE /\ r \in Tree /\ B[root] \ {root} = {}
    BY <1>2, LastIsDeleted
  <2> QED
    BY <1>2, <2>1 DEF DeleteEnds
<1>3. CASE t.left[d] = NILNODE /\ t.right[d] = NILNODE /\ d # root
  BY <1>3, LeafIsDeleted
<1>4. CASE t.left[d] = NILNODE /\ t.right[d] # NILNODE
  <2> DEFINE c == t["right"][d]
  <2>1. c = t["right"][d] /\ c # NILNODE /\ t[Other("right")][d] = NILNODE
    BY <1>1, <1>4
  <2> HIDE DEF c
  <2> QED
    BY <1>1, <2>1, ParentIsDeleted
<1>5. CASE t.left[d] # NILNODE /\ t.right[d] = NILNODE
  <2> DEFINE c == t["left"][d]
  <2>1. c = t["left"][d] /\ c # NILNODE /\ t[Other("left")][d] = NILNODE
    BY <1>1, <1>5
  <2> HIDE DEF c
  <2> QED
    BY <1>1, <2>1, ParentIsDeleted
<1>6. CASE t.left[d] # NILNODE /\ t.right[d] # NILNODE
  BY <1>6, NextIsDeleted
<1> QED
  BY <1>2, <1>3, <1>4, <1>5, <1>6

(* What is asked of a tree and its nodes.                                                    *)
SoundTree(t, V) == SearchTree(t) /\ RedBlack(t) /\ Nodes(t) = V

(* A sound tree that is not empty is healthy.                                          *)
LEMMA SoundIsHealthy ==
  ASSUME NEW t, NEW V, SoundTree(t, V), V # {}
  PROVE  \E B, H : Healthy(t, t.root, B, H) /\ B[t.root] = V
<1>1. SearchTree(t) /\ RedBlack(t) /\ Nodes(t) = V
  BY DEF SoundTree
<1>2. t.root # Null
  BY <1>1, NoRootNoNodes DEF SearchTree
<1> DEFINE B == Below(t)
<1>3. Shaped(t, t.root, B)
  BY <1>1, <1>2, SearchTreeIsShaped
<1> HIDE DEF B
<1>4. B[t.root] = V
  BY <1>1, <1>3, ShapedIsSearchTree
<1>5. Even(t, t.root, B[t.root]) /\ Mild(t, t.root, B[t.root]) /\ t.color[t.root] = "BLACK"
  BY <1>1, <1>3, RedBlackMeans
<1>6. PICK H : Tall(t, H, B[t.root])
  BY <1>3, <1>5, TallExists
<1>7. Healthy(t, t.root, B, H)
  BY <1>3, <1>5, <1>6 DEF Healthy, Even
<1> QED
  BY <1>4, <1>7

(* Mended below *root is sound.                                                        *)
LEMMA MendedIsSound ==
  ASSUME NEW r, NEW V, Mended(r, r.root, V)
  PROVE  SoundTree(r, V)
<1>1. PICK E, G : /\ Shaped(r, r.root, E) /\ E[r.root] = V /\ Tall(r, G, V) /\ Mild(r, r.root, V)
                  /\ r.color[r.root] = "BLACK" /\ r.color[NILNODE] = "BLACK"
  BY DEF Mended
<1>2. SearchTree(r) /\ Nodes(r) = V
  BY <1>1, ShapedIsSearchTree
<1>3. Even(r, r.root, E[r.root])
  <2>1. Tall(r, G, E[r.root])
    BY <1>1
  <2> QED
    BY <1>1, <2>1, TallIsEven
<1>4. PICK A, D : Counted(r, r.root, E[r.root], A) /\ Level(r, E[r.root], A, D)
  BY <1>3 DEF Even
<1>5. Mild(r, r.root, E[r.root])
  BY <1>1
<1>6. RedBlack(r)
  BY <1>1, <1>4, <1>5, RedBlackIs
<1> QED
  BY <1>2, <1>6 DEF SoundTree

(* Spoilt is not sound.                                                                *)
LEMMA SpoiltIsUnsound ==
  ASSUME NEW r, NEW V, Spoilt(r, V)
  PROVE  ~ SoundTree(r, V)
<1> SUFFICES ASSUME SoundTree(r, V)
             PROVE  FALSE
  OBVIOUS
<1>1. PICK top, E, w : Shaped(r, top, E) /\ E[top] = V /\ w \in V /\ Lopsided(r, E, w)
  BY DEF Spoilt
<1>2. V # {}
  BY <1>1
<1>3. PICK B, H : Healthy(r, r.root, B, H) /\ B[r.root] = V
  BY <1>2, SoundIsHealthy
<1>4. Tall(r, H, V)
  BY <1>3 DEF Healthy
<1>5. E[w] \subseteq V
  BY <1>1 DEF Shaped, Sides
<1>6. Tall(r, H, E[w])
  BY <1>4, <1>5 DEF Tall
<1> QED
  BY <1>1, <1>6 DEF Lopsided

(* Nor is a tree that is mended while *root is not its top.                            *)
LEMMA MendedElsewhere ==
  ASSUME NEW r, NEW top, NEW V, Mended(r, top, V), r.root # top
  PROVE  ~ SoundTree(r, V)
<1> SUFFICES ASSUME SoundTree(r, V)
             PROVE  FALSE
  OBVIOUS
<1>1. PICK E : Shaped(r, top, E) /\ E[top] = V
  BY DEF Mended
<1>2. top \in V
  BY <1>1 DEF Shaped
<1>3. SearchTree(r) /\ Nodes(r) = V
  BY DEF SoundTree
<1>4. r.root # Null /\ r.root # NILNODE /\ r \in Tree
  BY <1>2, <1>3, NoRootNoNodes DEF SearchTree
<1>5. r.root \in Node /\ r.root \in Ptr /\ r.parent[r.root] = Null
  BY <1>3, <1>4 DEF SearchTree, Tree, Link, Ptr
<1>6. r.root \in V
  BY <1>3, <1>4, <1>5, UnderFacts DEF Nodes
<1>7. r.parent[r.root] \in E[top]
  BY <1>1, <1>6, ShapedParent
<1> QED
  BY <1>1, <1>5, <1>7, AddressAssumption DEF Shaped

(* A tree whose nodes are in order below top.                                                *)
OrderedBelow(r, V) == \E top, E : Shaped(r, top, E) /\ E[top] = V

LEMMA MendedOrSpoilt ==
  ASSUME NEW r, NEW V, (\E top : Mended(r, top, V)) \/ Spoilt(r, V)
  PROVE  OrderedBelow(r, V)
BY DEF Mended, Spoilt, OrderedBelow

(* Heights, reds and shape do not depend on nodes that are not in the tree.            *)
LEMMA AgreeTall ==
  ASSUME NEW t, NEW top, NEW E, Shaped(t, top, E), NEW V, E[top] = V, NEW r, AgreeOn(t, r, V),
         NEW S, S \subseteq V, NEW H
  PROVE  Tall(t, H, S) <=> Tall(r, H, S)
<1>1. \A y \in S, s \in Sides : r[s][y] = t[s][y]
  BY DEF AgreeOn, Sides
<1>2. \A y \in S, s \in Sides : t[s][y] \in V \cup {NILNODE}
  BY ShapedSides
<1>3. \A y \in V \cup {NILNODE} : Weight(r, H, y) = Weight(t, H, y)
  BY DEF AgreeOn, Weight
<1>4. \A y \in S, s \in Sides : Weight(r, H, r[s][y]) = Weight(t, H, t[s][y])
  BY <1>1, <1>2, <1>3
<1>5. ASSUME NEW y \in S, NEW s \in Sides
      PROVE  (H[y] = Weight(t, H, t[s][y])) <=> (H[y] = Weight(r, H, r[s][y]))
  BY <1>4
<1>6. ASSUME Tall(t, H, S)
      PROVE  Tall(r, H, S)
  <2>1. \A y \in S : H[y] \in Nat /\ \A s \in Sides : H[y] = Weight(t, H, t[s][y])
    BY <1>6 DEF Tall
  <2> QED
    BY <1>4, <2>1 DEF Tall
<1>7. ASSUME Tall(r, H, S)
      PROVE  Tall(t, H, S)
  <2>1. \A y \in S : H[y] \in Nat /\ \A s \in Sides : H[y] = Weight(r, H, r[s][y])
    BY <1>7 DEF Tall
  <2> QED
    BY <1>4, <2>1 DEF Tall
<1> QED
  BY <1>6, <1>7

LEMMA AgreeMended ==
  ASSUME NEW t, NEW top, NEW V, Mended(t, top, V), NEW r, AgreeOn(t, r, V)
  PROVE  Mended(r, top, V)
<1>1. PICK E, G : /\ Shaped(t, top, E) /\ E[top] = V /\ Tall(t, G, V) /\ Mild(t, top, V)
                  /\ t.color[top] = "BLACK" /\ t.color[NILNODE] = "BLACK"
  BY DEF Mended
<1>2. AgreeOn(t, r, E[top]) /\ Mild(t, top, E[top])
  BY <1>1
<1>3. Shaped(r, top, E) /\ Mild(r, top, E[top])
  BY <1>1, <1>2, AgreeShapes
<1>4. V \subseteq V
  OBVIOUS
<1>5. Tall(r, G, V)
  BY <1>1, <1>4, AgreeTall
<1>6. r.color[top] = "BLACK" /\ r.color[NILNODE] = "BLACK"
  <2>1. top \in V
    BY <1>1 DEF Shaped
  <2> QED
    BY <1>1, <2>1 DEF AgreeOn
<1> QED
  BY <1>1, <1>3, <1>5, <1>6 DEF Mended

LEMMA AgreeSpoilt ==
  ASSUME NEW t, NEW V, Spoilt(t, V), NEW r, AgreeOn(t, r, V)
  PROVE  Spoilt(r, V)
<1>1. PICK top, E, w : Shaped(t, top, E) /\ E[top] = V /\ w \in V /\ Lopsided(t, E, w)
  BY DEF Spoilt
<1>2. AgreeOn(t, r, E[top])
  BY <1>1
<1>3. Shaped(r, top, E)
  BY <1>1, <1>2, AgreeShapes
<1>4. E[w] \subseteq V
  BY <1>1 DEF Shaped, Sides
<1>5. ASSUME NEW H
      PROVE  Tall(t, H, E[w]) <=> Tall(r, H, E[w])
  <2> DEFINE S == E[w]
  <2>1. S \subseteq V
    BY <1>4
  <2> HIDE DEF S
  <2>2. Tall(t, H, S) <=> Tall(r, H, S)
    BY <1>1, <2>1, AgreeTall
  <2> QED
    BY <2>2 DEF S
<1>6. Lopsided(r, E, w)
  BY <1>1, <1>5 DEF Lopsided
<1> QED
  BY <1>1, <1>3, <1>6 DEF Spoilt

(* d, out of the tree, is forgotten, and with it nothing else.                                 *)
LEMMA ForgetAfter ==
  ASSUME NEW t, NEW V, NEW d \in Node, d \notin V, NEW r, r = Forget(t, d)
  PROVE  /\ \A top : Mended(t, top, V) => Mended(r, top, V) /\ r.root = t.root
         /\ Spoilt(t, V) => Spoilt(r, V) /\ r.root = t.root
<1>1. ASSUME NEW top, NEW E, Shaped(t, top, E), E[top] = V
      PROVE  AgreeOn(t, r, V) /\ r.root = t.root
  <2>1. d \notin E[top]
    BY <1>1
  <2>2. AgreeOn(t, Forget(t, d), E[top]) /\ Forget(t, d).root = t.root
    BY <1>1, <2>1, ForgetAgrees
  <2> QED
    BY <1>1, <2>2
<1>2. ASSUME NEW top, Mended(t, top, V)
      PROVE  Mended(r, top, V) /\ r.root = t.root
  <2>1. AgreeOn(t, r, V) /\ r.root = t.root
    BY <1>1, <1>2 DEF Mended
  <2> QED
    BY <1>2, <2>1, AgreeMended
<1>3. ASSUME Spoilt(t, V)
      PROVE  Spoilt(r, V) /\ r.root = t.root
  <2>1. AgreeOn(t, r, V) /\ r.root = t.root
    BY <1>1, <1>3 DEF Spoilt
  <2> QED
    BY <1>3, <2>1, AgreeSpoilt
<1> QED
  BY <1>2, <1>3

(* The tree that is left is sound or not, and ordered anyhow.                                  *)
LEMMA DeleteEndsSound ==
  ASSUME NEW t, NEW cut, NEW v, NEW d \in Node, NEW V, d \notin V, DeleteEnds(t, cut, v, t.root, d, V), V # {},
         NEW r, r = Forget(v, d)
  PROVE  /\ SoundTree(r, V) <=> ~ (cut.black /\ (t.root = d \/ FixLoses(cut)))
         /\ OrderedBelow(r, V)
<1>1. CASE ~ cut.black
  <2>1. Mended(v, v.root, V)
    BY <1>1 DEF DeleteEnds
  <2>2. Mended(r, v.root, V) /\ r.root = v.root
    BY <2>1, ForgetAfter
  <2>3. Mended(r, r.root, V)
    BY <2>2
  <2>4. SoundTree(r, V)
    BY <2>3, MendedIsSound
  <2>5. OrderedBelow(r, V)
    BY <2>2, MendedOrSpoilt
  <2> QED
    BY <1>1, <2>4, <2>5
<1>2. CASE cut.black
  <2>1. PICK top : (d # t.root => top = t.root) /\ Ended(t, v, top, V, FixLoses(cut))
    BY <1>2 DEF DeleteEnds
  <2>2. CASE ~ FixLoses(cut) /\ v.root = t.root /\ Mended(v, top, V)
    <3>1. Mended(r, top, V) /\ r.root = t.root
      BY <2>2, ForgetAfter
    <3>2. OrderedBelow(r, V)
      BY <3>1, MendedOrSpoilt
    <3>3. CASE d # t.root
      <4>1. Mended(r, r.root, V)
        BY <2>1, <3>1, <3>3
      <4>2. SoundTree(r, V)
        BY <4>1, MendedIsSound
      <4> QED
        BY <2>2, <3>2, <3>3, <4>2
    <3>4. CASE d = t.root
      <4>1. top \in V
        <5>1. PICK E : Shaped(r, top, E) /\ E[top] = V
          BY <3>1 DEF Mended
        <5> QED
          BY <5>1 DEF Shaped
      <4>2. r.root # top
        BY <3>1, <3>4, <4>1
      <4>3. ~ SoundTree(r, V)
        BY <3>1, <4>2, MendedElsewhere
      <4> QED
        BY <1>2, <3>2, <3>4, <4>3
    <3> QED
      BY <3>3, <3>4
  <2>3. CASE FixLoses(cut) /\ Spoilt(v, V)
    <3>1. Spoilt(r, V)
      BY <2>3, ForgetAfter
    <3>2. OrderedBelow(r, V)
      BY <3>1, MendedOrSpoilt
    <3>3. ~ SoundTree(r, V)
      BY <3>1, SpoiltIsUnsound
    <3> QED
      BY <1>2, <2>3, <3>2, <3>3
  <2>4. CASE FixLoses(cut) /\ v.root = t.root /\ \E c \in V \ {top} : Mended(v, c, V)
    <3>1. PICK c \in V \ {top} : Mended(v, c, V)
      BY <2>4
    <3>2. Mended(r, c, V) /\ r.root = t.root
      BY <2>4, <3>1, ForgetAfter
    <3>3. OrderedBelow(r, V)
      BY <3>2, MendedOrSpoilt
    <3>4. r.root # c
      BY <2>1, <3>1, <3>2
    <3>5. ~ SoundTree(r, V)
      BY <3>2, <3>4, MendedElsewhere
    <3> QED
      BY <1>2, <2>4, <3>3, <3>5
  <2> QED
    BY <2>1, <2>2, <2>3, <2>4 DEF Ended
<1> QED
  BY <1>1, <1>2

(* Cut takes out the node that Moved names.                                            *)
LEMMA CutIsBlack ==
  ASSUME NEW t, NEW root, NEW B, Shaped(t, root, B), NEW d \in B[root]
  PROVE  Cut(t, d).black = is_black(t, Moved(t, d))
<1>1. CutWays(t, d)
  BY CutGoes
<1>2. t["right"][d] = t.right[d] /\ t["left"][d] = t.left[d] /\ Other("left") = "right" /\ Other("right") = "left"
      /\ "left" \in Sides /\ "right" \in Sides
  BY DEF Other, Sides
<1>3. CASE t.left[d] = NILNODE /\ t.right[d] = NILNODE
  <2>1. Cut(t, d) = Alone(t, d) /\ Moved(t, d) = d
    BY <1>1, <1>3 DEF CutWays
  <2>2. Alone(t, d).black = is_black(t, d)
    BY DEF Alone
  <2> QED
    BY <2>1, <2>2
<1>4. CASE t.left[d] = NILNODE /\ t.right[d] # NILNODE
  <2>1. Cut(t, d) = OnlyChild(t, d, t["right"][d]) /\ Moved(t, d) = t["right"][d]
    BY <1>1, <1>2, <1>4 DEF CutWays
  <2>2. OnlyChild(t, d, t["right"][d]).black = is_black(t, t["right"][d])
    BY DEF OnlyChild
  <2> QED
    BY <2>1, <2>2
<1>5. CASE t.left[d] # NILNODE /\ t.right[d] = NILNODE
  <2>1. Cut(t, d) = OnlyChild(t, d, t["left"][d]) /\ Moved(t, d) = t["left"][d]
    BY <1>1, <1>2, <1>5 DEF CutWays
  <2>2. OnlyChild(t, d, t["left"][d]).black = is_black(t, t["left"][d])
    BY DEF OnlyChild
  <2> QED
    BY <2>1, <2>2
<1>6. CASE t.left[d] # NILNODE /\ t.right[d] # NILNODE
  <2> DEFINE y == Leftmost(t, t.right[d])
  <2>1. Cut(t, d) = NextKey(t, d, y) /\ Moved(t, d) = y
    BY <1>1, <1>6 DEF CutWays
  <2>2. NextKey(t, d, y).black = is_black(t, y)
    BY DEF NextKey
  <2> QED
    BY <2>1, <2>2
<1> QED
  BY <1>3, <1>4, <1>5, <1>6

(* The sentinel's parent is lent and nothing else.                                             *)
LentTo(t, u, p) ==
  /\ u \in Tree /\ u.root = t.root /\ u.left = t.left /\ u.right = t.right /\ u.key = t.key /\ u.color = t.color
  /\ u.parent[NILNODE] = p /\ \A y \in Node : u.parent[y] = t.parent[y]

LEMMA LentFields ==
  ASSUME NEW t \in Tree, NEW p \in Link
  PROVE  LentTo(t, Lent(t, p), p)
<1> DEFINE par == [t.parent EXCEPT ![NILNODE] = p]
           u == Lent(t, p)
<1>1. t.parent \in [Ptr -> Link] /\ NILNODE \in Ptr /\ \A y \in Node : y \in Ptr /\ y # NILNODE
  BY AddressAssumption DEF Tree, Ptr
<1>2. u = [root |-> t.root, parent |-> par, left |-> t.left, right |-> t.right, key |-> t.key, color |-> t.color]
  BY DEF Tree, Lent
<1>3. par \in [Ptr -> Link] /\ par[NILNODE] = p /\ \A y \in Node : par[y] = t.parent[y]
  BY <1>1
<1> HIDE DEF par, u
<1>4. /\ u.root = t.root /\ u.left = t.left /\ u.right = t.right /\ u.key = t.key /\ u.color = t.color /\ u.parent = par
  BY <1>2
<1>5. u \in Tree
  BY <1>2, <1>3 DEF Tree
<1> QED
  BY <1>3, <1>4, <1>5 DEF LentTo, u

(* Moved does not depend on that.                                                      *)
LEMMA MovedIsSame ==
  ASSUME NEW t, NEW B, Shaped(t, t.root, B), NEW d \in B[t.root], NEW u, LentTo(t, u, d)
  PROVE  Shaped(u, t.root, B) /\ is_black(u, Moved(u, d)) = is_black(t, Moved(t, d))
<1>1. /\ u \in Tree /\ u.root = t.root /\ u.left = t.left /\ u.right = t.right /\ u.key = t.key /\ u.color = t.color
      /\ \A y \in Node : u.parent[y] = t.parent[y]
  BY DEF LentTo
<1>2. /\ t.left[NILNODE] = Null /\ t.right[NILNODE] = Null /\ t.key[NILNODE] = 0 /\ B[t.root] \subseteq Node
      /\ B[NILNODE] = {} /\ t \in Tree
  BY DEF Shaped
<1>3. AgreeOn(t, u, B[t.root])
  BY <1>1, <1>2 DEF AgreeOn
<1>4. Shaped(u, t.root, B)
  BY <1>3, AgreeShapes
<1>5. Leftmost(t, t.right[d]) = Leftmost(u, u.right[d]) \/ t.right[d] = NILNODE
  <2> DEFINE c == t.right[d]
             y == Leftmost(t, c)
             z == Leftmost(u, c)
  <2>1. SUFFICES ASSUME c # NILNODE
                 PROVE  y = z
    BY <1>1
  <2>2. c \in B[t.root]
    <3>1. "right" \in Sides /\ t["right"][d] = c
      BY DEF Sides
    <3>2. t["right"][d] \in B[t.root] \cup {NILNODE}
      BY <3>1, ShapedSides
    <3> QED
      BY <2>1, <3>1, <3>2
  <2> HIDE DEF c
  <2>3. First(t, B, c, y)
    BY <2>2, FirstBelow
  <2>4. First(u, B, c, z)
    BY <1>4, <2>2, FirstBelow
  <2> HIDE DEF y, z
  <2>5. y \in Ptr /\ z \in Ptr
    <3>1. B[c] \subseteq B[t.root]
      BY <2>2 DEF Shaped, Sides
    <3> QED
      BY <1>2, <2>3, <2>4, <3>1 DEF First, Ptr
  <2>6. t.key[y] \in Int /\ t.key[z] \in Int
    BY <1>2, <2>5 DEF Tree
  <2>7. y # z => t.key[y] < t.key[z] /\ t.key[z] < t.key[y]
    BY <1>1, <2>3, <2>4 DEF First
  <2> QED
    BY <2>6, <2>7
<1>6. Moved(u, d) = Moved(t, d)
  <2>1. CASE t.right[d] = NILNODE
    BY <1>1, <2>1 DEF Moved, IS_NULL
  <2>2. CASE t.right[d] # NILNODE
    BY <1>1, <1>5, <2>2 DEF Moved
  <2> QED
    BY <2>1, <2>2
<1>7. \A y : is_black(u, y) = is_black(t, y)
  BY <1>1 DEF is_black
<1> QED
  BY <1>4, <1>6, <1>7

(* What rbt_delete makes of a red-black tree of any size.                                      *)
LEMMA DeleteIs ==
  ASSUME NEW t, NEW T, SoundTree(t, T), NEW d \in T, NEW V, V = T \ {d}, NEW r, r = Forget(rbt_delete(t, d), d)
  PROVE  /\ SoundTree(r, V) <=> ~ DelFixFails(t, d)
         /\ V = {} \/ OrderedBelow(r, V)
<1> DEFINE u == Lent(t, d)
           cut == Cut(u, d)
           v == Closed(cut, d)
<1>1. SearchTree(t) /\ RedBlack(t) /\ Nodes(t) = T /\ T # {} /\ t \in Tree
  BY DEF SoundTree, SearchTree
<1>2. PICK B, H : Healthy(t, t.root, B, H) /\ B[t.root] = T
  BY <1>1, SoundIsHealthy
<1>3. Shaped(t, t.root, B) /\ d \in B[t.root] /\ d \in Node /\ d \in Link /\ t.root \in T
  BY <1>2 DEF Healthy, Shaped, Link, Ptr
<1>4. LentTo(t, u, d)
  BY <1>1, <1>3, LentFields
<1>5. v = rbt_delete(t, d)
  BY DEF rbt_delete, Lent
<1>6. DelFixFails(t, d) <=> is_black(t, Moved(t, d)) /\ (t.root = d \/ FixLoses(cut))
  BY DEF DelFixFails, FixLoses, Lent
<1> HIDE DEF u
<1>7. Shaped(u, t.root, B) /\ is_black(u, Moved(u, d)) = is_black(t, Moved(t, d))
  BY <1>3, <1>4, MovedIsSame
<1>8. u.root = t.root
  BY <1>4 DEF LentTo
<1>9. cut.black = is_black(t, Moved(t, d))
  <2>1. Cut(u, d).black = is_black(u, Moved(u, d))
    BY <1>3, <1>7, CutIsBlack
  <2> QED
    BY <1>7, <2>1
<1>10. SearchTree(u) /\ RedBlack(u) /\ Nodes(u) = T
  <2>1. u = Lent(t, d)
    BY DEF u
  <2> QED
    BY <1>1, <1>3, <2>1, SentinelParentIsFree
<1>11. PICK F, G : Healthy(u, u.root, F, G) /\ F[u.root] = T
  <2>1. SoundTree(u, T)
    BY <1>10 DEF SoundTree
  <2> QED
    BY <1>1, <2>1, SoundIsHealthy
<1>12. cut = Cut(u, d) /\ v = Closed(cut, d) /\ r = Forget(v, d)
  BY <1>5
<1> HIDE DEF cut, v
<1>13. DeleteEnds(u, cut, v, u.root, d, V)
  <2>1. d \in F[u.root]
    BY <1>11
  <2>2. DeleteEnds(u, cut, v, u.root, d, F[u.root] \ {d})
    <3> DEFINE root == u.root
    <3>1. u.root = root /\ Healthy(u, root, F, G) /\ d \in F[root]
      BY <1>11, <2>1
    <3> HIDE DEF root
    <3>2. DeleteEnds(u, cut, v, root, d, F[root] \ {d})
      BY <1>12, <3>1, EveryDeletionEnds
    <3> QED
      BY <3>1, <3>2
  <2> QED
    BY <1>11, <2>2
<1>14. CASE V = {}
  <2>1. cut.black /\ v.root = NILNODE /\ v \in Tree
    BY <1>13, <1>14 DEF DeleteEnds
  <2>2. t.root = d
    BY <1>3, <1>14
  <2>3. r.root = NILNODE
    <3>1. r = [root |-> v.root, parent |-> [v.parent EXCEPT ![d] = Null],
                 left |-> [v.left EXCEPT ![d] = Null], right |-> [v.right EXCEPT ![d] = Null],
                 key |-> [v.key EXCEPT ![d] = 0], color |-> [v.color EXCEPT ![d] = "BLACK"]]
      BY <1>3, <1>12, <2>1, ForgetIs
    <3> QED
      BY <2>1, <3>1
  <2>4. ~ SoundTree(r, V)
    BY <2>3 DEF SoundTree, SearchTree
  <2>5. DelFixFails(t, d)
    BY <1>6, <1>9, <2>1, <2>2
  <2> QED
    BY <1>14, <2>4, <2>5
<1>15. CASE V # {}
  <2>1. /\ SoundTree(r, V) <=> ~ (cut.black /\ (u.root = d \/ FixLoses(cut)))
        /\ OrderedBelow(r, V)
    BY <1>3, <1>12, <1>13, <1>15, DeleteEndsSound
  <2> QED
    BY <1>6, <1>8, <1>9, <2>1
<1> QED
  BY <1>14, <1>15

-----------------------------------------------------------------------------
LEMMA InsertStep ==
  ASSUME NEW n \in Node, Insert(n), Sound
  PROVE  Sound'
<1>1. n \notin linked /\ SearchTree(tree) /\ RedBlack(tree) /\ Nodes(tree) = linked /\ KeyOf[n] \in Int
  BY KeysAreNumbers DEF Insert, Sound, Nodes
<1>2. CASE Refuses(tree, KeyOf[n])
  <2>1. tree' = tree /\ linked' = linked
    BY <1>2 DEF Insert, vars
  <2> QED
    BY <2>1 DEF Sound
<1>3. CASE ~ Refuses(tree, KeyOf[n])
  <2>1. tree' = rbt_insert(NewNode(tree, n, KeyOf[n]), n) /\ linked' = linked \cup {n}
    BY <1>3 DEF Insert
  <2>2. SearchTree(tree') /\ RedBlack(tree') /\ Nodes(tree') = Nodes(tree) \cup {n}
    BY <1>1, <1>3, <2>1, InsertIsSound
  <2> QED
    BY <1>1, <2>1, <2>2 DEF Sound, Nodes
<1> QED
  BY <1>2, <1>3

(* What another tree writes into the sentinel it shares with a sound one.                   *)
LEMMA ElsewhereStep ==
  ASSUME Elsewhere, Sound
  PROVE  Sound' <=> SentinelAsMade(tree')
<1> DEFINE Left == Foreign \cup {NILNODE, Null}
<1>1. PICK p \in Left, l \in Left, r \in Left, c \in {"RED", "BLACK"} :
        tree' = Sentinel(tree, p, l, r, c)
  BY DEF Elsewhere
<1>2. linked' = linked
  BY DEF Elsewhere
<1>3. SearchTree(tree) /\ RedBlack(tree) /\ Nodes(tree) = linked /\ p \in Link /\ NILNODE \in Ptr
  BY KeysAreNumbers DEF Sound, Nodes, Link, Ptr
<1>4. ASSUME SentinelAsMade(tree')
      PROVE  Sound'
  <2>1. /\ tree \in Tree /\ tree.left[NILNODE] = Null /\ tree.right[NILNODE] = Null
        /\ tree.color[NILNODE] = "BLACK"
    BY <1>3 DEF SearchTree, RedBlack
  <2>2. /\ tree.left \in [Ptr -> Link] /\ tree.right \in [Ptr -> Link]
        /\ tree.color \in [Ptr -> {"RED", "BLACK"}]
    BY <2>1 DEF Tree
  <2>3. l = Null /\ r = Null /\ c = "BLACK"
    BY <1>1, <1>3, <1>4, <2>1, <2>2 DEF SentinelAsMade, Tree, Sentinel
  <2>4. /\ [tree.left EXCEPT ![NILNODE] = l] = tree.left
        /\ [tree.right EXCEPT ![NILNODE] = r] = tree.right
        /\ [tree.color EXCEPT ![NILNODE] = c] = tree.color
    BY <2>1, <2>2, <2>3
  <2>5. tree' = [tree EXCEPT !.parent = [tree.parent EXCEPT ![NILNODE] = p]]
    <3>1. tree' = [root |-> tree.root, parent |-> [tree.parent EXCEPT ![NILNODE] = p],
                   left |-> [tree.left EXCEPT ![NILNODE] = l],
                   right |-> [tree.right EXCEPT ![NILNODE] = r],
                   key |-> tree.key, color |-> [tree.color EXCEPT ![NILNODE] = c]]
      BY <1>1, <2>1 DEF Tree, Sentinel
    <3>2. tree' = [root |-> tree.root, parent |-> [tree.parent EXCEPT ![NILNODE] = p],
                   left |-> tree.left, right |-> tree.right, key |-> tree.key,
                   color |-> tree.color]
      BY <2>4, <3>1
    <3> QED
      BY <2>1, <3>2 DEF Tree
  <2>6. tree' = Lent(tree, p)
    BY <2>5 DEF Lent
  <2>7. SearchTree(tree') /\ RedBlack(tree') /\ Nodes(tree') = Nodes(tree)
    BY <1>3, <2>6, SentinelParentIsFree
  <2> QED
    BY <1>2, <1>3, <2>7 DEF Sound, Nodes
<1>5. ASSUME Sound'
      PROVE  SentinelAsMade(tree')
  <2>1. SearchTree(tree') /\ RedBlack(tree')
    BY <1>5 DEF Sound
  <2>2. tree'.left[NILNODE] = Null /\ tree'.right[NILNODE] = Null
    BY <2>1 DEF SearchTree
  <2>3. tree'.color[NILNODE] = "BLACK"
    BY <2>1 DEF RedBlack
  <2> QED
    BY <2>2, <2>3 DEF SentinelAsMade
<1> QED
  BY <1>4, <1>5

(* Only a removal breaks a red-black tree, or another tree that leaves the sentinel they share    *)
(* children or red: whatever else is done to a sound tree, insertions (sbtree.cpp:318) and what   *)
(* is left as the sentinel's parent, it is sound after.                                  *)
THEOREM OnlyRemovalBreaks ==
  Spec => [][Sound /\ linked \ linked' = {} => Sound' \/ (Elsewhere /\ ~ SentinelAsMade(tree'))]_vars
<1> DEFINE Kept == Sound' \/ (Elsewhere /\ ~ SentinelAsMade(tree'))
<1>1. ASSUME [Next]_vars, Sound, linked \ linked' = {}
      PROVE  Kept
  <2>1. ASSUME NEW n \in Node, Insert(n)
        PROVE  Sound'
    BY <1>1, <2>1, InsertStep
  <2>2. ASSUME NEW n \in Node, Delete(n) \/ Detach(n)
        PROVE  FALSE
    <3>1. n \in linked /\ linked' = linked \ {n}
      BY <2>2 DEF Delete, Detach
    <3> QED
      BY <1>1, <3>1
  <2>3. ASSUME Elsewhere
        PROVE  Kept
    BY <1>1, <2>3, ElsewhereStep
  <2>4. ASSUME UNCHANGED vars
        PROVE  Sound'
    BY <1>1, <2>4 DEF vars, Sound
  <2> HIDE DEF Kept
  <2>5. Sound' => Kept
    BY DEF Kept
  <2> QED
    BY <1>1, <2>1, <2>2, <2>3, <2>4, <2>5 DEF Next
<1>2. [Next]_vars => (Sound /\ linked \ linked' = {} => Kept)
  BY <1>1
<1> QED
  BY <1>2, PTL DEF Spec

(* Such a tree is in order below its top.                                              *)
LEMMA OrderedBelowRoot ==
  ASSUME NEW t, NEW V, OrderedBelow(t, V)
  PROVE  InOrder(t, V)
<1>1. PICK top, E : Shaped(t, top, E) /\ E[top] = V
  BY DEF OrderedBelow
<1> DEFINE u == [t EXCEPT !.root = top]
<1>2. t \in Tree /\ top \in V /\ top \in Node
  BY <1>1 DEF Shaped
<1>3. u = [root |-> top, parent |-> t.parent, left |-> t.left, right |-> t.right, key |-> t.key, color |-> t.color]
  BY <1>2 DEF Tree
<1>4. top \in Link
  BY <1>2 DEF Link, Ptr
<1>5. u \in Tree /\ SameShape(t, u) /\ u.root = top
  <2> HIDE DEF u
  <2>1. u \in Tree
    BY <1>2, <1>3, <1>4 DEF Tree
  <2> QED
    BY <1>3, <2>1 DEF SameShape
<1>6. u = [t EXCEPT !.root = top]
  OBVIOUS
<1> HIDE DEF u
<1>7. Shaped(u, u.root, E)
  BY <1>1, <1>5, SameShapeFacts
<1>8. SearchTree(u) /\ Under(u, top) = V
  BY <1>1, <1>5, <1>7, ShapedIsSearchTree DEF Nodes
<1> QED
  BY <1>2, <1>6, <1>8 DEF InOrder

(* What Delete makes of a sound tree.                                                  *)
LEMMA DeleteStep ==
  ASSUME NEW n \in Node, Delete(n), Sound
  PROVE  (Sound' <=> ~ DelFixFails(tree, n)) /\ (linked' = {} \/ InOrder(tree', linked'))
<1> DEFINE V == linked \ {n}
           r == Forget(rbt_delete(tree, n), n)
<1>1. n \in linked /\ tree' = r /\ linked' = V
  BY DEF Delete
<1>2. SoundTree(tree, linked)
  BY DEF Sound, SoundTree, Nodes
<1>3. /\ SoundTree(r, V) <=> ~ DelFixFails(tree, n)
      /\ V = {} \/ OrderedBelow(r, V)
  BY <1>1, <1>2, DeleteIs
<1> HIDE DEF V, r
<1>4. Sound' <=> SoundTree(r, V)
  BY <1>1 DEF Sound, SoundTree, Nodes
<1>5. V = {} \/ InOrder(r, V)
  BY <1>3, OrderedBelowRoot
<1> QED
  BY <1>1, <1>3, <1>4, <1>5

(* What Detach makes of one.                                                           *)
LEMMA DetachStep ==
  ASSUME NEW n \in Node, Detach(n), Sound
  PROVE  SearchTree(tree') /\ Under(tree', tree'.root) = linked'
<1> DEFINE r == Forget(sbt_detach(tree, n), n)
<1>1. n \in linked /\ n # tree.root /\ tree' = r /\ linked' = linked \ {n}
  BY DEF Detach
<1>2. SearchTree(tree) /\ n \in Nodes(tree) /\ Nodes(tree) = linked
  BY <1>1 DEF Sound, Nodes
<1>3. SearchTree(r) /\ Nodes(r) = Nodes(tree) \ {n}
  BY <1>1, <1>2, DetachIsInOrder
<1> HIDE DEF r
<1> QED
  BY <1>1, <1>2, <1>3 DEF Nodes

(* A removal from a red-black tree leaves one or not, as DelFixFails says, and in either case   *)
(* all the nodes that are left, in order below one of them; an insertion leaves one always,    *)
(* and another tree unless it leaves the shared sentinel children or red: BreaksOnlyInDelFix, of  *)
(* rbt_insert, rbt_delete and sbt_detach, for any nodes and keys.        *)
THEOREM BreaksOnlyInDelFixHolds == Spec => BreaksOnlyInDelFix
<1> DEFINE Removed(n) == \/ /\ Delete(n)
                            /\ Sound' <=> ~ DelFixFails(tree, n)
                            /\ linked' = {} \/ InOrder(tree', linked')
                         \/ /\ Detach(n)
                            /\ SearchTree(tree') /\ Under(tree', tree'.root) = linked'
           Kept == /\ ~ Sound' => linked \ linked' # {} \/ Elsewhere
                   /\ Elsewhere => (Sound' <=> SentinelAsMade(tree'))
                   /\ \A n \in linked \ linked' : Removed(n)
<1>0. ASSUME Sound, Elsewhere
      PROVE  Sound' <=> SentinelAsMade(tree')
  BY <1>0, ElsewhereStep
<1>1. ASSUME [Next]_vars, Sound
      PROVE  Kept
  <2>1. ASSUME NEW n \in Node, Insert(n)
        PROVE  Kept
    <3>1. linked \subseteq linked'
      BY <2>1 DEF Insert, vars
    <3>2. Sound'
      BY <1>1, <2>1, InsertStep
    <3> QED
      BY <1>0, <1>1, <3>1, <3>2
  <2>2. ASSUME NEW n \in Node, Delete(n)
        PROVE  Kept
    <3>1. n \in linked /\ linked' = linked \ {n}
      BY <2>2 DEF Delete
    <3>2. (Sound' <=> ~ DelFixFails(tree, n)) /\ (linked' = {} \/ InOrder(tree', linked'))
      BY <1>1, <2>2, DeleteStep
    <3>3. Removed(n)
      BY <2>2, <3>2
    <3> HIDE DEF Removed
    <3> QED
      BY <1>0, <1>1, <3>1, <3>3
  <2>3. ASSUME NEW n \in Node, Detach(n)
        PROVE  Kept
    <3>1. n \in linked /\ linked' = linked \ {n}
      BY <2>3 DEF Detach
    <3>2. SearchTree(tree') /\ Under(tree', tree'.root) = linked'
      BY <1>1, <2>3, DetachStep
    <3>3. Removed(n)
      BY <2>3, <3>2
    <3> HIDE DEF Removed
    <3> QED
      BY <1>0, <1>1, <3>1, <3>3
  <2>4. ASSUME Elsewhere
        PROVE  Kept
    <3>1. linked' = linked
      BY <2>4 DEF Elsewhere
    <3> HIDE DEF Removed
    <3> QED
      BY <1>0, <1>1, <2>4, <3>1
  <2>5. CASE UNCHANGED vars
    <3>1. linked' = linked /\ tree' = tree
      BY <2>5 DEF vars
    <3>2. Sound'
      BY <1>1, <3>1 DEF Sound
    <3> QED
      BY <1>0, <1>1, <3>1, <3>2
  <2> HIDE DEF Kept
  <2> QED
    BY <1>1, <2>1, <2>2, <2>3, <2>4, <2>5 DEF Next
<1>2. [Next]_vars => (Sound => Kept)
  BY <1>1
<1> QED
  BY <1>2, PTL DEF Spec, BreaksOnlyInDelFix
=============================================================================
