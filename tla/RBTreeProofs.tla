----------------------------- MODULE RBTreeProofs -----------------------------
(***************************************************************************)
(* Of a search tree of any nodes and keys: what the functions that only read it     *)
(* make of it (the next node in order, walks, ranks), and what rbt_insert makes of it.   *)
(***************************************************************************)
EXTENDS RBTree, FiniteSetTheorems, WellFoundedInduction, TLAPS

-----------------------------------------------------------------------------
(* Loops.                                                                    *)

(* A set of numbers that is not empty has a least one.                                   *)
LEMMA LeastOf ==
  ASSUME NEW S, S \subseteq Nat, S # {}
  PROVE  \E m \in S : \A i \in S : m <= i
<1> DEFINE R == OpToRel(<, Nat)
<1>1. IsWellFoundedOn(R, Nat)
  BY NatLessThanWellFounded
<1>2. PICK m \in S : \A i \in S : ~ (<<i, m>> \in R)
  BY <1>1, WFMin
<1>3. \A i \in S : i \in Nat /\ m \in Nat /\ ~ (i < m)
  BY <1>2 DEF OpToRel
<1> QED
  BY <1>3

(* f is what a loop computes that stops at the elements of Stop and returns v of them,     *)
(* and elsewhere goes on with nx.                                                 *)
Loops(D, Stop, nx, v, f) == f = [x \in D |-> IF x \in Stop THEN v[x] ELSE f[nx[x]]]

(* Such a function there always is, also where the loop does not end.                     *)
LEMMA LoopsExist ==
  ASSUME NEW D, NEW Stop, NEW nx, NEW v, \A x \in D : x \notin Stop => nx[x] \in D
  PROVE  \E f : Loops(D, Stop, nx, v, f)
<1> DEFINE Kept(C) == \A x \in C : x \notin Stop => nx[x] \in C
           Way(x) == {y \in D : \A C \in SUBSET D : x \in C /\ Kept(C) => y \in C}
           Ends(x) == Way(x) \cap Stop
           end(x) == CHOOSE y : y \in Ends(x)
           f == [x \in D |-> IF Ends(x) = {} THEN {} ELSE v[end(x)]]
<1>1. ASSUME NEW x \in D, x \in Stop
      PROVE  f[x] = v[x]
  <2>1. {x} \in SUBSET D /\ Kept({x})
    BY <1>1
  <2>2. Way(x) = {x}
    BY <2>1
  <2>3. Ends(x) = {x}
    BY <2>2, <1>1
  <2> QED
    BY <2>3
<1>2. ASSUME NEW x \in D, x \notin Stop
      PROVE  f[x] = f[nx[x]]
  <2>1. nx[x] \in D
    BY <1>2
  <2>2. ASSUME NEW C \in SUBSET D, nx[x] \in C, Kept(C)
        PROVE  C \cup {x} \in SUBSET D /\ x \in C \cup {x} /\ Kept(C \cup {x})
    BY <2>2
  <2>3. ASSUME NEW y \in Way(x), y # x
        PROVE  y \in Way(nx[x])
    <3> SUFFICES ASSUME NEW C \in SUBSET D, nx[x] \in C, Kept(C)
                 PROVE  y \in C
      OBVIOUS
    <3>1. y \in C \cup {x}
      <4> HIDE DEF Kept
      <4> QED
        BY <2>2
    <3> QED
      BY <2>3, <3>1
  <2>4. Way(nx[x]) \subseteq Way(x)
    BY <1>2
  <2>5. Ends(x) = Ends(nx[x])
    <3> HIDE DEF Way
    <3> QED
      BY <1>2, <2>3, <2>4
  <2> HIDE DEF Ends
  <2> QED
    BY <2>1, <2>5
<1>3. f = [x \in D |-> IF x \in Stop THEN v[x] ELSE f[nx[x]]]
  <2>1. \A x \in D : f[x] = IF x \in Stop THEN v[x] ELSE f[nx[x]]
    <3> HIDE DEF f
    <3> QED
      BY <1>1, <1>2
  <2> DEFINE g == [x \in D |-> IF x \in Stop THEN v[x] ELSE f[nx[x]]]
  <2>2. DOMAIN f = D /\ f = [x \in D |-> f[x]]
    OBVIOUS
  <2>3. \A x \in D : g[x] = f[x]
    <3> HIDE DEF f
    <3> QED
      BY <2>1
  <2>4. g = [x \in D |-> g[x]]
    OBVIOUS
  <2> HIDE DEF f, g
  <2>5. f = g
    BY <2>2, <2>3, <2>4
  <2> QED
    BY <2>5 DEF g
<1> HIDE DEF f
<1> QED
  BY <1>3 DEF Loops

(* Of a set that is not empty some element has the least measure.                        *)
LEMMA LeastBy ==
  ASSUME NEW Bad, Bad # {}, NEW m, \A x \in Bad : m[x] \in Nat
  PROVE  \E x \in Bad : \A y \in Bad : m[x] <= m[y]
<1> DEFINE S == {m[x] : x \in Bad}
<1>1. S \subseteq Nat /\ S # {}
  OBVIOUS
<1>2. PICK n \in S : \A i \in S : n <= i
  <2> HIDE DEF S
  <2> QED
    BY <1>1, LeastOf
<1>3. PICK x \in Bad : n = m[x]
  BY <1>2
<1> QED
  BY <1>2, <1>3

-----------------------------------------------------------------------------
(* The nodes under a node.                                                       *)

(* One turn of Under.                                                           *)
More(t, S) == S \cup ({t[side][y] : side \in {"left", "right"}, y \in S} \cap Node)

(* The children of nodes in C are in C.                                            *)
Whole(t, C) == \A y \in C : \A side \in {"left", "right"} : t[side][y] \in Node => t[side][y] \in C

(* T is the least whole set around S.                                              *)
IsLeast(t, S, T) ==
  /\ T \in SUBSET Node /\ S \subseteq T /\ Whole(t, T)
  /\ \A C \in SUBSET Node : S \subseteq C /\ Whole(t, C) => T \subseteq C

LEMMA UnderIsLeast ==
  ASSUME NEW t \in Tree, NEW x
  PROVE  IsLeast(t, {x} \cap Node, Under(t, x))
<1> DEFINE D == SUBSET Node
           Stop == {S \in D : More(t, S) = S}
           nx == [S \in D |-> More(t, S)]
           v == [S \in D |-> S]
           Turns(b) == b = [S \in SUBSET Node |->
                              LET T == S \cup ({t[side][y] : side \in {"left", "right"}, y \in S} \cap Node)
                              IN  IF T = S THEN S ELSE b[T]]
           below == CHOOSE b : Turns(b)
<1>1. \A S \in D : More(t, S) \in D
  BY DEF More
<1>2. \E b : Turns(b)
  <2>1. \A S \in D : nx[S] \in D
    BY <1>1
  <2>2. PICK b : Loops(D, Stop, nx, v, b)
    <3> HIDE DEF D, Stop, nx, v
    <3> QED
      BY <2>1, LoopsExist
  <2>3. b = [S \in D |-> IF S \in Stop THEN v[S] ELSE b[nx[S]]]
    BY <2>2 DEF Loops
  <2>4. \A S \in D : (IF S \in Stop THEN v[S] ELSE b[nx[S]])
                       = IF More(t, S) = S THEN S ELSE b[More(t, S)]
    OBVIOUS
  <2>5. b = [S \in D |-> IF More(t, S) = S THEN S ELSE b[More(t, S)]]
    <3> HIDE DEF D, Stop, nx, v
    <3> QED
      BY <2>3, <2>4
  <2>6. Turns(b)
    BY <2>5 DEF More
  <2> QED
    BY <2>6
<1>3. Turns(below)
  <2> HIDE DEF Turns
  <2> QED
    BY <1>2
<1>4. \A S \in D : below[S] = IF More(t, S) = S THEN S ELSE below[More(t, S)]
  <2> HIDE DEF below
  <2> QED
    BY <1>3 DEF More
<1>5. Under(t, x) = below[{x} \cap Node]
  BY DEF Under
<1> HIDE DEF below, Turns
<1>6. ASSUME NEW S \in D, More(t, S) = S
      PROVE  IsLeast(t, S, S)
  BY <1>6 DEF More, Whole, IsLeast
<1>7. ASSUME NEW S \in D, NEW T, IsLeast(t, More(t, S), T)
      PROVE  IsLeast(t, S, T)
  <2>1. ASSUME NEW C \in D, S \subseteq C, Whole(t, C)
        PROVE  More(t, S) \subseteq C
    BY <2>1 DEF More, Whole
  <2>2. S \subseteq More(t, S)
    BY DEF More
  <2> QED
    BY <1>7, <2>1, <2>2 DEF IsLeast
<1> DEFINE m == [S \in D |-> Cardinality(Node \ S)]
           Bad == {S \in D : ~ IsLeast(t, S, below[S])}
<1>8. Bad = {}
  <2>1. SUFFICES ASSUME Bad # {}
                 PROVE  FALSE
    OBVIOUS
  <2>2. \A S \in D : m[S] \in Nat
    BY AddressAssumption, FS_Difference, FS_CardinalityType
  <2>3. PICK S \in Bad : \A T \in Bad : m[S] <= m[T]
    <3>1. \A S \in Bad : m[S] \in Nat
      BY <2>2
    <3> HIDE DEF Bad, m
    <3> QED
      BY <2>1, <3>1, LeastBy
  <2>4. S \in D /\ ~ IsLeast(t, S, below[S]) /\ More(t, S) \in D
    BY <2>3, <1>1
  <2>5. More(t, S) # S
    BY <1>4, <1>6, <2>4
  <2>6. m[More(t, S)] < m[S]
    <3> DEFINE A == Node \ S
               B == Node \ More(t, S)
    <3>1. B \in SUBSET A /\ B # A
      BY <2>4, <2>5 DEF More
    <3>2. IsFiniteSet(A) /\ IsFiniteSet(B)
      BY AddressAssumption, FS_Difference
    <3>3. Cardinality(A) \in Nat /\ Cardinality(B) \in Nat
      BY <3>2, FS_CardinalityType
    <3>4. Cardinality(B) <= Cardinality(A) /\ Cardinality(A) # Cardinality(B)
      <4> HIDE DEF A, B
      <4> QED
        BY <3>1, <3>2, FS_Subset
    <3>5. m[S] = Cardinality(A) /\ m[More(t, S)] = Cardinality(B)
      BY <2>4
    <3> QED
      BY <3>3, <3>4, <3>5
  <2>7. More(t, S) \notin Bad
    <3>1. m[S] \in Nat /\ m[More(t, S)] \in Nat
      BY <2>2, <2>4
    <3>2. ASSUME More(t, S) \in Bad
          PROVE  m[S] <= m[More(t, S)]
      <4> HIDE DEF Bad, m
      <4> QED
        BY <2>3, <3>2
    <3> HIDE DEF Bad, m
    <3> QED
      BY <2>6, <3>1, <3>2
  <2>8. IsLeast(t, More(t, S), below[More(t, S)])
    BY <2>4, <2>7
  <2> QED
    BY <1>4, <1>7, <2>4, <2>5, <2>8
<1>9. {x} \cap Node \in D
  OBVIOUS
<1> QED
  BY <1>5, <1>8, <1>9

-----------------------------------------------------------------------------
(* A tree in order, whichever side is the lesser one: U are its nodes, L and R the         *)
(* children of a node on the lesser and on the greater side, P its parent, B the nodes     *)
(* under it, and K what they are ordered by.                                        *)
Linked(U, root, L, R, P, B) ==
  /\ root \in U /\ Null \notin U /\ NILNODE \notin U /\ B[root] = U /\ B[NILNODE] = {}
  /\ \A x \in U : L[x] \in U \cup {NILNODE} /\ R[x] \in U \cup {NILNODE}
  /\ \A x \in U : B[x] \subseteq U /\ B[x] = {x} \cup B[L[x]] \cup B[R[x]]
  /\ P[root] = Null
  /\ \A x \in U \ {root} : P[x] \in U /\ (x = L[P[x]] \/ x = R[P[x]])

Numbered(U, K) == IsFiniteSet(U) /\ \A x \in U : K[x] \in Int

Sorted(U, L, R, B, K) ==
  \A x \in U : (\A y \in B[L[x]] : K[y] < K[x]) /\ (\A y \in B[R[x]] : K[x] < K[y])

(* What is not under a node comes before all that is, or after.                           *)
Parted(U, B, K) ==
  \A x \in U : \A z \in U \ B[x] : \/ \A y \in B[x] : K[z] < K[y]
                                   \/ \A y \in B[x] : K[y] < K[z]

Distinct(U, K) == \A x, y \in U : K[x] = K[y] => x = y

Ordered(U, root, L, R, P, B, K) ==
  /\ Linked(U, root, L, R, P, B) /\ Numbered(U, K) /\ Sorted(U, L, R, B, K)
  /\ Parted(U, B, K) /\ Distinct(U, K)

(* Everything in the tree is reached from the root.                                    *)
AllReached(U, root, L, R) ==
  \A C \in SUBSET U :
    (root \in C /\ \A x \in C : (L[x] \in U => L[x] \in C) /\ (R[x] \in U => R[x] \in C)) => C = U

LEMMA SortedIsParted ==
  ASSUME NEW U, NEW root, NEW L, NEW R, NEW P, NEW B, NEW K,
         Linked(U, root, L, R, P, B), Numbered(U, K), Sorted(U, L, R, B, K),
         AllReached(U, root, L, R)
  PROVE  Parted(U, B, K)
<1> DEFINE Apart(x) == \A z \in U \ B[x] : \/ \A y \in B[x] : K[z] < K[y]
                                           \/ \A y \in B[x] : K[y] < K[z]
           C == {x \in U : Apart(x)}
<1>1. root \in C
  BY DEF Linked
<1>2. ASSUME NEW x \in C, L[x] \in U
      PROVE  L[x] \in C
  <2>1. x \in U /\ Apart(x) /\ x \in B[x] /\ B[x] \subseteq U /\ B[L[x]] \subseteq B[x]
    BY DEF Linked
  <2> SUFFICES ASSUME NEW z \in U \ B[L[x]]
               PROVE  \/ \A y \in B[L[x]] : K[z] < K[y]
                      \/ \A y \in B[L[x]] : K[y] < K[z]
    BY <1>2
  <2>2. CASE z \notin B[x]
    BY <2>1, <2>2
  <2>3. CASE z \in B[x]
    <3>1. z = x \/ z \in B[R[x]]
      BY <2>1, <2>3 DEF Linked
    <3>2. K[x] <= K[z] /\ K[x] \in Int /\ K[z] \in Int
      BY <2>1, <3>1 DEF Sorted, Numbered
    <3>3. ASSUME NEW y \in B[L[x]]
          PROVE  K[y] < K[z]
      <4>1. K[y] < K[x] /\ K[y] \in Int
        BY <2>1 DEF Sorted, Numbered
      <4> QED
        BY <3>2, <4>1
    <3> QED
      BY <3>3
  <2> QED
    BY <2>2, <2>3
<1>3. ASSUME NEW x \in C, R[x] \in U
      PROVE  R[x] \in C
  <2>1. x \in U /\ Apart(x) /\ x \in B[x] /\ B[x] \subseteq U /\ B[R[x]] \subseteq B[x]
    BY DEF Linked
  <2> SUFFICES ASSUME NEW z \in U \ B[R[x]]
               PROVE  \/ \A y \in B[R[x]] : K[z] < K[y]
                      \/ \A y \in B[R[x]] : K[y] < K[z]
    BY <1>3
  <2>2. CASE z \notin B[x]
    BY <2>1, <2>2
  <2>3. CASE z \in B[x]
    <3>1. z = x \/ z \in B[L[x]]
      BY <2>1, <2>3 DEF Linked
    <3>2. K[z] <= K[x] /\ K[x] \in Int /\ K[z] \in Int
      BY <2>1, <3>1 DEF Sorted, Numbered
    <3>3. ASSUME NEW y \in B[R[x]]
          PROVE  K[z] < K[y]
      <4>1. K[x] < K[y] /\ K[y] \in Int
        BY <2>1 DEF Sorted, Numbered
      <4> QED
        BY <3>2, <4>1
    <3> QED
      BY <3>3
  <2> QED
    BY <2>2, <2>3
<1>4. C = U
  <2>1. C \in SUBSET U
    OBVIOUS
  <2> HIDE DEF C
  <2> QED
    BY <1>1, <1>2, <1>3, <2>1 DEF AllReached
<1> QED
  BY <1>4 DEF Parted

LEMMA SortedIsDistinct ==
  ASSUME NEW U, NEW root, NEW L, NEW R, NEW P, NEW B, NEW K,
         Linked(U, root, L, R, P, B), Numbered(U, K), Sorted(U, L, R, B, K), Parted(U, B, K)
  PROVE  Distinct(U, K)
<1> SUFFICES ASSUME NEW x \in U, NEW y \in U, K[x] = K[y], x # y
             PROVE  FALSE
  BY DEF Distinct
<1>1. y \in B[y] /\ K[x] \in Int /\ K[y] \in Int
  BY DEF Linked, Numbered
<1>2. x \in B[y]
  BY <1>1 DEF Parted
<1>3. x \in B[L[y]] \/ x \in B[R[y]]
  BY <1>2 DEF Linked
<1> QED
  BY <1>1, <1>3 DEF Sorted

(* The same tree seen from the other side.                                              *)
LEMMA Mirrored ==
  ASSUME NEW U, NEW root, NEW L, NEW R, NEW P, NEW B, NEW K,
         Ordered(U, root, L, R, P, B, K)
  PROVE  Ordered(U, root, R, L, P, B, [x \in U |-> 0 - K[x]])
<1> DEFINE N == [x \in U |-> 0 - K[x]]
<1>1. \A x \in U : N[x] = 0 - K[x] /\ K[x] \in Int /\ N[x] \in Int
  BY DEF Ordered, Numbered
<1> HIDE DEF N
<1>2. \A x, y \in U : (N[x] < N[y] <=> K[y] < K[x]) /\ (N[x] = N[y] <=> K[x] = K[y])
  BY <1>1
<1>3. Linked(U, root, R, L, P, B)
  BY DEF Ordered, Linked
<1>4. Numbered(U, N)
  BY <1>1 DEF Ordered, Numbered
<1>5. \A x \in U : B[x] \subseteq U /\ B[L[x]] \subseteq U /\ B[R[x]] \subseteq U
  BY DEF Ordered, Linked
<1>6. Sorted(U, R, L, B, N)
  BY <1>2, <1>5 DEF Ordered, Sorted
<1>7. Parted(U, B, N)
  <2> SUFFICES ASSUME NEW x \in U, NEW z \in U \ B[x]
               PROVE  \/ \A y \in B[x] : N[z] < N[y]
                      \/ \A y \in B[x] : N[y] < N[z]
    BY DEF Parted
  <2>1. \/ \A y \in B[x] : K[z] < K[y]
        \/ \A y \in B[x] : K[y] < K[z]
    BY DEF Ordered, Parted
  <2> QED
    BY <1>2, <1>5, <2>1
<1>8. Distinct(U, N)
  BY <1>2 DEF Ordered, Distinct
<1>9. Ordered(U, root, R, L, P, B, N)
  BY <1>3, <1>4, <1>6, <1>7, <1>8 DEF Ordered
<1> QED
  BY <1>9 DEF N

-----------------------------------------------------------------------------
(* A search tree is in order.                                                    *)

Nodes(t) == Under(t, t.root)

Below(t) == [x \in Ptr |-> Under(t, x)]

LEMMA UnderFacts ==
  ASSUME NEW t \in Tree, NEW x \in Ptr
  PROVE  /\ Under(t, x) \subseteq Node /\ Whole(t, Under(t, x))
         /\ x \in Node => x \in Under(t, x)
         /\ \A C \in SUBSET Node : (x \in Node => x \in C) /\ Whole(t, C) => Under(t, x) \subseteq C
<1>1. IsLeast(t, {x} \cap Node, Under(t, x))
  BY UnderIsLeast
<1> QED
  BY <1>1 DEF IsLeast

LEMMA SentinelAlone == ASSUME NEW t \in Tree PROVE Under(t, NILNODE) = {}
<1>1. Whole(t, {}) /\ {} \in SUBSET Node /\ NILNODE \in Ptr /\ NILNODE \notin Node
  BY AddressAssumption DEF Whole, Ptr
<1> QED
  BY <1>1, UnderFacts

LEMMA ChildrenOf ==
  ASSUME NEW t, SearchTree(t), NEW x \in Nodes(t)
  PROVE  /\ x \in Node /\ t \in Tree
         /\ t.left[x] \in Nodes(t) \cup {NILNODE} /\ t.right[x] \in Nodes(t) \cup {NILNODE}
<1>1. t \in Tree /\ t.root \in Link
  BY DEF SearchTree, Tree
<1>2. IsLeast(t, {t.root} \cap Node, Nodes(t))
  BY <1>1, UnderIsLeast DEF Nodes
<1>3. x \in Node /\ Whole(t, Nodes(t))
  BY <1>2 DEF IsLeast
<1>4. t.left[x] \in Link /\ t.right[x] \in Link
  BY <1>1, <1>3 DEF Tree, Ptr
<1>5. t.left[x] # Null /\ t.right[x] # Null
  BY DEF SearchTree, Nodes
<1>6. /\ t.left[x] \in Node => t.left[x] \in Nodes(t)
      /\ t.right[x] \in Node => t.right[x] \in Nodes(t)
  BY <1>3 DEF Whole
<1> QED
  BY <1>1, <1>3, <1>4, <1>5, <1>6 DEF Link, Ptr

LEMMA BelowSplits ==
  ASSUME NEW t, SearchTree(t), NEW x \in Nodes(t)
  PROVE  Under(t, x) = {x} \cup Under(t, t.left[x]) \cup Under(t, t.right[x])
<1> DEFINE l == t.left[x]
           r == t.right[x]
           C == {x} \cup Under(t, l) \cup Under(t, r)
<1>1. t \in Tree /\ x \in Node /\ x \in Ptr /\ l \in Ptr /\ r \in Ptr
  BY ChildrenOf, UnderFacts DEF Ptr, SearchTree, Nodes, Link, Tree
<1>2. /\ Under(t, x) \subseteq Node /\ Whole(t, Under(t, x)) /\ x \in Under(t, x)
      /\ \A D \in SUBSET Node : x \in D /\ Whole(t, D) => Under(t, x) \subseteq D
  BY <1>1, UnderFacts
<1>3. /\ Under(t, l) \subseteq Node /\ Whole(t, Under(t, l)) /\ (l \in Node => l \in Under(t, l))
      /\ \A D \in SUBSET Node : (l \in Node => l \in D) /\ Whole(t, D) => Under(t, l) \subseteq D
  BY <1>1, UnderFacts
<1>4. /\ Under(t, r) \subseteq Node /\ Whole(t, Under(t, r)) /\ (r \in Node => r \in Under(t, r))
      /\ \A D \in SUBSET Node : (r \in Node => r \in D) /\ Whole(t, D) => Under(t, r) \subseteq D
  BY <1>1, UnderFacts
<1>5. (l \in Node => l \in Under(t, x)) /\ (r \in Node => r \in Under(t, x))
  BY <1>2 DEF Whole
<1>6. C \subseteq Under(t, x)
  BY <1>2, <1>3, <1>4, <1>5
<1>7. C \in SUBSET Node /\ Whole(t, C)
  <2>1. ASSUME NEW y \in C, NEW side \in {"left", "right"}, t[side][y] \in Node
        PROVE  t[side][y] \in C
    <3>1. CASE y = x
      BY <1>3, <1>4, <2>1, <3>1
    <3>2. CASE y \in Under(t, l)
      BY <1>3, <2>1, <3>2 DEF Whole
    <3>3. CASE y \in Under(t, r)
      BY <1>4, <2>1, <3>3 DEF Whole
    <3> QED
      BY <3>1, <3>2, <3>3
  <2> QED
    BY <1>1, <1>3, <1>4, <2>1 DEF Whole
<1> QED
  BY <1>2, <1>6, <1>7

LEMMA ParentsOf ==
  ASSUME NEW t, SearchTree(t), NEW x \in Nodes(t) \ {t.root}
  PROVE  t.parent[x] \in Nodes(t) /\ (x = t.left[t.parent[x]] \/ x = t.right[t.parent[x]])
<1> DEFINE U == Nodes(t)
           C == {y \in U : \/ y = t.root
                           \/ /\ t.parent[y] \in U
                              /\ y = t.left[t.parent[y]] \/ y = t.right[t.parent[y]]}
<1>1. t \in Tree /\ t.root \in Link /\ t.root # NILNODE
  BY DEF SearchTree, Tree
<1>2. IsLeast(t, {t.root} \cap Node, U)
  BY <1>1, UnderIsLeast DEF Nodes
<1>3. U \subseteq Node
  BY <1>2 DEF IsLeast
<1>4. {t.root} \cap Node \subseteq C
  BY <1>2 DEF IsLeast
<1>5. Whole(t, C)
  <2> SUFFICES ASSUME NEW y \in C, NEW side \in {"left", "right"}, t[side][y] \in Node
               PROVE  t[side][y] \in C
    BY DEF Whole
  <2>1. t[side][y] \in U /\ t[side][y] # NILNODE
    BY <1>2, <1>3, AddressAssumption DEF IsLeast, Whole
  <2>2. t.parent[t[side][y]] = y
    BY <2>1 DEF SearchTree, Nodes
  <2> QED
    BY <2>1, <2>2
<1>6. U \subseteq C
  BY <1>2, <1>3, <1>4, <1>5 DEF IsLeast
<1> QED
  BY <1>6

LEMMA SearchTreeIsOrdered ==
  ASSUME NEW t, SearchTree(t), t.root # Null
  PROVE  Ordered(Nodes(t), t.root, t.left, t.right, t.parent, Below(t), t.key)
<1> DEFINE U == Nodes(t)
           B == Below(t)
<1>1. t \in Tree /\ t.root \in Node /\ t.root \in Ptr
  BY DEF SearchTree, Tree, Link, Ptr
<1>2. IsLeast(t, {t.root} \cap Node, U)
  BY <1>1, UnderIsLeast DEF Nodes
<1>3. U \subseteq Node /\ t.root \in U /\ Whole(t, U)
  BY <1>1, <1>2 DEF IsLeast
<1>4. \A x \in U : x \in Ptr /\ t.left[x] \in Ptr /\ t.right[x] \in Ptr
  BY <1>3, ChildrenOf DEF Ptr
<1>5. \A x \in U : B[x] = Under(t, x) /\ B[t.left[x]] = Under(t, t.left[x])
                   /\ B[t.right[x]] = Under(t, t.right[x])
  BY <1>4 DEF Below
<1>6. Linked(U, t.root, t.left, t.right, t.parent, B)
  <2>1. Null \notin U /\ NILNODE \notin U
    BY <1>3, AddressAssumption
  <2>2. B[t.root] = U /\ B[NILNODE] = {}
    BY <1>1, SentinelAlone DEF Below, Nodes, Ptr
  <2>3. ASSUME NEW x \in U
        PROVE  B[x] \subseteq U
    <3>1. Under(t, x) \subseteq U
      BY <1>1, <1>3, <1>4, UnderFacts
    <3> QED
      BY <1>5, <3>1
  <2>4. t.parent[t.root] = Null
    BY <1>1, AddressAssumption DEF SearchTree
  <2> HIDE DEF U, B
  <2> QED
    BY <1>3, <1>5, <2>1, <2>2, <2>3, <2>4, ChildrenOf, ParentsOf, BelowSplits DEF Linked, U
<1>7. Numbered(U, t.key)
  <2>1. IsFiniteSet(U)
    BY <1>3, AddressAssumption, FS_Subset
  <2>2. t.key \in [Ptr -> Int]
    BY <1>1 DEF Tree
  <2> QED
    BY <1>4, <2>1, <2>2 DEF Numbered
<1>8. Sorted(U, t.left, t.right, B, t.key)
  <2>0. \A x \in U : t.key[x] \in Int
    BY <1>7 DEF Numbered
  <2>1. ASSUME NEW x \in U
        PROVE  /\ \A y \in Under(t, t.left[x]) : t.key[y] < t.key[x]
               /\ \A y \in Under(t, t.right[x]) : t.key[y] > t.key[x]
    BY DEF SearchTree, Nodes
  <2>2. \A x \in U : B[t.left[x]] \subseteq U /\ B[t.right[x]] \subseteq U
    BY <1>6 DEF Linked
  <2> HIDE DEF U, B
  <2> QED
    BY <1>5, <2>0, <2>1, <2>2 DEF Sorted
<1>9. AllReached(U, t.root, t.left, t.right)
  <2> SUFFICES ASSUME NEW C \in SUBSET U, t.root \in C,
                      \A x \in C : (t.left[x] \in U => t.left[x] \in C)
                                   /\ (t.right[x] \in U => t.right[x] \in C)
               PROVE  U \subseteq C
    BY DEF AllReached
  <2>1. Whole(t, C)
    <3> SUFFICES ASSUME NEW y \in C, NEW side \in {"left", "right"}, t[side][y] \in Node
                 PROVE  t[side][y] \in C
      BY DEF Whole
    <3>1. t[side][y] \in U
      BY <1>3 DEF Whole
    <3> QED
      BY <3>1
  <2> QED
    BY <1>2, <1>3, <2>1 DEF IsLeast
<1> HIDE DEF U, B
<1>10. Parted(U, B, t.key)
  BY <1>6, <1>7, <1>8, <1>9, SortedIsParted
<1>11. Distinct(U, t.key)
  BY <1>6, <1>7, <1>8, <1>10, SortedIsDistinct
<1> QED
  BY <1>6, <1>7, <1>8, <1>10, <1>11 DEF Ordered, U, B

-----------------------------------------------------------------------------
(* Ranks.                                                                     *)

Lower(U, K, x) == {y \in U : K[y] < K[x]}

(* How many nodes come before x.                                                   *)
Rank(U, K, x) == Cardinality(Lower(U, K, x))

(* y comes next after x.                                                           *)
IsNext(U, K, x, y) ==
  y \in U /\ K[x] < K[y] /\ \A z \in U : K[z] <= K[x] \/ K[y] <= K[z]

IsFirst(U, K, x) == \A z \in U : K[x] <= K[z]

IsLast(U, K, x) == \A z \in U : K[z] <= K[x]

LEMMA LowerFacts ==
  ASSUME NEW U, NEW K, Numbered(U, K), NEW x \in U
  PROVE  /\ Lower(U, K, x) \in SUBSET U /\ IsFiniteSet(Lower(U, K, x))
         /\ x \notin Lower(U, K, x) /\ Rank(U, K, x) \in Nat /\ Cardinality(U) \in Nat
         /\ Rank(U, K, x) < Cardinality(U)
<1> DEFINE S == Lower(U, K, x)
<1>1. S \in SUBSET U /\ IsFiniteSet(U) /\ K[x] \in Int
  BY DEF Lower, Numbered
<1>2. x \notin S
  BY <1>1 DEF Lower
<1>3. IsFiniteSet(S) /\ Cardinality(S) <= Cardinality(U) /\ Cardinality(S) # Cardinality(U)
  <2> HIDE DEF S
  <2> QED
    BY <1>1, <1>2, FS_Subset
<1>4. Cardinality(S) \in Nat /\ Cardinality(U) \in Nat
  BY <1>1, <1>3, FS_CardinalityType
<1> HIDE DEF S
<1> QED
  BY <1>1, <1>2, <1>3, <1>4 DEF Rank, S

LEMMA RanksGrow ==
  ASSUME NEW U, NEW K, Numbered(U, K), NEW x \in U, NEW y \in U, K[x] < K[y]
  PROVE  Rank(U, K, x) < Rank(U, K, y)
<1> DEFINE S == Lower(U, K, x)
           T == Lower(U, K, y)
<1>1. IsFiniteSet(S) /\ IsFiniteSet(T) /\ x \notin S /\ S \subseteq U
      /\ Rank(U, K, x) \in Nat /\ Rank(U, K, y) \in Nat
  BY LowerFacts
<1>2. \A z \in U : K[z] \in Int
  BY DEF Numbered
<1>3. S \in SUBSET T /\ x \in T
  BY <1>2 DEF Lower
<1>4. Cardinality(S) <= Cardinality(T) /\ Cardinality(S) # Cardinality(T)
  <2> HIDE DEF S, T
  <2> QED
    BY <1>1, <1>3, FS_Subset
<1> HIDE DEF S, T
<1> QED
  BY <1>1, <1>4 DEF Rank, S, T

LEMMA RankTells ==
  ASSUME NEW U, NEW K, Numbered(U, K), Distinct(U, K), NEW x \in U, NEW y \in U
  PROVE  /\ Rank(U, K, x) = Rank(U, K, y) => x = y
         /\ Rank(U, K, x) < Rank(U, K, y) => K[x] < K[y]
<1>1. K[x] \in Int /\ K[y] \in Int /\ Rank(U, K, x) \in Nat /\ Rank(U, K, y) \in Nat
  BY LowerFacts DEF Numbered
<1>2. (K[x] < K[y] => Rank(U, K, x) < Rank(U, K, y)) /\ (K[y] < K[x] => Rank(U, K, y) < Rank(U, K, x))
  BY RanksGrow
<1>3. K[x] = K[y] => x = y
  BY DEF Distinct
<1> QED
  BY <1>1, <1>2, <1>3

LEMMA NextRank ==
  ASSUME NEW U, NEW K, Numbered(U, K), Distinct(U, K), NEW x \in U, NEW y, IsNext(U, K, x, y)
  PROVE  Rank(U, K, y) = Rank(U, K, x) + 1
<1> DEFINE S == Lower(U, K, x)
<1>1. \A z \in U : K[z] \in Int
  BY DEF Numbered
<1>2. Lower(U, K, y) = S \cup {x}
  BY <1>1 DEF Lower, IsNext, Distinct
<1>3. IsFiniteSet(S) /\ x \notin S
  BY LowerFacts
<1>4. Cardinality(S \cup {x}) = Cardinality(S) + 1
  BY <1>3, FS_AddElement
<1> QED
  BY <1>2, <1>4 DEF Rank

LEMMA LastRank ==
  ASSUME NEW U, NEW K, Numbered(U, K), Distinct(U, K), NEW x \in U, IsLast(U, K, x)
  PROVE  Rank(U, K, x) = Cardinality(U) - 1
<1> DEFINE S == Lower(U, K, x)
<1>1. \A z \in U : K[z] \in Int
  BY DEF Numbered
<1>2. U = S \cup {x}
  BY <1>1 DEF Lower, IsLast, Distinct
<1>3. IsFiniteSet(S) /\ x \notin S /\ Rank(U, K, x) \in Nat
  BY LowerFacts
<1>4. Cardinality(S \cup {x}) = Cardinality(S) + 1
  BY <1>3, FS_AddElement
<1>5. Rank(U, K, x) = Cardinality(S)
  BY DEF Rank
<1> HIDE DEF S
<1> QED
  BY <1>2, <1>3, <1>4, <1>5

LEMMA FirstRank ==
  ASSUME NEW U, NEW K, Numbered(U, K), NEW x \in U, IsFirst(U, K, x)
  PROVE  Rank(U, K, x) = 0
<1>1. \A z \in U : K[z] \in Int
  BY DEF Numbered
<1>2. Lower(U, K, x) = {}
  BY <1>1 DEF Lower, IsFirst
<1> QED
  BY <1>2, FS_EmptySet DEF Rank

(* Of some nodes one comes first.                                                  *)
LEMMA LowestOf ==
  ASSUME NEW U, NEW K, Numbered(U, K), NEW Bad, Bad \subseteq U, Bad # {}
  PROVE  \E x \in Bad : \A y \in Bad : K[x] <= K[y]
<1> DEFINE m == [x \in Bad |-> Rank(U, K, x)]
<1>1. \A x \in Bad : m[x] \in Nat /\ m[x] = Rank(U, K, x)
  BY LowerFacts
<1> HIDE DEF m
<1>2. PICK x \in Bad : \A y \in Bad : m[x] <= m[y]
  BY <1>1, LeastBy
<1>3. ASSUME NEW y \in Bad
      PROVE  K[x] <= K[y]
  <2>1. K[x] \in Int /\ K[y] \in Int /\ x \in U /\ y \in U
    BY DEF Numbered
  <2>2. K[y] < K[x] => Rank(U, K, y) < Rank(U, K, x)
    BY <2>1, RanksGrow
  <2> QED
    BY <1>1, <1>2, <2>1, <2>2
<1> QED
  BY <1>3

-----------------------------------------------------------------------------
(* The next node.                                                               *)

(* Farthest: the last node down one side comes first of all below.                         *)
LEMMA DownIsFirst ==
  ASSUME NEW U, NEW root, NEW L, NEW R, NEW P, NEW B, NEW K,
         Ordered(U, root, L, R, P, B, K),
         NEW f, \A y \in U : f[y] = IF IS_NULL(L[y]) THEN y ELSE f[L[y]]
  PROVE  \A y \in U : f[y] \in B[y] /\ IsFirst(B[y], K, f[y])
<1> USE DEF IsFirst
<1> DEFINE Good(y) == f[y] \in B[y] /\ \A z \in B[y] : K[f[y]] <= K[z]
           Bad == {y \in U : ~ Good(y)}
<1>1. SUFFICES ASSUME Bad # {}
               PROVE  FALSE
  OBVIOUS
<1>2. Numbered(U, K) /\ \A y \in U : K[y] \in Int
  BY DEF Ordered, Numbered
<1>3. PICK y \in Bad : \A z \in Bad : K[y] <= K[z]
  <2>1. Bad \subseteq U
    OBVIOUS
  <2> HIDE DEF Bad
  <2> QED
    BY <1>1, <1>2, <2>1, LowestOf
<1>4. y \in U /\ y \in B[y] /\ B[y] \subseteq U /\ ~ Good(y)
  BY <1>3 DEF Ordered, Linked
<1>5. \A z \in B[y] : z = y \/ z \in B[L[y]] \/ (z \in B[R[y]] /\ K[y] < K[z])
  BY <1>4 DEF Ordered, Linked, Sorted
<1>6. CASE L[y] \notin U
  <2>1. IS_NULL(L[y]) /\ B[L[y]] = {}
    BY <1>4, <1>6 DEF Ordered, Linked, IS_NULL
  <2>2. f[y] = y
    BY <1>4, <2>1
  <2>3. \A z \in B[y] : K[y] <= K[z]
    BY <1>2, <1>4, <1>5, <2>1
  <2> QED
    BY <1>4, <2>2, <2>3
<1>7. CASE L[y] \in U
  <2>1. ~ IS_NULL(L[y]) /\ L[y] \in B[L[y]] /\ B[L[y]] \subseteq B[y]
    BY <1>4, <1>7 DEF Ordered, Linked, IS_NULL
  <2>2. f[y] = f[L[y]]
    BY <1>4, <2>1
  <2>3. \A z \in B[L[y]] : K[z] < K[y]
    BY <1>4 DEF Ordered, Sorted
  <2>4. L[y] \notin Bad
    BY <1>2, <1>3, <1>4, <1>7, <2>1, <2>3
  <2>5. Good(L[y])
    BY <1>7, <2>4
  <2>6. f[y] \in B[y] /\ K[f[y]] < K[y] /\ K[f[y]] \in Int
    BY <1>2, <1>4, <2>1, <2>2, <2>3, <2>5
  <2>7. \A z \in B[y] : K[f[y]] <= K[z]
    BY <1>2, <1>4, <1>5, <2>2, <2>5, <2>6
  <2> QED
    BY <1>4, <2>6, <2>7
<1> QED
  BY <1>6, <1>7

(* The nodes after all that are under y.                                             *)
Above(U, B, K, y) == {z \in U : \A w \in B[y] : K[w] < K[z]}

(* Climbing while y is the child on the greater side ends at the first node after all that   *)
(* are under y.                                                                *)
LEMMA UpIsNext ==
  ASSUME NEW U, NEW root, NEW L, NEW R, NEW P, NEW B, NEW K,
         Ordered(U, root, L, R, P, B, K),
         NEW f, \A y \in U : f[y] = IF P[y] # Null /\ y = R[P[y]] THEN f[P[y]] ELSE P[y],
         NEW y \in U
  PROVE  \/ f[y] = Null /\ Above(U, B, K, y) = {}
         \/ f[y] \in Above(U, B, K, y) /\ \A z \in Above(U, B, K, y) : K[f[y]] <= K[z]
<1> DEFINE Good(x) == \/ f[x] = Null /\ Above(U, B, K, x) = {}
                      \/ /\ f[x] \in Above(U, B, K, x)
                         /\ \A z \in Above(U, B, K, x) : K[f[x]] <= K[z]
           Bad == {x \in U : ~ Good(x)}
<1>1. SUFFICES ASSUME Bad # {}
               PROVE  FALSE
  OBVIOUS
<1>2. Numbered(U, K) /\ \A x \in U : K[x] \in Int
  BY DEF Ordered, Numbered
<1>3. PICK x \in Bad : \A z \in Bad : K[x] <= K[z]
  <2>1. Bad \subseteq U
    OBVIOUS
  <2> HIDE DEF Bad
  <2> QED
    BY <1>1, <1>2, <2>1, LowestOf
<1>4. x \in U /\ x \in B[x] /\ ~ Good(x)
  BY <1>3 DEF Ordered, Linked
<1>5. CASE x = root
  <2>1. B[x] = U /\ P[x] = Null
    BY <1>5 DEF Ordered, Linked
  <2>2. Above(U, B, K, x) = {}
    BY <1>2, <2>1 DEF Above
  <2>3. f[x] = Null
    BY <1>4, <2>1
  <2> QED
    BY <1>4, <2>2, <2>3
<1>6. CASE x # root
  <2> DEFINE p == P[x]
  <2>1. p \in U /\ p # Null /\ (x = L[p] \/ x = R[p])
    BY <1>4, <1>6 DEF Ordered, Linked
  <2>2. B[p] = {p} \cup B[L[p]] \cup B[R[p]] /\ B[p] \subseteq U
    BY <2>1 DEF Ordered, Linked
  <2>3. (\A z \in B[L[p]] : K[z] < K[p]) /\ (\A z \in B[R[p]] : K[p] < K[z])
    BY <2>1 DEF Ordered, Sorted
  <2>4. \A z \in U \ B[p] : (\A w \in B[p] : K[z] < K[w]) \/ (\A w \in B[p] : K[w] < K[z])
    BY <2>1 DEF Ordered, Parted
  <2> HIDE DEF p
  <2>5. CASE x = R[p]
    <3>1. K[p] < K[x]
      BY <1>4, <2>3, <2>5
    <3>2. p \notin Bad
      BY <1>2, <1>3, <1>4, <2>1, <3>1
    <3>3. Good(p)
      BY <2>1, <3>2
    <3>4. f[x] = f[p]
      BY <1>4, <2>1, <2>5 DEF p
    <3>5. Above(U, B, K, p) \subseteq Above(U, B, K, x)
      BY <2>2, <2>5 DEF Above
    <3>6. ASSUME NEW z \in Above(U, B, K, x)
          PROVE  z \in Above(U, B, K, p)
      <4>1. z \in U /\ K[x] < K[z] /\ K[z] \in Int
        BY <1>2, <1>4 DEF Above
      <4>2. z \notin B[x]
        BY <4>1 DEF Above
      <4>3. z \notin B[p]
        BY <1>2, <1>4, <2>1, <2>2, <2>3, <2>5, <3>1, <4>1, <4>2
      <4>4. x \in B[p]
        BY <1>4, <2>2, <2>5
      <4> QED
        BY <1>2, <1>4, <2>4, <4>1, <4>3, <4>4 DEF Above
    <3>7. Above(U, B, K, p) = Above(U, B, K, x)
      BY <3>5, <3>6
    <3> QED
      BY <1>4, <3>3, <3>4, <3>7
  <2>6. CASE x # R[p]
    <3>1. x = L[p] /\ f[x] = p
      BY <1>4, <2>1, <2>6 DEF p
    <3>2. p \in Above(U, B, K, x)
      BY <2>1, <2>3, <3>1 DEF Above
    <3>3. ASSUME NEW z \in Above(U, B, K, x)
          PROVE  K[p] <= K[z]
      <4>1. z \in U /\ K[x] < K[z] /\ K[z] \in Int
        BY <1>2, <1>4 DEF Above
      <4>2. z \notin B[x]
        BY <4>1 DEF Above
      <4>3. x \in B[p] /\ p \in B[p]
        BY <1>4, <2>2, <3>1
      <4>4. CASE z \in B[p]
        BY <1>2, <2>1, <2>2, <2>3, <3>1, <4>1, <4>2, <4>4
      <4>5. CASE z \notin B[p]
        BY <1>2, <1>4, <2>1, <2>4, <4>1, <4>3, <4>5
      <4> QED
        BY <4>4, <4>5
    <3> QED
      BY <1>4, <3>1, <3>2, <3>3
  <2> QED
    BY <2>5, <2>6
<1> QED
  BY <1>5, <1>6

(* Down on the greater side and then as far as it goes on the other, or up.               *)
LEMMA NeighbourIsNext ==
  ASSUME NEW U, NEW root, NEW L, NEW R, NEW P, NEW B, NEW K,
         Ordered(U, root, L, R, P, B, K),
         NEW down, \A y \in U : down[y] = IF IS_NULL(L[y]) THEN y ELSE down[L[y]],
         NEW up, \A y \in U : up[y] = IF P[y] # Null /\ y = R[P[y]] THEN up[P[y]] ELSE P[y],
         NEW x \in U, NEW r, r = IF IS_NULL(R[x]) THEN up[x] ELSE down[R[x]]
  PROVE  (r = Null /\ IsLast(U, K, x)) \/ (r # Null /\ IsNext(U, K, x, r))
<1>1. /\ \A y \in U : K[y] \in Int
      /\ Null \notin U /\ B[x] \subseteq U /\ x \in B[x] /\ B[x] = {x} \cup B[L[x]] \cup B[R[x]]
      /\ \A y \in B[L[x]] : K[y] < K[x]
      /\ \A y \in B[R[x]] : K[x] < K[y]
      /\ \A z \in U \ B[x] : (\A w \in B[x] : K[z] < K[w]) \/ (\A w \in B[x] : K[w] < K[z])
  BY DEF Ordered, Numbered, Linked, Sorted, Parted
<1>2. CASE R[x] \in U
  <2>1. ~ IS_NULL(R[x]) /\ r = down[R[x]]
    BY <1>2 DEF IS_NULL, Ordered, Linked
  <2>2. r \in B[R[x]] /\ IsFirst(B[R[x]], K, r)
    BY <1>2, <2>1, DownIsFirst
  <2>3. r \in B[x] /\ r \in U /\ K[x] < K[r] /\ \A z \in B[R[x]] : K[r] <= K[z]
    BY <1>1, <2>2 DEF IsFirst
  <2>4. ASSUME NEW z \in U
        PROVE  K[z] <= K[x] \/ K[r] <= K[z]
    <3>1. CASE z \in B[x]
      BY <1>1, <2>3, <3>1
    <3>2. CASE z \notin B[x]
      BY <1>1, <2>3, <3>2
    <3> QED
      BY <3>1, <3>2
  <2> QED
    BY <1>1, <2>3, <2>4 DEF IsNext
<1>3. CASE R[x] \notin U
  <2>1. IS_NULL(R[x]) /\ r = up[x] /\ B[R[x]] = {}
    BY <1>3 DEF IS_NULL, Ordered, Linked
  <2>2. Above(U, B, K, x) = {z \in U : K[x] < K[z]}
    <3>1. \A z \in U : K[x] < K[z] => \A w \in B[x] : K[w] < K[z]
      BY <1>1, <2>1
    <3> QED
      BY <1>1, <3>1 DEF Above
  <2>3. \/ r = Null /\ Above(U, B, K, x) = {}
        \/ r \in Above(U, B, K, x) /\ \A z \in Above(U, B, K, x) : K[r] <= K[z]
    BY <2>1, UpIsNext
  <2>4. CASE r = Null /\ Above(U, B, K, x) = {}
    <3>1. ASSUME NEW z \in U
          PROVE  K[z] <= K[x]
      <4>1. ~ (K[x] < K[z])
        BY <2>2, <2>4
      <4>2. K[x] \in Int /\ K[z] \in Int
        BY <1>1
      <4> QED
        BY <4>1, <4>2
    <3> QED
      BY <2>4, <3>1 DEF IsLast
  <2>5. CASE r \in Above(U, B, K, x) /\ \A z \in Above(U, B, K, x) : K[r] <= K[z]
    <3>1. r \in U /\ K[x] < K[r] /\ r # Null
      BY <1>1, <2>2, <2>5
    <3>2. ASSUME NEW z \in U
          PROVE  K[z] <= K[x] \/ K[r] <= K[z]
      <4>1. K[x] < K[z] => K[r] <= K[z]
        BY <2>2, <2>5
      <4>2. K[x] \in Int /\ K[z] \in Int
        BY <1>1
      <4> QED
        BY <4>1, <4>2
    <3> QED
      BY <3>1, <3>2 DEF IsNext
  <2> QED
    BY <2>3, <2>4, <2>5
<1> QED
  BY <1>2, <1>3

-----------------------------------------------------------------------------
(* Farthest and Neighbour are such loops.                                             *)

LEMMA SideFields ==
  ASSUME NEW t \in Tree, NEW side \in {"left", "right"}
  PROVE  \A y \in Ptr : t[side][y] \in Link /\ t.parent[y] \in Link
BY DEF Tree

LEMMA FarthestLoops ==
  ASSUME NEW t \in Tree, NEW side \in {"left", "right"}
  PROVE  \E f : /\ \A y \in Ptr : f[y] = IF IS_NULL(t[side][y]) THEN y ELSE f[t[side][y]]
                /\ \A x : Farthest(t, x, side) = f[x]
<1> DEFINE Turns(f) == f = [y \in Ptr |-> IF IS_NULL(t[side][y]) THEN y ELSE f[t[side][y]]]
           down == CHOOSE f : Turns(f)
           Stop == {y \in Ptr : IS_NULL(t[side][y])}
           v == [y \in Ptr |-> y]
           nx == [y \in Ptr |-> t[side][y]]
<1>1. \A y \in Ptr : y \notin Stop => nx[y] \in Ptr
  BY SideFields DEF Link, IS_NULL
<1>2. PICK f : Loops(Ptr, Stop, nx, v, f)
  <2> HIDE DEF Stop, nx, v
  <2> QED
    BY <1>1, LoopsExist
<1>3. f = [y \in Ptr |-> IF y \in Stop THEN v[y] ELSE f[nx[y]]]
  BY <1>2 DEF Loops
<1>4. \A y \in Ptr : (IF y \in Stop THEN v[y] ELSE f[nx[y]])
                       = IF IS_NULL(t[side][y]) THEN y ELSE f[t[side][y]]
  OBVIOUS
<1>5. Turns(f)
  <2> HIDE DEF Stop, nx, v
  <2> QED
    BY <1>3, <1>4
<1>6. Turns(down)
  <2> HIDE DEF Turns
  <2> QED
    BY <1>5
<1>7. \A x : Farthest(t, x, side) = down[x]
  BY DEF Farthest
<1> HIDE DEF down
<1>8. \A y \in Ptr : down[y] = IF IS_NULL(t[side][y]) THEN y ELSE down[t[side][y]]
  BY <1>6
<1> QED
  BY <1>7, <1>8

(* The climb of Neighbour.                                                          *)
LEMMA ClimbLoops ==
  ASSUME NEW t \in Tree, NEW side \in {"left", "right"}
  PROVE  \E f : /\ \A y \in Ptr : f[y] = IF t.parent[y] # Null /\ y = t[side][t.parent[y]]
                                         THEN f[t.parent[y]] ELSE t.parent[y]
                /\ \A x : Neighbour(t, x, side) =
                            IF IS_NULL(x) THEN Null
                            ELSE IF IS_NULL(t[side][x]) THEN f[x]
                            ELSE Farthest(t, t[side][x], Other(side))
<1> DEFINE On(y) == t.parent[y] # Null /\ y = t[side][t.parent[y]]
           Turns(f) == f = [y \in Ptr |-> LET p == t.parent[y]
                                          IN  IF p # Null /\ y = t[side][p] THEN f[p] ELSE p]
           climb == CHOOSE f : Turns(f)
           Stop == {y \in Ptr : ~ On(y)}
           v == [y \in Ptr |-> t.parent[y]]
           nx == [y \in Ptr |-> t.parent[y]]
<1>1. \A y \in Ptr : y \notin Stop => nx[y] \in Ptr
  BY SideFields DEF Link
<1>2. PICK f : Loops(Ptr, Stop, nx, v, f)
  <2> HIDE DEF Stop, nx, v
  <2> QED
    BY <1>1, LoopsExist
<1>3. f = [y \in Ptr |-> IF y \in Stop THEN v[y] ELSE f[nx[y]]]
  BY <1>2 DEF Loops
<1>4. \A y \in Ptr : (IF y \in Stop THEN v[y] ELSE f[nx[y]])
                       = IF On(y) THEN f[t.parent[y]] ELSE t.parent[y]
  <2> HIDE DEF On
  <2> QED
    OBVIOUS
<1>5. f = [y \in Ptr |-> IF On(y) THEN f[t.parent[y]] ELSE t.parent[y]]
  <2> HIDE DEF Stop, nx, v, On
  <2> QED
    BY <1>3, <1>4
<1>6. Turns(f)
  BY <1>5
<1>7. Turns(climb)
  <2> HIDE DEF Turns
  <2> QED
    BY <1>6
<1>8. \A x : Neighbour(t, x, side) =
               IF IS_NULL(x) THEN Null
               ELSE IF IS_NULL(t[side][x]) THEN climb[x]
               ELSE Farthest(t, t[side][x], Other(side))
  BY DEF Neighbour
<1> HIDE DEF climb
<1>9. \A y \in Ptr : climb[y] = IF On(y) THEN climb[t.parent[y]] ELSE t.parent[y]
  BY <1>7
<1> QED
  BY <1>8, <1>9

-----------------------------------------------------------------------------
(* Walking a search tree.                                                           *)

LEMMA LeftmostIsFirst ==
  ASSUME NEW t, SearchTree(t), t.root # Null
  PROVE  Leftmost(t, t.root) \in Nodes(t) /\ IsFirst(Nodes(t), t.key, Leftmost(t, t.root))
<1> DEFINE U == Nodes(t)
           B == Below(t)
<1>1. t \in Tree /\ "left" \in {"left", "right"}
  BY DEF SearchTree
<1>2. Ordered(U, t.root, t.left, t.right, t.parent, B, t.key)
  BY SearchTreeIsOrdered
<1>3. PICK f : /\ \A y \in Ptr : f[y] = IF IS_NULL(t["left"][y]) THEN y ELSE f[t["left"][y]]
               /\ \A x : Farthest(t, x, "left") = f[x]
  BY <1>1, FarthestLoops
<1>4. \A y \in U : f[y] = IF IS_NULL(t.left[y]) THEN y ELSE f[t.left[y]]
  BY <1>3, ChildrenOf DEF Ptr
<1>5. t.root \in U /\ B[t.root] = U
  BY <1>2 DEF Ordered, Linked
<1> HIDE DEF U, B
<1>6. f[t.root] \in B[t.root] /\ IsFirst(B[t.root], t.key, f[t.root])
  BY <1>2, <1>4, <1>5, DownIsFirst
<1> QED
  BY <1>3, <1>5, <1>6 DEF Leftmost, U

LEMMA Forward ==
  ASSUME NEW t, SearchTree(t), t.root # Null, NEW x \in Nodes(t), NEW r, r = sbt_walk_forw(t, x)
  PROVE  \/ r = Null /\ IsLast(Nodes(t), t.key, x)
         \/ r # Null /\ IsNext(Nodes(t), t.key, x, r)
<1> DEFINE U == Nodes(t)
           B == Below(t)
<1>1. t \in Tree /\ "left" \in {"left", "right"} /\ "right" \in {"left", "right"}
  BY DEF SearchTree
<1>2. Ordered(U, t.root, t.left, t.right, t.parent, B, t.key)
  BY SearchTreeIsOrdered
<1>3. PICK down : /\ \A y \in Ptr : down[y] = IF IS_NULL(t["left"][y]) THEN y ELSE down[t["left"][y]]
                  /\ \A y : Farthest(t, y, "left") = down[y]
  BY <1>1, FarthestLoops
<1>4. PICK up : /\ \A y \in Ptr : up[y] = IF t.parent[y] # Null /\ y = t["right"][t.parent[y]]
                                          THEN up[t.parent[y]] ELSE t.parent[y]
                /\ \A y : Neighbour(t, y, "right") =
                            IF IS_NULL(y) THEN Null
                            ELSE IF IS_NULL(t["right"][y]) THEN up[y]
                            ELSE Farthest(t, t["right"][y], Other("right"))
  BY <1>1, ClimbLoops
<1>5. \A y \in U : y \in Ptr /\ ~ IS_NULL(y)
  BY ChildrenOf, AddressAssumption DEF Ptr, IS_NULL
<1>6. \A y \in U : down[y] = IF IS_NULL(t.left[y]) THEN y ELSE down[t.left[y]]
  BY <1>3, <1>5
<1>7. \A y \in U : up[y] = IF t.parent[y] # Null /\ y = t.right[t.parent[y]]
                           THEN up[t.parent[y]] ELSE t.parent[y]
  BY <1>4, <1>5
<1>8. r = IF IS_NULL(t.right[x]) THEN up[x] ELSE down[t.right[x]]
  BY <1>3, <1>4, <1>5 DEF sbt_walk_forw, Other
<1> HIDE DEF U, B
<1>9. x \in U
  BY DEF U
<1> QED
  BY <1>2, <1>6, <1>7, <1>8, <1>9, NeighbourIsNext DEF U

LEMMA Backward ==
  ASSUME NEW t, SearchTree(t), t.root # Null, NEW x \in Nodes(t), NEW r, r = sbt_walk_back(t, x)
  PROVE  \/ r = Null /\ IsFirst(Nodes(t), t.key, x)
         \/ r # Null /\ r \in Nodes(t) /\ IsNext(Nodes(t), t.key, r, x)
<1> DEFINE U == Nodes(t)
           B == Below(t)
           N == [y \in U |-> 0 - t.key[y]]
<1>1. t \in Tree /\ "left" \in {"left", "right"} /\ "right" \in {"left", "right"}
  BY DEF SearchTree
<1>2. Ordered(U, t.root, t.left, t.right, t.parent, B, t.key)
  BY SearchTreeIsOrdered
<1>3. PICK down : /\ \A y \in Ptr : down[y] = IF IS_NULL(t["right"][y]) THEN y ELSE down[t["right"][y]]
                  /\ \A y : Farthest(t, y, "right") = down[y]
  BY <1>1, FarthestLoops
<1>4. PICK up : /\ \A y \in Ptr : up[y] = IF t.parent[y] # Null /\ y = t["left"][t.parent[y]]
                                          THEN up[t.parent[y]] ELSE t.parent[y]
                /\ \A y : Neighbour(t, y, "left") =
                            IF IS_NULL(y) THEN Null
                            ELSE IF IS_NULL(t["left"][y]) THEN up[y]
                            ELSE Farthest(t, t["left"][y], Other("left"))
  BY <1>1, ClimbLoops
<1>5. \A y \in U : y \in Ptr /\ ~ IS_NULL(y)
  BY ChildrenOf, AddressAssumption DEF Ptr, IS_NULL
<1>6. \A y \in U : down[y] = IF IS_NULL(t.right[y]) THEN y ELSE down[t.right[y]]
  BY <1>3, <1>5
<1>7. \A y \in U : up[y] = IF t.parent[y] # Null /\ y = t.left[t.parent[y]]
                           THEN up[t.parent[y]] ELSE t.parent[y]
  BY <1>4, <1>5
<1>8. r = IF IS_NULL(t.left[x]) THEN up[x] ELSE down[t.left[x]]
  BY <1>3, <1>4, <1>5 DEF sbt_walk_back, Other
<1>9. x \in U /\ \A y \in U : N[y] = 0 - t.key[y] /\ t.key[y] \in Int
  BY <1>2 DEF Ordered, Numbered
<1> HIDE DEF U, B
<1>10. Ordered(U, t.root, t.right, t.left, t.parent, B, N)
  BY <1>2, Mirrored
<1> HIDE DEF N
<1>11. (r = Null /\ IsLast(U, N, x)) \/ (r # Null /\ IsNext(U, N, x, r))
  BY <1>6, <1>7, <1>8, <1>9, <1>10, NeighbourIsNext
<1>12. IsLast(U, N, x) => IsFirst(U, t.key, x)
  BY <1>9 DEF IsLast, IsFirst
<1>13. IsNext(U, N, x, r) => r \in U /\ IsNext(U, t.key, r, x)
  BY <1>9 DEF IsNext
<1> QED
  BY <1>11, <1>12, <1>13 DEF U

-----------------------------------------------------------------------------
(* Steps.                                                                     *)

LEMMA UpTo ==
  ASSUME NEW n \in Nat, NEW Good, 0 \in Good, \A i \in 1 .. n : i - 1 \in Good => i \in Good
  PROVE  \A i \in 0 .. n : i \in Good
<1> DEFINE Bad == {i \in 0 .. n : i \notin Good}
<1>1. SUFFICES ASSUME Bad # {}
               PROVE  FALSE
  OBVIOUS
<1>2. Bad \subseteq Nat
  OBVIOUS
<1> HIDE DEF Bad
<1>3. PICK m \in Bad : \A i \in Bad : m <= i
  BY <1>1, <1>2, LeastOf
<1>4. m \in 0 .. n /\ m \notin Good /\ m # 0
  BY <1>3 DEF Bad
<1>5. m \in 1 .. n /\ m - 1 \in 0 .. n /\ m - 1 < m
  BY <1>4
<1>6. m - 1 \notin Bad
  BY <1>3, <1>5
<1> QED
  BY <1>4, <1>5, <1>6 DEF Bad

(* f is what n steps of g from x come through, in T.                                    *)
Steps(n, T, x, g, f) ==
  f \in [0 .. n -> T] /\ f[0] = x /\ \A i \in 1 .. n : f[i] = g[f[i - 1]]

LEMMA StepsExist ==
  ASSUME NEW n \in Nat, NEW T, NEW x \in T, NEW g, \A y \in T : g[y] \in T
  PROVE  \E f : Steps(n, T, x, g, f)
<1> USE DEF Steps
<1> DEFINE Has(m, f) == Steps(m, T, x, g, f)
           Good == {m \in 0 .. n : \E f : Has(m, f)}
<1>1. 0 \in Good
  <2> DEFINE h == [i \in 0 .. 0 |-> x]
  <2>1. Has(0, h)
    OBVIOUS
  <2> HIDE DEF h, Has
  <2> QED
    BY <2>1
<1>2. ASSUME NEW m \in 1 .. n, m - 1 \in Good
      PROVE  m \in Good
  <2>1. PICK f : Has(m - 1, f)
    <3> HIDE DEF Has
    <3> QED
      BY <1>2
  <2> DEFINE h == [i \in 0 .. m |-> IF i = m THEN g[f[m - 1]] ELSE f[i]]
  <2>2. f[m - 1] \in T /\ g[f[m - 1]] \in T
    BY <2>1
  <2>3. \A i \in 0 .. m : i # m => i \in 0 .. (m - 1)
    OBVIOUS
  <2>4. \A i \in 0 .. m : (IF i = m THEN g[f[m - 1]] ELSE f[i]) \in T
    BY <2>1, <2>2, <2>3
  <2>5. h \in [0 .. m -> T] /\ h[0] = x
    BY <2>1, <2>4
  <2>6. ASSUME NEW i \in 1 .. m
        PROVE  h[i] = g[h[i - 1]]
    <3>1. h[i - 1] = f[i - 1]
      OBVIOUS
    <3>2. CASE i = m
      BY <3>1, <3>2
    <3>3. CASE i # m
      <4>1. i \in 1 .. (m - 1) /\ h[i] = f[i]
        BY <3>3
      <4> QED
        BY <2>1, <3>1, <4>1
    <3> QED
      BY <3>2, <3>3
  <2>7. Has(m, h)
    BY <2>5, <2>6
  <2> HIDE DEF h, Has
  <2> QED
    BY <2>7
<1>3. n \in Good
  <2>1. n \in 0 .. n
    OBVIOUS
  <2> HIDE DEF Good
  <2> QED
    BY <1>1, <1>2, <2>1, UpTo
<1> QED
  BY <1>3

LEMMA ForwardStays ==
  ASSUME NEW t, SearchTree(t), t.root # Null, NEW x \in Nodes(t) \cup {Null}
  PROVE  sbt_walk_forw(t, x) \in Nodes(t) \cup {Null} /\ sbt_walk_back(t, x) \in Nodes(t) \cup {Null}
<1>1. CASE x = Null
  BY <1>1 DEF sbt_walk_forw, sbt_walk_back, Neighbour, IS_NULL
<1>2. CASE x \in Nodes(t)
  <2>1. \/ sbt_walk_forw(t, x) = Null
        \/ IsNext(Nodes(t), t.key, x, sbt_walk_forw(t, x))
    BY <1>2, Forward
  <2>2. sbt_walk_back(t, x) = Null \/ sbt_walk_back(t, x) \in Nodes(t)
    BY <1>2, Backward
  <2> QED
    BY <2>1, <2>2 DEF IsNext
<1> QED
  BY <1>1, <1>2

LEMMA WalkForward ==
  ASSUME NEW t, SearchTree(t), t.root # Null, NEW x \in Nodes(t) \cup {Null}, NEW n \in Nat
  PROVE  \E f : /\ f[0] = x /\ sbt_walk(t, x, n) = f[n]
                /\ \A i \in 1 .. n : f[i] = sbt_walk_forw(t, f[i - 1])
<1> DEFINE T == Nodes(t) \cup {Null}
           g == [y \in T |-> sbt_walk_forw(t, y)]
           Turns(f) == f = [i \in 0 .. n |-> IF i = 0 THEN x ELSE sbt_walk_forw(t, f[i - 1])]
           forw == CHOOSE f : Turns(f)
<1>1. \A y \in T : g[y] \in T /\ g[y] = sbt_walk_forw(t, y)
  BY ForwardStays
<1>2. PICK f : Steps(n, T, x, g, f)
  <2> HIDE DEF T, g
  <2>1. x \in T
    BY DEF T
  <2>2. \A y \in T : g[y] \in T
    BY <1>1
  <2> QED
    BY <2>1, <2>2, StepsExist
<1>3. \A i \in 0 .. n : f[i] = IF i = 0 THEN x ELSE sbt_walk_forw(t, f[i - 1])
  <2> USE DEF Steps
  <2> SUFFICES ASSUME NEW i \in 1 .. n
               PROVE  f[i] = sbt_walk_forw(t, f[i - 1])
    BY <1>2
  <2>1. i - 1 \in 0 .. n
    OBVIOUS
  <2>2. f[i - 1] \in T
    BY <1>2, <2>1
  <2> HIDE DEF g, T
  <2> QED
    BY <1>1, <1>2, <2>2
<1>4. Turns(f)
  <2>1. f = [i \in 0 .. n |-> f[i]]
    BY <1>2 DEF Steps
  <2> HIDE DEF g, T
  <2> QED
    BY <1>3, <2>1
<1>5. Turns(forw)
  <2> HIDE DEF Turns
  <2> QED
    BY <1>4
<1>6. sbt_walk(t, x, n) = forw[n]
  BY DEF sbt_walk
<1> HIDE DEF forw
<1>7. forw[0] = x /\ \A i \in 1 .. n : forw[i] = sbt_walk_forw(t, forw[i - 1])
  BY <1>5
<1> QED
  BY <1>6, <1>7

LEMMA WalkBackward ==
  ASSUME NEW t, SearchTree(t), t.root # Null, NEW x \in Nodes(t) \cup {Null}, NEW n \in Nat
  PROVE  \E f : /\ f[0] = x /\ sbt_walk(t, x, -n - 1) = f[n]
                /\ \A i \in 1 .. n : f[i] = sbt_walk_back(t, f[i - 1])
<1> DEFINE T == Nodes(t) \cup {Null}
           g == [y \in T |-> sbt_walk_back(t, y)]
           Turns(f) == f = [i \in 0 .. n |-> IF i = 0 THEN x ELSE sbt_walk_back(t, f[i - 1])]
           back == CHOOSE f : Turns(f)
<1>1. \A y \in T : g[y] \in T /\ g[y] = sbt_walk_back(t, y)
  BY ForwardStays
<1>2. PICK f : Steps(n, T, x, g, f)
  <2> HIDE DEF T, g
  <2>1. x \in T
    BY DEF T
  <2>2. \A y \in T : g[y] \in T
    BY <1>1
  <2> QED
    BY <2>1, <2>2, StepsExist
<1>3. \A i \in 0 .. n : f[i] = IF i = 0 THEN x ELSE sbt_walk_back(t, f[i - 1])
  <2> USE DEF Steps
  <2> SUFFICES ASSUME NEW i \in 1 .. n
               PROVE  f[i] = sbt_walk_back(t, f[i - 1])
    BY <1>2
  <2>1. i - 1 \in 0 .. n
    OBVIOUS
  <2>2. f[i - 1] \in T
    BY <1>2, <2>1
  <2> HIDE DEF g, T
  <2> QED
    BY <1>1, <1>2, <2>2
<1>4. Turns(f)
  <2>1. f = [i \in 0 .. n |-> f[i]]
    BY <1>2 DEF Steps
  <2> HIDE DEF g, T
  <2> QED
    BY <1>3, <2>1
<1>5. Turns(back)
  <2> HIDE DEF Turns
  <2> QED
    BY <1>4
<1>6. sbt_walk(t, x, -n - 1) = back[n]
  <2>1. -n - 1 < 0 /\ -(-n - 1) - 1 = n
    OBVIOUS
  <2> QED
    BY <2>1 DEF sbt_walk
<1> HIDE DEF back
<1>7. back[0] = x /\ \A i \in 1 .. n : back[i] = sbt_walk_back(t, back[i - 1])
  BY <1>5
<1> QED
  BY <1>6, <1>7

(* A walk from the least node is at the node of rank n after n steps, and at none after all. *)
LEMMA WalkUp ==
  ASSUME NEW t, SearchTree(t), t.root # Null, NEW n \in 0 .. Cardinality(Nodes(t)),
         NEW w, w = sbt_walk(t, Leftmost(t, t.root), n)
  PROVE  /\ n < Cardinality(Nodes(t)) => w \in Nodes(t) /\ Rank(Nodes(t), t.key, w) = n
         /\ n = Cardinality(Nodes(t)) => w = Null
<1> DEFINE U == Nodes(t)
           K == t.key
           N == Cardinality(U)
<1>1. Numbered(U, K) /\ Distinct(U, K)
  BY SearchTreeIsOrdered DEF Ordered
<1>2. N \in Nat /\ n \in Nat /\ n <= N
  BY <1>1, FS_CardinalityType DEF Numbered
<1>3. Leftmost(t, t.root) \in U /\ IsFirst(U, K, Leftmost(t, t.root))
  BY LeftmostIsFirst
<1>4. PICK f : /\ f[0] = Leftmost(t, t.root) /\ w = f[n]
               /\ \A i \in 1 .. n : f[i] = sbt_walk_forw(t, f[i - 1])
  BY <1>2, <1>3, WalkForward
<1>5. \A x \in U : \A r : r = sbt_walk_forw(t, x) =>
        (r = Null /\ IsLast(U, K, x)) \/ (r # Null /\ IsNext(U, K, x, r))
  BY Forward
<1> HIDE DEF U, K
<1>6. f[0] \in U /\ Rank(U, K, f[0]) = 0 /\ 0 < N
  BY <1>1, <1>3, <1>4, FirstRank, LowerFacts
<1> DEFINE Good == {i \in 0 .. n : /\ i < N => f[i] \in U /\ Rank(U, K, f[i]) = i
                                   /\ i = N => f[i] = Null}
<1>7. 0 \in Good
  BY <1>2, <1>6
<1>8. ASSUME NEW i \in 1 .. n, i - 1 \in Good
      PROVE  i \in Good
  <2>1. i - 1 < N /\ i <= N /\ i \in 0 .. n
    BY <1>2
  <2>2. f[i - 1] \in U /\ Rank(U, K, f[i - 1]) = i - 1
    BY <1>8, <2>1
  <2>3. f[i] = sbt_walk_forw(t, f[i - 1])
    BY <1>4
  <2>4. CASE f[i] = Null /\ IsLast(U, K, f[i - 1])
    <3>1. i - 1 = N - 1
      BY <1>1, <2>2, <2>4, LastRank
    <3> QED
      BY <1>2, <2>1, <2>4, <3>1
  <2>5. CASE IsNext(U, K, f[i - 1], f[i])
    <3>1. f[i] \in U /\ Rank(U, K, f[i]) = (i - 1) + 1
      BY <1>1, <2>2, <2>5, NextRank DEF IsNext
    <3>2. Rank(U, K, f[i]) < N
      BY <1>1, <3>1, LowerFacts
    <3> QED
      BY <1>2, <2>1, <3>1, <3>2
  <2> QED
    BY <1>5, <2>2, <2>3, <2>4, <2>5
<1>9. n \in Good
  <2>1. n \in 0 .. n
    BY <1>2
  <2> HIDE DEF Good
  <2> QED
    BY <1>2, <1>7, <1>8, <2>1, UpTo
<1> QED
  BY <1>4, <1>9 DEF U, K

(* A walk back takes one off the rank with every step.                                  *)
LEMMA WalkDown ==
  ASSUME NEW t, SearchTree(t), t.root # Null, NEW x \in Nodes(t),
         NEW n \in Nat, n <= Rank(Nodes(t), t.key, x), NEW w, w = sbt_walk(t, x, -n - 1)
  PROVE  w \in Nodes(t) /\ Rank(Nodes(t), t.key, w) = Rank(Nodes(t), t.key, x) - n
<1> DEFINE U == Nodes(t)
           K == t.key
           top == Rank(U, K, x)
<1>1. Numbered(U, K) /\ Distinct(U, K)
  BY SearchTreeIsOrdered DEF Ordered
<1>2. PICK f : /\ f[0] = x /\ w = f[n]
               /\ \A i \in 1 .. n : f[i] = sbt_walk_back(t, f[i - 1])
  BY WalkBackward
<1>3. \A y \in U : \A r : r = sbt_walk_back(t, y) =>
        (r = Null /\ IsFirst(U, K, y)) \/ (r \in U /\ IsNext(U, K, r, y))
  BY Backward
<1> HIDE DEF U, K
<1>4. x \in U /\ top \in Nat
  BY <1>1, LowerFacts DEF U
<1>5. n <= top
  BY DEF U, K
<1> DEFINE Good == {i \in 0 .. n : f[i] \in U /\ Rank(U, K, f[i]) = top - i}
<1> HIDE DEF top
<1>6. 0 \in Good
  BY <1>2, <1>4 DEF top
<1>7. ASSUME NEW i \in 1 .. n, i - 1 \in Good
      PROVE  i \in Good
  <2>1. f[i - 1] \in U /\ Rank(U, K, f[i - 1]) = top - (i - 1)
    BY <1>7
  <2>2. f[i] = sbt_walk_back(t, f[i - 1])
    BY <1>2
  <2>3. CASE f[i] = Null /\ IsFirst(U, K, f[i - 1])
    <3>1. top - (i - 1) = 0
      BY <1>1, <2>1, <2>3, FirstRank
    <3> QED
      BY <1>4, <1>5, <3>1
  <2>4. CASE f[i] \in U /\ IsNext(U, K, f[i], f[i - 1])
    <3>1. top - (i - 1) = Rank(U, K, f[i]) + 1 /\ Rank(U, K, f[i]) \in Nat
      BY <1>1, <2>1, <2>4, NextRank, LowerFacts
    <3> QED
      BY <1>4, <2>4, <3>1
  <2> QED
    BY <1>3, <2>1, <2>2, <2>3, <2>4
<1>8. n \in Good
  <2>1. n \in 0 .. n
    OBVIOUS
  <2> HIDE DEF Good
  <2> QED
    BY <1>6, <1>7, <2>1, UpTo
<1> QED
  BY <1>2, <1>8 DEF top, U, K

-----------------------------------------------------------------------------
(* sbt_min and sbt_max find none: only the sentinel has no child at all.                  *)

LEMMA EndIsSentinel ==
  ASSUME NEW t, SearchTree(t), t.root # Null, NEW side \in {"left", "right"}
  PROVE  sbt_end(t, t.root, side) = NILNODE
<1> DEFINE Turns(f) == f = [y \in Ptr |-> IF t[side][y] = Null THEN y ELSE f[t[side][y]]]
           down == CHOOSE f : Turns(f)
           Stop == {y \in Ptr : t[side][y] = Null}
           v == [y \in Ptr |-> y]
           nx == [y \in Ptr |-> t[side][y]]
           U == Nodes(t)
<1>1. t \in Tree /\ t.left[NILNODE] = Null /\ t.right[NILNODE] = Null
  BY DEF SearchTree
<1>2. \A y \in Ptr : y \notin Stop => nx[y] \in Ptr
  BY <1>1, SideFields DEF Link
<1>3. PICK f : Loops(Ptr, Stop, nx, v, f)
  <2> HIDE DEF Stop, nx, v
  <2> QED
    BY <1>2, LoopsExist
<1>4. f = [y \in Ptr |-> IF y \in Stop THEN v[y] ELSE f[nx[y]]]
  BY <1>3 DEF Loops
<1>5. \A y \in Ptr : (IF y \in Stop THEN v[y] ELSE f[nx[y]])
                       = IF t[side][y] = Null THEN y ELSE f[t[side][y]]
  OBVIOUS
<1>6. Turns(f)
  <2> HIDE DEF Stop, nx, v
  <2> QED
    BY <1>4, <1>5
<1>7. Turns(down)
  <2> HIDE DEF Turns
  <2> QED
    BY <1>6
<1>8. sbt_end(t, t.root, side) = down[t.root]
  BY DEF sbt_end
<1> HIDE DEF down
<1>9. \A y \in Ptr : down[y] = IF t[side][y] = Null THEN y ELSE down[t[side][y]]
  BY <1>7
<1>10. \A y \in U : y \in Ptr /\ t[side][y] \in U \cup {NILNODE} /\ t[side][y] # Null
  <2> SUFFICES ASSUME NEW y \in U
               PROVE  y \in Ptr /\ t[side][y] \in U \cup {NILNODE} /\ t[side][y] # Null
    OBVIOUS
  <2>1. y \in Node /\ y \in Ptr
    BY ChildrenOf DEF Ptr
  <2>2. t[side][y] \in U \cup {NILNODE}
    BY ChildrenOf
  <2>3. t[side][y] # Null
    BY DEF SearchTree, Nodes
  <2> QED
    BY <2>1, <2>2, <2>3
<1>11. down[NILNODE] = NILNODE
  BY <1>1, <1>9 DEF Ptr
<1>12. Ordered(U, t.root, t.left, t.right, t.parent, Below(t), t.key)
  BY SearchTreeIsOrdered
<1> DEFINE N == IF side = "left" THEN t.key ELSE [x \in U |-> 0 - t.key[x]]
<1>13. /\ Numbered(U, N) /\ t.root \in U
       /\ \A y \in U : t[side][y] \in U => N[t[side][y]] < N[y]
  <2>1. t.root \in U /\ \A y \in U : t[side][y] \in U => t[side][y] \in Below(t)[t[side][y]]
    BY <1>12 DEF Ordered, Linked
  <2>2. CASE side = "left"
    BY <1>12, <2>1, <2>2 DEF Ordered, Sorted
  <2>3. CASE side = "right"
    <3>1. Ordered(U, t.root, t.right, t.left, t.parent, Below(t), N)
      <4> HIDE DEF U
      <4> QED
        BY <1>12, <2>3, Mirrored
    <3> HIDE DEF N, U
    <3> QED
      BY <2>1, <2>3, <3>1 DEF Ordered, Sorted
  <2> QED
    BY <2>2, <2>3
<1> DEFINE Bad == {y \in U : down[y] # NILNODE}
<1> HIDE DEF U, N
<1>14. Bad = {}
  <2> SUFFICES ASSUME Bad # {}
               PROVE  FALSE
    OBVIOUS
  <2>1. Bad \subseteq U
    OBVIOUS
  <2>2. PICK y \in Bad : \A z \in Bad : N[y] <= N[z]
    <3> HIDE DEF Bad
    <3> QED
      BY <1>13, <2>1, LowestOf
  <2>3. y \in U /\ down[y] = down[t[side][y]] /\ t[side][y] \in U
    BY <1>9, <1>10, <1>11, <2>2
  <2>4. t[side][y] \notin Bad
    <3>1. N[t[side][y]] < N[y] /\ N[t[side][y]] \in Int /\ N[y] \in Int
      BY <1>13, <2>3 DEF Numbered
    <3> HIDE DEF Bad
    <3> QED
      BY <2>2, <3>1
  <2> QED
    BY <2>2, <2>3, <2>4
<1> QED
  BY <1>8, <1>13, <1>14

-----------------------------------------------------------------------------
(* By rank.                                                                   *)

(* The nodes before all that are under y.                                            *)
Lows(U, B, K, y) == {w \in U : \A z \in B[y] : K[w] < K[z]}

Low(U, B, K, y) == Cardinality(Lows(U, B, K, y))

Size(B, y) == Cardinality(B[y])

LEMMA SizeFacts ==
  ASSUME NEW U, NEW root, NEW L, NEW R, NEW P, NEW B, NEW K,
         Ordered(U, root, L, R, P, B, K), NEW y \in U
  PROVE  /\ IsFiniteSet(B[y]) /\ Size(B, y) \in Nat /\ Low(U, B, K, y) \in Nat
         /\ IsFiniteSet(B[L[y]]) /\ IsFiniteSet(B[R[y]])
         /\ Size(B, L[y]) \in Nat /\ Size(B, R[y]) \in Nat
         /\ Size(B, y) = Size(B, L[y]) + 1 + Size(B, R[y])
<1>1. /\ B[y] \subseteq U /\ B[L[y]] \subseteq U /\ B[R[y]] \subseteq U
      /\ B[y] = {y} \cup B[L[y]] \cup B[R[y]]
      /\ Lows(U, B, K, y) \subseteq U /\ IsFiniteSet(U)
  BY DEF Ordered, Linked, Lows, Numbered
<1>2. /\ IsFiniteSet(B[y]) /\ IsFiniteSet(B[L[y]]) /\ IsFiniteSet(B[R[y]])
      /\ IsFiniteSet(Lows(U, B, K, y))
  BY <1>1, FS_Subset
<1>3. /\ Size(B, y) \in Nat /\ Low(U, B, K, y) \in Nat
      /\ Size(B, L[y]) \in Nat /\ Size(B, R[y]) \in Nat
  BY <1>2, FS_CardinalityType DEF Size, Low
<1>4. \A z \in U : K[z] \in Int
  BY DEF Ordered, Numbered
<1>5. (\A z \in B[L[y]] : K[z] < K[y]) /\ (\A z \in B[R[y]] : K[y] < K[z])
  BY DEF Ordered, Sorted
<1>6. B[L[y]] \cap B[R[y]] = {} /\ y \notin B[L[y]] \cup B[R[y]]
  <2>1. ASSUME NEW z \in B[L[y]] \cap B[R[y]]
        PROVE  FALSE
    <3>1. K[z] < K[y] /\ K[y] < K[z] /\ K[y] \in Int /\ K[z] \in Int
      BY <1>1, <1>4, <1>5
    <3> QED
      BY <3>1
  <2>2. ~ (K[y] < K[y])
    BY <1>4
  <2> QED
    BY <1>5, <2>1, <2>2
<1> DEFINE S == B[L[y]]
           T == B[R[y]]
<1>7. Cardinality(S \cup T) = Cardinality(S) + Cardinality(T) /\ IsFiniteSet(S \cup T)
  <2>1. Cardinality(S \cup T) = Cardinality(S) + Cardinality(T) - Cardinality(S \cap T)
    BY <1>2, FS_Union
  <2>2. Cardinality(S \cap T) = 0
    BY <1>6, FS_EmptySet
  <2>3. Cardinality(S) \in Nat /\ Cardinality(T) \in Nat
    BY <1>2, FS_CardinalityType
  <2>4. IsFiniteSet(S \cup T)
    BY <1>2, FS_Union
  <2> HIDE DEF S, T
  <2> QED
    BY <2>1, <2>2, <2>3, <2>4
<1>8. B[y] = (S \cup T) \cup {y} /\ y \notin S \cup T
  BY <1>1, <1>6
<1>9. Cardinality(B[y]) = Cardinality(S \cup T) + 1
  <2> HIDE DEF S, T
  <2> QED
    BY <1>7, <1>8, FS_AddElement
<1>10. Size(B, y) = Size(B, L[y]) + 1 + Size(B, R[y])
  <2>1. Size(B, y) = Cardinality(B[y]) /\ Size(B, L[y]) = Cardinality(S) /\ Size(B, R[y]) = Cardinality(T)
    BY DEF Size
  <2> HIDE DEF S, T
  <2> QED
    BY <1>3, <1>7, <1>9, <2>1
<1> QED
  BY <1>2, <1>3, <1>10

LEMMA LowFacts ==
  ASSUME NEW U, NEW root, NEW L, NEW R, NEW P, NEW B, NEW K,
         Ordered(U, root, L, R, P, B, K), NEW y \in U
  PROVE  /\ Rank(U, K, y) = Low(U, B, K, y) + Size(B, L[y])
         /\ L[y] \in U => Low(U, B, K, L[y]) = Low(U, B, K, y)
         /\ R[y] \in U => Low(U, B, K, R[y]) = Rank(U, K, y) + 1
         /\ Low(U, B, K, y) + Size(B, y) <= Cardinality(U)
<1>1. /\ B[y] \subseteq U /\ B[L[y]] \subseteq U /\ B[R[y]] \subseteq U
      /\ B[y] = {y} \cup B[L[y]] \cup B[R[y]] /\ IsFiniteSet(U)
      /\ L[y] \in U => L[y] \in B[L[y]]
      /\ R[y] \in U => R[y] \in B[R[y]]
  BY DEF Ordered, Linked, Numbered
<1>2. \A z \in U : K[z] \in Int
  BY DEF Ordered, Numbered
<1>3. (\A z \in B[L[y]] : K[z] < K[y]) /\ (\A z \in B[R[y]] : K[y] < K[z])
  BY DEF Ordered, Sorted
<1>4. \A z \in U \ B[y] : (\A w \in B[y] : K[z] < K[w]) \/ (\A w \in B[y] : K[w] < K[z])
  BY DEF Ordered, Parted
<1> DEFINE A == Lows(U, B, K, y)
           S == B[L[y]]
<1>5. A \subseteq U /\ A \cap B[y] = {} /\ A \cap S = {}
  <2>1. ASSUME NEW w \in A \cap B[y]
        PROVE  FALSE
    <3>1. K[w] < K[w] /\ K[w] \in Int
      BY <1>2 DEF Lows
    <3> QED
      BY <3>1
  <2> QED
    BY <1>1, <2>1 DEF Lows
<1>6. IsFiniteSet(A) /\ IsFiniteSet(S) /\ IsFiniteSet(B[y])
  BY <1>1, <1>5, FS_Subset
<1>7. Lower(U, K, y) = A \cup S
  <2>1. ASSUME NEW w \in U, K[w] < K[y]
        PROVE  w \in A \cup S
    <3>1. CASE w \in B[y]
      BY <1>1, <1>2, <1>3, <2>1, <3>1
    <3>2. CASE w \notin B[y]
      BY <1>1, <1>2, <1>4, <2>1, <3>2 DEF Lows
    <3> QED
      BY <3>1, <3>2
  <2>2. A \cup S \subseteq Lower(U, K, y)
    BY <1>1, <1>3 DEF Lows, Lower
  <2> QED
    BY <2>1, <2>2 DEF Lower
<1>8. Rank(U, K, y) = Low(U, B, K, y) + Size(B, L[y])
  <2>1. Cardinality(A \cup S) = Cardinality(A) + Cardinality(S) - Cardinality(A \cap S)
    BY <1>6, FS_Union
  <2>2. Cardinality(A \cap S) = 0 /\ Cardinality(A) \in Nat /\ Cardinality(S) \in Nat
    BY <1>5, <1>6, FS_EmptySet, FS_CardinalityType
  <2>3. Cardinality(A \cup S) = Cardinality(A) + Cardinality(S)
    <3> HIDE DEF A, S
    <3> QED
      BY <2>1, <2>2
  <2> QED
    BY <1>7, <2>3 DEF Rank, Low, Size
<1>9. ASSUME L[y] \in U
      PROVE  Lows(U, B, K, L[y]) = A
  <2>1. A \subseteq Lows(U, B, K, L[y])
    BY <1>1 DEF Lows
  <2>2. ASSUME NEW w \in Lows(U, B, K, L[y])
        PROVE  w \in A
    <3>1. w \in U /\ K[w] < K[L[y]] /\ K[L[y]] < K[y] /\ w \notin S
      BY <1>1, <1>2, <1>3, <1>9 DEF Lows
    <3>2. K[w] < K[y] /\ w \notin B[y]
      BY <1>1, <1>2, <1>3, <1>9, <3>1
    <3> QED
      BY <1>1, <1>2, <1>4, <3>1, <3>2 DEF Lows
  <2> QED
    BY <2>1, <2>2
<1>10. ASSUME R[y] \in U
       PROVE  Low(U, B, K, R[y]) = Rank(U, K, y) + 1
  <2> DEFINE C == Lower(U, K, y)
  <2>1. Numbered(U, K)
    BY DEF Ordered
  <2>2. C \subseteq U /\ IsFiniteSet(C) /\ y \notin C
    BY <2>1, LowerFacts
  <2>3. C \cup {y} \subseteq Lows(U, B, K, R[y])
    BY <1>1, <1>2, <1>3 DEF Lows, Lower
  <2>4. ASSUME NEW w \in Lows(U, B, K, R[y])
        PROVE  w \in C \cup {y}
    <3>1. w \in U /\ K[w] < K[R[y]] /\ R[y] \in B[y] /\ w \notin B[R[y]]
      BY <1>1, <1>2, <1>10 DEF Lows
    <3>2. CASE w \in B[y]
      BY <1>1, <1>3, <3>1, <3>2 DEF Lower
    <3>3. CASE w \notin B[y]
      BY <1>1, <1>2, <1>4, <3>1, <3>3 DEF Lower
    <3> QED
      BY <3>2, <3>3
  <2>5. Lows(U, B, K, R[y]) = C \cup {y}
    BY <2>3, <2>4
  <2>6. Cardinality(C \cup {y}) = Cardinality(C) + 1
    <3> HIDE DEF C
    <3> QED
      BY <2>2, FS_AddElement
  <2> QED
    BY <2>5, <2>6 DEF Low, Rank
<1>11. Low(U, B, K, y) + Size(B, y) <= Cardinality(U)
  <2> DEFINE D == B[y]
  <2>1. Cardinality(A \cup D) = Cardinality(A) + Cardinality(D) - Cardinality(A \cap D)
    BY <1>6, FS_Union
  <2>2. Cardinality(A \cap D) = 0 /\ Cardinality(A) \in Nat /\ Cardinality(D) \in Nat
    BY <1>5, <1>6, FS_EmptySet, FS_CardinalityType
  <2>3. Cardinality(A \cup D) = Cardinality(A) + Cardinality(D)
    <3> HIDE DEF A, D
    <3> QED
      BY <2>1, <2>2
  <2>4. Cardinality(A \cup D) <= Cardinality(U)
    <3>1. A \cup D \in SUBSET U
      BY <1>1, <1>5
    <3> HIDE DEF A, D
    <3> QED
      BY <1>1, <3>1, FS_Subset
  <2> QED
    BY <2>3, <2>4 DEF Low, Size
<1> QED
  BY <1>8, <1>9, <1>10, <1>11 DEF Low

NodeAt(U, K, k) == CHOOSE x \in U : Rank(U, K, x) = k

(* Every rank below their number is some node's.                                       *)
Ranked(U, K) == \A k \in Nat : k < Cardinality(U) => \E x \in U : Rank(U, K, x) = k

(* What sbt_at comes to below y when it begins to count at i.                           *)
Count(U, B, K, offset, y, i) ==
  IF y \notin U THEN [found |-> y, index |-> i]
  ELSE IF i <= offset /\ offset < i + Size(B, y)
       THEN [found |-> NodeAt(U, K, Low(U, B, K, y) + offset - i), index |-> offset]
       ELSE [found |-> NILNODE, index |-> i + Size(B, y)]

LEMMA NodeAtFacts ==
  ASSUME NEW U, NEW K, Numbered(U, K), Distinct(U, K), Ranked(U, K)
  PROVE  /\ \A k \in Nat : k < Cardinality(U) =>
              NodeAt(U, K, k) \in U /\ Rank(U, K, NodeAt(U, K, k)) = k
         /\ \A x \in U : NodeAt(U, K, Rank(U, K, x)) = x
<1>1. ASSUME NEW k \in Nat, k < Cardinality(U)
      PROVE  NodeAt(U, K, k) \in U /\ Rank(U, K, NodeAt(U, K, k)) = k
  BY <1>1 DEF Ranked, NodeAt
<1>2. ASSUME NEW x \in U
      PROVE  NodeAt(U, K, Rank(U, K, x)) = x
  <2>1. Rank(U, K, x) \in Nat /\ Rank(U, K, x) < Cardinality(U)
    BY LowerFacts
  <2>2. NodeAt(U, K, Rank(U, K, x)) \in U /\ Rank(U, K, NodeAt(U, K, Rank(U, K, x))) = Rank(U, K, x)
    BY <1>1, <2>1
  <2> QED
    BY <2>2, RankTells
<1> QED
  BY <1>1, <1>2

LEMMA CountTurns ==
  ASSUME NEW U, NEW root, NEW L, NEW R, NEW P, NEW B, NEW K,
         Ordered(U, root, L, R, P, B, K), Ranked(U, K), NEW offset \in Nat, NEW y \in U, NEW i \in Nat,
         NEW left, left = Count(U, B, K, offset, L[y], i)
  PROVE  /\ left.index \in Nat /\ (IS_NULL(left.found) => left.index = i + Size(B, L[y]))
         /\ Count(U, B, K, offset, y, i) =
              IF ~ IS_NULL(left.found) THEN left
              ELSE IF left.index = offset THEN [found |-> y, index |-> left.index]
              ELSE Count(U, B, K, offset, R[y], left.index + 1)
<1> DEFINE l == Size(B, L[y])
           r == Size(B, R[y])
           s == Size(B, y)
           low == Low(U, B, K, y)
           N == Cardinality(U)
           At(k) == NodeAt(U, K, k)
           C(x, j) == Count(U, B, K, offset, x, j)
<1>1. l \in Nat /\ r \in Nat /\ s \in Nat /\ low \in Nat /\ s = l + 1 + r
  BY SizeFacts
<1>2. /\ Rank(U, K, y) = low + l /\ low + s <= N
      /\ L[y] \in U => Low(U, B, K, L[y]) = low
      /\ R[y] \in U => Low(U, B, K, R[y]) = low + l + 1
  BY LowFacts
<1>3. N \in Nat /\ Null \notin U /\ NILNODE \notin U /\ B[NILNODE] = {}
  BY FS_CardinalityType DEF Ordered, Numbered, Linked
<1>4. /\ L[y] \in U \/ (L[y] = NILNODE /\ l = 0)
      /\ R[y] \in U \/ (R[y] = NILNODE /\ r = 0)
  BY <1>3, FS_EmptySet DEF Ordered, Linked, Size
<1>5. /\ \A k \in Nat : k < N => At(k) \in U
      /\ At(low + l) = y
  BY <1>2, NodeAtFacts DEF Ordered
<1>6. C(y, i) = IF i <= offset /\ offset < i + s THEN [found |-> At(low + offset - i), index |-> offset]
                ELSE [found |-> NILNODE, index |-> i + s]
  BY DEF Count
<1>7. left = IF i <= offset /\ offset < i + l THEN [found |-> At(low + offset - i), index |-> offset]
             ELSE [found |-> NILNODE, index |-> i + l]
  <2>1. CASE L[y] \in U
    BY <1>2, <2>1 DEF Count
  <2>2. CASE L[y] \notin U
    <3>1. L[y] = NILNODE /\ l = 0
      BY <1>4, <2>2
    <3>2. left = [found |-> NILNODE, index |-> i] /\ i + l = i /\ ~ (i <= offset /\ offset < i + l)
      BY <2>2, <3>1 DEF Count
    <3> QED
      BY <3>2
  <2> QED
    BY <2>1, <2>2
<1>8. \A j \in Nat : C(R[y], j) =
        IF j <= offset /\ offset < j + r THEN [found |-> At(low + l + 1 + offset - j), index |-> offset]
        ELSE [found |-> NILNODE, index |-> j + r]
  <2> SUFFICES ASSUME NEW j \in Nat
               PROVE  C(R[y], j) =
                        IF j <= offset /\ offset < j + r
                        THEN [found |-> At(low + l + 1 + offset - j), index |-> offset]
                        ELSE [found |-> NILNODE, index |-> j + r]
    OBVIOUS
  <2>1. CASE R[y] \in U
    BY <1>2, <2>1 DEF Count
  <2>2. CASE R[y] \notin U
    <3>1. R[y] = NILNODE /\ r = 0
      BY <1>4, <2>2
    <3>2. C(R[y], j) = [found |-> NILNODE, index |-> j] /\ j + r = j /\ ~ (j <= offset /\ offset < j + r)
      BY <2>2, <3>1 DEF Count
    <3> QED
      BY <3>2
  <2> QED
    BY <2>1, <2>2
<1> HIDE DEF l, r, s, low, N, At, C
<1>9. C(y, i) = Count(U, B, K, offset, y, i) /\ \A j : C(R[y], j) = Count(U, B, K, offset, R[y], j)
  BY DEF C
<1>10. CASE i <= offset /\ offset < i + l
  <2>1. low + offset - i \in Nat /\ low + offset - i < N
    BY <1>1, <1>2, <1>3, <1>10
  <2>2. At(low + offset - i) \in U
    BY <1>5, <2>1
  <2>3. left = [found |-> At(low + offset - i), index |-> offset]
    BY <1>7, <1>10
  <2>4. left.found = At(low + offset - i) /\ left.index = offset
    BY <2>3
  <2>5. ~ IS_NULL(left.found)
    BY <1>3, <2>2, <2>4 DEF IS_NULL
  <2>6. offset < i + s
    BY <1>1, <1>10
  <2>7. C(y, i) = left
    BY <1>6, <1>10, <2>3, <2>6
  <2> QED
    BY <1>9, <2>4, <2>5, <2>7
<1>11. CASE ~ (i <= offset /\ offset < i + l)
  <2>1. left = [found |-> NILNODE, index |-> i + l]
    BY <1>7, <1>11
  <2>2. left.found = NILNODE /\ left.index = i + l /\ left.index \in Nat
    BY <1>1, <2>1
  <2>3. IS_NULL(left.found)
    BY <2>2 DEF IS_NULL
  <2>4. CASE i + l = offset
    <3>1. i <= offset /\ offset < i + s /\ low + offset - i = low + l
      BY <1>1, <2>4
    <3>2. C(y, i) = [found |-> y, index |-> left.index]
      BY <1>5, <1>6, <2>2, <2>4, <3>1
    <3> QED
      BY <1>9, <2>2, <2>3, <2>4, <3>2 DEF l
  <2>5. CASE i + l # offset
    <3> DEFINE j == i + l + 1
    <3>1. j \in Nat /\ j = left.index + 1 /\ j + r = i + s
      BY <1>1, <2>2
    <3>2. (j <= offset /\ offset < j + r) <=> (i <= offset /\ offset < i + s)
      BY <1>1, <1>11, <2>5
    <3>3. low + l + 1 + offset - j = low + offset - i
      BY <1>1
    <3>4. C(R[y], j) = C(y, i)
      <4>1. C(R[y], j) =
              IF j <= offset /\ offset < j + r THEN [found |-> At(low + l + 1 + offset - j), index |-> offset]
              ELSE [found |-> NILNODE, index |-> j + r]
        BY <1>8, <3>1
      <4> HIDE DEF j
      <4> QED
        BY <1>6, <3>1, <3>2, <3>3, <4>1
    <3> QED
      BY <1>9, <2>2, <2>3, <2>5, <3>1, <3>4 DEF l
  <2> QED
    BY <2>4, <2>5
<1> QED
  BY <1>10, <1>11

(* a is what sbt_at computes.                                                       *)
Meets(U, L, R, offset, a) ==
  \A y \in U \cup {NILNODE, Null} : \A i \in Nat :
    a[y][i] = IF IS_NULL(y) THEN [found |-> y, index |-> i]
              ELSE IF ~ IS_NULL(a[L[y]][i].found) THEN a[L[y]][i]
              ELSE IF a[L[y]][i].index = offset THEN [found |-> y, index |-> a[L[y]][i].index]
              ELSE a[R[y]][a[L[y]][i].index + 1]

LEMMA CountMeets ==
  ASSUME NEW U, NEW root, NEW L, NEW R, NEW P, NEW B, NEW K,
         Ordered(U, root, L, R, P, B, K), Ranked(U, K), NEW offset \in Nat, NEW a,
         \A y \in U \cup {NILNODE, Null} : \A i \in Nat : a[y][i] = Count(U, B, K, offset, y, i)
  PROVE  Meets(U, L, R, offset, a)
<1> SUFFICES ASSUME NEW y \in U \cup {NILNODE, Null}, NEW i \in Nat
             PROVE  a[y][i] = IF IS_NULL(y) THEN [found |-> y, index |-> i]
                              ELSE IF ~ IS_NULL(a[L[y]][i].found) THEN a[L[y]][i]
                              ELSE IF a[L[y]][i].index = offset
                                   THEN [found |-> y, index |-> a[L[y]][i].index]
                              ELSE a[R[y]][a[L[y]][i].index + 1]
  BY DEF Meets
<1>1. Null \notin U /\ NILNODE \notin U
  BY DEF Ordered, Linked
<1>2. CASE y \in U
  <2>1. ~ IS_NULL(y) /\ L[y] \in U \cup {NILNODE, Null} /\ R[y] \in U \cup {NILNODE, Null}
    BY <1>1, <1>2 DEF IS_NULL, Ordered, Linked
  <2> DEFINE left == Count(U, B, K, offset, L[y], i)
  <2>2. /\ left.index \in Nat
        /\ Count(U, B, K, offset, y, i) =
             IF ~ IS_NULL(left.found) THEN left
             ELSE IF left.index = offset THEN [found |-> y, index |-> left.index]
             ELSE Count(U, B, K, offset, R[y], left.index + 1)
    BY <1>2, CountTurns
  <2> HIDE DEF left
  <2>3. left.index + 1 \in Nat
    BY <2>2
  <2>4. a[L[y]][i] = left
    BY <2>1 DEF left
  <2>5. a[R[y]][left.index + 1] = Count(U, B, K, offset, R[y], left.index + 1)
    BY <2>1, <2>3
  <2>6. a[y][i] = Count(U, B, K, offset, y, i)
    OBVIOUS
  <2> QED
    BY <2>1, <2>2, <2>4, <2>5, <2>6
<1>3. CASE y \notin U
  <2>1. IS_NULL(y)
    BY <1>3 DEF IS_NULL
  <2> QED
    BY <1>3, <2>1 DEF Count
<1> QED
  BY <1>2, <1>3

LEMMA MeetsIsCount ==
  ASSUME NEW U, NEW root, NEW L, NEW R, NEW P, NEW B, NEW K,
         Ordered(U, root, L, R, P, B, K), Ranked(U, K), NEW offset \in Nat,
         NEW a, Meets(U, L, R, offset, a)
  PROVE  \A y \in U : \A i \in Nat : a[y][i] = Count(U, B, K, offset, y, i)
<1> DEFINE Good(y) == \A i \in Nat : a[y][i] = Count(U, B, K, offset, y, i)
           Bad == {y \in U : ~ Good(y)}
           m == [y \in U |-> Size(B, y)]
<1>1. SUFFICES ASSUME Bad # {}
               PROVE  FALSE
  OBVIOUS
<1>2. \A y \in U : m[y] \in Nat /\ m[y] = Size(B, y)
  BY SizeFacts
<1>3. PICK y \in Bad : \A z \in Bad : m[y] <= m[z]
  <2>1. \A z \in Bad : m[z] \in Nat
    BY <1>2
  <2> HIDE DEF Bad, m
  <2> QED
    BY <1>1, <2>1, LeastBy
<1>4. y \in U /\ ~ Good(y)
  BY <1>3
<1>5. Null \notin U /\ NILNODE \notin U
  BY DEF Ordered, Linked
<1>6. L[y] \in U \cup {NILNODE} /\ R[y] \in U \cup {NILNODE} /\ ~ IS_NULL(y)
  BY <1>4, <1>5 DEF Ordered, Linked, IS_NULL
<1>7. ASSUME NEW c \in {L[y], R[y]}
      PROVE  Good(c)
  <2>1. CASE c \in U
    <3>1. Size(B, c) < Size(B, y)
      BY <1>4, SizeFacts
    <3>2. m[c] < m[y] /\ m[c] \in Nat /\ m[y] \in Nat
      BY <1>2, <1>4, <2>1, <3>1
    <3>3. c \notin Bad
      <4> HIDE DEF Bad, m
      <4> QED
        BY <1>3, <3>2
    <3> QED
      BY <2>1, <3>3
  <2>2. CASE c \notin U
    <3>1. c = NILNODE
      BY <1>6, <2>2
    <3> QED
      BY <2>2, <3>1 DEF Meets, Count, IS_NULL
  <2> QED
    BY <2>1, <2>2
<1>8. ASSUME NEW i \in Nat
      PROVE  a[y][i] = Count(U, B, K, offset, y, i)
  <2> DEFINE left == Count(U, B, K, offset, L[y], i)
  <2>1. /\ left.index \in Nat
        /\ Count(U, B, K, offset, y, i) =
             IF ~ IS_NULL(left.found) THEN left
             ELSE IF left.index = offset THEN [found |-> y, index |-> left.index]
             ELSE Count(U, B, K, offset, R[y], left.index + 1)
    BY <1>4, CountTurns
  <2>2. a[L[y]][i] = left
    BY <1>7
  <2> HIDE DEF left
  <2>3. left.index + 1 \in Nat
    BY <2>1
  <2>4. a[R[y]][left.index + 1] = Count(U, B, K, offset, R[y], left.index + 1)
    BY <1>7, <2>3
  <2>5. a[y][i] = IF IS_NULL(y) THEN [found |-> y, index |-> i]
                  ELSE IF ~ IS_NULL(a[L[y]][i].found) THEN a[L[y]][i]
                  ELSE IF a[L[y]][i].index = offset THEN [found |-> y, index |-> a[L[y]][i].index]
                  ELSE a[R[y]][a[L[y]][i].index + 1]
    BY <1>4 DEF Meets
  <2> QED
    BY <1>6, <2>1, <2>2, <2>4, <2>5
<1> QED
  BY <1>4, <1>8

LEMMA AllRanked ==
  ASSUME NEW t, SearchTree(t), t.root # Null
  PROVE  Ranked(Nodes(t), t.key) /\ Cardinality(Nodes(t)) \in Nat
<1>1. Cardinality(Nodes(t)) \in Nat
  BY SearchTreeIsOrdered, FS_CardinalityType DEF Ordered, Numbered
<1>2. ASSUME NEW k \in Nat, k < Cardinality(Nodes(t))
      PROVE  \E x \in Nodes(t) : Rank(Nodes(t), t.key, x) = k
  <2>1. k \in 0 .. Cardinality(Nodes(t))
    BY <1>1, <1>2
  <2> QED
    BY <1>2, <2>1, WalkUp
<1> QED
  BY <1>1, <1>2 DEF Ranked

(* sbt_at finds the node of a rank, and the sentinel for a rank that none has.             *)
LEMMA AtIsByRank ==
  ASSUME NEW t, SearchTree(t), t.root # Null, NEW offset \in Nat
  PROVE  sbt_at(t, t.root, offset) =
           IF offset < Cardinality(Nodes(t)) THEN NodeAt(Nodes(t), t.key, offset) ELSE NILNODE
<1> DEFINE U == Nodes(t)
           B == Below(t)
           K == t.key
           D == Under(t, t.root) \cup {NILNODE, Null}
           Turns(a) == a = [y \in D |-> [index \in Nat |->
                              IF IS_NULL(y) THEN [found |-> y, index |-> index]
                              ELSE LET left == a[t.left[y]][index]
                                   IN  IF ~ IS_NULL(left.found) THEN left
                                       ELSE IF left.index = offset THEN [found |-> y, index |-> left.index]
                                       ELSE a[t.right[y]][left.index + 1]]]
           at == CHOOSE a : Turns(a)
           h == [y \in D |-> [index \in Nat |-> Count(U, B, K, offset, y, index)]]
<1>1. Ordered(U, t.root, t.left, t.right, t.parent, B, K) /\ Ranked(U, K) /\ Cardinality(U) \in Nat
  BY SearchTreeIsOrdered, AllRanked
<1>2. D = U \cup {NILNODE, Null}
  BY DEF Nodes
<1>3. \A y \in D : \A i \in Nat : h[y][i] = Count(U, B, K, offset, y, i)
  OBVIOUS
<1>4. Meets(U, t.left, t.right, offset, h)
  <2> HIDE DEF h, D, U, B, K
  <2> QED
    BY <1>1, <1>2, <1>3, CountMeets
<1>5. Turns(h)
  <2> DEFINE e(y, i) == IF IS_NULL(y) THEN [found |-> y, index |-> i]
                        ELSE IF ~ IS_NULL(h[t.left[y]][i].found) THEN h[t.left[y]][i]
                        ELSE IF h[t.left[y]][i].index = offset
                             THEN [found |-> y, index |-> h[t.left[y]][i].index]
                        ELSE h[t.right[y]][h[t.left[y]][i].index + 1]
  <2>1. \A y \in D : \A i \in Nat : Count(U, B, K, offset, y, i) = e(y, i)
    <3> HIDE DEF h, D, U, B, K
    <3> SUFFICES ASSUME NEW y \in D, NEW i \in Nat
                 PROVE  Count(U, B, K, offset, y, i) = e(y, i)
      OBVIOUS
    <3>1. h[y][i] = Count(U, B, K, offset, y, i)
      BY <1>3
    <3>2. y \in U \cup {NILNODE, Null}
      BY <1>2
    <3>3. h[y][i] = e(y, i)
      BY <1>4, <3>2 DEF Meets
    <3> QED
      BY <3>1, <3>3
  <2>2. h = [y \in D |-> [i \in Nat |-> e(y, i)]]
    <3> HIDE DEF e
    <3> QED
      BY <2>1
  <2> QED
    BY <2>2
<1>6. Turns(at)
  <2> HIDE DEF Turns
  <2> QED
    BY <1>5
<1>7. sbt_at(t, t.root, offset) = at[t.root][0].found
  BY DEF sbt_at
<1> HIDE DEF at
<1>8. Meets(U, t.left, t.right, offset, at)
  <2> HIDE DEF D
  <2>1. \A y \in D : \A i \in Nat :
          at[y][i] = IF IS_NULL(y) THEN [found |-> y, index |-> i]
                     ELSE IF ~ IS_NULL(at[t.left[y]][i].found) THEN at[t.left[y]][i]
                     ELSE IF at[t.left[y]][i].index = offset
                          THEN [found |-> y, index |-> at[t.left[y]][i].index]
                     ELSE at[t.right[y]][at[t.left[y]][i].index + 1]
    <3> SUFFICES ASSUME NEW y \in D
                 PROVE  \A i \in Nat :
                          at[y][i] = IF IS_NULL(y) THEN [found |-> y, index |-> i]
                                     ELSE IF ~ IS_NULL(at[t.left[y]][i].found) THEN at[t.left[y]][i]
                                     ELSE IF at[t.left[y]][i].index = offset
                                          THEN [found |-> y, index |-> at[t.left[y]][i].index]
                                     ELSE at[t.right[y]][at[t.left[y]][i].index + 1]
      OBVIOUS
    <3>1. at[y] = [index \in Nat |->
                     IF IS_NULL(y) THEN [found |-> y, index |-> index]
                     ELSE LET left == at[t.left[y]][index]
                          IN  IF ~ IS_NULL(left.found) THEN left
                              ELSE IF left.index = offset THEN [found |-> y, index |-> left.index]
                              ELSE at[t.right[y]][left.index + 1]]
      BY <1>6, Zenon
    <3> QED
      BY <3>1
  <2> QED
    BY <1>2, <2>1 DEF Meets
<1> HIDE DEF U, B, K, D, h, Turns
<1>9. t.root \in U /\ at[t.root][0] = Count(U, B, K, offset, t.root, 0)
  <2>1. t.root \in U
    BY <1>1 DEF Ordered, Linked
  <2> QED
    BY <1>1, <1>8, <2>1, MeetsIsCount
<1>10. Low(U, B, K, t.root) = 0 /\ Size(B, t.root) = Cardinality(U)
  <2>1. B[t.root] = U /\ \A z \in U : K[z] \in Int
    BY <1>1 DEF Ordered, Linked, Numbered
  <2>2. Lows(U, B, K, t.root) = {}
    BY <2>1 DEF Lows
  <2> QED
    BY <2>1, <2>2, FS_EmptySet DEF Low, Size
<1>11. Count(U, B, K, offset, t.root, 0) =
         IF offset < Cardinality(U) THEN [found |-> NodeAt(U, K, offset), index |-> offset]
         ELSE [found |-> NILNODE, index |-> Cardinality(U)]
  <2>1. 0 <= offset /\ 0 + offset - 0 = offset /\ 0 + Cardinality(U) = Cardinality(U)
    BY <1>1
  <2> QED
    BY <1>9, <1>10, <2>1 DEF Count
<1> QED
  BY <1>7, <1>9, <1>11 DEF U, K

-----------------------------------------------------------------------------
(* The search is a loop over where it is and what is above.                                *)
LEMMA DescentLoops ==
  ASSUME NEW t \in Tree, NEW k \in Int
  PROVE  \E f : /\ \A s \in [at : Link, above : Link] :
                     f[s] = IF IS_NULL(s.at) \/ t.key[s.at] = k THEN s
                            ELSE f[[at |-> IF t.key[s.at] < k THEN t.right[s.at] ELSE t.left[s.at],
                                    above |-> s.at]]
                /\ Descent(t, k) = f[[at |-> t.root, above |-> t.root]]
<1> DEFINE D == [at : Link, above : Link]
           on(s) == [at |-> IF t.key[s.at] < k THEN t.right[s.at] ELSE t.left[s.at], above |-> s.at]
           Turns(f) == f = [s \in D |-> IF IS_NULL(s.at) \/ t.key[s.at] = k THEN s ELSE f[on(s)]]
           walk == CHOOSE f : Turns(f)
           Stop == {s \in D : IS_NULL(s.at) \/ t.key[s.at] = k}
           v == [s \in D |-> s]
           nx == [s \in D |-> on(s)]
<1>1. \A s \in D : s \notin Stop => nx[s] \in D
  <2> SUFFICES ASSUME NEW s \in D, s \notin Stop
               PROVE  on(s) \in D
    OBVIOUS
  <2>1. s.at \in Ptr
    BY DEF Link, IS_NULL
  <2>2. t.right[s.at] \in Link /\ t.left[s.at] \in Link /\ s.at \in Link
    BY <2>1 DEF Tree
  <2> QED
    BY <2>2
<1>2. PICK f : Loops(D, Stop, nx, v, f)
  <2> HIDE DEF D, Stop, nx, v
  <2> QED
    BY <1>1, LoopsExist
<1>3. f = [s \in D |-> IF s \in Stop THEN v[s] ELSE f[nx[s]]]
  BY <1>2 DEF Loops
<1>4. \A s \in D : (IF s \in Stop THEN v[s] ELSE f[nx[s]])
                     = IF IS_NULL(s.at) \/ t.key[s.at] = k THEN s ELSE f[on(s)]
  <2> HIDE DEF on, D
  <2> QED
    OBVIOUS
<1>5. Turns(f)
  <2> HIDE DEF Stop, nx, v, D, on
  <2> QED
    BY <1>3, <1>4
<1>6. Turns(walk)
  <2> HIDE DEF Turns
  <2> QED
    BY <1>5
<1>7. Descent(t, k) = walk[[at |-> t.root, above |-> t.root]]
  BY DEF Descent
<1> HIDE DEF walk
<1>8. \A s \in D : walk[s] = IF IS_NULL(s.at) \/ t.key[s.at] = k THEN s ELSE walk[on(s)]
  <2> HIDE DEF on, D
  <2> QED
    BY <1>6
<1> QED
  BY <1>7, <1>8

(* In an empty tree it ends where it begins, at the null pointer.                            *)
LEMMA DescentOfNothing ==
  ASSUME NEW t \in Tree, t.root = Null, NEW k \in Int
  PROVE  Descent(t, k).at = Null
<1> DEFINE s == [at |-> t.root, above |-> t.root]
<1>1. s \in [at : Link, above : Link] /\ IS_NULL(s.at) /\ s.at = Null
  BY DEF Link, IS_NULL
<1>2. PICK f : /\ \A r \in [at : Link, above : Link] :
                    f[r] = IF IS_NULL(r.at) \/ t.key[r.at] = k THEN r
                           ELSE f[[at |-> IF t.key[r.at] < k THEN t.right[r.at] ELSE t.left[r.at],
                                   above |-> r.at]]
               /\ Descent(t, k) = f[[at |-> t.root, above |-> t.root]]
  BY DescentLoops
<1>3. f[s] = s
  BY <1>1, <1>2
<1> QED
  BY <1>1, <1>2, <1>3

(* The search for a key ends at the node that has it, or at the sentinel.                  *)
LEMMA DescentEnds ==
  ASSUME NEW t, SearchTree(t), t.root # Null, NEW k \in Int, NEW r, r = Descent(t, k).at
  PROVE  \/ r \in Nodes(t) /\ t.key[r] = k
         \/ r = NILNODE /\ \A y \in Nodes(t) : t.key[y] # k
<1> DEFINE U == Nodes(t)
           B == Below(t)
           K == t.key
           D == [at : Link, above : Link]
           on(s) == [at |-> IF t.key[s.at] < k THEN t.right[s.at] ELSE t.left[s.at], above |-> s.at]
<1>1. t \in Tree
  BY DEF SearchTree
<1>2. Ordered(U, t.root, t.left, t.right, t.parent, B, K)
  BY SearchTreeIsOrdered
<1>3. PICK walk : /\ \A s \in D : walk[s] = IF IS_NULL(s.at) \/ t.key[s.at] = k THEN s ELSE walk[on(s)]
                  /\ Descent(t, k) = walk[[at |-> t.root, above |-> t.root]]
  BY <1>1, DescentLoops
<1>4. r = walk[[at |-> t.root, above |-> t.root]].at
  BY <1>3
<1> DEFINE st(y, a) == [at |-> y, above |-> a]
           Lands(y, z) == \/ z \in B[y] /\ K[z] = k
                          \/ z = NILNODE /\ \A x \in B[y] : K[x] # k
           Good(y) == \A a \in Link : Lands(y, walk[st(y, a)].at)
           Bad == {y \in U : ~ Good(y)}
           m == [y \in U |-> Size(B, y)]
<1>5. \A y \in U : y \in Ptr /\ y \in Link /\ ~ IS_NULL(y)
  BY ChildrenOf, AddressAssumption DEF Ptr, Link, IS_NULL
<1>6. \A y \in U : \A a \in Link :
         walk[st(y, a)] = IF K[y] = k THEN st(y, a)
                          ELSE walk[st(IF K[y] < k THEN t.right[y] ELSE t.left[y], y)]
  <2> SUFFICES ASSUME NEW y \in U, NEW a \in Link
               PROVE  walk[st(y, a)] = IF K[y] = k THEN st(y, a)
                                       ELSE walk[st(IF K[y] < k THEN t.right[y] ELSE t.left[y], y)]
    OBVIOUS
  <2>1. st(y, a) \in D /\ st(y, a).at = y
    BY <1>5
  <2>2. on(st(y, a)) = st(IF K[y] < k THEN t.right[y] ELSE t.left[y], y)
    BY <2>1
  <2> HIDE DEF st, on, D
  <2> QED
    BY <1>3, <1>5, <2>1, <2>2
<1>7. \A a \in Link : walk[st(NILNODE, a)].at = NILNODE
  <2> SUFFICES ASSUME NEW a \in Link
               PROVE  walk[st(NILNODE, a)].at = NILNODE
    OBVIOUS
  <2>1. st(NILNODE, a) \in D /\ st(NILNODE, a).at = NILNODE /\ IS_NULL(NILNODE)
    BY DEF Link, Ptr, IS_NULL
  <2>2. walk[st(NILNODE, a)] = st(NILNODE, a)
    <3> HIDE DEF st, on, D
    <3> QED
      BY <1>3, <2>1
  <2> QED
    BY <2>1, <2>2
<1>8. \A y \in U : m[y] \in Nat /\ m[y] = Size(B, y)
  <2> HIDE DEF U, B, K
  <2> QED
    BY <1>2, SizeFacts
<1> HIDE DEF U, B, K, D, on
<1>9. Bad = {}
  <2>0. SUFFICES ASSUME Bad # {}
                 PROVE  FALSE
    OBVIOUS
  <2>1. PICK y \in Bad : \A z \in Bad : m[y] <= m[z]
    <3>1. \A z \in Bad : m[z] \in Nat
      BY <1>8
    <3> HIDE DEF Bad, m
    <3> QED
      BY <2>0, <3>1, LeastBy
  <2>2. y \in U /\ ~ Good(y)
    BY <2>1
  <2>3. \A c \in U : Size(B, c) < Size(B, y) => Good(c)
    <3> SUFFICES ASSUME NEW c \in U, Size(B, c) < Size(B, y)
                 PROVE  Good(c)
      OBVIOUS
    <3>1. m[c] < m[y] /\ m[c] \in Nat /\ m[y] \in Nat
      BY <1>8, <2>2
    <3>2. c \notin Bad
      <4> HIDE DEF Bad, m
      <4> QED
        BY <2>1, <3>1
    <3> QED
      BY <3>2
  <2>4. /\ B[y] = {y} \cup B[t.left[y]] \cup B[t.right[y]] /\ B[y] \subseteq U
        /\ t.left[y] \in U \cup {NILNODE} /\ t.right[y] \in U \cup {NILNODE}
        /\ NILNODE \notin U /\ B[NILNODE] = {} /\ y \in B[y]
        /\ \A x \in B[t.left[y]] : K[x] < K[y]
        /\ \A x \in B[t.right[y]] : K[y] < K[x]
        /\ \A x \in U : K[x] \in Int
    BY <1>2, <2>2 DEF Ordered, Linked, Sorted, Numbered
  <2>5. /\ Size(B, t.left[y]) < Size(B, y) /\ Size(B, t.right[y]) < Size(B, y)
    BY <1>2, <2>2, SizeFacts
  <2>6. ASSUME NEW c \in {t.left[y], t.right[y]}
        PROVE  Lands(c, walk[st(c, y)].at)
    <3>1. CASE c \in U
      <4>1. Good(c) /\ y \in Link
        BY <1>5, <2>2, <2>3, <2>5, <3>1
      <4> HIDE DEF Lands, st
      <4> QED
        BY <4>1
    <3>2. CASE c \notin U
      <4>1. c = NILNODE
        BY <2>4, <3>2
      <4> QED
        BY <1>5, <1>7, <2>2, <2>4, <4>1
    <3> QED
      BY <3>1, <3>2
  <2>7. ASSUME NEW a \in Link
        PROVE  Lands(y, walk[st(y, a)].at)
    <3>1. CASE K[y] = k
      <4>1. walk[st(y, a)] = st(y, a)
        BY <1>6, <2>2, <3>1
      <4> QED
        BY <2>4, <3>1, <4>1
    <3>2. CASE K[y] < k
      <4>1. walk[st(y, a)] = walk[st(t.right[y], y)]
        BY <1>6, <2>2, <2>4, <3>2
      <4>2. Lands(t.right[y], walk[st(y, a)].at)
        BY <2>6, <4>1
      <4>3. \A x \in B[y] \ B[t.right[y]] : K[x] # k
        BY <2>2, <2>4, <3>2
      <4> HIDE DEF st
      <4> QED
        BY <2>4, <4>2, <4>3
    <3>3. CASE k < K[y]
      <4>1. walk[st(y, a)] = walk[st(t.left[y], y)]
        BY <1>6, <2>2, <2>4, <3>3
      <4>2. Lands(t.left[y], walk[st(y, a)].at)
        BY <2>6, <4>1
      <4>3. \A x \in B[y] \ B[t.left[y]] : K[x] # k
        BY <2>2, <2>4, <3>3
      <4> HIDE DEF st
      <4> QED
        BY <2>4, <4>2, <4>3
    <3> QED
      BY <2>2, <2>4, <3>1, <3>2, <3>3
  <2> QED
    BY <2>2, <2>7
<1>10. t.root \in U /\ B[t.root] = U /\ t.root \in Link
  BY <1>2, <1>5 DEF Ordered, Linked
<1>11. Lands(t.root, walk[st(t.root, t.root)].at)
  BY <1>9, <1>10
<1> QED
  BY <1>4, <1>10, <1>11 DEF U, K

-----------------------------------------------------------------------------
(* Trees given by what is below each node, so that they can be edited.    *)

(* y belongs on that side of x.                                                        *)
Sided(t, side, y, x) == IF side = "left" THEN t.key[y] < t.key[x] ELSE t.key[y] > t.key[x]

Sides == {"left", "right"}

(* What hangs below x on a side, B[y] being the nodes that are below y.                     *)
Hangs(t, U, B, x, side) ==
  /\ t[side][x] \in U \cup {NILNODE}
  /\ t[side][x] # NILNODE => t.parent[t[side][x]] = x
  /\ \A y \in B[t[side][x]] : Sided(t, side, y, x)

(* A search tree below root, whatever the root pointer says, and what is below each node.     *)
Shaped(t, root, B) ==
  /\ t \in Tree /\ t.left[NILNODE] = Null /\ t.right[NILNODE] = Null /\ t.key[NILNODE] = 0
  /\ B[root] \subseteq Node /\ root \in B[root] /\ t.parent[root] = Null /\ B[NILNODE] = {}
  /\ \A x \in B[root] : \A side \in Sides :
       /\ B[x] \subseteq B[root] /\ B[x] = {x} \cup B[t[side][x]] \cup B[t[Other(side)][x]]
       /\ Hangs(t, B[root], B, x, side)

LEMMA SidesFacts ==
  /\ \A side \in Sides : /\ Other(side) \in Sides /\ Other(Other(side)) = side /\ Other(side) # side
                         /\ Sides = {side, Other(side)}
  /\ "left" \in Sides /\ "right" \in Sides
BY DEF Sides, Other

LEMMA SidedFacts ==
  ASSUME NEW t \in Tree, NEW side \in Sides
  PROVE  /\ \A x, y \in Ptr : Sided(t, Other(side), y, x) <=> Sided(t, side, x, y)
         /\ \A x, y, z \in Ptr : Sided(t, side, x, y) /\ Sided(t, side, y, z) => Sided(t, side, x, z)
         /\ \A x \in Ptr : ~ Sided(t, side, x, x)
         /\ \A x, y \in Ptr : Sided(t, side, x, y) => ~ Sided(t, side, y, x)
<1>1. \A x \in Ptr : t.key[x] \in Int
  BY DEF Tree
<1>2. CASE side = "left"
  BY <1>1, <1>2 DEF Sided, Other
<1>3. CASE side = "right"
  BY <1>1, <1>3 DEF Sided, Other
<1> QED
  BY <1>2, <1>3 DEF Sides

LEMMA ShapedSides ==
  ASSUME NEW t, NEW root, NEW B, Shaped(t, root, B), NEW x \in B[root], NEW side \in Sides
  PROVE  /\ x \in B[x] /\ B[x] \subseteq B[root] /\ t[side][x] \in B[root] \cup {NILNODE}
         /\ t[side][x] = NILNODE => B[t[side][x]] = {}
         /\ t[side][x] # NILNODE => /\ t[side][x] \in B[root] /\ t[side][x] \in B[t[side][x]]
                                   /\ t.parent[t[side][x]] = x
         /\ B[t[side][x]] \subseteq B[x] /\ x \notin B[t[side][x]] /\ B[t[side][x]] \subseteq B[root]
         /\ \A y \in B[t[side][x]] : Sided(t, side, y, x)
         /\ x \in Node /\ x \in Ptr /\ t[side][x] \in Ptr
         /\ IsFiniteSet(B[x]) /\ IsFiniteSet(B[t[side][x]])
         /\ Cardinality(B[x]) \in Nat /\ Cardinality(B[t[side][x]]) \in Nat
         /\ Cardinality(B[t[side][x]]) < Cardinality(B[x])
<1> DEFINE c == t[side][x]
<1>1. /\ t \in Tree /\ B[root] \subseteq Node /\ B[NILNODE] = {}
      /\ B[x] \subseteq B[root] /\ B[x] = {x} \cup B[c] \cup B[t[Other(side)][x]]
      /\ c \in B[root] \cup {NILNODE} /\ (c # NILNODE => t.parent[c] = x)
      /\ \A y \in B[c] : Sided(t, side, y, x)
  BY DEF Shaped, Hangs
<1>4. c # NILNODE => c \in B[root] /\ c \in B[c]
  <2>1. \A y \in B[root] : y \in B[y]
    <3> SUFFICES ASSUME NEW y \in B[root]
                 PROVE  y \in B[y]
      OBVIOUS
    <3>1. B[y] = {y} \cup B[t["left"][y]] \cup B[t[Other("left")][y]]
      BY SidesFacts DEF Shaped
    <3> QED
      BY <3>1
  <2> HIDE DEF c
  <2> QED
    BY <1>1, <2>1
<1> HIDE DEF c
<1>2. x \in Node /\ x \in Ptr /\ c \in Ptr
  <2>1. B[root] \subseteq Node /\ c \in B[root] \cup {NILNODE}
    BY <1>1
  <2> QED
    BY <2>1 DEF Ptr
<1>3. x \notin B[c]
  <2>1. ~ Sided(t, side, x, x)
    BY <1>1, <1>2, SidedFacts
  <2> QED
    BY <1>1, <2>1
<1>5. IsFiniteSet(B[x]) /\ IsFiniteSet(B[c])
  <2>1. B[x] \subseteq Node /\ B[c] \subseteq Node
    BY <1>1
  <2> QED
    BY <2>1, AddressAssumption, FS_Subset
<1>6. Cardinality(B[x]) \in Nat /\ Cardinality(B[c]) \in Nat /\ Cardinality(B[c]) < Cardinality(B[x])
  <2>1. B[c] \subseteq B[x] /\ B[c] # B[x]
    BY <1>1, <1>3
  <2>2. Cardinality(B[c]) <= Cardinality(B[x]) /\ (Cardinality(B[c]) = Cardinality(B[x]) => B[c] = B[x])
    BY <1>5, <2>1, FS_Subset
  <2> QED
    BY <1>5, <2>1, <2>2, FS_CardinalityType
<1>7. x \in B[x] /\ B[c] \subseteq B[x] /\ B[c] \subseteq B[root]
  BY <1>1
<1> QED
  BY <1>1, <1>2, <1>3, <1>4, <1>5, <1>6, <1>7 DEF c

(* Of the nodes of a tree that are not Good, one has only good ones below.                    *)
LEMMA ShapedLeast ==
  ASSUME NEW t, NEW root, NEW B, Shaped(t, root, B), NEW Bad, Bad \subseteq B[root], Bad # {}
  PROVE  \E x \in Bad : \A side \in Sides : t[side][x] \notin Bad
<1> DEFINE m == [x \in B[root] |-> Cardinality(B[x])]
<1>1. \A x \in B[root] : \A side \in Sides :
        /\ Cardinality(B[x]) \in Nat
        /\ t[side][x] \in B[root] => Cardinality(B[t[side][x]]) < Cardinality(B[x])
  BY ShapedSides
<1>2. \A x \in B[root] : m[x] \in Nat /\ m[x] = Cardinality(B[x])
  BY <1>1, SidesFacts
<1>3. \A x \in Bad : m[x] \in Nat
  BY <1>2
<1>4. PICK x \in Bad : \A y \in Bad : m[x] <= m[y]
  <2> HIDE DEF m
  <2> QED
    BY <1>3, LeastBy
<1>5. ASSUME NEW side \in Sides, t[side][x] \in Bad
      PROVE  FALSE
  <2> DEFINE c == t[side][x]
  <2>1. m[x] <= m[c] /\ m[x] = Cardinality(B[x]) /\ m[c] = Cardinality(B[c])
    BY <1>2, <1>4, <1>5
  <2>2. Cardinality(B[c]) < Cardinality(B[x]) /\ Cardinality(B[c]) \in Nat /\ Cardinality(B[x]) \in Nat
    BY <1>1, <1>5, SidesFacts
  <2> HIDE DEF c, m
  <2> QED
    BY <2>1, <2>2
<1> QED
  BY <1>5

(* What is below what is below; and parents.                                              *)
LEMMA ShapedBelow ==
  ASSUME NEW t, NEW root, NEW B, Shaped(t, root, B), NEW x \in B[root], NEW y \in B[x]
  PROVE  /\ B[y] \subseteq B[x]
         /\ y # x => /\ t.parent[y] \in B[x]
                     /\ \E side \in Sides : y = t[side][t.parent[y]]
<1> DEFINE Good(z) == \A w \in B[z] : /\ B[w] \subseteq B[z]
                                      /\ w # z => /\ t.parent[w] \in B[z]
                                                  /\ \E side \in Sides : w = t[side][t.parent[w]]
           Bad == {z \in B[root] : ~ Good(z)}
<1>1. Bad = {}
  <2>0. SUFFICES ASSUME Bad # {}
                 PROVE  FALSE
    OBVIOUS
  <2>1. PICK z \in Bad : \A side \in Sides : t[side][z] \notin Bad
    <3>1. Bad \subseteq B[root]
      OBVIOUS
    <3> HIDE DEF Bad
    <3> QED
      BY <2>0, <3>1, ShapedLeast
  <2>2. z \in B[root] /\ ~ Good(z)
    BY <2>1
  <2>3. \A side \in Sides : t[side][z] \in B[root] => Good(t[side][z])
    BY <2>1
  <2>4. ASSUME NEW w \in B[z], w # z
        PROVE  /\ B[w] \subseteq B[z]
               /\ t.parent[w] \in B[z]
               /\ \E side \in Sides : w = t[side][t.parent[w]]
    <3>1. PICK side \in Sides : w \in B[t[side][z]]
      <4>1. B[z] = {z} \cup B[t["left"][z]] \cup B[t[Other("left")][z]]
        BY <2>2, SidesFacts DEF Shaped
      <4> QED
        BY <2>4, <4>1, SidesFacts
    <3> DEFINE c == t[side][z]
    <3>2. c \in B[root] /\ t.parent[c] = z /\ B[c] \subseteq B[z] /\ z \in B[z]
      BY <2>2, <3>1, ShapedSides
    <3>3. Good(c)
      BY <2>3, <3>2
    <3>4. CASE w = c
      BY <3>2, <3>4
    <3>5. CASE w # c
      <4>1. /\ B[w] \subseteq B[c] /\ t.parent[w] \in B[c]
            /\ \E s \in Sides : w = t[s][t.parent[w]]
        <5> HIDE DEF c
        <5> QED
          BY <3>1, <3>3, <3>5 DEF c
      <4> QED
        BY <3>2, <4>1
    <3> QED
      BY <3>4, <3>5
  <2> QED
    BY <2>2, <2>4
<1> QED
  BY <1>1

LEMMA ShapedIsUnder ==
  ASSUME NEW t, NEW root, NEW B, Shaped(t, root, B), NEW x \in B[root]
  PROVE  Under(t, x) = B[x]
<1> DEFINE Good(z) == \A C \in SUBSET Node : z \in C /\ Whole(t, C) => B[z] \subseteq C
           Bad == {z \in B[root] : ~ Good(z)}
<1>1. Bad = {}
  <2>0. SUFFICES ASSUME Bad # {}
                 PROVE  FALSE
    OBVIOUS
  <2>1. PICK z \in Bad : \A side \in Sides : t[side][z] \notin Bad
    <3>1. Bad \subseteq B[root]
      OBVIOUS
    <3> HIDE DEF Bad
    <3> QED
      BY <2>0, <3>1, ShapedLeast
  <2>2. z \in B[root] /\ ~ Good(z)
    BY <2>1
  <2>3. \A side \in Sides : t[side][z] \in B[root] => Good(t[side][z])
    BY <2>1
  <2>4. ASSUME NEW C \in SUBSET Node, z \in C, Whole(t, C)
        PROVE  B[z] \subseteq C
    <3>0. B[root] \subseteq Node
      BY DEF Shaped
    <3>1. ASSUME NEW side \in Sides
          PROVE  B[t[side][z]] \subseteq C
      <4> DEFINE c == t[side][z]
      <4>1. c = NILNODE => B[c] = {}
        BY <2>2, ShapedSides
      <4>2. c # NILNODE => c \in B[root] /\ c \in Node
        BY <2>2, <3>0, ShapedSides
      <4>3. c \in Node => c \in C
        BY <2>4 DEF Whole, Sides
      <4>4. c # NILNODE => Good(c)
        BY <2>3, <4>2
      <4> HIDE DEF c
      <4> QED
        BY <2>4, <4>1, <4>2, <4>3, <4>4 DEF c
    <3>2. B[z] = {z} \cup B[t["left"][z]] \cup B[t[Other("left")][z]]
      BY <2>2, SidesFacts DEF Shaped
    <3> QED
      BY <2>4, <3>1, <3>2, SidesFacts
  <2> QED
    BY <2>2, <2>4
<1>2. Good(x)
  BY <1>1
<1>3. t \in Tree /\ x \in Node /\ x \in Ptr /\ B[x] \subseteq Node /\ x \in B[x]
  BY ShapedSides, SidesFacts DEF Shaped
<1>4. Whole(t, B[x])
  <2> SUFFICES ASSUME NEW y \in B[x], NEW side \in Sides, t[side][y] \in Node
               PROVE  t[side][y] \in B[x]
    BY DEF Whole, Sides
  <2>1. y \in B[root] /\ B[y] \subseteq B[x]
    BY <1>3, ShapedBelow, ShapedSides, SidesFacts
  <2>2. t[side][y] \in B[t[side][y]] /\ B[t[side][y]] \subseteq B[y]
    BY <2>1, ShapedSides, AddressAssumption
  <2> QED
    BY <2>1, <2>2
<1>5. Under(t, x) \subseteq Node /\ Whole(t, Under(t, x)) /\ x \in Under(t, x)
  BY <1>3, UnderFacts
<1>6. Under(t, x) \subseteq B[x]
  BY <1>3, <1>4, UnderFacts
<1> QED
  BY <1>2, <1>5, <1>6

LEMMA ShapedIsSearchTree ==
  ASSUME NEW t, NEW B, Shaped(t, t.root, B)
  PROVE  SearchTree(t) /\ Nodes(t) = B[t.root]
<1>1. Nodes(t) = B[t.root] /\ t.root \in B[t.root] /\ B[t.root] \subseteq Node /\ t \in Tree
  <2>1. t.root \in B[t.root] /\ B[t.root] \subseteq Node /\ t \in Tree
    BY DEF Shaped
  <2>2. Under(t, t.root) = B[t.root]
    BY <2>1, ShapedIsUnder
  <2> QED
    BY <2>1, <2>2 DEF Nodes
<1>2. t.root # NILNODE /\ t.root # Null /\ t.parent[t.root] = Null
  BY <1>1, AddressAssumption DEF Shaped
<1>3. ASSUME NEW x \in B[t.root], NEW side \in Sides, NEW c, c = t[side][x]
      PROVE  /\ c # Null /\ (c # NILNODE => t.parent[c] = x)
             /\ \A y \in Under(t, c) : Sided(t, side, y, x)
  <2>1. /\ c \in B[t.root] \cup {NILNODE} /\ (c # NILNODE => t.parent[c] = x)
        /\ \A y \in B[c] : Sided(t, side, y, x)
    BY <1>3, ShapedSides
  <2>2. CASE c = NILNODE
    BY <1>1, <2>2, SentinelAlone, AddressAssumption
  <2>3. CASE c \in B[t.root]
    BY <1>1, <2>1, <2>3, ShapedIsUnder, AddressAssumption
  <2> QED
    BY <2>1, <2>2, <2>3
<1>4. \A x \in Under(t, t.root) : \A side \in {"left", "right"} :
       LET c == t[side][x]
       IN  /\ c # Null
           /\ c # NILNODE => t.parent[c] = x
           /\ \A y \in Under(t, c) :
                IF side = "left" THEN t.key[y] < t.key[x] ELSE t.key[y] > t.key[x]
  BY <1>1, <1>3 DEF Sided, Sides, Nodes
<1> QED
  BY <1>1, <1>2, <1>4 DEF SearchTree, Shaped

LEMMA SearchTreeIsShaped ==
  ASSUME NEW t, SearchTree(t), t.root # Null
  PROVE  Shaped(t, t.root, Below(t))
<1> DEFINE B == Below(t)
           U == Nodes(t)
<1>1. /\ t \in Tree /\ t.left[NILNODE] = Null /\ t.right[NILNODE] = Null /\ t.key[NILNODE] = 0
      /\ t.root # NILNODE /\ t.parent[t.root] = Null
  BY DEF SearchTree
<1>2. t.root \in Node /\ t.root \in Ptr /\ NILNODE \in Ptr
  BY <1>1 DEF Tree, Link, Ptr
<1>3. /\ B[t.root] = U /\ t.root \in U /\ U \subseteq Node /\ B[NILNODE] = {} /\ Whole(t, U)
  BY <1>1, <1>2, UnderFacts, SentinelAlone DEF Below, Nodes
<1>4. \A x \in U \cup {NILNODE} : B[x] = Under(t, x)
  BY <1>2, <1>3 DEF Below, Ptr
<1>5. ASSUME NEW x \in U, NEW side \in Sides
      PROVE  /\ B[x] \subseteq U /\ B[x] = {x} \cup B[t[side][x]] \cup B[t[Other(side)][x]]
             /\ Hangs(t, U, B, x, side)
  <2>1. t.left[x] \in U \cup {NILNODE} /\ t.right[x] \in U \cup {NILNODE}
    BY ChildrenOf
  <2>2. Under(t, x) = {x} \cup Under(t, t.left[x]) \cup Under(t, t.right[x])
    BY BelowSplits
  <2>3. B[x] = {x} \cup B[t.left[x]] \cup B[t.right[x]]
    <3> HIDE DEF B, U
    <3> QED
      BY <1>4, <2>1, <2>2
  <2>4. B[x] = {x} \cup B[t[side][x]] \cup B[t[Other(side)][x]]
    <3>1. CASE side = "left"
      BY <2>3, <3>1 DEF Other
    <3>2. CASE side = "right"
      BY <2>3, <3>2 DEF Other
    <3> QED
      BY <3>1, <3>2 DEF Sides
  <2>5. t[side][x] \in U \cup {NILNODE}
    BY <2>1 DEF Sides
  <2>6. B[x] \subseteq U
    <3>1. x \in Ptr /\ x \in Node
      BY <1>3 DEF Ptr
    <3>2. Under(t, x) \subseteq U
      BY <1>1, <1>3, <3>1, UnderFacts
    <3> QED
      BY <1>4, <3>2
  <2>7. /\ t[side][x] # NILNODE => t.parent[t[side][x]] = x
        /\ \A y \in Under(t, t[side][x]) : Sided(t, side, y, x)
    BY DEF SearchTree, Nodes, Sides, Sided
  <2>8. B[t[side][x]] = Under(t, t[side][x])
    BY <1>4, <2>5
  <2> HIDE DEF B, U
  <2> QED
    BY <2>4, <2>5, <2>6, <2>7, <2>8 DEF Hangs
<1> HIDE DEF B, U
<1> QED
  BY <1>1, <1>3, <1>5 DEF Shaped, B

-----------------------------------------------------------------------------
(* Black nodes on the way down.                                           *)

(* Of the nodes of a set one has no node of the set above it.                             *)
LEMMA ShapedHighest ==
  ASSUME NEW t, NEW root, NEW B, Shaped(t, root, B), NEW Bad, Bad \subseteq B[root], Bad # {}
  PROVE  \E x \in Bad : \A y \in Bad : Cardinality(B[y]) <= Cardinality(B[x])
<1> DEFINE m == [x \in B[root] |-> Cardinality(B[root]) - Cardinality(B[x])]
<1>1. root \in B[root]
  BY DEF Shaped
<1>2. Cardinality(B[root]) \in Nat /\ IsFiniteSet(B[root])
  BY <1>1, ShapedSides, SidesFacts
<1>3. ASSUME NEW x \in B[root]
      PROVE  Cardinality(B[x]) \in Nat /\ Cardinality(B[x]) <= Cardinality(B[root])
  <2>1. B[x] \subseteq B[root] /\ Cardinality(B[x]) \in Nat
    BY ShapedSides, SidesFacts
  <2> QED
    BY <1>2, <2>1, FS_Subset
<1>4. \A x \in Bad : m[x] \in Nat /\ m[x] = Cardinality(B[root]) - Cardinality(B[x])
  BY <1>2, <1>3
<1>5. PICK x \in Bad : \A y \in Bad : m[x] <= m[y]
  <2>1. \A x \in Bad : m[x] \in Nat
    BY <1>4
  <2> HIDE DEF m
  <2> QED
    BY <2>1, LeastBy
<1>6. ASSUME NEW y \in Bad
      PROVE  Cardinality(B[y]) <= Cardinality(B[x])
  <2>1. m[x] <= m[y] /\ x \in B[root] /\ y \in B[root]
    BY <1>5
  <2> HIDE DEF m
  <2> QED
    BY <1>2, <1>3, <1>4, <2>1
<1> QED
  BY <1>6

(* A node has one parent and is below it on one side.                                     *)
LEMMA ShapedParent ==
  ASSUME NEW t, NEW root, NEW B, Shaped(t, root, B), NEW x \in B[root], x # root
  PROVE  /\ t.parent[x] \in B[root] /\ t.parent[x] \in Node /\ t.parent[x] \in Ptr
         /\ t.parent[x] # Null /\ t.parent[x] # NILNODE
         /\ x \in B[t.parent[x]] /\ t.parent[x] \notin B[x] /\ t.parent[x] # x
         /\ Cardinality(B[x]) < Cardinality(B[t.parent[x]])
         /\ \E side \in Sides : x = t[side][t.parent[x]]
<1>1. root \in B[root] /\ B[root] \subseteq Node
  BY DEF Shaped
<1>2. t.parent[x] \in B[root] /\ \E side \in Sides : x = t[side][t.parent[x]]
  BY <1>1, ShapedBelow
<1>3. PICK side \in Sides : x = t[side][t.parent[x]]
  BY <1>2
<1>4. t.parent[x] \in Node /\ t.parent[x] # Null /\ t.parent[x] # NILNODE /\ x # NILNODE
  BY <1>1, <1>2, AddressAssumption
<1>5. /\ x \in B[x] /\ B[x] \subseteq B[t.parent[x]] /\ t.parent[x] \notin B[x]
      /\ Cardinality(B[x]) < Cardinality(B[t.parent[x]]) /\ t.parent[x] \in Ptr
  BY <1>2, <1>3, <1>4, ShapedSides
<1> QED
  BY <1>2, <1>4, <1>5

(* What is below the children of a node is apart.                                         *)
LEMMA ShapedApart ==
  ASSUME NEW t, NEW root, NEW B, Shaped(t, root, B), NEW x \in B[root], NEW side \in Sides
  PROVE  /\ \A y \in B[t[side][x]] : y \notin B[t[Other(side)][x]]
         /\ t[side][x] # NILNODE => t[side][x] # t[Other(side)][x]
<1>1. /\ t \in Tree /\ B[root] \subseteq Node /\ x \in Ptr
      /\ B[t[side][x]] \subseteq B[root] /\ B[t[Other(side)][x]] \subseteq B[root]
      /\ \A y \in B[t[side][x]] : Sided(t, side, y, x)
      /\ \A y \in B[t[Other(side)][x]] : Sided(t, Other(side), y, x)
  <2>1. t \in Tree /\ B[root] \subseteq Node
    BY DEF Shaped
  <2>2. Other(side) \in Sides
    BY SidesFacts
  <2>3. x \in Ptr /\ B[t[side][x]] \subseteq B[root] /\ \A y \in B[t[side][x]] : Sided(t, side, y, x)
    BY ShapedSides
  <2>4. /\ B[t[Other(side)][x]] \subseteq B[root]
        /\ \A y \in B[t[Other(side)][x]] : Sided(t, Other(side), y, x)
    BY <2>2, ShapedSides
  <2> QED
    BY <2>1, <2>3, <2>4
<1>2. t[side][x] # NILNODE => t[side][x] \in B[t[side][x]]
  BY ShapedSides
<1>3. ASSUME NEW y \in B[t[side][x]], y \in B[t[Other(side)][x]]
      PROVE  FALSE
  <2>1. y \in Ptr
    BY <1>1 DEF Ptr
  <2>2. Sided(t, side, y, x) /\ Sided(t, Other(side), y, x)
    BY <1>1, <1>3
  <2>3. Sided(t, side, x, y)
    BY <1>1, <2>1, <2>2, SidedFacts
  <2> QED
    BY <1>1, <2>1, <2>2, <2>3, SidedFacts
<1> QED
  BY <1>2, <1>3

-----------------------------------------------------------------------------
(* Colours.                                                                   *)

(* A counts the black nodes down from the root.                                           *)
Counted(t, root, U, A) ==
  \A y \in U : /\ A[y] \in Int
               /\ A[y] = (IF t.color[y] = "BLACK" THEN 1 ELSE 0)
                         + (IF y = root THEN 0 ELSE A[t.parent[y]])

Level(t, U, A, D) == \A y \in U : \A side \in Sides : t[side][y] = NILNODE => A[y] = D

(* No red node of S is below a red one.                                                   *)
Mild(t, root, S) == \A y \in S : y # root => t.color[y] = "BLACK" \/ t.color[t.parent[y]] = "BLACK"

LEMMA CountExists ==
  ASSUME NEW t, NEW root, NEW B, Shaped(t, root, B)
  PROVE  \E A : Counted(t, root, B[root], A)
<1> DEFINE U == B[root]
           Up(y) == {z \in U : y \in B[z] /\ t.color[z] = "BLACK"}
           A == [y \in U |-> Cardinality(Up(y))]
<1>1. root \in U /\ U \subseteq Node /\ IsFiniteSet(U) /\ t.parent[root] = Null /\ Null \notin U
  <2>1. root \in U /\ U \subseteq Node /\ t.parent[root] = Null
    BY DEF Shaped
  <2> QED
    BY <2>1, AddressAssumption, FS_Subset
<1>2. \A y \in U : IsFiniteSet(Up(y)) /\ Cardinality(Up(y)) \in Nat
  <2> SUFFICES ASSUME NEW y \in U
               PROVE  IsFiniteSet(Up(y)) /\ Cardinality(Up(y)) \in Nat
    OBVIOUS
  <2>1. Up(y) \subseteq U
    OBVIOUS
  <2> HIDE DEF Up
  <2> QED
    BY <1>1, <2>1, FS_Subset, FS_CardinalityType
<1>3. ASSUME NEW y \in U, NEW S, y \notin S, IsFiniteSet(S), Cardinality(S) \in Nat,
             Up(y) = IF t.color[y] = "BLACK" THEN S \cup {y} ELSE S
      PROVE  Cardinality(Up(y)) = (IF t.color[y] = "BLACK" THEN 1 ELSE 0) + Cardinality(S)
  <2>1. Cardinality(S \cup {y}) = Cardinality(S) + 1
    BY <1>3, FS_AddElement
  <2> HIDE DEF Up
  <2> QED
    BY <1>3, <2>1
<1>4. ASSUME NEW y \in U, y # root
      PROVE  Cardinality(Up(y)) = (IF t.color[y] = "BLACK" THEN 1 ELSE 0) + Cardinality(Up(t.parent[y]))
  <2> DEFINE p == t.parent[y]
  <2>1. p \in U /\ y \in B[p] /\ p \notin B[y] /\ y \in B[y]
    BY <1>4, ShapedParent, ShapedSides, SidesFacts
  <2>2. \A z \in U : p \in B[z] => B[p] \subseteq B[z]
    BY <2>1, ShapedBelow
  <2>3. \A z \in U : y \in B[z] /\ z # y => p \in B[z]
    BY ShapedBelow
  <2> HIDE DEF p
  <2>4. \A z \in U : y \in B[z] <=> z = y \/ p \in B[z]
    BY <2>1, <2>2, <2>3
  <2>5. y \notin Up(p)
    BY <2>1
  <2>6. Up(y) = IF t.color[y] = "BLACK" THEN Up(p) \cup {y} ELSE Up(p)
    BY <2>1, <2>4
  <2> HIDE DEF Up
  <2> QED
    BY <1>2, <1>3, <2>1, <2>5, <2>6 DEF p
<1>5. Cardinality(Up(root)) = (IF t.color[root] = "BLACK" THEN 1 ELSE 0)
  <2>1. \A z \in U : root \in B[z] /\ z # root => FALSE
    <3> SUFFICES ASSUME NEW z \in U, root \in B[z], z # root
                 PROVE  FALSE
      OBVIOUS
    <3>1. t.parent[root] \in B[z] /\ B[z] \subseteq U
      BY ShapedBelow, ShapedSides, SidesFacts
    <3> QED
      BY <1>1, <3>1
  <2>2. Up(root) = IF t.color[root] = "BLACK" THEN {} \cup {root} ELSE {}
    BY <1>1, <2>1
  <2> HIDE DEF Up, U
  <2> QED
    BY <1>1, <1>3, <2>2, FS_EmptySet
<1>6. \A y \in U : A[y] = Cardinality(Up(y))
  OBVIOUS
<1>7. \A y \in U : y # root => t.parent[y] \in U
  BY ShapedParent
<1> HIDE DEF A, Up
<1>8. Counted(t, root, U, A)
  BY <1>1, <1>2, <1>4, <1>5, <1>6, <1>7 DEF Counted
<1> QED
  BY <1>8

LEMMA CountIsOne ==
  ASSUME NEW t, NEW root, NEW B, Shaped(t, root, B), NEW A, Counted(t, root, B[root], A), NEW C,
         \A y \in B[root] : C[y] = (IF t.color[y] = "BLACK" THEN 1 ELSE 0)
                                   + (IF y = root THEN 0 ELSE C[t.parent[y]])
  PROVE  \A y \in B[root] : C[y] = A[y]
<1> DEFINE Bad == {y \in B[root] : C[y] # A[y]}
<1>1. SUFFICES ASSUME Bad # {}
               PROVE  FALSE
  OBVIOUS
<1>2. PICK x \in Bad : \A y \in Bad : Cardinality(B[y]) <= Cardinality(B[x])
  <2>1. Bad \subseteq B[root]
    OBVIOUS
  <2> HIDE DEF Bad
  <2> QED
    BY <1>1, <2>1, ShapedHighest
<1>3. x \in B[root] /\ C[x] # A[x]
  BY <1>2
<1>4. x # root
  BY <1>3 DEF Counted
<1>5. /\ t.parent[x] \in B[root] /\ Cardinality(B[x]) < Cardinality(B[t.parent[x]])
      /\ Cardinality(B[x]) \in Nat /\ Cardinality(B[t.parent[x]]) \in Nat
  BY <1>3, <1>4, ShapedParent, ShapedSides, SidesFacts
<1>6. C[t.parent[x]] = A[t.parent[x]]
  <2>1. t.parent[x] \in Bad => FALSE
    <3> HIDE DEF Bad
    <3> QED
      BY <1>2, <1>5
  <2> QED
    BY <1>5, <2>1
<1> QED
  BY <1>3, <1>4, <1>6 DEF Counted

(* The rules, of a tree that has nodes, by way of any count.                               *)
LEMMA RedBlackIs ==
  ASSUME NEW t, NEW B, Shaped(t, t.root, B), NEW A, Counted(t, t.root, B[t.root], A)
  PROVE  RedBlack(t) <=> /\ t.color[t.root] = "BLACK" /\ t.color[NILNODE] = "BLACK"
                         /\ Mild(t, t.root, B[t.root]) /\ \E D : Level(t, B[t.root], A, D)
<1> DEFINE U == B[t.root]
           T == Under(t, t.root)
           Turns(f) == f = [x \in T |-> (IF is_black(t, x) THEN 1 ELSE 0)
                                        + (IF x = t.root THEN 0 ELSE f[t.parent[x]])]
           blacks == CHOOSE f : Turns(f)
           ends == {x \in T : IS_NULL(t.left[x]) \/ IS_NULL(t.right[x])}
<1>1. T = U /\ t.root \in U /\ U \subseteq Node
  <2>1. t.root \in U /\ U \subseteq Node
    BY DEF Shaped
  <2> QED
    BY <2>1, ShapedIsUnder
<1>2. RedBlack(t) <=> /\ is_black(t, t.root) /\ t.color[NILNODE] = "BLACK"
                      /\ \A x \in T \ {t.root} : is_black(t, x) \/ is_black(t, t.parent[x])
                      /\ \A x, y \in ends : blacks[x] = blacks[y]
  BY DEF RedBlack
<1>3. \A x \in U : is_black(t, x) <=> t.color[x] = "BLACK"
  BY <1>1, AddressAssumption DEF is_black, IS_NULL
<1>4. \A x \in U : x # t.root => t.parent[x] \in U
  BY ShapedParent
<1>5. Turns([x \in T |-> A[x]])
  <2> DEFINE f == [x \in T |-> A[x]]
             g == [x \in T |-> (IF is_black(t, x) THEN 1 ELSE 0)
                                + (IF x = t.root THEN 0 ELSE f[t.parent[x]])]
  <2>1. \A x \in T : f[x] = A[x]
    OBVIOUS
  <2> HIDE DEF f
  <2>2. \A x \in T : g[x] = A[x]
    BY <1>1, <1>3, <1>4, <2>1 DEF Counted
  <2>3. f = [x \in T |-> g[x]]
    <3> HIDE DEF g
    <3> QED
      BY <2>2 DEF f
  <2>4. g = [x \in T |-> g[x]]
    OBVIOUS
  <2>5. f = g
    <3> HIDE DEF g
    <3> QED
      BY <2>3, <2>4
  <2> QED
    BY <2>5 DEF f
<1>6. Turns(blacks)
  <2> HIDE DEF Turns
  <2> QED
    BY <1>5
<1> HIDE DEF blacks
<1>7. \A y \in U : blacks[y] = (IF t.color[y] = "BLACK" THEN 1 ELSE 0)
                               + (IF y = t.root THEN 0 ELSE blacks[t.parent[y]])
  <2> HIDE DEF T
  <2> QED
    BY <1>1, <1>3, <1>6
<1> HIDE DEF Turns, T
<1>8. \A y \in U : blacks[y] = A[y]
  BY <1>7, CountIsOne
<1>9. \A x \in U : x \in ends <=> \E side \in Sides : t[side][x] = NILNODE
  <2>1. \A x \in U : \A side \in Sides : t[side][x] \in U \cup {NILNODE}
    BY ShapedSides
  <2>2. \A x \in U : \A side \in Sides : IS_NULL(t[side][x]) <=> t[side][x] = NILNODE
    BY <1>1, <2>1, AddressAssumption DEF IS_NULL
  <2> QED
    BY <1>1, <2>2 DEF Sides
<1>10. ends \subseteq U
  BY <1>1
<1> HIDE DEF ends
<1>11. (\A x, y \in ends : blacks[x] = blacks[y]) <=> \E D : Level(t, U, A, D)
  <2>1. ASSUME NEW D, Level(t, U, A, D)
        PROVE  \A x, y \in ends : blacks[x] = blacks[y]
    BY <1>8, <1>9, <1>10, <2>1 DEF Level
  <2>2. ASSUME \A x, y \in ends : blacks[x] = blacks[y]
        PROVE  \E D : Level(t, U, A, D)
    <3>1. CASE ends = {}
      BY <1>9, <3>1 DEF Level
    <3>2. CASE ends # {}
      <4>1. PICK z \in ends : TRUE
        BY <3>2
      <4>2. Level(t, U, A, A[z])
        BY <1>8, <1>9, <1>10, <2>2 DEF Level
      <4> QED
        BY <4>2
    <3> QED
      BY <3>1, <3>2
  <2> QED
    BY <2>1, <2>2
<1>12. (\A x \in T \ {t.root} : is_black(t, x) \/ is_black(t, t.parent[x])) <=> Mild(t, t.root, U)
  BY <1>1, <1>3, <1>4 DEF Mild
<1> QED
  BY <1>1, <1>2, <1>3, <1>11, <1>12

-----------------------------------------------------------------------------
(* What a rotation writes.                                                *)

(* The pointers after a rotation: c, on the other side of x, has come up over x, and b has  *)
(* gone from below c to below x.                                                     *)
Turned(t, r, x, side, c, b, p) ==
  LET o == Other(side)
  IN  /\ r \in Tree /\ r.key = t.key
      /\ \A y \in Ptr :
           /\ r[o][y] = IF y = x THEN b ELSE IF p # Null /\ y = p /\ t[side][p] # x THEN c ELSE t[o][y]
           /\ r[side][y] = IF y = c THEN x ELSE IF p # Null /\ y = p /\ t[side][p] = x THEN c ELSE t[side][y]
           /\ r.parent[y] = IF y = x THEN c ELSE IF y = c THEN p
                            ELSE IF y = b /\ b # NILNODE THEN x ELSE t.parent[y]

LEMMA RotateFields ==
  ASSUME NEW t \in Tree, NEW x \in Node, NEW side \in Sides,
         NEW c \in Node, c = t[Other(side)][x], NEW b \in Ptr, b = t[side][c],
         NEW p \in Node \cup {Null}, p = t.parent[x],
         x # c, x # p, c # p, b # x, b # c
  PROVE  /\ Turned(t, Rotate(t, x, side), x, side, c, b, p)
         /\ Rotate(t, x, side).color = t.color /\ Rotate(t, x, side).root = t.root
<1>0. /\ t.parent \in [Ptr -> Link] /\ t.left \in [Ptr -> Link] /\ t.right \in [Ptr -> Link]
      /\ t.key \in [Ptr -> Int] /\ t.color \in [Ptr -> {"RED", "BLACK"}] /\ t.root \in Link
      /\ t = [root |-> t.root, parent |-> t.parent, left |-> t.left, right |-> t.right,
              key |-> t.key, color |-> t.color]
  BY DEF Tree
<1>1. /\ x \in Ptr /\ c \in Ptr /\ b \in Ptr /\ x \in Link /\ c \in Link /\ b \in Link /\ p \in Link
      /\ p # Null => p \in Ptr
      /\ ~ IS_NULL(c) /\ x # NILNODE /\ c # NILNODE /\ p # NILNODE /\ b # Null
      /\ IS_NULL(b) <=> b = NILNODE
  BY AddressAssumption DEF Ptr, Link, IS_NULL
<1>2. CASE side = "left"
  <2> DEFINE par == IF b = NILNODE THEN t.parent ELSE [t.parent EXCEPT ![b] = x]
             right1 == [t.right EXCEPT ![x] = b]
             left2 == IF p # Null /\ t.left[p] = x THEN [t.left EXCEPT ![p] = c] ELSE t.left
             right2 == IF p # Null /\ t.left[p] # x THEN [right1 EXCEPT ![p] = c] ELSE right1
             r == [root |-> t.root, parent |-> [[par EXCEPT ![c] = p] EXCEPT ![x] = c],
                   left |-> [left2 EXCEPT ![c] = x], right |-> right2,
                   key |-> t.key, color |-> t.color]
             t1 == SetReal([t EXCEPT !["right"][x] = b], "parent", b, x)
             t2 == Hang(SetReal(t1, "parent", c, p), p, "left", x, c)
  <2>1. t1 = [root |-> t.root, parent |-> par, left |-> t.left, right |-> right1,
              key |-> t.key, color |-> t.color]
    BY <1>0, <1>1 DEF SetReal
  <2>2. SetReal(t1, "parent", c, p) =
          [root |-> t.root, parent |-> [par EXCEPT ![c] = p], left |-> t.left, right |-> right1,
           key |-> t.key, color |-> t.color]
    <3> HIDE DEF t1, par, right1
    <3> QED
      BY <1>1, <2>1 DEF SetReal
  <2>3. t2 = [root |-> t.root, parent |-> [par EXCEPT ![c] = p], left |-> left2, right |-> right2,
              key |-> t.key, color |-> t.color]
    <3> DEFINE u == SetReal(t1, "parent", c, p)
    <3>1. t2 = IF p = Null THEN u
               ELSE [u EXCEPT ![IF u["left"][p] = x THEN "left" ELSE "right"][p] = c]
      BY DEF Hang, Other
    <3> HIDE DEF t1, t2, u, par, right1
    <3>2. CASE p = Null
      BY <2>2, <3>1, <3>2 DEF u
    <3>3. CASE p # Null /\ t.left[p] = x
      <4>1. u["left"][p] = x
        BY <2>2, <3>3 DEF u
      <4>2. t2 = [u EXCEPT !["left"][p] = c]
        BY <3>1, <3>3, <4>1
      <4> QED
        BY <2>2, <3>3, <4>2 DEF u
    <3>4. CASE p # Null /\ t.left[p] # x
      <4>1. u["left"][p] # x
        BY <2>2, <3>4 DEF u
      <4>2. t2 = [u EXCEPT !["right"][p] = c]
        BY <3>1, <3>4, <4>1
      <4> QED
        BY <2>2, <3>4, <4>2 DEF u
    <3> QED
      BY <3>2, <3>3, <3>4
  <2>4. Rotate(t, x, side) = [SetReal(t2, "left", c, x) EXCEPT !.parent[x] = c]
    BY <1>2 DEF Rotate, Other
  <2>5. Rotate(t, x, side) = r
    <3> HIDE DEF t1, t2, par, right1, left2, right2
    <3> QED
      BY <1>1, <2>3, <2>4 DEF SetReal
  <2>6. par \in [Ptr -> Link] /\ right1 \in [Ptr -> Link]
    BY <1>0, <1>1
  <2>7. left2 \in [Ptr -> Link] /\ right2 \in [Ptr -> Link]
    <3> HIDE DEF right1
    <3> QED
      BY <1>0, <1>1, <2>6
  <2>8. r \in Tree
    <3> HIDE DEF par, right1, left2, right2
    <3> QED
      BY <1>0, <1>1, <2>6, <2>7 DEF Tree
  <2>9. ASSUME NEW y \in Ptr
        PROVE  /\ right2[y] = IF y = x THEN b ELSE IF p # Null /\ y = p /\ t.left[p] # x THEN c ELSE t.right[y]
               /\ r.left[y] = IF y = c THEN x ELSE IF p # Null /\ y = p /\ t.left[p] = x THEN c ELSE t.left[y]
               /\ r.parent[y] = IF y = x THEN c ELSE IF y = c THEN p
                                ELSE IF y = b /\ b # NILNODE THEN x ELSE t.parent[y]
    <3>1. right1[y] = IF y = x THEN b ELSE t.right[y]
      BY <1>0, <1>1
    <3>2. right2[y] = IF y = x THEN b ELSE IF p # Null /\ y = p /\ t.left[p] # x THEN c ELSE t.right[y]
      <4> HIDE DEF right1
      <4> QED
        BY <1>1, <2>6, <3>1
    <3>3. left2[y] = IF p # Null /\ y = p /\ t.left[p] = x THEN c ELSE t.left[y]
      BY <1>0, <1>1
    <3>4. r.left[y] = IF y = c THEN x ELSE left2[y]
      <4> HIDE DEF left2, right2, par
      <4> QED
        BY <1>1, <2>7
    <3>5. par[y] = IF y = b /\ b # NILNODE THEN x ELSE t.parent[y]
      BY <1>0, <1>1
    <3>6. r.parent[y] = IF y = x THEN c ELSE IF y = c THEN p ELSE par[y]
      <4> HIDE DEF left2, right2, par
      <4> QED
        BY <1>1, <2>6
    <3> HIDE DEF r, left2, right2, par
    <3> QED
      BY <1>1, <3>2, <3>3, <3>4, <3>5, <3>6
  <2>10. Other(side) = "right" /\ r.right = right2 /\ r.key = t.key /\ r.color = t.color /\ r.root = t.root
    BY <1>2 DEF Other
  <2> HIDE DEF r, right2
  <2> QED
    BY <1>2, <2>5, <2>8, <2>9, <2>10 DEF Turned
<1>3. CASE side = "right"
  <2> DEFINE par == IF b = NILNODE THEN t.parent ELSE [t.parent EXCEPT ![b] = x]
             left1 == [t.left EXCEPT ![x] = b]
             right2 == IF p # Null /\ t.right[p] = x THEN [t.right EXCEPT ![p] = c] ELSE t.right
             left2 == IF p # Null /\ t.right[p] # x THEN [left1 EXCEPT ![p] = c] ELSE left1
             r == [root |-> t.root, parent |-> [[par EXCEPT ![c] = p] EXCEPT ![x] = c],
                   left |-> left2, right |-> [right2 EXCEPT ![c] = x],
                   key |-> t.key, color |-> t.color]
             t1 == SetReal([t EXCEPT !["left"][x] = b], "parent", b, x)
             t2 == Hang(SetReal(t1, "parent", c, p), p, "right", x, c)
  <2>1. t1 = [root |-> t.root, parent |-> par, left |-> left1, right |-> t.right,
              key |-> t.key, color |-> t.color]
    BY <1>0, <1>1 DEF SetReal
  <2>2. SetReal(t1, "parent", c, p) =
          [root |-> t.root, parent |-> [par EXCEPT ![c] = p], left |-> left1, right |-> t.right,
           key |-> t.key, color |-> t.color]
    <3> HIDE DEF t1, par, left1
    <3> QED
      BY <1>1, <2>1 DEF SetReal
  <2>3. t2 = [root |-> t.root, parent |-> [par EXCEPT ![c] = p], left |-> left2, right |-> right2,
              key |-> t.key, color |-> t.color]
    <3> DEFINE u == SetReal(t1, "parent", c, p)
    <3>1. t2 = IF p = Null THEN u
               ELSE [u EXCEPT ![IF u["right"][p] = x THEN "right" ELSE "left"][p] = c]
      BY DEF Hang, Other
    <3> HIDE DEF t1, t2, u, par, left1
    <3>2. CASE p = Null
      BY <2>2, <3>1, <3>2 DEF u
    <3>3. CASE p # Null /\ t.right[p] = x
      <4>1. u["right"][p] = x
        BY <2>2, <3>3 DEF u
      <4>2. t2 = [u EXCEPT !["right"][p] = c]
        BY <3>1, <3>3, <4>1
      <4> QED
        BY <2>2, <3>3, <4>2 DEF u
    <3>4. CASE p # Null /\ t.right[p] # x
      <4>1. u["right"][p] # x
        BY <2>2, <3>4 DEF u
      <4>2. t2 = [u EXCEPT !["left"][p] = c]
        BY <3>1, <3>4, <4>1
      <4> QED
        BY <2>2, <3>4, <4>2 DEF u
    <3> QED
      BY <3>2, <3>3, <3>4
  <2>4. Rotate(t, x, side) = [SetReal(t2, "right", c, x) EXCEPT !.parent[x] = c]
    BY <1>3 DEF Rotate, Other
  <2>5. Rotate(t, x, side) = r
    <3> HIDE DEF t1, t2, par, left1, left2, right2
    <3> QED
      BY <1>1, <2>3, <2>4 DEF SetReal
  <2>6. par \in [Ptr -> Link] /\ left1 \in [Ptr -> Link]
    BY <1>0, <1>1
  <2>7. left2 \in [Ptr -> Link] /\ right2 \in [Ptr -> Link]
    <3> HIDE DEF left1
    <3> QED
      BY <1>0, <1>1, <2>6
  <2>8. r \in Tree
    <3> HIDE DEF par, left1, left2, right2
    <3> QED
      BY <1>0, <1>1, <2>6, <2>7 DEF Tree
  <2>9. ASSUME NEW y \in Ptr
        PROVE  /\ left2[y] = IF y = x THEN b ELSE IF p # Null /\ y = p /\ t.right[p] # x THEN c ELSE t.left[y]
               /\ r.right[y] = IF y = c THEN x ELSE IF p # Null /\ y = p /\ t.right[p] = x THEN c ELSE t.right[y]
               /\ r.parent[y] = IF y = x THEN c ELSE IF y = c THEN p
                                ELSE IF y = b /\ b # NILNODE THEN x ELSE t.parent[y]
    <3>1. left1[y] = IF y = x THEN b ELSE t.left[y]
      BY <1>0, <1>1
    <3>2. left2[y] = IF y = x THEN b ELSE IF p # Null /\ y = p /\ t.right[p] # x THEN c ELSE t.left[y]
      <4> HIDE DEF left1
      <4> QED
        BY <1>1, <2>6, <3>1
    <3>3. right2[y] = IF p # Null /\ y = p /\ t.right[p] = x THEN c ELSE t.right[y]
      BY <1>0, <1>1
    <3>4. r.right[y] = IF y = c THEN x ELSE right2[y]
      <4> HIDE DEF left2, right2, par
      <4> QED
        BY <1>1, <2>7
    <3>5. par[y] = IF y = b /\ b # NILNODE THEN x ELSE t.parent[y]
      BY <1>0, <1>1
    <3>6. r.parent[y] = IF y = x THEN c ELSE IF y = c THEN p ELSE par[y]
      <4> HIDE DEF left2, right2, par
      <4> QED
        BY <1>1, <2>6
    <3> HIDE DEF r, left2, right2, par
    <3> QED
      BY <1>1, <3>2, <3>3, <3>4, <3>5, <3>6
  <2>10. Other(side) = "left" /\ r.left = left2 /\ r.key = t.key /\ r.color = t.color /\ r.root = t.root
    BY <1>3 DEF Other
  <2> HIDE DEF r, left2
  <2> QED
    BY <1>3, <2>5, <2>8, <2>9, <2>10 DEF Turned
<1> QED
  BY <1>2, <1>3 DEF Sides

-----------------------------------------------------------------------------
(* A rotation keeps the order.                                            *)

SameShape(t, r) ==
  /\ r \in Tree /\ r.parent = t.parent /\ r.left = t.left /\ r.right = t.right /\ r.key = t.key

LEMMA SameShapeFacts ==
  ASSUME NEW t, NEW root, NEW B, Shaped(t, root, B), NEW r, SameShape(t, r)
  PROVE  Shaped(r, root, B) /\ \A side \in Sides : r[side] = t[side]
<1>1. \A side \in Sides : r[side] = t[side]
  BY DEF SameShape, Sides
<1>2. /\ r.left = t.left /\ r.right = t.right /\ r.parent = t.parent /\ r.key = t.key /\ r \in Tree
  BY DEF SameShape
<1>3. ASSUME NEW x \in B[root], NEW side \in Sides
      PROVE  /\ B[x] \subseteq B[root] /\ B[x] = {x} \cup B[r[side][x]] \cup B[r[Other(side)][x]]
             /\ Hangs(r, B[root], B, x, side)
  <2>1. /\ B[x] \subseteq B[root] /\ B[x] = {x} \cup B[t[side][x]] \cup B[t[Other(side)][x]]
        /\ Hangs(t, B[root], B, x, side)
    BY DEF Shaped
  <2>2. r[side] = t[side] /\ r[Other(side)] = t[Other(side)]
    BY <1>1, SidesFacts
  <2> QED
    BY <1>2, <2>1, <2>2 DEF Hangs, Sided
<1>4. /\ t.left[NILNODE] = Null /\ t.right[NILNODE] = Null /\ t.key[NILNODE] = 0
      /\ B[root] \subseteq Node /\ root \in B[root] /\ t.parent[root] = Null /\ B[NILNODE] = {}
  BY DEF Shaped
<1> QED
  BY <1>1, <1>2, <1>3, <1>4 DEF Shaped

(* Where a rotation of x to a side is made: c is to come up, b to change its parent.         *)
Pivot(t, U, x, side, c, b, p) ==
  /\ x \in U /\ side \in Sides /\ c = t[Other(side)][x] /\ c # NILNODE /\ b = t[side][c] /\ p = t.parent[x]

TurnedBelow(t, B, x, side, c, b) ==
  [y \in Ptr |-> IF y = x THEN {x} \cup B[t[side][x]] \cup B[b] ELSE IF y = c THEN B[x] ELSE B[y]]

TurnedRoot(root, x, c) == IF x = root THEN c ELSE root

PivotHas(t, root, B, x, side, c, b, p) ==
  /\ side \in Sides /\ Other(side) \in Sides /\ Other(Other(side)) = side
  /\ x \in B[root] /\ x \in Node /\ c \in Node /\ c \in B[root] /\ b \in B[root] \cup {NILNODE} /\ b \in Ptr
  /\ t.parent[c] = x /\ (b # NILNODE => t.parent[b] = c)
  /\ (p = Null <=> x = root)
  /\ (p # Null => p \in B[root] /\ p \in Node /\ x \in B[p] /\ p \notin B[x])
  /\ p \in Node \cup {Null}
  /\ x # c /\ x # p /\ c # p /\ b # x /\ b # c /\ b # p /\ c # root
  /\ B[c] \subseteq B[x] /\ c \in B[c] /\ x \notin B[c] /\ B[b] \subseteq B[c] /\ c \notin B[b]

LEMMA PivotFacts ==
  ASSUME NEW t, NEW root, NEW B, Shaped(t, root, B), NEW x, NEW side, NEW c, NEW b, NEW p,
         Pivot(t, B[root], x, side, c, b, p)
  PROVE  PivotHas(t, root, B, x, side, c, b, p)
<1>1. /\ side \in Sides /\ Other(side) \in Sides /\ Other(Other(side)) = side /\ x \in B[root]
      /\ c = t[Other(side)][x] /\ c # NILNODE /\ b = t[side][c] /\ p = t.parent[x]
  BY SidesFacts DEF Pivot
<1>2. B[root] \subseteq Node /\ root \in B[root] /\ t.parent[root] = Null /\ Null \notin Node /\ NILNODE \notin Node
  BY AddressAssumption DEF Shaped
<1>3. /\ c \in B[root] /\ c \in B[c] /\ t.parent[c] = x /\ B[c] \subseteq B[x] /\ x \notin B[c] /\ x \in B[x]
  BY <1>1, ShapedSides
<1>4. /\ b \in B[root] \cup {NILNODE} /\ (b # NILNODE => b \in B[b] /\ t.parent[b] = c)
      /\ B[b] \subseteq B[c] /\ c \notin B[b] /\ b \in Ptr
  BY <1>1, <1>3, ShapedSides
<1>5. x # root => /\ p \in B[root] /\ p \in Node /\ x \in B[p] /\ p \notin B[x] /\ p # NILNODE
                  /\ \E s \in Sides : x = t[s][p]
  BY <1>1, ShapedParent
<1>6. x = root <=> p = Null
  BY <1>1, <1>2, <1>5
<1>7. c # root /\ b # x /\ b # c
  <2>1. c # root
    BY <1>1, <1>2, <1>3
  <2>2. b # NILNODE => b \in B[b] /\ x \notin B[b] /\ c \notin B[b]
    BY <1>3, <1>4
  <2> QED
    BY <1>1, <1>2, <1>3, <2>1, <2>2
<1>8. p # c /\ p # x /\ p # b /\ x # c
  <2>1. x # c
    BY <1>3
  <2>2. CASE x = root
    BY <1>2, <1>3, <1>4, <1>6, <2>1, <2>2, AddressAssumption DEF Ptr
  <2>3. CASE x # root
    <3>1. p \notin B[x] /\ p # NILNODE
      BY <1>5, <2>3
    <3>2. b # NILNODE => b \in B[x]
      BY <1>3, <1>4
    <3> QED
      BY <1>3, <2>1, <3>1, <3>2
  <2> QED
    BY <2>2, <2>3
<1> QED
  BY <1>1, <1>2, <1>3, <1>4, <1>5, <1>6, <1>7, <1>8 DEF PivotHas

LEMMA PivotAbove ==
  ASSUME NEW t, NEW root, NEW B, Shaped(t, root, B), NEW x, NEW side, NEW c, NEW b, NEW p,
         Pivot(t, B[root], x, side, c, b, p), p # Null
  PROVE  x = t[side][p] \/ x = t[Other(side)][p]
<1>1. x \in B[root] /\ p = t.parent[x] /\ side \in Sides
  BY DEF Pivot
<1>2. x # root
  BY <1>1 DEF Shaped
<1>3. PICK s \in Sides : x = t[s][p]
  BY <1>1, <1>2, ShapedParent
<1> QED
  BY <1>1, <1>3, SidesFacts

LEMMA TurnedIsShaped ==
  ASSUME NEW t, NEW root, NEW B, Shaped(t, root, B), NEW x, NEW side, NEW c, NEW b, NEW p,
         Pivot(t, B[root], x, side, c, b, p), NEW r, Turned(t, r, x, side, c, b, p)
  PROVE  /\ Shaped(r, TurnedRoot(root, x, c), TurnedBelow(t, B, x, side, c, b))
         /\ TurnedBelow(t, B, x, side, c, b)[TurnedRoot(root, x, c)] = B[root]
<1> DEFINE U == B[root]
           o == Other(side)
           a == t[side][x]
           d == t[o][c]
           E == TurnedBelow(t, B, x, side, c, b)
           top == TurnedRoot(root, x, c)
<1>1. /\ side \in Sides /\ o \in Sides /\ Other(o) = side
      /\ x \in U /\ x \in Node /\ c \in Node /\ c \in U /\ b \in U \cup {NILNODE} /\ b \in Ptr
      /\ t.parent[c] = x /\ (b # NILNODE => t.parent[b] = c)
      /\ (p = Null <=> x = root)
      /\ (p # Null => /\ p \in U /\ p \in Node /\ x \in B[p] /\ p \notin B[x])
      /\ x # c /\ x # p /\ c # p /\ b # x /\ b # c /\ b # p /\ c # root
      /\ B[c] \subseteq B[x] /\ c \in B[c] /\ x \notin B[c] /\ B[b] \subseteq B[c] /\ c \notin B[b]
  <2>1. PivotHas(t, root, B, x, side, c, b, p)
    BY PivotFacts
  <2> QED
    BY <2>1 DEF PivotHas
<1>2. c = t[o][x] /\ c # NILNODE /\ b = t[side][c] /\ p = t.parent[x]
  BY DEF Pivot
<1>3. /\ t \in Tree /\ t.left[NILNODE] = Null /\ t.right[NILNODE] = Null /\ t.key[NILNODE] = 0
      /\ U \subseteq Node /\ root \in U /\ t.parent[root] = Null /\ B[NILNODE] = {}
      /\ NILNODE \notin Node /\ NILNODE \in Ptr /\ Null \notin Node /\ U \subseteq Ptr
  BY AddressAssumption DEF Shaped, Ptr
<1>4. /\ a \in U \cup {NILNODE} /\ (a # NILNODE => t.parent[a] = x /\ a \in B[a]) /\ B[a] \subseteq U
      /\ d \in U \cup {NILNODE} /\ (d # NILNODE => t.parent[d] = c /\ d \in B[d]) /\ B[d] \subseteq U
      /\ x \notin B[a] /\ c \notin B[d]
      /\ \A y \in B[a] : Sided(t, side, y, x)
      /\ \A y \in B[d] : Sided(t, o, y, c)
      /\ \A y \in B[c] : Sided(t, o, y, x)
      /\ \A y \in B[b] : Sided(t, side, y, c)
  BY <1>1, <1>2, ShapedSides
<1>5. /\ B[x] = {x} \cup B[a] \cup B[c] /\ B[c] = {c} \cup B[b] \cup B[d]
      /\ B[x] \subseteq U
  BY <1>1, <1>2 DEF Shaped
<1>6. \A y \in B[c] : y \notin B[a]
  BY <1>1, <1>2, ShapedApart
<1>7. /\ r \in Tree /\ r.key = t.key
      /\ \A y \in Ptr :
           /\ r[o][y] = IF y = x THEN b ELSE IF p # Null /\ y = p /\ t[side][p] # x THEN c ELSE t[o][y]
           /\ r[side][y] = IF y = c THEN x ELSE IF p # Null /\ y = p /\ t[side][p] = x THEN c ELSE t[side][y]
           /\ r.parent[y] = IF y = x THEN c ELSE IF y = c THEN p
                            ELSE IF y = b /\ b # NILNODE THEN x ELSE t.parent[y]
  BY DEF Turned
<1>8. \A y \in Ptr : E[y] = IF y = x THEN {x} \cup B[a] \cup B[b] ELSE IF y = c THEN B[x] ELSE B[y]
  BY DEF TurnedBelow
<1>9. \A s \in Sides, y, z \in Ptr : Sided(r, s, y, z) <=> Sided(t, s, y, z)
  BY <1>7 DEF Sided
<1>10. a # x /\ a # c /\ d # x /\ d # c /\ b # x /\ b # c
  BY <1>1, <1>2, <1>3, <1>4, <1>6
<1> HIDE DEF E, a, d, o
<1>11. E[NILNODE] = {} /\ E[a] = B[a] /\ E[b] = B[b] /\ E[d] = B[d] /\ E[x] = {x} \cup B[a] \cup B[b] /\ E[c] = B[x]
  BY <1>1, <1>3, <1>4, <1>8, <1>10
<1>12. top \in U /\ E[top] = U /\ r.parent[top] = Null
  <2>1. CASE x = root
    BY <1>1, <1>3, <1>7, <1>11, <2>1 DEF TurnedRoot
  <2>2. CASE x # root
    <3>1. top = root /\ root # x /\ root # c
      BY <1>1, <2>2 DEF TurnedRoot
    <3>2. root # b
      BY <1>1, <1>3, <1>4
    <3> HIDE DEF top
    <3> QED
      BY <1>3, <1>7, <1>8, <3>1, <3>2
  <2> QED
    BY <2>1, <2>2
<1> HIDE DEF top
<1>13. r.left[NILNODE] = Null /\ r.right[NILNODE] = Null
  <2>1. \A s \in Sides : t[s][NILNODE] = Null
    BY <1>3 DEF Sides
  <2>2. NILNODE # x /\ NILNODE # c /\ NILNODE # p
    BY <1>1, <1>3, AddressAssumption
  <2>3. r[side][NILNODE] = Null /\ r[o][NILNODE] = Null
    BY <1>1, <1>3, <1>7, <2>1, <2>2
  <2> QED
    BY <1>1, <2>3 DEF Sides, o, Other
(* What a node must have of its children in the new tree.                                 *)
<1> DEFINE Fine(y) == /\ E[y] \subseteq U /\ E[y] = {y} \cup E[r[side][y]] \cup E[r[o][y]]
                      /\ Hangs(r, U, E, y, side) /\ Hangs(r, U, E, y, o)
<1>14. Fine(x)
  <2>1. r[side][x] = a /\ r[o][x] = b
    BY <1>1, <1>7, <1>3 DEF a
  <2>2. Hangs(r, U, E, x, side)
    <3>1. a # NILNODE => r.parent[a] = x
      BY <1>1, <1>2, <1>3, <1>4, <1>6, <1>7, <1>10
    <3>2. \A y \in B[a] : Sided(r, side, y, x)
      BY <1>1, <1>3, <1>4, <1>9
    <3> QED
      BY <1>4, <1>11, <2>1, <3>1, <3>2 DEF Hangs
  <2>3. Hangs(r, U, E, x, o)
    <3>1. b # NILNODE => r.parent[b] = x
      BY <1>1, <1>3, <1>7
    <3>2. \A y \in B[b] : Sided(r, o, y, x)
      BY <1>1, <1>3, <1>4, <1>5, <1>9
    <3> QED
      BY <1>1, <1>11, <2>1, <3>1, <3>2 DEF Hangs
  <2> QED
    BY <1>1, <1>5, <1>11, <2>1, <2>2, <2>3
<1>15. Fine(c)
  <2>1. r[side][c] = x /\ r[o][c] = d
    BY <1>1, <1>7, <1>3 DEF d
  <2>2. Hangs(r, U, E, c, side)
    <3>1. r.parent[x] = c
      BY <1>1, <1>3, <1>7
    <3>2. Sided(t, side, x, c)
      <4>1. Sided(t, o, c, x)
        BY <1>1, <1>4
      <4> QED
        BY <1>1, <1>3, <4>1, SidedFacts DEF o
    <3>3. \A y \in E[x] : Sided(r, side, y, c)
      <4> SUFFICES ASSUME NEW y \in E[x]
                   PROVE  Sided(r, side, y, c)
        OBVIOUS
      <4>1. y \in Ptr /\ x \in Ptr /\ c \in Ptr
        BY <1>1, <1>3, <1>4, <1>5, <1>11
      <4>2. CASE y \in B[a]
        <5>1. Sided(t, side, y, x)
          BY <1>4, <4>2
        <5>2. Sided(t, side, y, c)
          BY <1>1, <1>3, <3>2, <4>1, <5>1, SidedFacts
        <5> QED
          BY <1>1, <1>9, <4>1, <5>2
      <4>3. CASE y \in B[b] \cup {x}
        BY <1>1, <1>4, <1>9, <3>2, <4>1, <4>3
      <4> QED
        BY <1>11, <4>2, <4>3
    <3> QED
      BY <1>1, <2>1, <3>1, <3>3 DEF Hangs
  <2>3. Hangs(r, U, E, c, o)
    <3>1. d # NILNODE => r.parent[d] = c
      BY <1>1, <1>2, <1>3, <1>4, <1>5, <1>6, <1>7, <1>10, ShapedApart DEF d, o
    <3>2. \A y \in B[d] : Sided(r, o, y, c)
      BY <1>1, <1>3, <1>4, <1>9
    <3> QED
      BY <1>4, <1>11, <2>1, <3>1, <3>2 DEF Hangs
  <2>4. E[c] = {c} \cup E[x] \cup E[d]
    BY <1>5, <1>11
  <2> QED
    BY <1>5, <1>11, <2>1, <2>2, <2>3, <2>4
<1>16. ASSUME NEW y \in U, y # x, y # c
       PROVE  Fine(y)
  <2>0. y \in Ptr /\ E[y] = B[y] /\ B[y] \subseteq U
    BY <1>1, <1>3, <1>8, <1>16, ShapedSides
  <2>1. ASSUME NEW s \in Sides, s = side \/ s = o
        PROVE  /\ Hangs(r, U, E, y, s) /\ E[r[s][y]] = B[t[s][y]]
    <3> DEFINE e == t[s][y]
    <3>1. /\ e \in U \cup {NILNODE} /\ (e # NILNODE => t.parent[e] = y)
          /\ \A z \in B[e] : Sided(t, s, z, y)
          /\ B[e] \subseteq U /\ e \in Ptr
      BY ShapedSides
    <3>2. CASE e = x
      <4>1. p = y /\ p # Null
        BY <1>1, <1>2, <1>3, <3>1, <3>2
      <4>2. r[s][y] = c
        <5>1. CASE s = side
          BY <1>7, <1>16, <2>0, <3>2, <4>1, <5>1
        <5>2. CASE s = o
          <6>1. t[side][p] # x
            <7>1. t[o][p] # NILNODE => t[o][p] # t[Other(o)][p]
              BY <1>1, <4>1, ShapedApart
            <7> QED
              BY <1>1, <1>3, <3>2, <4>1, <5>2, <7>1
          <6> QED
            BY <1>7, <1>16, <2>0, <4>1, <5>2, <6>1
        <5> QED
          BY <2>1, <5>1, <5>2
      <4>3. r.parent[c] = p
        BY <1>1, <1>3, <1>7
      <4>4. \A z \in B[x] : Sided(r, s, z, y)
        BY <1>3, <1>9, <2>0, <3>1, <3>2
      <4> QED
        BY <1>1, <1>11, <3>2, <4>1, <4>2, <4>3, <4>4 DEF Hangs
    <3>3. CASE e # x
      <4>1. r[s][y] = e
        <5>1. CASE s = side
          BY <1>7, <1>16, <2>0, <3>3, <5>1
        <5>2. CASE s = o
          <6>1. ~ (p # Null /\ y = p /\ t[side][p] # x)
            <7>1. p # Null => x = t[side][p] \/ x = t[o][p]
              BY PivotAbove DEF o
            <7> QED
              BY <3>3, <5>2, <7>1
          <6> QED
            BY <1>7, <1>16, <2>0, <5>2, <6>1
        <5> QED
          BY <2>1, <5>1, <5>2
      <4>2. e # c /\ (e # NILNODE => e # b)
        BY <1>1, <1>3, <1>16, <3>1
      <4>3. E[e] = B[e]
        BY <1>8, <3>1, <3>3, <4>2
      <4>4. e # NILNODE => r.parent[e] = y
        BY <1>7, <3>1, <3>3, <4>2
      <4>5. \A z \in B[e] : Sided(r, s, z, y)
        BY <1>3, <1>9, <2>0, <3>1
      <4> HIDE DEF e
      <4> QED
        BY <3>1, <4>1, <4>3, <4>4, <4>5 DEF Hangs, e
    <3> QED
      BY <3>2, <3>3
  <2>2. B[y] = {y} \cup B[t[side][y]] \cup B[t[o][y]]
    BY <1>1 DEF Shaped, o
  <2>3. E[r[side][y]] = B[t[side][y]] /\ E[r[o][y]] = B[t[o][y]] /\ Hangs(r, U, E, y, side) /\ Hangs(r, U, E, y, o)
    BY <1>1, <2>1
  <2> HIDE DEF U
  <2> QED
    BY <2>0, <2>2, <2>3
<1>17. \A y \in U : Fine(y)
  BY <1>14, <1>15, <1>16
<1>18. \A y \in U : \A s \in Sides :
         /\ E[y] \subseteq U /\ E[y] = {y} \cup E[r[s][y]] \cup E[r[Other(s)][y]]
         /\ Hangs(r, U, E, y, s)
  <2>1. Sides = {side, o} /\ Other(side) = o /\ Other(o) = side
    BY <1>1, SidesFacts DEF o
  <2> SUFFICES ASSUME NEW y \in U, NEW s \in Sides
               PROVE  /\ E[y] \subseteq U /\ E[y] = {y} \cup E[r[s][y]] \cup E[r[Other(s)][y]]
                      /\ Hangs(r, U, E, y, s)
    OBVIOUS
  <2>2. Fine(y)
    BY <1>17
  <2>3. CASE s = side
    BY <2>1, <2>2, <2>3
  <2>4. CASE s = o
    BY <2>1, <2>2, <2>4
  <2> QED
    BY <2>1, <2>3, <2>4
<1> HIDE DEF U, Fine
<1>19. Shaped(r, top, E)
  BY <1>3, <1>7, <1>11, <1>12, <1>13, <1>18 DEF Shaped
<1> QED
  BY <1>12, <1>19 DEF top, E, U

-----------------------------------------------------------------------------
(* A rotation that swaps colours keeps the number of black nodes.         *)

(* c, red until now, takes the colour of x, and x is red.                                 *)
Swapped(t, r, x, c) ==
  /\ t.color[c] = "RED"
  /\ \A y \in Ptr : r.color[y] = IF y = x THEN "RED" ELSE IF y = c THEN t.color[x] ELSE t.color[y]

ParentsTurned(t, r, U, root, x, side, c, b, p) ==
  /\ \A y \in U : r.parent[y] = IF y = x THEN c ELSE IF y = c THEN p
                                 ELSE IF y = b THEN x ELSE t.parent[y]
  /\ \A y \in U : y # root => t.parent[y] \in U
  /\ \A y \in U : y # root /\ t.parent[y] = x => y = c \/ y = t[side][x]

ChildrenTurned(t, r, U, x, side, c, b) ==
  /\ r[Other(side)][x] = b /\ r[side][x] = t[side][x]
  /\ r[Other(side)][c] = t[Other(side)][c] /\ r[side][c] = x
  /\ \A y \in U : \A s \in Sides : y # x /\ y # c /\ r[s][y] = NILNODE => t[s][y] = NILNODE

LEMMA TurnedParents ==
  ASSUME NEW t, NEW root, NEW B, Shaped(t, root, B), NEW x, NEW side, NEW c, NEW b, NEW p,
         Pivot(t, B[root], x, side, c, b, p), NEW r, Turned(t, r, x, side, c, b, p)
  PROVE  ParentsTurned(t, r, B[root], root, x, side, c, b, p)
<1>1. PivotHas(t, root, B, x, side, c, b, p) /\ c = t[Other(side)][x]
  BY PivotFacts DEF Pivot
<1>2. B[root] \subseteq Node
  BY DEF Shaped
<1>3. B[root] \subseteq Ptr /\ NILNODE \notin B[root]
  BY <1>2, AddressAssumption DEF Ptr
<1>4. \A y \in B[root] : r.parent[y] = IF y = x THEN c ELSE IF y = c THEN p
                                       ELSE IF y = b THEN x ELSE t.parent[y]
  BY <1>3 DEF Turned
<1>5. \A y \in B[root] : y # root => t.parent[y] \in B[root]
  BY ShapedParent
<1>6. ASSUME NEW y \in B[root], y # root, t.parent[y] = x
      PROVE  y = c \/ y = t[side][x]
  <2>1. PICK s \in Sides : y = t[s][t.parent[y]]
    BY <1>6, ShapedParent
  <2>2. s = side \/ s = Other(side)
    BY <1>1, SidesFacts DEF PivotHas
  <2> QED
    BY <1>1, <1>6, <2>1, <2>2
<1> QED
  BY <1>4, <1>5, <1>6 DEF ParentsTurned

LEMMA TurnedChildren ==
  ASSUME NEW t, NEW root, NEW B, Shaped(t, root, B), NEW x, NEW side, NEW c, NEW b, NEW p,
         Pivot(t, B[root], x, side, c, b, p), NEW r, Turned(t, r, x, side, c, b, p)
  PROVE  ChildrenTurned(t, r, B[root], x, side, c, b)
<1>1. PivotHas(t, root, B, x, side, c, b, p)
  BY PivotFacts
<1>2. B[root] \subseteq Node
  BY DEF Shaped
<1>3. B[root] \subseteq Ptr /\ NILNODE \notin Node
  BY <1>2, AddressAssumption DEF Ptr
<1>4. /\ r[Other(side)][x] = b /\ r[side][x] = t[side][x]
      /\ r[Other(side)][c] = t[Other(side)][c] /\ r[side][c] = x
  BY <1>1, <1>3 DEF Turned, PivotHas
<1>5. ASSUME NEW y \in B[root], NEW s \in Sides, y # x, y # c, r[s][y] = NILNODE
      PROVE  t[s][y] = NILNODE
  <2>1. c # NILNODE /\ side \in Sides
    BY <1>1, <1>3 DEF PivotHas
  <2>2. s = side \/ s = Other(side)
    BY <2>1, SidesFacts
  <2> QED
    BY <1>3, <1>5, <2>1, <2>2 DEF Turned
<1> QED
  BY <1>4, <1>5 DEF ChildrenTurned

(* Neither the rotation nor the exchange of colours changes how many black nodes there are      *)
(* on the way to any node.                                                            *)
LEMMA TurnedCounts ==
  ASSUME NEW t, NEW root, NEW B, Shaped(t, root, B), NEW x, NEW side, NEW c, NEW b, NEW p,
         Pivot(t, B[root], x, side, c, b, p), NEW r, Turned(t, r, x, side, c, b, p),
         Swapped(t, r, x, c), NEW A, Counted(t, root, B[root], A), NEW D, Level(t, B[root], A, D)
  PROVE  Counted(r, TurnedRoot(root, x, c), B[root], A) /\ Level(r, B[root], A, D)
<1>1. PivotHas(t, root, B, x, side, c, b, p)
  BY PivotFacts
<1>2. c = t[Other(side)][x] /\ b = t[side][c] /\ p = t.parent[x]
  BY DEF Pivot
<1>3. B[root] \subseteq Node
  BY DEF Shaped
<1>4. B[root] \subseteq Ptr /\ NILNODE \notin B[root]
  BY <1>3, AddressAssumption DEF Ptr
<1>5. \A y \in B[root] : r.color[y] = IF y = x THEN "RED" ELSE IF y = c THEN t.color[x] ELSE t.color[y]
  BY <1>4 DEF Swapped
<1>6. /\ \A y \in B[root] : r.parent[y] = IF y = x THEN c ELSE IF y = c THEN p
                                          ELSE IF y = b THEN x ELSE t.parent[y]
      /\ \A y \in B[root] : y # root => t.parent[y] \in B[root]
  <2>1. ParentsTurned(t, r, B[root], root, x, side, c, b, p)
    BY TurnedParents
  <2> QED
    BY <2>1 DEF ParentsTurned
<1>7. \A y \in B[root] : /\ A[y] \in Int
                         /\ A[y] = (IF t.color[y] = "BLACK" THEN 1 ELSE 0)
                                   + (IF y = root THEN 0 ELSE A[t.parent[y]])
  BY DEF Counted
<1>8. /\ x \in B[root] /\ c \in B[root] /\ t.parent[c] = x /\ c # root /\ x # c
      /\ (b # NILNODE => b \in B[root] /\ t.parent[b] = c) /\ b # x /\ b # c
      /\ side \in Sides /\ Other(side) \in Sides /\ root \in B[root] /\ Sides = {side, Other(side)}
      /\ (p = Null <=> x = root)
  BY <1>1, SidesFacts DEF PivotHas, Shaped
<1>9. A[c] = A[x]
  BY <1>7, <1>8 DEF Swapped
<1>10. ASSUME NEW y \in B[root]
       PROVE  A[y] = (IF r.color[y] = "BLACK" THEN 1 ELSE 0)
                     + (IF y = TurnedRoot(root, x, c) THEN 0 ELSE A[r.parent[y]])
  <2>1. CASE y = x
    <3>1. r.color[y] = "RED" /\ r.parent[y] = c /\ y # TurnedRoot(root, x, c)
      BY <1>5, <1>6, <1>8, <2>1 DEF TurnedRoot
    <3> QED
      BY <1>7, <1>8, <1>9, <2>1, <3>1
  <2>2. CASE y = c
    <3>1. r.color[y] = t.color[x] /\ r.parent[y] = p /\ (y = TurnedRoot(root, x, c) <=> x = root)
      BY <1>5, <1>6, <1>8, <2>2 DEF TurnedRoot
    <3> QED
      BY <1>2, <1>7, <1>8, <1>9, <2>2, <3>1
  <2>3. CASE y = b
    <3>0. t.parent[root] = Null /\ Null \notin B[root]
      BY <1>3, AddressAssumption DEF Shaped
    <3>1. r.color[y] = t.color[y] /\ r.parent[y] = x /\ t.parent[y] = c /\ y # root
      BY <1>4, <1>5, <1>6, <1>8, <2>3, <3>0
    <3>2. y # TurnedRoot(root, x, c)
      BY <1>8, <2>3, <3>1 DEF TurnedRoot
    <3> QED
      BY <1>7, <1>9, <3>1, <3>2
  <2>4. CASE y # x /\ y # c /\ y # b
    <3>1. r.color[y] = t.color[y] /\ r.parent[y] = t.parent[y] /\ (y = TurnedRoot(root, x, c) <=> y = root)
      BY <1>5, <1>6, <2>4 DEF TurnedRoot
    <3> QED
      BY <1>7, <3>1
  <2> QED
    BY <2>1, <2>2, <2>3, <2>4
<1>11. ASSUME NEW y \in B[root], NEW s \in Sides, r[s][y] = NILNODE
       PROVE  A[y] = D
  <2>1. s = side \/ s = Other(side)
    BY <1>8
  <2>2. /\ r[Other(side)][x] = b /\ r[side][x] = t[side][x]
        /\ r[Other(side)][c] = t[Other(side)][c] /\ r[side][c] = x
        /\ y # x /\ y # c => t[s][y] = NILNODE
    <3>1. ChildrenTurned(t, r, B[root], x, side, c, b)
      BY TurnedChildren
    <3> QED
      BY <1>11, <3>1 DEF ChildrenTurned
  <2>3. CASE y = x /\ s = side
    BY <1>8, <1>11, <2>2, <2>3 DEF Level
  <2>4. CASE y = x /\ s = Other(side)
    <3>1. t[side][c] = NILNODE
      BY <1>2, <1>11, <2>2, <2>4
    <3> QED
      BY <1>8, <1>9, <2>4, <3>1 DEF Level
  <2>5. CASE y = c /\ s = side
    BY <1>4, <1>8, <1>11, <2>2, <2>5
  <2>6. CASE y = c /\ s = Other(side)
    BY <1>8, <1>11, <2>2, <2>6 DEF Level
  <2>7. CASE y # x /\ y # c
    BY <1>11, <2>2, <2>7 DEF Level
  <2> QED
    BY <2>1, <2>3, <2>4, <2>5, <2>6, <2>7
<1> QED
  BY <1>7, <1>10, <1>11 DEF Counted, Level

(* Of two red nodes that were one below the other, the lower one is now above.               *)
LEMMA TurnedReds ==
  ASSUME NEW t, NEW root, NEW B, Shaped(t, root, B), NEW x, NEW side, NEW c, NEW b, NEW p,
         Pivot(t, B[root], x, side, c, b, p), NEW r, Turned(t, r, x, side, c, b, p),
         Swapped(t, r, x, c), t.color[x] = "RED", Mild(t, root, B[root] \ {c})
  PROVE  Mild(r, TurnedRoot(root, x, c), B[root] \ {x})
<1>1. PivotHas(t, root, B, x, side, c, b, p)
  BY PivotFacts
<1>2. c = t[Other(side)][x] /\ b = t[side][c] /\ p = t.parent[x]
  BY DEF Pivot
<1>3. B[root] \subseteq Node
  BY DEF Shaped
<1>4. B[root] \subseteq Ptr /\ NILNODE \notin B[root]
  BY <1>3, AddressAssumption DEF Ptr
<1>5. \A y \in B[root] : r.color[y] = t.color[y]
  BY <1>4 DEF Swapped
<1>6. /\ \A y \in B[root] : r.parent[y] = IF y = x THEN c ELSE IF y = c THEN p
                                          ELSE IF y = b THEN x ELSE t.parent[y]
      /\ \A y \in B[root] : y # root => t.parent[y] \in B[root]
  <2>1. ParentsTurned(t, r, B[root], root, x, side, c, b, p)
    BY TurnedParents
  <2> QED
    BY <2>1 DEF ParentsTurned
<1>7. /\ x \in B[root] /\ c \in B[root] /\ t.parent[c] = x /\ c # root /\ x # c
      /\ (b # NILNODE => b \in B[root] /\ t.parent[b] = c) /\ b # x /\ b # c
  BY <1>1 DEF PivotHas
<1> SUFFICES ASSUME NEW y \in B[root] \ {x}, y # TurnedRoot(root, x, c)
             PROVE  r.color[y] = "BLACK" \/ r.color[r.parent[y]] = "BLACK"
  BY DEF Mild
<1>8. CASE y = c
  <2>1. x # root
    BY <1>8 DEF TurnedRoot
  <2>2. t.color[p] = "BLACK"
    BY <1>2, <1>7, <2>1 DEF Mild
  <2>3. p \in B[root]
    BY <1>2, <1>6, <1>7, <2>1
  <2> QED
    BY <1>5, <1>6, <1>7, <1>8, <2>2, <2>3
<1>9. CASE y = b
  <2>1. y # root /\ t.parent[y] = c
    BY <1>3, <1>4, <1>7, <1>9, AddressAssumption DEF Shaped
  <2>2. t.color[y] = "BLACK"
    BY <1>7, <1>9, <2>1 DEF Mild, Swapped
  <2> QED
    BY <1>5, <2>2
<1>10. CASE y # c /\ y # b
  <2>1. y # root /\ r.parent[y] = t.parent[y] /\ t.parent[y] \in B[root]
    BY <1>6, <1>10 DEF TurnedRoot
  <2> QED
    BY <1>5, <1>10, <2>1 DEF Mild
<1> QED
  BY <1>8, <1>9, <1>10

(* The black node above the two goes down on the side of a black child, and no red node is    *)
(* below a red one.                                                                  *)
LEMMA TurnedIsMild ==
  ASSUME NEW t, NEW root, NEW B, Shaped(t, root, B), NEW x, NEW side, NEW c, NEW b, NEW p,
         Pivot(t, B[root], x, side, c, b, p), NEW r, Turned(t, r, x, side, c, b, p),
         Swapped(t, r, x, c), t.color[x] = "BLACK",
         NEW n, n = t[Other(side)][c], Mild(t, root, B[root] \ {n}),
         is_black(t, t[side][x])
  PROVE  /\ Mild(r, TurnedRoot(root, x, c), B[root])
         /\ t.color[root] = "BLACK" => r.color[TurnedRoot(root, x, c)] = "BLACK"
<1>1. PivotHas(t, root, B, x, side, c, b, p)
  BY PivotFacts
<1>2. c = t[Other(side)][x] /\ b = t[side][c] /\ p = t.parent[x]
  BY DEF Pivot
<1>3. B[root] \subseteq Node /\ root \in B[root]
  BY DEF Shaped
<1>4. B[root] \subseteq Ptr /\ NILNODE \notin B[root] /\ Null \notin B[root]
  BY <1>3, AddressAssumption DEF Ptr
<1>5. \A y \in B[root] : r.color[y] = IF y = x THEN "RED" ELSE IF y = c THEN "BLACK" ELSE t.color[y]
  BY <1>4 DEF Swapped
<1>6. /\ \A y \in B[root] : r.parent[y] = IF y = x THEN c ELSE IF y = c THEN p
                                          ELSE IF y = b THEN x ELSE t.parent[y]
      /\ \A y \in B[root] : y # root => t.parent[y] \in B[root]
      /\ \A y \in B[root] : y # root /\ t.parent[y] = x => y = c \/ y = t[side][x]
  <2>1. ParentsTurned(t, r, B[root], root, x, side, c, b, p)
    BY TurnedParents
  <2> QED
    BY <2>1 DEF ParentsTurned
<1>7. /\ x \in B[root] /\ c \in B[root] /\ t.parent[c] = x /\ c # root /\ x # c
      /\ (b # NILNODE => b \in B[root] /\ t.parent[b] = c) /\ b # x /\ b # c
      /\ side \in Sides /\ Other(side) \in Sides
  BY <1>1 DEF PivotHas
<1>8. n # NILNODE => t.parent[n] = c /\ n # b
  <2>1. n # NILNODE => t.parent[n] = c
    BY <1>7, ShapedSides
  <2>2. b # NILNODE => b # n
    BY <1>2, <1>7, ShapedApart
  <2> QED
    BY <2>1, <2>2
<1>9. t.color[root] = "BLACK" => r.color[TurnedRoot(root, x, c)] = "BLACK"
  BY <1>3, <1>5, <1>7 DEF TurnedRoot
<1>10. ASSUME NEW y \in B[root], y # TurnedRoot(root, x, c)
       PROVE  r.color[y] = "BLACK" \/ r.color[r.parent[y]] = "BLACK"
  <2>1. CASE y = x \/ y = c
    BY <1>5, <1>6, <1>7, <2>1
  <2>2. CASE y = b
    <3>1. y # root /\ t.parent[y] = c /\ y # n
      BY <1>3, <1>4, <1>7, <1>8, <2>2 DEF Shaped
    <3>2. t.color[y] = "BLACK"
      BY <3>1 DEF Mild, Swapped
    <3> QED
      BY <1>5, <1>7, <2>2, <3>2
  <2>3. CASE y # x /\ y # c /\ y # b
    <3>1. y # root /\ r.parent[y] = t.parent[y] /\ t.parent[y] \in B[root] /\ r.color[y] = t.color[y]
      BY <1>5, <1>6, <1>10, <2>3 DEF TurnedRoot
    <3>2. CASE t.parent[y] = x
      <4>1. y = t[side][x]
        BY <1>6, <2>3, <3>1, <3>2
      <4>2. t.color[y] = "BLACK"
        BY <1>4, <4>1 DEF is_black, IS_NULL
      <4> QED
        BY <3>1, <4>2
    <3>3. CASE t.parent[y] = c
      BY <1>5, <1>7, <3>1, <3>3
    <3>4. CASE t.parent[y] # x /\ t.parent[y] # c
      <4>1. y # n
        BY <1>4, <1>8, <3>4
      <4>2. t.color[y] = "BLACK" \/ t.color[t.parent[y]] = "BLACK"
        BY <3>1, <4>1 DEF Mild
      <4> QED
        BY <1>5, <3>1, <3>4, <4>2
    <3> QED
      BY <3>2, <3>3, <3>4
  <2> QED
    BY <2>1, <2>2, <2>3
<1> QED
  BY <1>9, <1>10 DEF Mild

-----------------------------------------------------------------------------
(* The repair after an insertion.                                                 *)

Even(t, root, U) ==
  t.color[NILNODE] = "BLACK" /\ \E A, D : Counted(t, root, U, A) /\ Level(t, U, A, D)

(* All is well but that x may be a red node below a red one, or a red root.                  *)
Fixing(t, root, B, K, x) ==
  /\ Shaped(t, root, B) /\ t.root = root /\ t.key = K /\ x \in B[root]
  /\ Mild(t, root, B[root] \ {x}) /\ Even(t, root, B[root])
  /\ x = root \/ t.color[root] = "BLACK"

(* The node above all others, once *root was possibly rotated down.                        *)
Top(t) == IF t.parent[t.root] # Null THEN t.parent[t.root] ELSE t.root

Repairs(t, U, K, B) ==
  /\ Shaped(t, Top(t), B) /\ B[Top(t)] = U /\ t.key = K
  /\ Mild(t, Top(t), U) /\ Even(t, Top(t), U)

Fixed(t, U, K) == \E B : Repairs(t, U, K, B)

LEMMA SideTells ==
  ASSUME NEW t, NEW root, NEW B, Shaped(t, root, B), NEW x \in B[root], x # root,
         NEW e \in Sides, x = t[e][t.parent[x]]
  PROVE  Dir1(t, x) = e /\ SideOf(t, x) = e
<1>1. t.parent[x] \in B[root] /\ x # NILNODE
  <2>1. x \in Node
    BY DEF Shaped
  <2> QED
    BY <2>1, ShapedParent, AddressAssumption
<1>2. x # t[Other(e)][t.parent[x]]
  BY <1>1, ShapedApart
<1>3. CASE e = "left"
  BY <1>2, <1>3 DEF Other, Dir1, SideOf
<1>4. CASE e = "right"
  BY <1>2, <1>4 DEF Other, Dir1, SideOf
<1> QED
  BY <1>3, <1>4 DEF Sides

(* Where the repair goes on: the parent p and the grandparent g on the sides d and e.          *)
Family(t, root, B, x, p, g, d, e) ==
  /\ x \in B[root] /\ x # root /\ x \in Node /\ t.parent[x] = p /\ x = t[e][p] /\ e \in Sides
  /\ p \in B[root] /\ p # root /\ p \in Node /\ t.parent[p] = g /\ p = t[d][g] /\ d \in Sides
  /\ g \in B[root] /\ g \in Node /\ Cardinality(B[x]) < Cardinality(B[g])
  /\ t.color[p] = "RED" /\ t.color[g] = "BLACK"
  /\ uncle_of(t, x) = t[Other(d)][g] /\ Dir1(t, x) = e /\ Dir1(t, p) = d
  /\ get_dir(t, x) = <<d, e>> /\ grandparent_of(t, x) = g /\ ~ IS_NULL(p)

LEMMA FamilyOf ==
  ASSUME NEW t, NEW root, NEW B, NEW K, NEW x, Fixing(t, root, B, K, x), NEW p, p = t.parent[x],
         t.color[x] # "BLACK", ~ IS_NULL(p), ~ is_black(t, p)
  PROVE  \E g, d, e : Family(t, root, B, x, p, g, d, e)
<1>1. Shaped(t, root, B) /\ x \in B[root] /\ Mild(t, root, B[root] \ {x}) /\ (x = root \/ t.color[root] = "BLACK")
  BY DEF Fixing
<1>2. t \in Tree /\ B[root] \subseteq Node /\ t.parent[root] = Null
  BY <1>1 DEF Shaped
<1>3. x # root
  BY <1>2 DEF IS_NULL
<1>4. /\ p \in B[root] /\ p \in Node /\ p # x /\ Cardinality(B[x]) < Cardinality(B[p])
      /\ t.color[p] # "BLACK" /\ p # root
  BY <1>1, <1>3, ShapedParent DEF is_black
<1>5. PICK e \in Sides : x = t[e][p]
  BY <1>1, <1>3, ShapedParent
<1> DEFINE g == t.parent[p]
<1>6. /\ g \in B[root] /\ g \in Node /\ Cardinality(B[p]) < Cardinality(B[g])
  BY <1>1, <1>4, ShapedParent
<1>7. PICK d \in Sides : p = t[d][g]
  BY <1>1, <1>4, ShapedParent
<1>8. t.color[p] = "RED" /\ t.color[g] = "BLACK"
  <2>1. t.color[p] \in {"RED", "BLACK"}
    BY <1>2, <1>4 DEF Tree, Ptr
  <2>2. p \in B[root] \ {x}
    BY <1>4
  <2> QED
    BY <1>1, <1>4, <2>1, <2>2 DEF Mild
<1>9. Cardinality(B[x]) < Cardinality(B[g])
  <2>1. /\ Cardinality(B[x]) \in Nat /\ Cardinality(B[p]) \in Nat /\ Cardinality(B[g]) \in Nat
    BY <1>1, <1>4, <1>6, ShapedSides, SidesFacts
  <2> HIDE DEF g
  <2> QED
    BY <1>4, <1>6, <2>1
<1>10. Dir1(t, x) = e
  BY <1>1, <1>3, <1>5, SideTells
<1>11. Dir1(t, p) = d /\ SideOf(t, p) = d
  BY <1>1, <1>4, <1>7, SideTells
<1>12. ~ IS_NULL(g)
  BY <1>6, AddressAssumption DEF IS_NULL
<1>13. uncle_of(t, x) = t[Other(d)][g]
  BY <1>11, <1>12 DEF uncle_of, sibling_of
<1>14. grandparent_of(t, x) = g /\ get_dir(t, x) = <<d, e>>
  BY <1>10, <1>11, <1>12 DEF grandparent_of, get_dir
<1> HIDE DEF g
<1>15. x \in Node
  BY <1>1, <1>2
<1>16. t.parent[p] = g
  BY DEF g
<1>17. Family(t, root, B, x, p, g, d, e)
  BY <1>1, <1>3, <1>4, <1>5, <1>6, <1>7, <1>8, <1>9, <1>10, <1>11, <1>13, <1>14, <1>15, <1>16 DEF Family
<1> QED
  BY <1>17

LEMMA FixStops ==
  ASSUME NEW t, NEW root, NEW B, NEW K, NEW x, Fixing(t, root, B, K, x),
         t.color[x] = "BLACK" \/ IS_NULL(t.parent[x]) \/ is_black(t, t.parent[x])
  PROVE  Fixed(t, B[root], K)
<1>1. /\ Shaped(t, root, B) /\ t.root = root /\ t.key = K /\ x \in B[root]
      /\ Mild(t, root, B[root] \ {x}) /\ Even(t, root, B[root])
  BY DEF Fixing
<1>2. Top(t) = root
  BY <1>1 DEF Top, Shaped
<1>3. Mild(t, root, B[root])
  <2>1. x # root => t.color[x] = "BLACK" \/ t.color[t.parent[x]] = "BLACK"
    <3>1. x # root => t.parent[x] \in Node
      BY <1>1, ShapedParent
    <3>2. x # root => ~ IS_NULL(t.parent[x])
      BY <3>1, AddressAssumption DEF IS_NULL
    <3> QED
      BY <3>2 DEF is_black
  <2> QED
    BY <1>1, <2>1 DEF Mild
<1>4. Repairs(t, B[root], K, B)
  BY <1>1, <1>2, <1>3 DEF Repairs
<1> QED
  BY <1>4 DEF Fixed

(* A red uncle: parent and uncle turn black, and the grandparent red.                      *)
LEMMA FixClimbs ==
  ASSUME NEW t, NEW root, NEW B, NEW K, NEW x, Fixing(t, root, B, K, x),
         NEW p, NEW g, NEW d, NEW e, Family(t, root, B, x, p, g, d, e),
         NEW u, u = uncle_of(t, x), ~ is_black(t, u), NEW r,
         r = [t EXCEPT !.color = [@ EXCEPT ![p] = "BLACK", ![g] = "RED", ![u] = "BLACK"]]
  PROVE  Fixing(r, root, B, K, g) /\ r \in Tree
<1>1. /\ Shaped(t, root, B) /\ t.root = root /\ t.key = K /\ x \in B[root]
      /\ Mild(t, root, B[root] \ {x}) /\ Even(t, root, B[root]) /\ (x = root \/ t.color[root] = "BLACK")
  BY DEF Fixing
<1>2. t \in Tree /\ B[root] \subseteq Node /\ t.parent[root] = Null /\ root \in B[root]
  BY <1>1 DEF Shaped
<1>3. /\ x # root /\ t.parent[x] = p /\ p \in B[root] /\ p # root /\ t.parent[p] = g /\ p = t[d][g]
      /\ d \in Sides /\ g \in B[root] /\ t.color[p] = "RED" /\ t.color[g] = "BLACK" /\ u = t[Other(d)][g]
      /\ p \in Node /\ g \in Node /\ Other(d) \in Sides /\ Sides = {d, Other(d)}
  BY SidesFacts DEF Family
<1>4. u # NILNODE /\ u \in B[root] /\ t.parent[u] = g /\ u \in Node /\ t.color[u] = "RED" /\ u # root
  <2>1. u # NILNODE /\ t.color[u] # "BLACK"
    BY DEF is_black, IS_NULL
  <2>2. u \in B[root] /\ t.parent[u] = g
    BY <1>1, <1>3, <2>1, ShapedSides
  <2>3. u \in Ptr
    BY <1>2, <2>2 DEF Ptr
  <2>4. u # root
    BY <1>2, <1>3, <2>2, AddressAssumption
  <2> QED
    BY <1>2, <2>1, <2>2, <2>3, <2>4 DEF Tree
<1>5. p # u /\ p # g /\ u # g
  <2>1. p # NILNODE
    BY <1>3, AddressAssumption
  <2> QED
    BY <1>1, <1>3, <1>4, <2>1, ShapedApart
<1> DEFINE col == [t.color EXCEPT ![p] = "BLACK", ![g] = "RED", ![u] = "BLACK"]
<1>6. r = [root |-> t.root, parent |-> t.parent, left |-> t.left, right |-> t.right,
           key |-> t.key, color |-> col]
  BY <1>2 DEF Tree
<1>7. t.color \in [Ptr -> {"RED", "BLACK"}] /\ B[root] \subseteq Ptr
  BY <1>2 DEF Tree, Ptr
<1>8. col \in [Ptr -> {"RED", "BLACK"}]
      /\ \A y \in B[root] : col[y] = IF y = p \/ y = u THEN "BLACK" ELSE IF y = g THEN "RED" ELSE t.color[y]
  BY <1>3, <1>4, <1>5, <1>7
<1>nil. col[NILNODE] = t.color[NILNODE]
  <2>1. NILNODE \in Ptr /\ NILNODE # p /\ NILNODE # g /\ NILNODE # u
    BY <1>3, <1>4, AddressAssumption DEF Ptr
  <2> QED
    BY <1>7, <2>1
<1>9. /\ r \in Tree /\ r.parent = t.parent /\ r.left = t.left /\ r.right = t.right /\ r.key = t.key
      /\ r.root = t.root /\ r.color = col
  <2> HIDE DEF col
  <2> QED
    BY <1>2, <1>6, <1>8 DEF Tree
<1> HIDE DEF col
<1>10. Shaped(r, root, B)
  BY <1>1, <1>9, SameShapeFacts DEF SameShape
<1>11. \A y \in B[root] : y # root /\ t.parent[y] = g => y = p \/ y = u
  <2> SUFFICES ASSUME NEW y \in B[root], y # root, t.parent[y] = g
               PROVE  y = p \/ y = u
    OBVIOUS
  <2>1. PICK s \in Sides : y = t[s][t.parent[y]]
    BY <1>1, ShapedParent
  <2> QED
    BY <1>3, <2>1
<1>12. \A y \in B[root] : y # root => t.parent[y] \in B[root]
  BY <1>1, ShapedParent
<1>13. Mild(r, root, B[root] \ {g})
  <2> SUFFICES ASSUME NEW y \in B[root] \ {g}, y # root
               PROVE  r.color[y] = "BLACK" \/ r.color[r.parent[y]] = "BLACK"
    BY DEF Mild
  <2>1. CASE y = p \/ y = u
    BY <1>8, <1>9, <2>1
  <2>2. CASE y = x
    BY <1>3, <1>8, <1>9, <2>2
  <2>3. CASE y # p /\ y # u /\ y # x
    <3>1. t.parent[y] # g /\ t.parent[y] \in B[root]
      BY <1>11, <1>12, <2>3
    <3>2. t.color[y] = "BLACK" \/ t.color[t.parent[y]] = "BLACK"
      BY <1>1, <2>3 DEF Mild
    <3> QED
      BY <1>8, <1>9, <2>3, <3>1, <3>2
  <2> QED
    BY <2>1, <2>2, <2>3
<1>14. g = root \/ r.color[root] = "BLACK"
  BY <1>1, <1>2, <1>3, <1>8, <1>9
<1>15. Even(r, root, B[root])
  <2>1. PICK A, D : Counted(t, root, B[root], A) /\ Level(t, B[root], A, D)
    BY <1>1 DEF Even
  <2> DEFINE C == [y \in B[root] |-> IF y = g THEN A[y] - 1 ELSE A[y]]
  <2>2. \A y \in B[root] : C[y] = IF y = g THEN A[y] - 1 ELSE A[y]
    OBVIOUS
  <2> HIDE DEF C
  <2>3. \A y \in B[root] : /\ A[y] \in Int
                           /\ A[y] = (IF t.color[y] = "BLACK" THEN 1 ELSE 0)
                                     + (IF y = root THEN 0 ELSE A[t.parent[y]])
    BY <2>1 DEF Counted
  <2>4. ASSUME NEW y \in B[root]
        PROVE  /\ C[y] \in Int
               /\ C[y] = (IF r.color[y] = "BLACK" THEN 1 ELSE 0)
                         + (IF y = root THEN 0 ELSE C[r.parent[y]])
    <3>1. CASE y = g
      <4>1. y # root => C[r.parent[y]] = A[t.parent[y]]
        <5>1. y # root => t.parent[y] # g /\ t.parent[y] \in B[root]
          BY <1>1, <3>1, ShapedParent
        <5> QED
          BY <1>9, <2>2, <5>1
      <4>2. r.color[y] = "RED" /\ t.color[y] = "BLACK"
        BY <1>3, <1>5, <1>8, <1>9, <3>1
      <4>3. C[y] = A[y] - 1 /\ A[y] \in Int /\ A[y] = 1 + (IF y = root THEN 0 ELSE A[t.parent[y]])
        BY <2>2, <2>3, <3>1, <4>2
      <4>4. CASE y = root
        BY <4>2, <4>3, <4>4
      <4>5. CASE y # root
        <5>1. A[t.parent[y]] \in Int
          BY <1>12, <2>3, <4>5
        <5> QED
          BY <4>1, <4>2, <4>3, <4>5, <5>1
      <4> QED
        BY <4>4, <4>5
    <3>2. CASE y = p \/ y = u
      <4>1. /\ y # root /\ t.parent[y] = g /\ r.parent[y] = g /\ C[g] = A[g] - 1 /\ C[y] = A[y]
            /\ r.color[y] = "BLACK" /\ t.color[y] = "RED"
        BY <1>3, <1>4, <1>5, <1>8, <1>9, <2>2, <3>2
      <4> QED
        BY <1>3, <2>3, <4>1
    <3>3. CASE y # g /\ y # p /\ y # u
      <4>1. C[y] = A[y] /\ r.color[y] = t.color[y] /\ r.parent[y] = t.parent[y]
        BY <1>8, <1>9, <2>2, <3>3
      <4>2. y # root => C[t.parent[y]] = A[t.parent[y]]
        BY <1>11, <1>12, <2>2, <3>3
      <4> QED
        BY <2>3, <4>1, <4>2
    <3> QED
      BY <3>1, <3>2, <3>3
  <2>5. Counted(r, root, B[root], C)
    BY <2>4 DEF Counted
  <2>6. Level(r, B[root], C, D)
    <3> SUFFICES ASSUME NEW y \in B[root], NEW s \in Sides, r[s][y] = NILNODE
                 PROVE  C[y] = D
      BY DEF Level
    <3>1. r[s] = t[s]
      BY <1>9 DEF Sides
    <3>2. y # g
      <4>1. t[d][g] # NILNODE /\ t[Other(d)][g] # NILNODE
        BY <1>3, <1>4, AddressAssumption
      <4> QED
        BY <1>3, <3>1, <4>1
    <3> QED
      BY <2>1, <2>2, <3>1, <3>2 DEF Level
  <2> QED
    BY <1>1, <1>9, <1>nil, <2>5, <2>6 DEF Even
<1> QED
  BY <1>1, <1>3, <1>9, <1>10, <1>13, <1>14, <1>15 DEF Fixing

(* A black uncle: the grandparent goes down on the uncle's side.                          *)
LEMMA OuterFixes ==
  ASSUME NEW t, NEW root, NEW B, Shaped(t, root, B), t.root = root, Even(t, root, B[root]),
         NEW x, NEW p, NEW g, NEW d \in Sides,
         x \in B[root], p \in B[root], g \in B[root], p = t[d][g], x = t[d][p],
         t.color[x] = "RED", t.color[p] = "RED", t.color[g] = "BLACK",
         Mild(t, root, B[root] \ {x}), is_black(t, t[Other(d)][g])
  PROVE  Fixed(Recolored(Outer(t, x, d)), B[root], t.key)
<1> DEFINE o == Other(d)
           b == t[o][p]
           q == t.parent[g]
           r == Rotate(t, g, o)
           r2 == Recolored(Outer(t, x, d))
           top == TurnedRoot(root, g, p)
<1>1. o \in Sides /\ Other(o) = d /\ Sides = {d, o} /\ d # o
  BY SidesFacts
<1>2. /\ t \in Tree /\ B[root] \subseteq Node /\ NILNODE \notin Node /\ Null \notin Node
      /\ t.parent[root] = Null /\ root \in B[root]
  BY AddressAssumption DEF Shaped
<1>3. p # NILNODE /\ x # NILNODE /\ x \in Node /\ p \in Node /\ g \in Node
  BY <1>2
<1>4. Pivot(t, B[root], g, o, p, b, q)
  BY <1>1, <1>3 DEF Pivot
<1>5. PivotHas(t, root, B, g, o, p, b, q)
  BY <1>4, PivotFacts
<1>6. t.parent[x] = p /\ t.parent[p] = g /\ x # b
  <2>1. t.parent[x] = p /\ t.parent[p] = g
    BY <1>3, ShapedSides
  <2>2. x # b
    BY <1>3, ShapedApart
  <2> QED
    BY <2>1, <2>2
<1>7. Turned(t, r, g, o, p, b, q) /\ r.color = t.color /\ r.root = t.root
  <2>1. /\ b \in Ptr /\ q \in Node \cup {Null} /\ g # p /\ g # q /\ p # q /\ b # g /\ b # p
    BY <1>5 DEF PivotHas
  <2> QED
    BY <1>1, <1>2, <1>3, <2>1, RotateFields
<1>8. x # g /\ x # p
  <2>1. x \in B[p] /\ g \notin B[p] /\ p \notin B[x] /\ x \in B[x]
    BY <1>3, ShapedSides
  <2> QED
    BY <2>1
<1>9. r.parent[x] = p /\ r \in Tree /\ r.key = t.key
  BY <1>3, <1>6, <1>7, <1>8 DEF Turned, Ptr
<1>10. Outer(t, x, d) = [tree |-> r, node |-> p]
  BY <1>6, <1>9 DEF Outer, WithTop, grandparent_of
<1>11. r[o][p] = g /\ r[d][p] = x
  <2>1. ChildrenTurned(t, r, B[root], g, o, p, b)
    BY <1>4, <1>7, TurnedChildren
  <2> QED
    BY <1>1, <2>1 DEF ChildrenTurned
<1> DEFINE col == [t.color EXCEPT ![p] = "BLACK", ![r.left[p]] = "RED", ![r.right[p]] = "RED"]
<1>12. r2 = [r EXCEPT !.color = col]
  <2> HIDE DEF r
  <2> QED
    BY <1>7, <1>10 DEF Recolored
<1>13. {r.left[p], r.right[p]} = {g, x}
  BY <1>1, <1>11 DEF Sides
<1>14. t.color \in [Ptr -> {"RED", "BLACK"}] /\ x \in Ptr /\ g \in Ptr /\ p \in Ptr
  BY <1>2, <1>3 DEF Tree, Ptr
<1>15. /\ col \in [Ptr -> {"RED", "BLACK"}]
       /\ \A y \in Ptr : col[y] = IF y = g THEN "RED" ELSE IF y = p THEN "BLACK" ELSE t.color[y]
  <2>1. r.left[p] \in {g, x} /\ r.right[p] \in {g, x}
    BY <1>13
  <2>2. g # p
    BY <1>5 DEF PivotHas
  <2> HIDE DEF r
  <2> QED
    BY <1>8, <1>13, <1>14, <2>1, <2>2
<1> HIDE DEF col, r
<1>16. /\ r2 \in Tree /\ r2.parent = r.parent /\ r2.left = r.left /\ r2.right = r.right /\ r2.key = r.key
       /\ r2.root = r.root /\ r2.color = col
  <2>1. r2 = [root |-> r.root, parent |-> r.parent, left |-> r.left, right |-> r.right,
              key |-> r.key, color |-> col]
    BY <1>9, <1>12 DEF Tree
  <2> HIDE DEF r2
  <2> QED
    BY <1>9, <1>15, <2>1 DEF Tree
<1> HIDE DEF r2
<1>17. Turned(t, r2, g, o, p, b, q)
  <2>1. r2.left = r.left /\ r2.right = r.right /\ r2.parent = r.parent /\ r2.key = r.key /\ r2 \in Tree
    BY <1>16
  <2>2. r2[o] = r[o] /\ r2[Other(o)] = r[Other(o)]
    BY <1>1, <2>1 DEF Sides
  <2> QED
    BY <1>7, <2>1, <2>2 DEF Turned
<1>18. Swapped(t, r2, g, p)
  BY <1>15, <1>16 DEF Swapped
<1> DEFINE E == TurnedBelow(t, B, g, o, p, b)
<1>19. Shaped(r2, top, E) /\ E[top] = B[root]
  BY <1>4, <1>17, TurnedIsShaped
<1>20. Even(r2, top, B[root])
  <2> NILNODE \in Ptr /\ NILNODE # g /\ NILNODE # p
    BY <1>2, AddressAssumption DEF Ptr, Shaped
  <2>1. PICK A, D : Counted(t, root, B[root], A) /\ Level(t, B[root], A, D)
    BY DEF Even
  <2>2. Counted(r2, top, B[root], A) /\ Level(r2, B[root], A, D)
    <3> HIDE DEF o, b, q
    <3>1. Counted(t, root, B[root], A)
      BY <2>1
    <3>2. Level(t, B[root], A, D)
      BY <2>1
    <3>3. Counted(r2, TurnedRoot(root, g, p), B[root], A)
      BY <1>4, <1>17, <1>18, <3>1, <3>2, TurnedCounts
    <3>4. Level(r2, B[root], A, D)
      BY <1>4, <1>17, <1>18, <3>1, <3>2, TurnedCounts
    <3> QED
      BY <3>3, <3>4
  <2>3. r2.color[NILNODE] = "BLACK"
    BY <1>15, <1>16 DEF Even
  <2> QED
    BY <2>2, <2>3 DEF Even
<1>21. Mild(r2, top, B[root])
  <2>1. x = t[Other(o)][p] /\ is_black(t, t[o][g])
    BY <1>1
  <2> QED
    BY <1>4, <1>17, <1>18, <2>1, TurnedIsMild
<1>22. Top(r2) = top
  <2>1. r2.root = root
    BY <1>7, <1>16
  <2>2. CASE g = root
    <3>1. r2.parent[g] = p
      BY <1>14, <1>17 DEF Turned
    <3> QED
      BY <1>2, <1>3, <2>1, <2>2, <3>1 DEF Top, TurnedRoot
  <2>3. CASE g # root
    <3>1. top = root
      BY <2>3 DEF TurnedRoot
    <3>2. r2.parent[top] = Null
      BY <1>19 DEF Shaped
    <3> QED
      BY <2>1, <3>1, <3>2 DEF Top
  <2> QED
    BY <2>2, <2>3
<1> HIDE DEF E, top
<1>23. Repairs(r2, B[root], t.key, E)
  BY <1>9, <1>16, <1>19, <1>20, <1>21, <1>22 DEF Repairs
<1> QED
  BY <1>23 DEF Fixed, r2

(* A black uncle: one rotation, or two when x is the inner grandchild.                      *)
LEMMA FixRotates ==
  ASSUME NEW t, NEW root, NEW B, NEW K, NEW x, Fixing(t, root, B, K, x), t.color[x] = "RED",
         NEW p, NEW g, NEW d, NEW e, Family(t, root, B, x, p, g, d, e), is_black(t, uncle_of(t, x))
  PROVE  Fixed(Recolored(sbt_rotate(t, x)), B[root], K)
<1>1. /\ Shaped(t, root, B) /\ t.root = root /\ t.key = K /\ x \in B[root]
      /\ Mild(t, root, B[root] \ {x}) /\ Even(t, root, B[root])
  BY DEF Fixing
<1>2. /\ x # root /\ x \in Node /\ t.parent[x] = p /\ x = t[e][p] /\ e \in Sides
      /\ p \in B[root] /\ p # root /\ p \in Node /\ t.parent[p] = g /\ p = t[d][g] /\ d \in Sides
      /\ g \in B[root] /\ g \in Node
      /\ t.color[p] = "RED" /\ t.color[g] = "BLACK"
      /\ is_black(t, t[Other(d)][g]) /\ get_dir(t, x) = <<d, e>> /\ grandparent_of(t, x) = g
  BY DEF Family
<1>3. get_dir(t, x) # <<>> /\ get_dir(t, x)[1] = d /\ get_dir(t, x)[2] = e
  BY <1>2
<1>4. CASE e = d
  <2>1. sbt_rotate(t, x) = Outer(t, x, d)
    BY <1>3, <1>4 DEF sbt_rotate
  <2>2. Fixed(Recolored(Outer(t, x, d)), B[root], t.key)
    BY <1>1, <1>2, <1>4, OuterFixes
  <2> QED
    BY <1>1, <2>1, <2>2
<1>5. CASE e # d
  <2> DEFINE o == Other(d)
             b == t[d][x]
             r == Rotate(t, p, d)
             E == TurnedBelow(t, B, p, d, x, b)
  <2>1. o \in Sides /\ e = o /\ Other(o) = d /\ x # NILNODE /\ d # o
    BY <1>2, <1>5, SidesFacts, AddressAssumption
  <2>2. sbt_rotate(t, x) = Inner(r, x, d)
    BY <1>2, <1>3, <1>5 DEF sbt_rotate
  <2>3. Pivot(t, B[root], p, d, x, b, g)
    BY <1>2, <2>1 DEF Pivot
  <2>4. PivotHas(t, root, B, p, d, x, b, g)
    BY <1>1, <2>3, PivotFacts
  <2>5. Turned(t, r, p, d, x, b, g) /\ r.color = t.color /\ r.root = t.root
    <3>1. t \in Tree
      BY <1>1 DEF Shaped
    <3>2. /\ b \in Ptr /\ p # x /\ p # g /\ x # g /\ b # p /\ b # x
      BY <2>4 DEF PivotHas
    <3> QED
      BY <1>2, <2>1, <3>1, <3>2, RotateFields
  <2> HIDE DEF r
  <2>6. ChildrenTurned(t, r, B[root], p, d, x, b)
    BY <1>1, <2>3, <2>5, TurnedChildren
  <2>7. r[d][x] = p
    BY <2>6 DEF ChildrenTurned
  <2>8. g \in Ptr /\ g # x /\ g # p /\ g # Null
    BY <1>2, <2>4, AddressAssumption DEF PivotHas, Ptr
  <2>9. r[d][g] = x /\ r[o][g] = t[o][g] /\ r.key = t.key
    BY <1>2, <2>5, <2>8 DEF Turned
  <2>10. Inner(r, x, d) = Outer(r, p, d)
    BY <2>7 DEF Inner
  <2>11. Swapped(t, r, p, x)
    <3>1. t.color[x] = "RED"
      OBVIOUS
    <3> QED
      BY <1>2, <2>5, <3>1 DEF Swapped
  <2>12. TurnedRoot(root, p, x) = root
    BY <1>2 DEF TurnedRoot
  <2>13. Shaped(r, root, E) /\ E[root] = B[root]
    BY <1>1, <2>3, <2>5, <2>12, TurnedIsShaped
  <2>14. Even(r, root, B[root])
    <3>1. PICK A, D : Counted(t, root, B[root], A) /\ Level(t, B[root], A, D)
      BY <1>1 DEF Even
    <3> HIDE DEF b
    <3>2. Counted(t, root, B[root], A)
      BY <3>1
    <3>3. Level(t, B[root], A, D)
      BY <3>1
    <3>4. Counted(r, TurnedRoot(root, p, x), B[root], A)
      BY <1>1, <2>3, <2>5, <2>11, <3>2, <3>3, TurnedCounts
    <3>5. Level(r, B[root], A, D)
      BY <1>1, <2>3, <2>5, <2>11, <3>2, <3>3, TurnedCounts
    <3>6. r.color[NILNODE] = t.color[NILNODE]
      BY <2>5
    <3> QED
      BY <1>1, <2>12, <3>4, <3>5, <3>6 DEF Even
  <2>15. Mild(r, root, B[root] \ {p})
    <3>1. Mild(r, TurnedRoot(root, p, x), B[root] \ {p})
      BY <1>1, <1>2, <2>3, <2>5, <2>11, TurnedReds
    <3> QED
      BY <2>12, <3>1
  <2>16. is_black(r, r[o][g])
    BY <1>2, <2>5, <2>9 DEF is_black
  <2>17. Fixed(Recolored(Outer(r, p, d)), E[root], r.key)
    <3> HIDE DEF E
    <3> QED
      BY <1>1, <1>2, <2>5, <2>7, <2>9, <2>13, <2>14, <2>15, <2>16, OuterFixes
  <2> QED
    BY <1>1, <2>2, <2>9, <2>10, <2>13, <2>17
<1> QED
  BY <1>4, <1>5

FixStop(t, x) == t.color[x] = "BLACK" \/ IS_NULL(t.parent[x]) \/ is_black(t, t.parent[x])

Climbed(t, x) ==
  [t EXCEPT !.color = [@ EXCEPT ![t.parent[x]] = "BLACK", ![t.parent[t.parent[x]]] = "RED",
                                ![uncle_of(t, x)] = "BLACK"]]

LEMMA FixLoops ==
  ASSUME NEW tree \in Tree, NEW node \in Node
  PROVE  \E f : /\ \A t \in Tree, x \in Node :
                     f[[tree |-> t, at |-> x]] =
                       IF FixStop(t, x) THEN t
                       ELSE IF is_black(t, uncle_of(t, x)) THEN Recolored(sbt_rotate(t, x))
                       ELSE f[[tree |-> Climbed(t, x), at |-> t.parent[t.parent[x]]]]
                /\ rbt_fix(tree, node) = f[[tree |-> tree, at |-> node]]
<1> DEFINE D == [tree : Tree, at : Node]
           Ends(s) == FixStop(s.tree, s.at) \/ is_black(s.tree, uncle_of(s.tree, s.at))
           end(s) == IF FixStop(s.tree, s.at) THEN s.tree ELSE Recolored(sbt_rotate(s.tree, s.at))
           on(s) == [tree |-> Climbed(s.tree, s.at), at |-> s.tree.parent[s.tree.parent[s.at]]]
           Turns(f) == f = [s \in D |->
                              IF FixStop(s.tree, s.at) THEN s.tree
                              ELSE IF is_black(s.tree, uncle_of(s.tree, s.at))
                                   THEN Recolored(sbt_rotate(s.tree, s.at))
                              ELSE f[on(s)]]
           fix == CHOOSE f : Turns(f)
           Stop == {s \in D : Ends(s)}
           v == [s \in D |-> end(s)]
           nx == [s \in D |-> on(s)]
<1>1. \A s \in D : s \notin Stop => nx[s] \in D
  <2> SUFFICES ASSUME NEW s \in D, ~ Ends(s)
               PROVE  on(s) \in D
    OBVIOUS
  <2> DEFINE t == s.tree
             x == s.at
             p == t.parent[x]
             g == t.parent[p]
             u == uncle_of(t, x)
  <2>1. /\ t \in Tree /\ x \in Node /\ ~ FixStop(t, x) /\ ~ is_black(t, u)
        /\ t.parent \in [Ptr -> Link] /\ t.color \in [Ptr -> {"RED", "BLACK"}]
    BY DEF Tree
  <2> HIDE DEF t, x
  <2>2. p \in Ptr
    BY <2>1 DEF FixStop, IS_NULL, Ptr, Link
  <2>3. ~ IS_NULL(g)
    BY <2>1 DEF uncle_of, sibling_of, is_black, IS_NULL
  <2>4. g \in Node
    BY <2>1, <2>2, <2>3 DEF Link, Ptr, IS_NULL
  <2> DEFINE col == [t.color EXCEPT ![p] = "BLACK", ![g] = "RED", ![u] = "BLACK"]
  <2>5. col \in [Ptr -> {"RED", "BLACK"}]
    <3> HIDE DEF p, g, u
    <3> QED
      BY <2>1
  <2>6. Climbed(t, x) = [root |-> t.root, parent |-> t.parent, left |-> t.left, right |-> t.right,
                         key |-> t.key, color |-> col]
    BY <2>1 DEF Climbed, Tree
  <2>7. Climbed(t, x) \in Tree
    <3> HIDE DEF col
    <3> QED
      BY <2>1, <2>5, <2>6 DEF Tree
  <2> QED
    BY <2>4, <2>7 DEF t, x
<1>2. PICK f : Loops(D, Stop, nx, v, f)
  <2> HIDE DEF D, Stop, nx, v
  <2> QED
    BY <1>1, LoopsExist
<1>3. f = [s \in D |-> IF s \in Stop THEN v[s] ELSE f[nx[s]]]
  BY <1>2 DEF Loops
<1>4. \A s \in D : (IF s \in Stop THEN v[s] ELSE f[nx[s]])
                     = IF FixStop(s.tree, s.at) THEN s.tree
                       ELSE IF is_black(s.tree, uncle_of(s.tree, s.at))
                            THEN Recolored(sbt_rotate(s.tree, s.at))
                       ELSE f[on(s)]
  <2> HIDE DEF on, D
  <2> QED
    OBVIOUS
<1>5. Turns(f)
  <2> HIDE DEF Stop, nx, v, D, on
  <2> QED
    BY <1>3, <1>4
<1>6. Turns(fix)
  <2> HIDE DEF Turns
  <2> QED
    BY <1>5
<1>7. rbt_fix(tree, node) = fix[[tree |-> tree, at |-> node]]
  BY DEF rbt_fix, FixStop, Climbed
<1> HIDE DEF fix
<1>8. ASSUME NEW t \in Tree, NEW x \in Node
      PROVE  fix[[tree |-> t, at |-> x]] =
               IF FixStop(t, x) THEN t
               ELSE IF is_black(t, uncle_of(t, x)) THEN Recolored(sbt_rotate(t, x))
               ELSE fix[[tree |-> Climbed(t, x), at |-> t.parent[t.parent[x]]]]
  <2> DEFINE s == [tree |-> t, at |-> x]
  <2>1. s \in D /\ s.tree = t /\ s.at = x
    OBVIOUS
  <2>2. on(s) = [tree |-> Climbed(t, x), at |-> t.parent[t.parent[x]]]
    BY <2>1
  <2> HIDE DEF s, D, on
  <2>3. fix[s] = IF FixStop(t, x) THEN t
                 ELSE IF is_black(t, uncle_of(t, x)) THEN Recolored(sbt_rotate(t, x))
                 ELSE fix[on(s)]
    BY <1>6, <2>1
  <2> QED
    BY <2>2, <2>3 DEF s
<1> QED
  BY <1>7, <1>8

(* The repair ends with all well.                                                      *)
LEMMA FixFixes ==
  ASSUME NEW t, NEW root, NEW B, NEW K, NEW x, Fixing(t, root, B, K, x)
  PROVE  Fixed(rbt_fix(t, x), B[root], K)
<1>1. t \in Tree /\ x \in Node /\ x \in B[root] /\ Shaped(t, root, B) /\ B[root] \subseteq Node
  BY DEF Fixing, Shaped
<1>2. PICK f : /\ \A s \in Tree, y \in Node :
                    f[[tree |-> s, at |-> y]] =
                      IF FixStop(s, y) THEN s
                      ELSE IF is_black(s, uncle_of(s, y)) THEN Recolored(sbt_rotate(s, y))
                      ELSE f[[tree |-> Climbed(s, y), at |-> s.parent[s.parent[y]]]]
               /\ rbt_fix(t, x) = f[[tree |-> t, at |-> x]]
  BY <1>1, FixLoops
<1> DEFINE Good(y) == \A s : Fixing(s, root, B, K, y) => Fixed(f[[tree |-> s, at |-> y]], B[root], K)
           Bad == {y \in B[root] : ~ Good(y)}
<1>3. Bad = {}
  <2>1. SUFFICES ASSUME Bad # {}
                 PROVE  FALSE
    OBVIOUS
  <2>2. PICK y \in Bad : \A z \in Bad : Cardinality(B[z]) <= Cardinality(B[y])
    <3>1. Bad \subseteq B[root]
      OBVIOUS
    <3> HIDE DEF Bad
    <3> QED
      BY <1>1, <2>1, <3>1, ShapedHighest
  <2>3. y \in B[root] /\ ~ Good(y)
    BY <2>2
  <2>4. PICK s : Fixing(s, root, B, K, y) /\ ~ Fixed(f[[tree |-> s, at |-> y]], B[root], K)
    BY <2>3
  <2>5. s \in Tree /\ y \in Node
    BY <1>1, <2>3, <2>4 DEF Fixing, Shaped
  <2> DEFINE p == s.parent[y]
             u == uncle_of(s, y)
  <2>6. ~ FixStop(s, y)
    <3>1. ASSUME FixStop(s, y)
          PROVE  FALSE
      <4>1. f[[tree |-> s, at |-> y]] = s
        BY <1>2, <2>5, <3>1
      <4>2. Fixed(s, B[root], K)
        BY <2>4, <3>1, FixStops DEF FixStop
      <4> QED
        BY <2>4, <4>1, <4>2
    <3> QED
      BY <3>1
  <2>7. s.color[y] # "BLACK" /\ ~ IS_NULL(p) /\ ~ is_black(s, p)
    BY <2>6 DEF FixStop
  <2>8. PICK g, d, e : Family(s, root, B, y, p, g, d, e)
    BY <2>4, <2>7, FamilyOf
  <2>9. s.color[y] = "RED"
    BY <2>5, <2>7 DEF Tree, Ptr
  <2>10. ~ is_black(s, u)
    <3>1. ASSUME is_black(s, u)
          PROVE  FALSE
      <4>1. f[[tree |-> s, at |-> y]] = Recolored(sbt_rotate(s, y))
        BY <1>2, <2>5, <2>6, <3>1
      <4>2. Fixed(Recolored(sbt_rotate(s, y)), B[root], K)
        BY <2>4, <2>8, <2>9, <3>1, FixRotates
      <4> QED
        BY <2>4, <4>1, <4>2
    <3> QED
      BY <3>1
  <2>11. g = s.parent[s.parent[y]] /\ g \in B[root] /\ Cardinality(B[y]) < Cardinality(B[g])
    BY <2>8 DEF Family
  <2>12. Fixing(Climbed(s, y), root, B, K, g)
    <3>1. Climbed(s, y) = [s EXCEPT !.color = [@ EXCEPT ![p] = "BLACK", ![g] = "RED", ![u] = "BLACK"]]
      BY <2>11 DEF Climbed
    <3> QED
      BY <2>4, <2>8, <2>10, <3>1, FixClimbs
  <2>13. Good(g)
    <3>1. Cardinality(B[y]) \in Nat /\ Cardinality(B[g]) \in Nat
      BY <1>1, <2>3, <2>11, ShapedSides, SidesFacts
    <3>2. g \notin Bad
      <4> HIDE DEF Bad
      <4> QED
        BY <2>2, <2>11, <3>1
    <3> QED
      BY <2>11, <3>2
  <2>14. Fixed(f[[tree |-> Climbed(s, y), at |-> g]], B[root], K)
    BY <2>12, <2>13
  <2>15. f[[tree |-> s, at |-> y]] = f[[tree |-> Climbed(s, y), at |-> g]]
    BY <1>2, <2>5, <2>6, <2>10, <2>11
  <2> QED
    BY <2>4, <2>14, <2>15
<1>4. Good(x)
  BY <1>1, <1>3
<1> QED
  BY <1>2, <1>4

-----------------------------------------------------------------------------
(* Insertion.                                                             *)

LEMMA BlackRootFinishes ==
  ASSUME NEW t, NEW U, NEW K, Fixed(t, U, K), NEW r, r = BlackRoot(t)
  PROVE  SearchTree(r) /\ RedBlack(r) /\ Nodes(r) = U /\ r.key = K
<1> DEFINE top == Top(t)
<1>1. PICK B : Repairs(t, U, K, B)
  BY DEF Fixed
<1>2. /\ Shaped(t, top, B) /\ B[top] = U /\ t.key = K /\ Mild(t, top, U) /\ Even(t, top, U)
  BY <1>1 DEF Repairs
<1>3. /\ t \in Tree /\ top \in U /\ U \subseteq Node
  BY <1>2 DEF Shaped
<1> HIDE DEF top
<1>4. r = [t EXCEPT !.root = top, !.color[top] = "BLACK"]
  BY DEF BlackRoot, top, Top
<1> DEFINE col == [t.color EXCEPT ![top] = "BLACK"]
<1>5. r = [root |-> top, parent |-> t.parent, left |-> t.left, right |-> t.right,
           key |-> t.key, color |-> col]
  BY <1>3, <1>4 DEF Tree
<1>6. U \subseteq Ptr /\ t.color \in [Ptr -> {"RED", "BLACK"}] /\ top \in Ptr /\ top \in Link
  BY <1>3 DEF Tree, Ptr, Link
<1>7. /\ col \in [Ptr -> {"RED", "BLACK"}]
      /\ \A y \in Ptr : col[y] = IF y = top THEN "BLACK" ELSE t.color[y]
  BY <1>6
<1>8. /\ r \in Tree /\ r.root = top /\ r.parent = t.parent /\ r.left = t.left /\ r.right = t.right
      /\ r.key = t.key /\ r.color = col
  <2> HIDE DEF col
  <2> QED
    BY <1>3, <1>5, <1>6, <1>7 DEF Tree
<1> HIDE DEF col
<1>9. Shaped(r, top, B)
  BY <1>2, <1>8, SameShapeFacts DEF SameShape
<1>10. SearchTree(r) /\ Nodes(r) = U
  BY <1>2, <1>8, <1>9, ShapedIsSearchTree
<1>11. Mild(r, top, U)
  <2>1. \A y \in U : y # top => t.parent[y] \in U
    BY <1>2, ShapedParent
  <2> QED
    BY <1>2, <1>6, <1>7, <1>8, <2>1 DEF Mild
<1>12. PICK A, D : Counted(t, top, U, A) /\ Level(t, U, A, D)
  BY <1>2 DEF Even
<1> DEFINE one == IF t.color[top] = "BLACK" THEN 0 ELSE 1
           C == [y \in U |-> A[y] + one]
<1>13. \A y \in U : C[y] = A[y] + one
  OBVIOUS
<1>14. one \in Int /\ one = (IF t.color[top] = "BLACK" THEN 0 ELSE 1)
  OBVIOUS
<1> HIDE DEF C, one
<1>15. \A y \in U : y # top => t.parent[y] \in U
  BY <1>2, ShapedParent
<1>16. Counted(r, top, U, C)
  <2> SUFFICES ASSUME NEW y \in U
               PROVE  /\ C[y] \in Int
                      /\ C[y] = (IF r.color[y] = "BLACK" THEN 1 ELSE 0)
                                + (IF y = top THEN 0 ELSE C[r.parent[y]])
    BY DEF Counted
  <2>1. /\ A[y] \in Int
        /\ A[y] = (IF t.color[y] = "BLACK" THEN 1 ELSE 0)
                  + (IF y = top THEN 0 ELSE A[t.parent[y]])
    BY <1>12 DEF Counted
  <2>2. C[y] = A[y] + one
    BY <1>13
  <2>3. CASE y = top
    <3>1. r.color[y] = "BLACK"
      BY <1>6, <1>7, <1>8, <2>3
    <3> QED
      BY <1>14, <2>1, <2>2, <2>3, <3>1
  <2>4. CASE y # top
    <3>1. r.color[y] = t.color[y] /\ r.parent[y] = t.parent[y]
      BY <1>6, <1>7, <1>8, <2>4
    <3>2. C[t.parent[y]] = A[t.parent[y]] + one /\ A[t.parent[y]] \in Int
      BY <1>12, <1>13, <1>15, <2>4 DEF Counted
    <3> QED
      BY <1>14, <2>1, <2>2, <2>4, <3>1, <3>2
  <2> QED
    BY <2>3, <2>4
<1>17. \E L : Level(r, U, C, L)
  <2>1. Level(r, U, C, D + one)
    BY <1>8, <1>12, <1>13 DEF Level, Sides
  <2> QED
    BY <2>1
<1>18. r.color[top] = "BLACK"
  BY <1>6, <1>7, <1>8
<1>19. RedBlack(r)
  <2>1. r.color[NILNODE] = "BLACK"
    BY <1>2, <1>3, <1>6, <1>7, <1>8, AddressAssumption DEF Even, Ptr
  <2> QED
    BY <1>2, <1>8, <1>9, <1>11, <1>16, <1>17, <1>18, <2>1, RedBlackIs
<1> QED
  BY <1>2, <1>8, <1>10, <1>19

-----------------------------------------------------------------------------
(* Where a new key belongs.                                                       *)

KeySided(t, side, k, y) == IF side = "left" THEN k < t.key[y] ELSE t.key[y] < k

Toward(t, k, y) == IF t.key[y] < k THEN "right" ELSE "left"

(* A key k below y would be in order with everything above y.                              *)
Between(t, U, B, k, y) == \A w \in U : \A s \in Sides : y \in B[t[s][w]] => KeySided(t, s, k, w)

Falls(t, U, B, k, end) ==
  /\ end.at = NILNODE /\ end.above \in U /\ Between(t, U, B, k, end.above)
  /\ t[Toward(t, k, end.above)][end.above] = NILNODE

LEMMA DescentFalls ==
  ASSUME NEW t, NEW root, NEW B, Shaped(t, root, B), t.root = root, NEW k \in Int,
         \A y \in B[root] : t.key[y] # k
  PROVE  Falls(t, B[root], B, k, Descent(t, k))
<1> DEFINE U == B[root]
           st(y, a) == [at |-> y, above |-> a]
<1>1. /\ t \in Tree /\ U \subseteq Node /\ root \in U /\ t.parent[root] = Null
      /\ NILNODE \notin Node /\ Null \notin Node
  BY AddressAssumption DEF Shaped
<1>2. PICK walk : /\ \A s \in [at : Link, above : Link] :
                       walk[s] = IF IS_NULL(s.at) \/ t.key[s.at] = k THEN s
                                 ELSE walk[[at |-> IF t.key[s.at] < k THEN t.right[s.at] ELSE t.left[s.at],
                                            above |-> s.at]]
                  /\ Descent(t, k) = walk[[at |-> t.root, above |-> t.root]]
  BY <1>1, DescentLoops
<1>3. \A y \in U : y \in Link /\ y \in Ptr /\ ~ IS_NULL(y) /\ t.key[y] \in Int
  <2> SUFFICES ASSUME NEW y \in U
               PROVE  y \in Link /\ y \in Ptr /\ ~ IS_NULL(y) /\ t.key[y] \in Int
    OBVIOUS
  <2>1. y \in Node /\ y \in Ptr /\ y \in Link
    BY <1>1 DEF Ptr, Link
  <2> QED
    BY <1>1, <2>1 DEF IS_NULL, Tree
<1>4. ASSUME NEW y \in U, NEW a \in Link
      PROVE  walk[st(y, a)] = walk[st(t[Toward(t, k, y)][y], y)]
  <2>1. st(y, a) \in [at : Link, above : Link] /\ st(y, a).at = y
    BY <1>3
  <2>2. walk[st(y, a)] = walk[st(IF t.key[y] < k THEN t.right[y] ELSE t.left[y], y)]
    BY <1>2, <1>3, <2>1
  <2>3. (IF t.key[y] < k THEN t.right[y] ELSE t.left[y]) = t[Toward(t, k, y)][y]
    BY DEF Toward
  <2> QED
    BY <2>2, <2>3
<1>5. ASSUME NEW a \in Link
      PROVE  walk[st(NILNODE, a)] = st(NILNODE, a)
  <2>1. st(NILNODE, a) \in [at : Link, above : Link] /\ st(NILNODE, a).at = NILNODE /\ IS_NULL(NILNODE)
    BY DEF Link, Ptr, IS_NULL
  <2> HIDE DEF st
  <2> QED
    BY <1>2, <2>1
<1> DEFINE Good(y) == Between(t, U, B, k, y) => \A a \in Link : Falls(t, U, B, k, walk[st(y, a)])
           Bad == {y \in U : ~ Good(y)}
<1>6. Bad = {}
  <2>1. SUFFICES ASSUME Bad # {}
                 PROVE  FALSE
    OBVIOUS
  <2>2. PICK y \in Bad : \A side \in Sides : t[side][y] \notin Bad
    <3>1. Bad \subseteq B[root]
      OBVIOUS
    <3> HIDE DEF Bad
    <3> QED
      BY <2>1, <3>1, ShapedLeast
  <2>3. y \in U /\ ~ Good(y)
    BY <2>2
  <2>4. Between(t, U, B, k, y)
    BY <2>3
  <2> DEFINE d == Toward(t, k, y)
             c == t[d][y]
  <2>5. d \in Sides /\ Sides = {d, Other(d)}
    <3>1. d \in Sides
      BY DEF Toward, Sides
    <3> QED
      BY <3>1, SidesFacts
  <2>6. KeySided(t, d, k, y)
    BY <1>3, <2>3 DEF KeySided, Toward
  <2>7. ASSUME NEW a \in Link
        PROVE  Falls(t, U, B, k, walk[st(y, a)])
    <3>1. walk[st(y, a)] = walk[st(c, y)] /\ y \in Link
      BY <1>3, <1>4, <2>3
    <3>2. CASE c = NILNODE
      <4>1. walk[st(c, y)] = st(NILNODE, y)
        BY <1>5, <3>1, <3>2
      <4>2. st(NILNODE, y).at = NILNODE /\ st(NILNODE, y).above = y
        OBVIOUS
      <4> HIDE DEF st, d, c
      <4> QED
        BY <2>3, <2>4, <3>1, <3>2, <4>1, <4>2 DEF Falls, c, d
    <3>3. CASE c # NILNODE
      <4>1. c \in U /\ t.parent[c] = y /\ c \in B[c]
        BY <2>3, <2>5, <3>3, ShapedSides
      <4>2. Good(c)
        BY <2>2, <2>5, <4>1
      <4>3. Between(t, U, B, k, c)
        <5> SUFFICES ASSUME NEW w \in U, NEW s \in Sides, c \in B[t[s][w]]
                     PROVE  KeySided(t, s, k, w)
          BY DEF Between
        <5>1. t[s][w] \in U
          BY <1>1, ShapedSides
        <5>2. CASE w = y
          <6>1. s = d
            <7>1. c \notin B[t[Other(d)][y]]
              BY <2>3, <2>5, <4>1, ShapedApart
            <7> QED
              BY <2>5, <5>2, <7>1
          <6> QED
            BY <2>6, <5>2, <6>1
        <5>3. CASE w # y
          <6>1. c # t[s][w]
            BY <1>1, <4>1, <5>1, <5>3, ShapedSides
          <6>2. y \in B[t[s][w]]
            BY <4>1, <5>1, <6>1, ShapedBelow
          <6> QED
            BY <2>4, <6>2 DEF Between
        <5> QED
          BY <5>2, <5>3
      <4>4. Falls(t, U, B, k, walk[st(c, y)])
        <5> HIDE DEF st, c
        <5> QED
          BY <3>1, <4>2, <4>3
      <4> QED
        BY <3>1, <4>4
    <3> QED
      BY <3>2, <3>3
  <2> QED
    BY <2>3, <2>7
<1>7. Between(t, U, B, k, root)
  <2> SUFFICES ASSUME NEW w \in U, NEW s \in Sides, root \in B[t[s][w]]
               PROVE  FALSE
    BY DEF Between
  <2>1. t[s][w] \in U /\ t.parent[t[s][w]] = w /\ B[t[s][w]] \subseteq U
    BY <1>1, ShapedSides
  <2>2. root # t[s][w]
    BY <1>1, <2>1
  <2>3. t.parent[root] \in B[t[s][w]]
    BY <2>1, <2>2, ShapedBelow
  <2> QED
    BY <1>1, <2>1, <2>3
<1>8. Falls(t, U, B, k, walk[st(root, root)])
  <2> HIDE DEF st
  <2> QED
    BY <1>1, <1>3, <1>6, <1>7
<1> QED
  BY <1>2, <1>8

(* r differs from t only in nodes outside U and in what the sentinel's parent is.              *)
AgreeOn(t, r, U) ==
  /\ r \in Tree /\ r.left[NILNODE] = Null /\ r.right[NILNODE] = Null /\ r.key[NILNODE] = 0
  /\ r.color[NILNODE] = t.color[NILNODE]
  /\ \A y \in U : /\ r.left[y] = t.left[y] /\ r.right[y] = t.right[y] /\ r.parent[y] = t.parent[y]
                  /\ r.key[y] = t.key[y] /\ r.color[y] = t.color[y]

LEMMA AgreeShapes ==
  ASSUME NEW t, NEW root, NEW B, Shaped(t, root, B), NEW r, AgreeOn(t, r, B[root])
  PROVE  /\ Shaped(r, root, B)
         /\ Mild(t, root, B[root]) => Mild(r, root, B[root])
         /\ Even(t, root, B[root]) => Even(r, root, B[root])
<1> DEFINE U == B[root]
<1>1. \A y \in U : \A s \in Sides : r[s][y] = t[s][y]
  BY DEF AgreeOn, Sides
<1>2. \A y \in U : r.parent[y] = t.parent[y] /\ r.key[y] = t.key[y] /\ r.color[y] = t.color[y]
  BY DEF AgreeOn
<1>3. ASSUME NEW x \in U, NEW s \in Sides
      PROVE  /\ B[x] \subseteq U /\ B[x] = {x} \cup B[r[s][x]] \cup B[r[Other(s)][x]]
             /\ Hangs(r, U, B, x, s)
  <2>1. /\ B[x] \subseteq U /\ B[x] = {x} \cup B[t[s][x]] \cup B[t[Other(s)][x]]
        /\ Hangs(t, U, B, x, s)
    BY DEF Shaped
  <2>2. r[s][x] = t[s][x] /\ r[Other(s)][x] = t[Other(s)][x]
    BY <1>1, SidesFacts
  <2>3. B[t[s][x]] \subseteq U
    BY ShapedSides
  <2>4. t[s][x] \in U \cup {NILNODE}
    BY ShapedSides
  <2> QED
    BY <1>2, <2>1, <2>2, <2>3, <2>4 DEF Hangs, Sided
<1>4. U \subseteq Node /\ root \in U /\ t.parent[root] = Null /\ B[NILNODE] = {}
  BY DEF Shaped
<1>5. Shaped(r, root, B)
  BY <1>2, <1>3, <1>4 DEF Shaped, AgreeOn
<1>6. \A y \in U : y # root => t.parent[y] \in U
  BY ShapedParent
<1>7. Mild(t, root, U) => Mild(r, root, U)
  BY <1>2, <1>6 DEF Mild
<1>8. Even(t, root, U) => Even(r, root, U)
  <2> SUFFICES ASSUME NEW A, NEW D, Counted(t, root, U, A), Level(t, U, A, D)
               PROVE  Counted(r, root, U, A) /\ Level(r, U, A, D)
    BY DEF Even, AgreeOn
  <2>1. Counted(r, root, U, A)
    BY <1>2 DEF Counted
  <2>2. Level(r, U, A, D)
    BY <1>1 DEF Level
  <2> QED
    BY <2>1, <2>2
<1> QED
  BY <1>5, <1>7, <1>8

(* x as a red leaf below a.                                                           *)
Leaf(t, r, x, a, side, k) ==
  /\ r \in Tree /\ r.left[x] = NILNODE /\ r.right[x] = NILNODE /\ r.parent[x] = a /\ r.key[x] = k
  /\ r.color[x] = "RED" /\ r.color = t.color /\ r.key = t.key
  /\ \A y \in Ptr : /\ r[side][y] = IF y = a THEN x ELSE t[side][y]
                    /\ r[Other(side)][y] = t[Other(side)][y]
                    /\ y # x => r.parent[y] = t.parent[y]

LeafBelow(B, x, a) == [y \in Ptr |-> IF y = x THEN {x} ELSE IF a \in B[y] THEN B[y] \cup {x} ELSE B[y]]

LEMMA LeafIsShaped ==
  ASSUME NEW t, NEW root, NEW B, Shaped(t, root, B), NEW x \in Node, x \notin B[root],
         NEW k \in Int, NEW a \in B[root], NEW side, side = Toward(t, k, a),
         t[side][a] = NILNODE, Between(t, B[root], B, k, a), t.key[a] # k,
         NEW r, Leaf(t, r, x, a, side, k)
  PROVE  Shaped(r, root, LeafBelow(B, x, a)) /\ LeafBelow(B, x, a)[root] = B[root] \cup {x}
<1> DEFINE U == B[root]
           V == U \cup {x}
           E == LeafBelow(B, x, a)
           o == Other(side)
<1>1. /\ t \in Tree /\ t.left[NILNODE] = Null /\ t.right[NILNODE] = Null /\ t.key[NILNODE] = 0
      /\ U \subseteq Node /\ root \in U /\ t.parent[root] = Null /\ B[NILNODE] = {}
      /\ NILNODE \notin Node /\ Null \notin Node /\ NILNODE \in Ptr /\ U \subseteq Ptr /\ x \in Ptr
  BY AddressAssumption DEF Shaped, Ptr
<1>2. side \in Sides /\ o \in Sides /\ Sides = {side, o} /\ side # o /\ Other(o) = side
  <2>1. side \in Sides
    BY DEF Toward, Sides
  <2> QED
    BY <2>1, SidesFacts
<1>3. /\ r \in Tree /\ r.left[x] = NILNODE /\ r.right[x] = NILNODE /\ r.parent[x] = a /\ r.key[x] = k
      /\ r.key = t.key
      /\ \A y \in Ptr : /\ r[side][y] = IF y = a THEN x ELSE t[side][y]
                        /\ r[o][y] = t[o][y]
                        /\ y # x => r.parent[y] = t.parent[y]
  BY DEF Leaf
<1>4. \A y \in Ptr : E[y] = IF y = x THEN {x} ELSE IF a \in B[y] THEN B[y] \cup {x} ELSE B[y]
  BY DEF LeafBelow
<1>5. KeySided(t, side, k, a)
  <2>1. t.key[a] \in Int
    BY <1>1 DEF Tree
  <2> QED
    BY <2>1 DEF KeySided, Toward
<1>6. \A s \in Sides : \A y \in Ptr : KeySided(t, s, k, y) => Sided(r, s, x, y)
  <2> SUFFICES ASSUME NEW s \in Sides, NEW y \in Ptr, KeySided(t, s, k, y)
               PROVE  Sided(r, s, x, y)
    OBVIOUS
  <2>1. t.key[y] \in Int
    BY <1>1 DEF Tree
  <2> QED
    BY <1>3, <2>1 DEF KeySided, Sided
<1>7. \A s \in Sides : \A y, z : Sided(t, s, y, z) => Sided(r, s, y, z)
  BY <1>3 DEF Sided
<1> HIDE DEF E, o
<1>8. E[root] = V /\ E[NILNODE] = {} /\ E[x] = {x} /\ a \in Ptr /\ a # x
  BY <1>1, <1>4
<1>9. r.left[NILNODE] = Null /\ r.right[NILNODE] = Null /\ r.key[NILNODE] = 0 /\ r.parent[root] = Null
  <2>1. \A s \in Sides : r[s][NILNODE] = t[s][NILNODE]
    BY <1>1, <1>2, <1>3
  <2> QED
    BY <1>1, <1>3, <2>1 DEF Sides
<1>10. ASSUME NEW s \in Sides
       PROVE  /\ E[x] \subseteq V /\ E[x] = {x} \cup E[r[s][x]] \cup E[r[Other(s)][x]]
              /\ Hangs(r, V, E, x, s)
  <2>1. r[s][x] = NILNODE /\ r[Other(s)][x] = NILNODE
    BY <1>3 DEF Sides, Other
  <2> QED
    BY <1>8, <2>1 DEF Hangs
<1>11. ASSUME NEW y \in U, NEW s \in Sides
       PROVE  /\ E[r[s][y]] = IF y = a /\ s = side THEN {x}
                              ELSE IF a \in B[t[s][y]] THEN B[t[s][y]] \cup {x} ELSE B[t[s][y]]
              /\ Hangs(r, V, E, y, s)
  <2> DEFINE e == t[s][y]
  <2>1. /\ e \in U \cup {NILNODE} /\ (e # NILNODE => t.parent[e] = y)
        /\ \A z \in B[e] : Sided(t, s, z, y)
        /\ B[e] \subseteq U /\ e \in Ptr
    BY ShapedSides
  <2>2. y \in Ptr /\ y # x /\ e # x
    BY <1>1, <2>1
  <2>3. CASE y = a /\ s = side
    <3>1. r[s][y] = x
      BY <1>3, <1>8, <2>3
    <3>2. Sided(r, s, x, y)
      BY <1>5, <1>6, <1>8, <2>3
    <3> QED
      BY <1>3, <1>8, <2>3, <3>1, <3>2 DEF Hangs
  <2>4. CASE ~ (y = a /\ s = side)
    <3>1. r[s][y] = e
      BY <1>2, <1>3, <2>2, <2>4
    <3>2. E[e] = IF a \in B[e] THEN B[e] \cup {x} ELSE B[e]
      BY <1>4, <2>1, <2>2
    <3>3. e # NILNODE => r.parent[e] = y
      BY <1>3, <2>1, <2>2
    <3>4. \A z \in E[e] : Sided(r, s, z, y)
      <4>1. a \in B[e] => Sided(r, s, x, y)
        BY <1>6, <2>2 DEF Between
      <4> HIDE DEF e
      <4> QED
        BY <1>7, <2>1, <3>2, <4>1
    <3> HIDE DEF e
    <3>5. Hangs(r, V, E, y, s)
      BY <2>1, <3>1, <3>3, <3>4 DEF Hangs
    <3> QED
      BY <2>4, <3>1, <3>2, <3>5 DEF e
  <2> QED
    BY <2>3, <2>4
<1>12. ASSUME NEW y \in U
       PROVE  E[y] \subseteq V /\ E[y] = {y} \cup E[r[side][y]] \cup E[r[o][y]]
  <2>1. B[y] \subseteq U /\ B[y] = {y} \cup B[t[side][y]] \cup B[t[o][y]]
    BY <1>2 DEF Shaped, o
  <2>2. E[y] = IF a \in B[y] THEN B[y] \cup {x} ELSE B[y]
    BY <1>1, <1>4
  <2>3. /\ E[r[side][y]] = IF y = a THEN {x}
                           ELSE IF a \in B[t[side][y]] THEN B[t[side][y]] \cup {x} ELSE B[t[side][y]]
        /\ E[r[o][y]] = IF a \in B[t[o][y]] THEN B[t[o][y]] \cup {x} ELSE B[t[o][y]]
    BY <1>2, <1>11
  <2>4. B[t[side][a]] = {}
    BY <1>1
  <2> HIDE DEF U
  <2> QED
    BY <2>1, <2>2, <2>3, <2>4 
<1>13. ASSUME NEW y \in V, NEW s \in Sides
       PROVE  /\ E[y] \subseteq V /\ E[y] = {y} \cup E[r[s][y]] \cup E[r[Other(s)][y]]
              /\ Hangs(r, V, E, y, s)
  <2>1. CASE y = x
    BY <1>10, <2>1
  <2>2. CASE y \in U
    <3>1. Other(side) = o
      BY DEF o
    <3> HIDE DEF U
    <3>2. E[y] = {y} \cup E[r[s][y]] \cup E[r[Other(s)][y]]
      BY <1>2, <1>12, <2>2, <3>1
    <3> QED
      BY <1>11, <1>12, <2>2, <3>2
  <2> QED
    BY <2>1, <2>2
<1>14. V \subseteq Node /\ root \in V
  BY <1>1
<1> HIDE DEF U, V
<1>15. Shaped(r, root, E)
  BY <1>3, <1>8, <1>9, <1>13, <1>14 DEF Shaped
<1> QED
  BY <1>8, <1>15 DEF E, U, V

LEMMA LeafIsEven ==
  ASSUME NEW t, NEW root, NEW B, Shaped(t, root, B), NEW x \in Node, x \notin B[root],
         NEW a \in B[root], NEW side \in Sides, t[side][a] = NILNODE, NEW k,
         NEW r, Leaf(t, r, x, a, side, k), Even(t, root, B[root]), Mild(t, root, B[root])
  PROVE  Even(r, root, B[root] \cup {x}) /\ Mild(r, root, (B[root] \cup {x}) \ {x})
<1> DEFINE U == B[root]
<1>1. U \subseteq Node /\ U \subseteq Ptr /\ NILNODE \notin Node /\ root \in U /\ x \in Ptr
  BY AddressAssumption DEF Shaped, Ptr
<1>2. \A y \in U : y # root => t.parent[y] \in U
  BY ShapedParent
<1>3. /\ r.color[x] = "RED" /\ r.color = t.color /\ r.parent[x] = a
      /\ \A y \in Ptr : /\ r[side][y] = IF y = a THEN x ELSE t[side][y]
                        /\ r[Other(side)][y] = t[Other(side)][y]
                        /\ y # x => r.parent[y] = t.parent[y]
  BY DEF Leaf
<1>4. Mild(r, root, (U \cup {x}) \ {x})
  BY <1>1, <1>2, <1>3 DEF Mild
<1>5. PICK A, D : Counted(t, root, U, A) /\ Level(t, U, A, D)
  BY DEF Even
<1> DEFINE C == [y \in U \cup {x} |-> IF y = x THEN A[a] ELSE A[y]]
<1>6. C[x] = A[a] /\ \A y \in U : C[y] = A[y]
  OBVIOUS
<1> HIDE DEF C
<1>7. \A y \in U : /\ A[y] \in Int
                   /\ A[y] = (IF t.color[y] = "BLACK" THEN 1 ELSE 0)
                             + (IF y = root THEN 0 ELSE A[t.parent[y]])
  BY <1>5 DEF Counted
<1>8. Counted(r, root, U \cup {x}, C)
  <2> SUFFICES ASSUME NEW y \in U \cup {x}
               PROVE  /\ C[y] \in Int
                      /\ C[y] = (IF r.color[y] = "BLACK" THEN 1 ELSE 0)
                                + (IF y = root THEN 0 ELSE C[r.parent[y]])
    BY DEF Counted
  <2>1. CASE y = x
    <3>1. y # root /\ r.color[y] # "BLACK" /\ C[r.parent[y]] = A[a] /\ C[y] = A[a] /\ A[a] \in Int
      BY <1>1, <1>3, <1>6, <1>7, <2>1
    <3> QED
      BY <3>1
  <2>2. CASE y \in U
    <3>1. y # x
      BY <2>2
    <3>2. r.color[y] = t.color[y] /\ r.parent[y] = t.parent[y] /\ C[y] = A[y]
      BY <1>1, <1>3, <1>6, <2>2, <3>1
    <3>3. y # root => C[t.parent[y]] = A[t.parent[y]]
      BY <1>2, <1>6, <2>2
    <3> QED
      BY <1>7, <2>2, <3>2, <3>3
  <2> QED
    BY <2>1, <2>2
<1>9. A[a] = D
  BY <1>5 DEF Level
<1>10. Level(r, U \cup {x}, C, D)
  <2> SUFFICES ASSUME NEW y \in U \cup {x}, NEW s \in Sides, r[s][y] = NILNODE
               PROVE  C[y] = D
    BY DEF Level
  <2>1. CASE y = x
    BY <1>6, <1>9, <2>1
  <2>2. CASE y \in U
    <3>1. s = side \/ s = Other(side)
      BY SidesFacts
    <3>2. y = a \/ t[s][y] = NILNODE
      BY <1>1, <1>3, <2>2, <3>1
    <3> QED
      BY <1>5, <1>6, <1>9, <2>2, <3>2 DEF Level
  <2> QED
    BY <2>1, <2>2
<1> QED
  BY <1>3, <1>4, <1>8, <1>10 DEF Even

(* A node put where the search for its key fell off is the only thing to repair.              *)
Inserted(t, x, r, U) == \E root, B : Fixing(r, root, B, t.key, x) /\ B[root] = U

LEMMA InsertHangs ==
  ASSUME NEW t, NEW B, Shaped(t, t.root, B), Even(t, t.root, B[t.root]), Mild(t, t.root, B[t.root]),
         t.color[t.root] = "BLACK",
         NEW x \in Node, x \notin B[t.root], t.left[x] = NILNODE, t.right[x] = NILNODE, t.color[x] = "RED",
         \A y \in B[t.root] : t.key[y] # t.key[x]
  PROVE  Inserted(t, x, sbt_insert(t, x), B[t.root] \cup {x})
<1> DEFINE root == t.root
           k == t.key[x]
           end == Descent(t, k)
           a == end.above
           side == Toward(t, k, a)
           r == sbt_insert(t, x)
<1>1. /\ t \in Tree /\ B[root] \subseteq Node /\ root \in B[root] /\ x \in Ptr /\ B[root] \subseteq Ptr
      /\ NILNODE \notin Node /\ Null \notin Node
  BY AddressAssumption DEF Shaped, Ptr
<1>2. k \in Int /\ ~ IS_NULL(root)
  BY <1>1 DEF Tree, IS_NULL
<1>3. Falls(t, B[root], B, k, end)
  BY <1>2, DescentFalls
<1>4. a \in B[root] /\ Between(t, B[root], B, k, a) /\ t[side][a] = NILNODE /\ t.key[a] # k
  BY <1>3 DEF Falls
<1>5. r = [[t EXCEPT !.parent[x] = a] EXCEPT ![side][a] = x]
  BY <1>2 DEF sbt_insert, Toward
<1> HIDE DEF r, a, end
<1> DEFINE par == [t.parent EXCEPT ![x] = a]
<1>6. /\ t.parent \in [Ptr -> Link] /\ t.left \in [Ptr -> Link] /\ t.right \in [Ptr -> Link]
      /\ t.key \in [Ptr -> Int] /\ t.color \in [Ptr -> {"RED", "BLACK"}] /\ t.root \in Link
      /\ t = [root |-> t.root, parent |-> t.parent, left |-> t.left, right |-> t.right,
              key |-> t.key, color |-> t.color]
      /\ a \in Ptr /\ a \in Link /\ x \in Link /\ a # x
  BY <1>1, <1>4 DEF Tree, Link, Ptr
<1>7. par \in [Ptr -> Link] /\ par[x] = a /\ \A y \in Ptr : y # x => par[y] = t.parent[y]
  BY <1>1, <1>6
<1>8. Leaf(t, r, x, a, side, k) /\ r.root = root
  <2>1. CASE side = "left"
    <3> DEFINE down == [t.left EXCEPT ![a] = x]
    <3>1. r = [[t EXCEPT !.parent[x] = a] EXCEPT !["left"][a] = x]
      BY <1>5, <2>1
    <3>2. r = [root |-> t.root, parent |-> par, left |-> down, right |-> t.right,
               key |-> t.key, color |-> t.color]
      BY <1>6, <3>1
    <3>3. down \in [Ptr -> Link] /\ \A y \in Ptr : down[y] = IF y = a THEN x ELSE t.left[y]
      BY <1>6
    <3>4. down[x] = NILNODE
      BY <1>1, <1>6, <3>3
    <3> HIDE DEF down, par, side, k
    <3>5. /\ r \in Tree /\ r.left = down /\ r.right = t.right /\ r.parent = par /\ r.key = t.key
          /\ r.color = t.color /\ r.root = root
      BY <1>6, <1>7, <3>2, <3>3 DEF Tree
    <3> QED
      BY <1>1, <1>6, <1>7, <2>1, <3>3, <3>4, <3>5 DEF Leaf, Other, k
  <2>2. CASE side = "right"
    <3> DEFINE down == [t.right EXCEPT ![a] = x]
    <3>1. r = [[t EXCEPT !.parent[x] = a] EXCEPT !["right"][a] = x]
      BY <1>5, <2>2
    <3>2. r = [root |-> t.root, parent |-> par, left |-> t.left, right |-> down,
               key |-> t.key, color |-> t.color]
      BY <1>6, <3>1
    <3>3. down \in [Ptr -> Link] /\ \A y \in Ptr : down[y] = IF y = a THEN x ELSE t.right[y]
      BY <1>6
    <3>4. down[x] = NILNODE
      BY <1>1, <1>6, <3>3
    <3> HIDE DEF down, par, side, k
    <3>5. /\ r \in Tree /\ r.right = down /\ r.left = t.left /\ r.parent = par /\ r.key = t.key
          /\ r.color = t.color /\ r.root = root
      BY <1>6, <1>7, <3>2, <3>3 DEF Tree
    <3> QED
      BY <1>1, <1>6, <1>7, <2>2, <3>3, <3>4, <3>5 DEF Leaf, Other, k
  <2> QED
    BY <2>1, <2>2 DEF Toward
<1> DEFINE E == LeafBelow(B, x, a)
<1>9. Shaped(r, root, E) /\ E[root] = B[root] \cup {x}
  BY <1>2, <1>4, <1>8, LeafIsShaped
<1>10. side \in Sides
  BY DEF Toward, Sides
<1>11. Even(r, root, B[root] \cup {x}) /\ Mild(r, root, (B[root] \cup {x}) \ {x})
  BY <1>4, <1>8, <1>10, LeafIsEven
<1>12. r.color[root] = "BLACK" /\ r.key = t.key
  BY <1>8 DEF Leaf
<1> HIDE DEF E
<1>13. Fixing(r, root, E, t.key, x)
  BY <1>8, <1>9, <1>11, <1>12 DEF Fixing
<1> HIDE DEF root
<1>14. Inserted(t, x, r, B[root] \cup {x})
  BY <1>9, <1>13 DEF Inserted
<1> QED
  BY <1>14 DEF r, root

(* The first node.                                                                 *)
LEMMA InsertBegins ==
  ASSUME NEW t \in Tree, t.left[NILNODE] = Null, t.right[NILNODE] = Null, t.key[NILNODE] = 0,
         t.color[NILNODE] = "BLACK", t.root = Null, NEW x \in Node, t.left[x] = NILNODE, t.right[x] = NILNODE, t.color[x] = "RED"
  PROVE  Inserted(t, x, sbt_insert(t, x), {x})
<1> DEFINE k == t.key[x]
           st == [at |-> t.root, above |-> t.root]
           r == sbt_insert(t, x)
           B == [y \in Ptr |-> IF y = x THEN {x} ELSE {}]
           par == [t.parent EXCEPT ![x] = Null]
<1>1. x \in Ptr /\ x \in Link /\ NILNODE \in Ptr /\ x # NILNODE /\ k \in Int
  BY AddressAssumption DEF Ptr, Link, Tree
<1>2. st \in [at : Link, above : Link] /\ IS_NULL(st.at) /\ st.above = Null
  BY DEF Link, IS_NULL
<1>3. PICK f : /\ \A s \in [at : Link, above : Link] :
                    f[s] = IF IS_NULL(s.at) \/ t.key[s.at] = k THEN s
                           ELSE f[[at |-> IF t.key[s.at] < k THEN t.right[s.at] ELSE t.left[s.at],
                                   above |-> s.at]]
               /\ Descent(t, k) = f[[at |-> t.root, above |-> t.root]]
  BY <1>1, DescentLoops
<1>4. Descent(t, k) = st
  BY <1>2, <1>3
<1>5. Descent(t, k).above = Null
  BY <1>2, <1>4
<1>6. r = [[t EXCEPT !.parent[x] = Null] EXCEPT !.root = x]
  BY <1>5 DEF sbt_insert, IS_NULL
<1>7. /\ t.parent \in [Ptr -> Link] /\ t.left \in [Ptr -> Link] /\ t.right \in [Ptr -> Link]
      /\ t.key \in [Ptr -> Int] /\ t.color \in [Ptr -> {"RED", "BLACK"}]
      /\ Null \in Link
  BY DEF Tree, Link
<1>8. r = [root |-> x, parent |-> par, left |-> t.left, right |-> t.right, key |-> t.key, color |-> t.color]
  BY <1>6 DEF Tree
<1>9. par \in [Ptr -> Link] /\ par[x] = Null
  BY <1>1, <1>7
<1> HIDE DEF par, r
<1>10. /\ r \in Tree /\ r.root = x /\ r.parent[x] = Null /\ r.left = t.left /\ r.right = t.right
       /\ r.key = t.key /\ r.color = t.color
  BY <1>1, <1>7, <1>8, <1>9 DEF Tree
<1>11. B[x] = {x} /\ B[NILNODE] = {} /\ \A s \in Sides : r[s][x] = NILNODE
  BY <1>1, <1>10 DEF Sides
<1> HIDE DEF B
<1>12. Shaped(r, x, B)
  <2>1. ASSUME NEW s \in Sides
        PROVE  B[x] = {x} \cup B[r[s][x]] \cup B[r[Other(s)][x]] /\ Hangs(r, B[x], B, x, s)
    <3>1. r[s][x] = NILNODE /\ r[Other(s)][x] = NILNODE
      BY <1>11, SidesFacts
    <3> QED
      BY <1>11, <3>1 DEF Hangs
  <2> QED
    BY <1>10, <1>11, <2>1 DEF Shaped
<1>13. Even(r, x, {x})
  <2> DEFINE A == [y \in {x} |-> 0]
  <2>1. A[x] = 0 /\ r.color[x] # "BLACK"
    BY <1>10
  <2> HIDE DEF A
  <2>2. Counted(r, x, {x}, A) /\ Level(r, {x}, A, 0)
    BY <2>1 DEF Counted, Level
  <2> QED
    BY <1>10, <2>2 DEF Even
<1>14. Mild(r, x, {x} \ {x})
  BY DEF Mild
<1>15. Fixing(r, x, B, t.key, x)
  BY <1>10, <1>11, <1>12, <1>13, <1>14 DEF Fixing
<1>16. Inserted(t, x, r, {x})
  BY <1>11, <1>15 DEF Inserted
<1> QED
  BY <1>16 DEF r

LEMMA InsertedIsSound ==
  ASSUME NEW t, NEW x, NEW U, Inserted(t, x, sbt_insert(t, x), U), NEW r, r = rbt_insert(t, x)
  PROVE  SearchTree(r) /\ RedBlack(r) /\ Nodes(r) = U /\ r.key = t.key
<1>1. PICK root, B : Fixing(sbt_insert(t, x), root, B, t.key, x) /\ B[root] = U
  BY DEF Inserted
<1>2. Fixed(rbt_fix(sbt_insert(t, x), x), B[root], t.key)
  BY <1>1, FixFixes
<1>3. r = BlackRoot(rbt_fix(sbt_insert(t, x), x))
  BY DEF rbt_insert
<1> QED
  BY <1>1, <1>2, <1>3, BlackRootFinishes

LEMMA NewNodeFields ==
  ASSUME NEW t \in Tree, NEW x \in Node, NEW k \in Int, NEW n, n = NewNode(t, x, k)
  PROVE  /\ n \in Tree /\ n.root = t.root /\ n.left[x] = NILNODE /\ n.right[x] = NILNODE
         /\ n.key[x] = k /\ n.color[x] = "RED" /\ n.key = [t.key EXCEPT ![x] = k]
         /\ \A y \in Ptr : y # x =>
              /\ n.left[y] = t.left[y] /\ n.right[y] = t.right[y] /\ n.parent[y] = t.parent[y]
              /\ n.key[y] = t.key[y] /\ n.color[y] = t.color[y]
<1> DEFINE par == [t.parent EXCEPT ![x] = Null]
           lf == [t.left EXCEPT ![x] = NILNODE]
           rg == [t.right EXCEPT ![x] = NILNODE]
           ks == [t.key EXCEPT ![x] = k]
           cs == [t.color EXCEPT ![x] = "RED"]
<1>1. /\ t.parent \in [Ptr -> Link] /\ t.left \in [Ptr -> Link] /\ t.right \in [Ptr -> Link]
      /\ t.key \in [Ptr -> Int] /\ t.color \in [Ptr -> {"RED", "BLACK"}] /\ t.root \in Link
      /\ x \in Ptr /\ Null \in Link /\ NILNODE \in Link
  BY DEF Tree, Link, Ptr
<1>2. n = [root |-> t.root, parent |-> par, left |-> lf, right |-> rg, key |-> ks, color |-> cs]
  BY DEF NewNode, Tree
<1>3. /\ par \in [Ptr -> Link] /\ lf \in [Ptr -> Link] /\ rg \in [Ptr -> Link]
      /\ ks \in [Ptr -> Int] /\ cs \in [Ptr -> {"RED", "BLACK"}]
  BY <1>1
<1>4. lf[x] = NILNODE /\ rg[x] = NILNODE /\ ks[x] = k /\ cs[x] = "RED"
  BY <1>1
<1>5. \A y \in Ptr : y # x => /\ lf[y] = t.left[y] /\ rg[y] = t.right[y] /\ par[y] = t.parent[y]
                              /\ ks[y] = t.key[y] /\ cs[y] = t.color[y]
  BY <1>1
<1>6. ks = [t.key EXCEPT ![x] = k]
  OBVIOUS
<1> HIDE DEF par, lf, rg, ks, cs
<1>7. n \in Tree
  BY <1>1, <1>2, <1>3 DEF Tree
<1> QED
  BY <1>2, <1>4, <1>5, <1>6, <1>7

LEMMA NoRootNoNodes ==
  ASSUME NEW t \in Tree, t.root = Null
  PROVE  Nodes(t) = {}
<1>1. {t.root} \cap Node = {}
  BY AddressAssumption
<1>2. IsLeast(t, {}, Nodes(t))
  BY <1>1, UnderIsLeast DEF Nodes
<1>3. Whole(t, {}) /\ {} \in SUBSET Node /\ {} \subseteq {}
  BY DEF Whole
<1> QED
  BY <1>2, <1>3 DEF IsLeast

LEMMA RedBlackMeans ==
  ASSUME NEW t, NEW B, Shaped(t, t.root, B), RedBlack(t)
  PROVE  Even(t, t.root, B[t.root]) /\ Mild(t, t.root, B[t.root]) /\ t.color[t.root] = "BLACK"
<1>1. PICK A : Counted(t, t.root, B[t.root], A)
  BY CountExists
<1>2. /\ t.color[t.root] = "BLACK" /\ t.color[NILNODE] = "BLACK" /\ Mild(t, t.root, B[t.root])
      /\ \E D : Level(t, B[t.root], A, D)
  BY <1>1, RedBlackIs
<1> QED
  BY <1>1, <1>2 DEF Even

(* rbt_insert of a new node into a red-black tree of any size.                              *)
LEMMA InsertIsSound ==
  ASSUME NEW t, SearchTree(t), RedBlack(t), NEW x \in Node, x \notin Nodes(t), NEW k \in Int,
         ~ Refuses(t, k), NEW r, r = rbt_insert(NewNode(t, x, k), x)
  PROVE  SearchTree(r) /\ RedBlack(r) /\ Nodes(r) = Nodes(t) \cup {x} /\ r.key = [t.key EXCEPT ![x] = k]
<1> DEFINE n == NewNode(t, x, k)
<1>1. /\ t \in Tree /\ t.left[NILNODE] = Null /\ t.right[NILNODE] = Null /\ t.key[NILNODE] = 0
      /\ NILNODE \in Ptr /\ NILNODE # x
  BY AddressAssumption DEF SearchTree, Ptr
<1>2. /\ n \in Tree /\ n.root = t.root /\ n.left[x] = NILNODE /\ n.right[x] = NILNODE
      /\ n.key[x] = k /\ n.color[x] = "RED" /\ n.key = [t.key EXCEPT ![x] = k]
      /\ \A y \in Ptr : y # x =>
           /\ n.left[y] = t.left[y] /\ n.right[y] = t.right[y] /\ n.parent[y] = t.parent[y]
           /\ n.key[y] = t.key[y] /\ n.color[y] = t.color[y]
  BY <1>1, NewNodeFields
<1>3. n.left[NILNODE] = Null /\ n.right[NILNODE] = Null /\ n.key[NILNODE] = 0
      /\ n.color[NILNODE] = t.color[NILNODE] /\ t.color[NILNODE] = "BLACK"
  BY <1>1, <1>2 DEF RedBlack
<1> HIDE DEF n
<1>4. Inserted(n, x, sbt_insert(n, x), Nodes(t) \cup {x})
  <2>1. CASE t.root = Null
    <3>1. Nodes(t) = {}
      BY <1>1, <2>1, NoRootNoNodes
    <3>2. Inserted(n, x, sbt_insert(n, x), {x})
      BY <1>2, <1>3, <2>1, InsertBegins
    <3> QED
      BY <3>1, <3>2
  <2>2. CASE t.root # Null
    <3> DEFINE B == Below(t)
               U == B[t.root]
    <3>1. Shaped(t, t.root, B)
      BY <2>2, SearchTreeIsShaped
    <3>2. U = Nodes(t)
      BY <3>1, ShapedIsSearchTree
    <3> HIDE DEF B
    <3>3. Even(t, t.root, U) /\ Mild(t, t.root, U) /\ t.color[t.root] = "BLACK" 
      BY <3>1, RedBlackMeans
    <3>4. U \subseteq Ptr /\ x \notin U /\ t.root \in U
      BY <3>1, <3>2 DEF Shaped, Ptr
    <3>5. AgreeOn(t, n, U)
      BY <1>2, <1>3, <3>4 DEF AgreeOn
    <3>6. Shaped(n, t.root, B) /\ Mild(n, t.root, U) /\ Even(n, t.root, U)
      BY <3>1, <3>3, <3>5, AgreeShapes
    <3>7. \A y \in U : n.key[y] # n.key[x]
      <4> DEFINE at == Descent(t, k).at
      <4>1. \/ at \in Nodes(t) /\ t.key[at] = k
            \/ at = NILNODE /\ \A y \in Nodes(t) : t.key[y] # k
        BY <2>2, DescentEnds
      <4>2. ~ (at # Null /\ t.key[at] = k)
        BY DEF Refuses
      <4>3. Null \notin Nodes(t)
        BY <3>1, <3>2, AddressAssumption DEF Shaped
      <4> HIDE DEF at
      <4>4. \A y \in U : t.key[y] # k
        BY <3>2, <4>1, <4>2, <4>3
      <4> QED
        BY <1>2, <3>4, <4>4
    <3>8. n.color[n.root] = "BLACK"
      BY <1>2, <3>3, <3>4
    <3>9. Inserted(n, x, sbt_insert(n, x), U \cup {x})
      <4> HIDE DEF U
      <4>1. Shaped(n, n.root, B) /\ Even(n, n.root, B[n.root]) /\ Mild(n, n.root, B[n.root]) /\ B[n.root] = U
        BY <1>2, <3>6 DEF U
      <4>2. x \notin B[n.root] /\ \A y \in B[n.root] : n.key[y] # n.key[x]
        BY <3>4, <3>7, <4>1
      <4>3. Inserted(n, x, sbt_insert(n, x), B[n.root] \cup {x})
        BY <1>2, <3>8, <4>1, <4>2, InsertHangs
      <4> QED
        BY <4>1, <4>3
    <3> QED
      BY <3>2, <3>9
  <2> QED
    BY <2>1, <2>2
<1>5. r = rbt_insert(n, x)
  BY DEF n
<1>6. SearchTree(r) /\ RedBlack(r) /\ Nodes(r) = Nodes(t) \cup {x} /\ r.key = n.key
  BY <1>4, <1>5, InsertedIsSound
<1> QED
  BY <1>2, <1>6

(* What other trees leave in NILNODE's parent makes no difference.                          *)
Lent(t, p) == [t EXCEPT !.parent[NILNODE] = p]

LEMMA SentinelParentIsFree ==
  ASSUME NEW t, SearchTree(t), RedBlack(t), NEW p \in Link, NEW r, r = Lent(t, p)
  PROVE  SearchTree(r) /\ RedBlack(r) /\ Nodes(r) = Nodes(t) /\ r.key = t.key
<1> DEFINE par == [t.parent EXCEPT ![NILNODE] = p]
<1>1. /\ t \in Tree /\ t.left[NILNODE] = Null /\ t.right[NILNODE] = Null /\ t.key[NILNODE] = 0
  BY DEF SearchTree
<1>2. /\ t.parent \in [Ptr -> Link] /\ t.left \in [Ptr -> Link] /\ t.right \in [Ptr -> Link]
      /\ t.key \in [Ptr -> Int] /\ t.color \in [Ptr -> {"RED", "BLACK"}] /\ t.root \in Link
      /\ NILNODE \in Ptr
  BY <1>1 DEF Tree, Ptr
<1>3. r = [root |-> t.root, parent |-> par, left |-> t.left, right |-> t.right, key |-> t.key, color |-> t.color]
  BY <1>1 DEF Tree, Lent
<1>4. par \in [Ptr -> Link] /\ \A y \in Ptr : y # NILNODE => par[y] = t.parent[y]
  BY <1>2
<1> HIDE DEF par
<1>5. /\ r \in Tree /\ r.root = t.root /\ r.left = t.left /\ r.right = t.right /\ r.key = t.key
      /\ r.color = t.color /\ \A y \in Ptr : y # NILNODE => r.parent[y] = t.parent[y]
  <2>1. /\ r.root = t.root /\ r.left = t.left /\ r.right = t.right /\ r.key = t.key
        /\ r.color = t.color /\ r.parent = par
    BY <1>3
  <2>2. r \in Tree
    BY <1>2, <1>3, <1>4 DEF Tree
  <2> QED
    BY <1>4, <2>1, <2>2
<1>6. CASE t.root = Null
  <2> t.color[NILNODE] = "BLACK"
    BY DEF RedBlack
  <2>1. Nodes(t) = {} /\ Nodes(r) = {}
    BY <1>1, <1>5, <1>6, NoRootNoNodes
  <2>2. Under(r, r.root) = {} /\ is_black(r, r.root)
    BY <1>5, <1>6, <2>1 DEF Nodes, is_black, IS_NULL
  <2>3. SearchTree(r)
    BY <1>1, <1>5, <1>6, <2>2, AddressAssumption DEF SearchTree
  <2>4. RedBlack(r)
    BY <1>5, <2>2 DEF RedBlack
  <2> QED
    BY <1>5, <2>1, <2>3, <2>4
<1>7. CASE t.root # Null
  <2> DEFINE B == Below(t)
             U == B[t.root]
  <2>1. Shaped(t, t.root, B)
    BY <1>7, SearchTreeIsShaped
  <2>2. U = Nodes(t)
    BY <2>1, ShapedIsSearchTree
  <2> HIDE DEF B
  <2>3. Even(t, t.root, U) /\ Mild(t, t.root, U) /\ t.color[t.root] = "BLACK"
    BY <2>1, RedBlackMeans
  <2>4. U \subseteq Ptr /\ NILNODE \notin U
    BY <2>1, AddressAssumption DEF Shaped, Ptr
  <2>5. AgreeOn(t, r, U)
    <3> HIDE DEF U
    <3>1. \A y \in U : y \in Ptr /\ y # NILNODE
      BY <2>4
    <3> QED
      BY <1>1, <1>5, <3>1 DEF AgreeOn
  <2>6. Shaped(r, t.root, B) /\ Mild(r, t.root, U) /\ Even(r, t.root, U)
    BY <2>1, <2>3, <2>5, AgreeShapes
  <2>7. Shaped(r, r.root, B) /\ Mild(r, r.root, B[r.root]) /\ r.color[r.root] = "BLACK" /\ B[r.root] = U
    BY <1>5, <2>3, <2>6
  <2>8. PICK A, D : Counted(r, r.root, B[r.root], A) /\ Level(r, B[r.root], A, D)
    BY <1>5, <2>6 DEF Even
  <2>9. RedBlack(r)
    BY <1>5, <2>3, <2>7, <2>8, RedBlackIs DEF Even
  <2>10. SearchTree(r) /\ Nodes(r) = B[r.root]
    BY <2>7, ShapedIsSearchTree
  <2> QED
    BY <1>5, <2>2, <2>7, <2>9, <2>10
<1> QED
  BY <1>6, <1>7
=============================================================================
