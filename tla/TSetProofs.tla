------------------------------ MODULE TSetProofs ------------------------------
(***************************************************************************)
(* What looks into a sound sorted set finds, of any members and scores.                   *)
(***************************************************************************)
EXTENDS TSet, RBTreeProofs, SequenceTheorems

(* A walk is at member n of the group whose first member is x.                            *)
Stands(n, x) == n \in mts_mp /\ x \in InTree /\ (n = x \/ (next[x] = n /\ n \notin InTree))

(* The order of the members: by score, and of one score the one in the tree first.          *)
Places == [n \in mts_mp |-> 2 * tree.key[n] + (IF n \in InTree THEN 0 ELSE 1)]

LEMMA SoundFacts ==
  ASSUME Sound
  PROVE  /\ SearchTree(tree) /\ InTree = Nodes(tree) /\ InTree \subseteq mts_mp
         /\ mts_mp \subseteq Node /\ IsFiniteSet(mts_mp) /\ Cardinality(mts_mp) \in Nat
         /\ \A n \in mts_mp : tree.key[n] \in Int
         /\ tree.root = Null <=> mts_mp = {}
<1>1. /\ SearchTree(tree) /\ InTree \subseteq mts_mp /\ mts_mp \subseteq Node
      /\ \A n \in mts_mp \ InTree : \E h \in InTree : next[h] = n
      /\ InTree = Nodes(tree) /\ tree \in Tree
  BY DEF Sound, MembersAreIndexed, Promised, InTree, Nodes, SearchTree
<1>2. IsFiniteSet(mts_mp)
  BY <1>1, AddressAssumption, FS_Subset
<1>3. Cardinality(mts_mp) \in Nat
  BY <1>2, FS_CardinalityType
<1>4. \A n \in mts_mp : tree.key[n] \in Int
  BY <1>1 DEF Tree, Ptr
<1>5. ASSUME tree.root = Null
      PROVE  mts_mp = {}
  <2>1. {tree.root} \cap Node = {}
    BY <1>5, AddressAssumption
  <2>2. IsLeast(tree, {}, InTree)
    BY <1>1, <2>1, UnderIsLeast DEF InTree
  <2>3. Whole(tree, {}) /\ {} \in SUBSET Node /\ {} \subseteq {}
    BY DEF Whole
  <2>4. InTree \subseteq {}
    <3> HIDE DEF InTree
    <3> QED
      BY <2>2, <2>3 DEF IsLeast
  <2> QED
    BY <1>1, <2>4
<1>6. ASSUME mts_mp = {}
      PROVE  tree.root = Null
  <2>1. ASSUME tree.root # Null
        PROVE  FALSE
    <3>1. tree.root \in InTree
      BY <1>1, <2>1, SearchTreeIsOrdered DEF Ordered, Linked
    <3> QED
      BY <1>1, <1>6, <3>1
  <2> QED
    BY <2>1
<1> QED
  BY <1>1, <1>2, <1>3, <1>4, <1>5, <1>6

LEMMA Chains ==
  ASSUME Sound
  PROVE  /\ \A n \in mts_mp : \E x \in InTree : Stands(n, x)
         /\ \A n, x : Stands(n, x) => tree.key[n] = tree.key[x]
         /\ \A x \in InTree : next[x] # Null => Stands(next[x], x) /\ next[x] # x
         /\ \A n \in mts_mp \ InTree : Fresh(n)
<1>1. /\ InTree \subseteq mts_mp
      /\ \A n \in mts_mp \ InTree : \E h \in InTree : next[h] = n
      /\ \A h \in InTree : next[h] # Null =>
           next[h] \in mts_mp \ InTree /\ tree.key[next[h]] = tree.key[h]
  BY DEF Sound, MembersAreIndexed
<1>2. Null \notin mts_mp
  BY SoundFacts, AddressAssumption
<1>3. \A n \in mts_mp \ InTree : Fresh(n)
  BY DEF Sound
<1> HIDE DEF InTree
<1> QED
  BY <1>1, <1>2, <1>3 DEF Stands

LEMMA PlacesFacts ==
  ASSUME Sound
  PROVE  /\ Numbered(mts_mp, Places) /\ Distinct(mts_mp, Places)
         /\ \A n \in mts_mp : /\ Places[n] \in Int /\ tree.key[n] \in Int
                              /\ n \in InTree => Places[n] = 2 * tree.key[n]
                              /\ n \notin InTree => Places[n] = 2 * tree.key[n] + 1
         /\ Distinct(InTree, tree.key)
<1>1. \A n \in mts_mp : /\ Places[n] \in Int /\ tree.key[n] \in Int
                        /\ n \in InTree => Places[n] = 2 * tree.key[n]
                        /\ n \notin InTree => Places[n] = 2 * tree.key[n] + 1
  <2> HIDE DEF InTree
  <2> QED
    BY SoundFacts DEF Places
<1>2. Numbered(mts_mp, Places)
  BY <1>1, SoundFacts DEF Numbered
<1>3. Distinct(InTree, tree.key)
  <2>1. CASE tree.root = Null
    BY <2>1, SoundFacts DEF Distinct
  <2>2. CASE tree.root # Null
    BY <2>2, SoundFacts, SearchTreeIsOrdered DEF Ordered
  <2> QED
    BY <2>1, <2>2
<1>4. ASSUME NEW n \in mts_mp, NEW m \in mts_mp, Places[n] = Places[m]
      PROVE  n = m
  <2>1. tree.key[n] = tree.key[m] /\ (n \in InTree <=> m \in InTree)
    <3> HIDE DEF InTree
    <3>1. CASE n \in InTree
      BY <1>1, <1>4, <3>1
    <3>2. CASE n \notin InTree
      BY <1>1, <1>4, <3>2
    <3> QED
      BY <3>1, <3>2
  <2>2. CASE n \in InTree
    BY <1>3, <2>1, <2>2 DEF Distinct
  <2>3. CASE n \notin InTree
    <3>1. PICK x \in InTree : Stands(n, x)
      BY Chains
    <3>2. PICK y \in InTree : Stands(m, y)
      BY Chains
    <3>3. tree.key[x] = tree.key[y]
      BY <2>1, <3>1, <3>2, Chains
    <3>4. x = y
      BY <1>3, <3>3 DEF Distinct
    <3> QED
      BY <2>1, <2>3, <3>1, <3>2, <3>4 DEF Stands
  <2> QED
    BY <2>2, <2>3
<1> QED
  BY <1>1, <1>2, <1>3, <1>4 DEF Distinct

(* The first member of the tree is the first of all.                                       *)
LEMMA LeastMember ==
  ASSUME Sound, mts_mp # {}, NEW x, x = Leftmost(tree, tree.root)
  PROVE  Stands(x, x) /\ IsFirst(mts_mp, Places, x)
<1>1. x \in InTree /\ IsFirst(InTree, tree.key, x) /\ InTree \subseteq mts_mp
  BY SoundFacts, LeftmostIsFirst
<1>2. ASSUME NEW m \in mts_mp
      PROVE  Places[x] <= Places[m]
  <2>1. PICK y \in InTree : Stands(m, y)
    BY Chains
  <2>2. tree.key[x] <= tree.key[m]
    BY <1>1, <2>1, Chains DEF IsFirst
  <2> HIDE DEF InTree
  <2>3. CASE m \in InTree
    BY <1>1, <2>2, <2>3, PlacesFacts
  <2>4. CASE m \notin InTree
    BY <1>1, <2>2, <2>4, PlacesFacts
  <2> QED
    BY <2>3, <2>4
<1> QED
  BY <1>1, <1>2 DEF Stands, IsFirst

(* The chain before the next score: a member with its chain still to come.                 *)
LEMMA ChainIsNext ==
  ASSUME Sound, NEW n, NEW x, Stands(n, x), next[n] # Null
  PROVE  n = x /\ Stands(next[n], x) /\ IsNext(mts_mp, Places, n, next[n])
<1>1. n \in InTree
  <2>1. n \in mts_mp /\ (n \notin InTree => Fresh(n))
    BY Chains DEF Stands
  <2> QED
    BY <2>1 DEF Fresh
<1>2. n = x /\ x \in mts_mp
  BY <1>1 DEF Stands
<1>3. Stands(next[n], x) /\ next[x] # x
  BY <1>1, <1>2, Chains
<1>4. next[n] \in mts_mp /\ next[n] \notin InTree /\ tree.key[next[n]] = tree.key[n]
  BY <1>2, <1>3, Chains DEF Stands
<1> HIDE DEF InTree
<1>5. Places[next[n]] = Places[n] + 1
  BY <1>1, <1>2, <1>4, PlacesFacts
<1>6. \A z \in mts_mp : Places[z] <= Places[n] \/ Places[next[n]] <= Places[z]
  BY <1>2, <1>5, PlacesFacts
<1>7. Places[n] < Places[next[n]]
  BY <1>2, <1>5, PlacesFacts
<1> QED
  BY <1>2, <1>3, <1>4, <1>6, <1>7 DEF IsNext

(* After the last of a score comes the next node of the tree, or nothing.                   *)
LEMMA GroupIsNext ==
  ASSUME Sound, NEW n, NEW x, Stands(n, x), next[n] = Null, NEW to, to = sbt_walk_forw(tree, x)
  PROVE  \/ to = Null /\ IsLast(mts_mp, Places, n)
         \/ to # Null /\ Stands(to, to) /\ IsNext(mts_mp, Places, n, to)
<1>1. n \in mts_mp /\ x \in InTree /\ x \in mts_mp /\ tree.key[n] = tree.key[x]
  BY SoundFacts, Chains DEF Stands
<1>2. tree.root # Null
  BY <1>1, SoundFacts
<1>3. \/ to = Null /\ IsLast(InTree, tree.key, x)
      \/ to # Null /\ IsNext(InTree, tree.key, x, to)
  BY <1>1, <1>2, SoundFacts, Forward
<1>4. ASSUME NEW m \in mts_mp, NEW y \in InTree, Stands(m, y), tree.key[y] <= tree.key[x]
      PROVE  Places[m] <= Places[n]
  <2>1. tree.key[m] = tree.key[y] /\ y \in mts_mp
    BY <1>4, Chains, SoundFacts
  <2>2. CASE y = x
    <3> HIDE DEF InTree
    <3>1. Null \notin mts_mp
      BY SoundFacts, AddressAssumption
    <3>2. Stands(n, x) /\ Stands(m, x)
      BY <1>4, <2>2
    <3>3. m = n \/ (m = x /\ n \notin InTree)
      BY <3>1, <3>2 DEF Stands
    <3>4. CASE m = n
      BY <1>1, <3>4, PlacesFacts
    <3>5. CASE m = x /\ n \notin InTree
      BY <1>1, <3>5, PlacesFacts
    <3> QED
      BY <3>3, <3>4, <3>5
  <2>3. CASE y # x
    <3>1. tree.key[y] # tree.key[x]
      BY <1>1, <2>3, PlacesFacts DEF Distinct
    <3> HIDE DEF InTree
    <3>2. Places[m] <= 2 * tree.key[m] + 1 /\ 2 * tree.key[n] <= Places[n]
      BY <1>1, PlacesFacts
    <3>3. /\ tree.key[m] \in Int /\ tree.key[n] \in Int /\ tree.key[m] < tree.key[n]
          /\ Places[m] \in Int /\ Places[n] \in Int
      BY <1>1, <1>4, <2>1, <3>1, PlacesFacts
    <3> QED
      BY <3>2, <3>3
  <2> QED
    BY <2>2, <2>3
<1>5. CASE to = Null /\ IsLast(InTree, tree.key, x)
  <2>1. ASSUME NEW m \in mts_mp
        PROVE  Places[m] <= Places[n]
    <3>1. PICK y \in InTree : Stands(m, y)
      BY Chains
    <3>2. tree.key[y] <= tree.key[x]
      BY <1>5 DEF IsLast
    <3> QED
      BY <1>4, <3>1, <3>2
  <2> QED
    BY <1>5, <2>1 DEF IsLast
<1>6. CASE to # Null /\ IsNext(InTree, tree.key, x, to)
  <2>1. to \in InTree /\ to \in mts_mp /\ tree.key[x] < tree.key[to]
    BY <1>6, SoundFacts DEF IsNext
  <2>2. Places[n] < Places[to]
    <3> HIDE DEF InTree
    <3>1. Places[n] <= 2 * tree.key[n] + 1 /\ Places[to] = 2 * tree.key[to]
      BY <1>1, <2>1, PlacesFacts
    <3>2. tree.key[n] \in Int /\ tree.key[to] \in Int /\ Places[n] \in Int
      BY <1>1, <2>1, PlacesFacts
    <3> QED
      BY <1>1, <2>1, <3>1, <3>2
  <2>3. ASSUME NEW m \in mts_mp
        PROVE  Places[m] <= Places[n] \/ Places[to] <= Places[m]
    <3>1. PICK y \in InTree : Stands(m, y)
      BY Chains
    <3>2. tree.key[y] <= tree.key[x] \/ tree.key[to] <= tree.key[y]
      BY <1>6 DEF IsNext
    <3>3. CASE tree.key[y] <= tree.key[x]
      BY <1>4, <3>1, <3>3
    <3>4. CASE tree.key[to] <= tree.key[y]
      <4>1. tree.key[m] = tree.key[y]
        BY <3>1, Chains
      <4> HIDE DEF InTree
      <4>2. 2 * tree.key[m] <= Places[m] /\ Places[to] = 2 * tree.key[to]
        BY <2>1, PlacesFacts
      <4>3. tree.key[m] \in Int /\ tree.key[to] \in Int /\ Places[m] \in Int
        BY <2>1, PlacesFacts
      <4> QED
        BY <3>4, <4>1, <4>2, <4>3
    <3> QED
      BY <3>2, <3>3, <3>4
  <2> QED
    BY <1>6, <2>1, <2>2, <2>3 DEF IsNext, Stands
<1> QED
  BY <1>3, <1>5, <1>6

(* A step without a head goes to the next member, or to none after the last.               *)
LEMMA StepIsNext ==
  ASSUME Sound, NEW n, NEW x, Stands(n, x), NEW s, s = Step(tree, next, n, x, Null)
  PROVE  \/ s.n = Null /\ s.found = Null /\ IsLast(mts_mp, Places, n)
         \/ s.n # Null /\ Stands(s.n, s.found) /\ IsNext(mts_mp, Places, n, s.n)
<1>1. CASE next[n] # Null
  <2>1. s.n = next[n] /\ s.found = x
    BY <1>1 DEF Step
  <2> QED
    BY <1>1, <2>1, ChainIsNext
<1>2. CASE next[n] = Null
  <2> DEFINE to == sbt_walk_forw(tree, x)
  <2>1. s.n = to /\ s.found = to
    BY <1>2 DEF Step
  <2>2. \/ to = Null /\ IsLast(mts_mp, Places, n)
        \/ to # Null /\ Stands(to, to) /\ IsNext(mts_mp, Places, n, to)
    BY <1>2, GroupIsNext
  <2> HIDE DEF to
  <2> QED
    BY <2>1, <2>2
<1> QED
  BY <1>1, <1>2

(* The walk of ts_at is at the member of place i after i steps.                              *)
Walks(f, offset) ==
  /\ f[0].n = Leftmost(tree, tree.root) /\ f[0].found = f[0].n
  /\ \A i \in 1 .. offset : f[i - 1].n # Null => f[i] = Step(tree, next, f[i - 1].n, f[i - 1].found, Null)

LEMMA WalkByPlace ==
  ASSUME Sound, NEW offset \in Nat, offset < ts_size, NEW f, Walks(f, offset)
  PROVE  \A i \in 0 .. offset : Stands(f[i].n, f[i].found) /\ Rank(mts_mp, Places, f[i].n) = i
<1> DEFINE U == mts_mp
           K == Places
           N == ts_size
           Good == {i \in 0 .. offset : Stands(f[i].n, f[i].found) /\ Rank(U, K, f[i].n) = i}
<1>1. Numbered(U, K) /\ Distinct(U, K) /\ N \in Nat /\ N = Cardinality(U) /\ Null \notin U
  BY SoundFacts, PlacesFacts, AddressAssumption DEF ts_size
<1>2. \A n, x : Stands(n, x) => n \in U
  BY DEF Stands
<1>3. 0 \in Good
  <2>1. U # {}
    BY <1>1, FS_EmptySet
  <2>2. Stands(f[0].n, f[0].found) /\ IsFirst(U, K, f[0].n)
    BY <2>1, LeastMember DEF Walks
  <2> HIDE DEF U, K
  <2> QED
    BY <1>1, <1>2, <2>2, FirstRank
<1>4. ASSUME NEW i \in 1 .. offset, i - 1 \in Good
      PROVE  i \in Good
  <2> DEFINE n == f[i - 1].n
             x == f[i - 1].found
  <2>1. Stands(n, x) /\ Rank(U, K, n) = i - 1 /\ n \in U /\ n # Null
    BY <1>1, <1>2, <1>4
  <2>2. f[i] = Step(tree, next, n, x, Null)
    BY <2>1 DEF Walks
  <2>3. \/ IsLast(U, K, n)
        \/ Stands(f[i].n, f[i].found) /\ IsNext(U, K, n, f[i].n)
    BY <2>1, <2>2, StepIsNext
  <2> HIDE DEF U, K, n, x
  <2>4. CASE IsLast(U, K, n)
    <3>1. i - 1 = N - 1
      BY <1>1, <2>1, <2>4, LastRank
    <3> QED
      BY <1>1, <3>1
  <2>5. CASE Stands(f[i].n, f[i].found) /\ IsNext(U, K, n, f[i].n)
    <3>1. Rank(U, K, f[i].n) = (i - 1) + 1
      BY <1>1, <2>1, <2>5, NextRank
    <3> QED
      BY <2>5, <3>1
  <2> QED
    BY <2>3, <2>4, <2>5
<1>5. \A i \in 0 .. offset : i \in Good
  <2> HIDE DEF Good
  <2> QED
    BY <1>3, <1>4, UpTo
<1> QED
  BY <1>5

(* ts_at finds the member of a place.                                                    *)
LEMMA AtIsByPlace ==
  ASSUME Sound, NEW offset \in Nat, offset < ts_size, NEW a, a = ts_at(tree, next, offset)
  PROVE  a \in mts_mp /\ Rank(mts_mp, Places, a) = offset
<1> DEFINE least == Leftmost(tree, tree.root)
           Turns(f) == f = [i \in 0 .. offset |-> IF i = 0 THEN [n |-> least, found |-> least]
                                                 ELSE Step(tree, next, f[i - 1].n, f[i - 1].found, Null)]
           walk == CHOOSE f : Turns(f)
           start == [n |-> least, found |-> least]
           Standing == {s \in [n : mts_mp, found : mts_mp] : Stands(s.n, s.found)}
           off == [n |-> Null, found |-> Null]
           T == Standing \cup {off}
           g == [s \in T |-> IF s = off THEN off ELSE Step(tree, next, s.n, s.found, Null)]
<1>1. Null \notin mts_mp /\ InTree \subseteq mts_mp /\ mts_mp # {}
  BY SoundFacts, AddressAssumption, FS_EmptySet DEF ts_size
<1>2. start \in T
  <2>1. Stands(least, least)
    BY <1>1, LeastMember
  <2> QED
    BY <2>1 DEF Stands
<1>3. ASSUME NEW s \in T
      PROVE  g[s] \in T
  <2>1. CASE s = off
    BY <2>1
  <2>2. CASE s # off
    <3>1. s \in Standing /\ Stands(s.n, s.found)
      BY <2>2
    <3> DEFINE r == Step(tree, next, s.n, s.found, Null)
    <3>2. \/ r.n = Null /\ r.found = Null
          \/ Stands(r.n, r.found)
      BY <3>1, StepIsNext
    <3>3. r = [n |-> r.n, found |-> r.found]
      BY DEF Step
    <3>4. g[s] = r
      BY <2>2
    <3> HIDE DEF r, g
    <3>5. CASE r.n = Null /\ r.found = Null
      BY <3>3, <3>4, <3>5
    <3>6. CASE Stands(r.n, r.found)
      <4>1. r.n \in mts_mp /\ r.found \in mts_mp
        BY <1>1, <3>6 DEF Stands
      <4>2. r \in [n : mts_mp, found : mts_mp]
        BY <3>3, <4>1
      <4> QED
        BY <3>4, <3>6, <4>2
    <3> QED
      BY <3>2, <3>5, <3>6
  <2> QED
    BY <2>1, <2>2
<1>4. PICK f : Steps(offset, T, start, g, f)
  <2> HIDE DEF T, g, start
  <2> QED
    BY <1>2, <1>3, StepsExist
<1>5. \A i \in 0 .. offset : f[i] \in T
  BY <1>4 DEF Steps
<1>6. f[0] = start /\ \A i \in 1 .. offset : f[i] = g[f[i - 1]]
  BY <1>4 DEF Steps
<1>7. ASSUME NEW i \in 1 .. offset, f[i - 1].n # Null
      PROVE  f[i] = Step(tree, next, f[i - 1].n, f[i - 1].found, Null)
  <2>1. f[i - 1] \in T
    BY <1>5
  <2>2. f[i - 1] # off
    BY <1>7
  <2> QED
    BY <1>6, <2>1, <2>2
<1>8. Walks(f, offset)
  BY <1>6, <1>7 DEF Walks
<1>9. \A i \in 0 .. offset : Stands(f[i].n, f[i].found)
  BY <1>8, WalkByPlace
<1>10. \A i \in 0 .. offset : f[i] = IF i = 0 THEN start ELSE Step(tree, next, f[i - 1].n, f[i - 1].found, Null)
  <2> SUFFICES ASSUME NEW i \in 1 .. offset
               PROVE  f[i] = Step(tree, next, f[i - 1].n, f[i - 1].found, Null)
    BY <1>6
  <2>1. i - 1 \in 0 .. offset
    OBVIOUS
  <2>2. f[i - 1].n # Null
    BY <1>1, <1>9, <2>1 DEF Stands
  <2> QED
    BY <1>7, <2>2
<1>11. Turns(f)
  <2>1. f = [i \in 0 .. offset |-> f[i]]
    BY <1>4 DEF Steps
  <2> HIDE DEF T, g
  <2> QED
    BY <1>10, <2>1
<1>12. Turns(walk)
  <2> HIDE DEF Turns
  <2> QED
    BY <1>11
<1>13. a = walk[offset].n
  BY DEF ts_at
<1> HIDE DEF walk
<1>14. walk[0] = start /\ \A i \in 1 .. offset : walk[i] = Step(tree, next, walk[i - 1].n, walk[i - 1].found, Null)
  BY <1>12
<1>15. Walks(walk, offset)
  BY <1>14 DEF Walks
<1>16. Stands(walk[offset].n, walk[offset].found) /\ Rank(mts_mp, Places, walk[offset].n) = offset
  BY <1>15, WalkByPlace
<1> QED
  BY <1>13, <1>16 DEF Stands

(* Of two members in order the score grows, or they are a group.                            *)
LEMMA PlacesTell ==
  ASSUME Sound, NEW n \in mts_mp, NEW m \in mts_mp, Places[n] < Places[m]
  PROVE  /\ tree.key[n] <= tree.key[m]
         /\ tree.key[n] < tree.key[m] \/ (n \in InTree /\ next[n] = m)
<1>1. /\ tree.key[n] \in Int /\ tree.key[m] \in Int
      /\ Places[n] = 2 * tree.key[n] \/ Places[n] = 2 * tree.key[n] + 1
      /\ Places[m] = 2 * tree.key[m] \/ Places[m] = 2 * tree.key[m] + 1
  BY PlacesFacts
<1>2. tree.key[n] <= tree.key[m]
  BY <1>1
<1>3. CASE tree.key[n] = tree.key[m]
  <2>1. n \in InTree /\ m \notin InTree
    <3> HIDE DEF InTree
    <3>1. CASE n \notin InTree
      BY <1>1, <1>3, <3>1, PlacesFacts
    <3>2. CASE m \in InTree
      BY <1>1, <1>3, <3>2, PlacesFacts
    <3> QED
      BY <3>1, <3>2
  <2>2. PICK x \in InTree : Stands(m, x)
    BY Chains
  <2>3. tree.key[m] = tree.key[x]
    BY <2>2, Chains
  <2>4. n = x
    BY <1>3, <2>1, <2>3, PlacesFacts DEF Distinct
  <2> QED
    BY <1>2, <2>1, <2>2, <2>4 DEF Stands
<1> QED
  BY <1>1, <1>2, <1>3

(* ts_seek finds a member of the score that comes before every other of that score, if one    *)
(* has it.                                                                         *)
LEMMA SeekIsFirst ==
  ASSUME Sound, NEW score \in Int, NEW r, r = ts_seek(tree, score)
  PROVE  \/ /\ r \in mts_mp /\ tree.key[r] = score
            /\ \A m \in mts_mp : tree.key[m] = score => Places[r] <= Places[m]
         \/ \A m \in mts_mp : tree.key[m] # score
<1> DEFINE x == Descent(tree, score).at
<1>1. /\ SearchTree(tree) /\ tree \in Tree /\ tree.key[NILNODE] = 0 /\ InTree = Nodes(tree)
      /\ InTree \subseteq mts_mp /\ Null \notin mts_mp
  BY SoundFacts, AddressAssumption DEF SearchTree
<1>2. r = IF x # Null /\ tree.key[x] = score THEN x ELSE Null
  BY DEF ts_seek
<1>3. CASE tree.root = Null
  <2>1. mts_mp = {} /\ x = Null
    BY <1>1, <1>3, SoundFacts, DescentOfNothing
  <2> HIDE DEF x
  <2> QED
    BY <1>2, <1>3, <2>1
<1>4. CASE tree.root # Null
  <2>1. \/ x \in InTree /\ tree.key[x] = score
        \/ x = NILNODE /\ \A y \in InTree : tree.key[y] # score
    BY <1>1, <1>4, DescentEnds
  <2> HIDE DEF x
  <2>2. CASE x \in InTree /\ tree.key[x] = score
    <3>1. r = x /\ x \in mts_mp
      BY <1>1, <1>2, <2>2
    <3>2. ASSUME NEW m \in mts_mp, tree.key[m] = score
          PROVE  Places[r] <= Places[m]
      <4>1. /\ tree.key[m] \in Int /\ Places[r] = 2 * tree.key[r]
            /\ Places[m] = 2 * tree.key[m] \/ Places[m] = 2 * tree.key[m] + 1
        BY <2>2, <3>1, PlacesFacts
      <4> QED
        BY <2>2, <3>1, <3>2, <4>1
    <3> QED
      BY <2>2, <3>1, <3>2
  <2>3. CASE x = NILNODE /\ \A y \in InTree : tree.key[y] # score
    <3>1. ASSUME NEW m \in mts_mp
          PROVE  tree.key[m] # score
      <4>1. PICK y \in InTree : Stands(m, y)
        BY Chains
      <4> QED
        BY <2>3, <4>1, Chains
    <3> QED
      BY <3>1
  <2> QED
    BY <2>1, <2>2, <2>3
<1> QED
  BY <1>3, <1>4

LEMMA LookupsAgreeAlways == LookupsAgree
<1> SUFFICES ASSUME Sound
             PROVE  LookupsAgree
  BY DEF LookupsAgree
<1> DEFINE at == [i \in 0 .. (ts_size - 1) |-> ts_at(tree, next, i)]
           U == mts_mp
           K == Places
<1>1. Numbered(U, K) /\ Distinct(U, K) /\ ts_size \in Nat /\ ts_size = Cardinality(U)
  BY SoundFacts, PlacesFacts DEF ts_size
<1>2. ASSUME NEW i \in 0 .. (ts_size - 1)
      PROVE  at[i] \in U /\ Rank(U, K, at[i]) = i
  <2>1. i \in Nat /\ i < ts_size /\ at[i] = ts_at(tree, next, i)
    BY <1>1
  <2> HIDE DEF at
  <2> QED
    BY <2>1, AtIsByPlace
<1>3. DOMAIN at = 0 .. (ts_size - 1)
  OBVIOUS
<1> HIDE DEF at, U, K
<1>4. ASSUME NEW i \in DOMAIN at, NEW j \in 0 .. (i - 1)
      PROVE  tree.key[at[j]] < tree.key[at[i]] \/ next[at[j]] = at[i]
  <2>1. i \in 0 .. (ts_size - 1) /\ j \in 0 .. (ts_size - 1) /\ j < i
    BY <1>1, <1>3
  <2>2. K[at[j]] < K[at[i]]
    BY <1>1, <1>2, <2>1, RankTells
  <2> QED
    BY <1>2, <2>1, <2>2, PlacesTell DEF U, K
<1>5. ASSUME NEW score \in Score
      PROVE  LET has == {i \in DOMAIN at : tree.key[at[i]] = score}
             IN  has # {} => ts_seek(tree, score) = at[CHOOSE i \in has : \A j \in has : i <= j]
  <2> DEFINE has == {i \in DOMAIN at : tree.key[at[i]] = score}
             r == ts_seek(tree, score)
             First(i) == \A j \in has : i <= j
             least == CHOOSE i \in has : First(i)
  <2>1. score \in Int
    BY ScoresAreNumbers
  <2>2. \/ /\ r \in U /\ tree.key[r] = score
           /\ \A m \in U : tree.key[m] = score => K[r] <= K[m]
        \/ \A m \in U : tree.key[m] # score
    BY <2>1, SeekIsFirst DEF U, K
  <2> HIDE DEF r
  <2>3. CASE /\ r \in U /\ tree.key[r] = score
             /\ \A m \in U : tree.key[m] = score => K[r] <= K[m]
    <3> DEFINE k == Rank(U, K, r)
    <3>1. k \in 0 .. (ts_size - 1)
      BY <1>1, <2>3, LowerFacts
    <3>2. at[k] = r
      BY <1>1, <1>2, <2>3, <3>1, RankTells
    <3>3. k \in has
      BY <1>3, <2>3, <3>1, <3>2
    <3>4. ASSUME NEW j \in has
          PROVE  k <= j
      <4>1. j \in 0 .. (ts_size - 1) /\ at[j] \in U /\ tree.key[at[j]] = score /\ Rank(U, K, at[j]) = j
        BY <1>2, <1>3
      <4>2. K[r] <= K[at[j]]
        BY <2>3, <4>1
      <4>3. ASSUME j < k
            PROVE  FALSE
        <5>1. K[at[j]] < K[r]
          BY <1>1, <2>3, <4>1, <4>3, RankTells
        <5>2. K[at[j]] \in Int /\ K[r] \in Int
          BY <1>1, <2>3, <4>1 DEF Numbered
        <5> QED
          BY <4>2, <5>1, <5>2
      <4> QED
        BY <3>1, <4>1, <4>3
    <3> HIDE DEF k
    <3>5. has \subseteq Int
      BY <1>3
    <3>6. First(k)
      BY <3>4
    <3> HIDE DEF has, First
    <3>7. least \in has /\ First(least)
      BY <3>3, <3>6
    <3> HIDE DEF least
    <3>8. least = k
      BY <3>3, <3>4, <3>5, <3>7 DEF First
    <3>9. has # {} => r = at[least]
      BY <3>2, <3>8
    <3> QED
      BY <3>9 DEF has, r, First, least
  <2>4. CASE \A m \in U : tree.key[m] # score
    <3>1. has = {}
      BY <1>2, <1>3, <2>4
    <3> QED
      BY <3>1
  <2> QED
    BY <2>2, <2>3, <2>4
<1>6. \A i \in DOMAIN at : at[i] \in mts_mp
  BY <1>2, <1>3 DEF U
<1> QED
  BY <1>4, <1>5, <1>6 DEF LookupsAgree, at

(* Both ways to look into a sound set agree with it (kvt_tset.h:43-44): of any members, of      *)
(* any scores, ts_at meets every member once, by score and along the chains, and ts_seek        *)
(* finds the first member of a score that some member has.                             *)
THEOREM LookupsAgreeHolds == Spec => []LookupsAgree
BY LookupsAgreeAlways, PTL

-----------------------------------------------------------------------------
(* From a member in the tree the walk over the scores passes over its group; from a member   *)
(* of a chain it finds nothing, because the fresh links lead nowhere.                     *)
LEMMA JumpByPlace ==
  ASSUME Sound, NEW first \in mts_mp, NEW to, to = sbt_walk_forw(tree, first),
         NEW b \in Nat, b = Rank(mts_mp, Places, first)
  PROVE  /\ to = Null \/ (to \in mts_mp /\ Rank(mts_mp, Places, to) \in {b + 1, b + 2})
         /\ next[first] = Null /\ to # Null => Rank(mts_mp, Places, to) = b + 1
         /\ first \in InTree /\ next[first] = Null /\ to = Null => b = ts_size - 1
<1> DEFINE U == mts_mp
           K == Places
<1>1. Numbered(U, K) /\ Distinct(U, K) /\ ts_size = Cardinality(U)
  BY PlacesFacts DEF ts_size
<1>2. CASE first \notin InTree
  <2>1. Fresh(first) /\ tree \in Tree /\ first \in Ptr /\ ~ IS_NULL(first)
    BY <1>2, SoundFacts, Chains, AddressAssumption DEF SearchTree, Ptr, IS_NULL
  <2>2. tree.right[first] = NILNODE /\ tree.parent[first] = Null
    BY <2>1 DEF Fresh
  <2>3. PICK up : /\ \A y \in Ptr : up[y] = IF tree.parent[y] # Null /\ y = tree["right"][tree.parent[y]]
                                            THEN up[tree.parent[y]] ELSE tree.parent[y]
                  /\ \A x : Neighbour(tree, x, "right") =
                              IF IS_NULL(x) THEN Null
                              ELSE IF IS_NULL(tree["right"][x]) THEN up[x]
                              ELSE Farthest(tree, tree["right"][x], Other("right"))
    BY <2>1, ClimbLoops
  <2>4. up[first] = Null
    BY <2>1, <2>2, <2>3
  <2>5. to = Null
    BY <2>1, <2>2, <2>3, <2>4 DEF sbt_walk_forw, IS_NULL
  <2> QED
    BY <1>2, <2>5
<1>3. CASE first \in InTree /\ next[first] = Null
  <2>1. Stands(first, first)
    BY <1>3 DEF Stands
  <2>2. \/ to = Null /\ IsLast(U, K, first)
        \/ to # Null /\ Stands(to, to) /\ IsNext(U, K, first, to)
    BY <1>3, <2>1, GroupIsNext
  <2> HIDE DEF U, K
  <2>3. CASE to = Null /\ IsLast(U, K, first)
    BY <1>1, <1>3, <2>3, LastRank DEF U, K
  <2>4. CASE to # Null /\ Stands(to, to) /\ IsNext(U, K, first, to)
    BY <1>1, <1>3, <2>4, NextRank DEF U, K, Stands
  <2> QED
    BY <2>2, <2>3, <2>4
<1>4. CASE first \in InTree /\ next[first] # Null
  <2> DEFINE m == next[first]
  <2>1. Stands(first, first)
    BY <1>4 DEF Stands
  <2>2. Stands(m, first) /\ IsNext(U, K, first, m) /\ m # first
    BY <1>4, <2>1, Chains, ChainIsNext
  <2>3. m \in U /\ next[m] = Null
    BY <2>2, Chains DEF Stands, Fresh
  <2>4. \/ to = Null
        \/ to # Null /\ Stands(to, to) /\ IsNext(U, K, m, to)
    BY <2>2, <2>3, GroupIsNext
  <2> HIDE DEF m, U, K
  <2>5. Rank(U, K, m) = b + 1
    BY <1>1, <2>2, NextRank DEF U, K
  <2>6. CASE Stands(to, to) /\ IsNext(U, K, m, to)
    <3>1. Rank(U, K, to) = (b + 1) + 1 /\ to \in U
      BY <1>1, <2>3, <2>5, <2>6, NextRank DEF IsNext
    <3> QED
      BY <1>4, <3>1 DEF U, K
  <2> QED
    BY <1>4, <2>4, <2>6
<1> QED
  BY <1>2, <1>3, <1>4

(* One line of a list after a line with member y: y's chain, or the jump from the first line. *)
LEMMA OnwardByPlace ==
  ASSUME Sound, NEW first \in mts_mp, NEW y \in mts_mp, NEW r, r = Step(tree, next, y, y, first).n
  PROVE  \/ /\ next[y] # Null /\ r = next[y] /\ r \in mts_mp
            /\ Rank(mts_mp, Places, r) = Rank(mts_mp, Places, y) + 1
         \/ next[y] = Null /\ r = sbt_walk_forw(tree, first)
<1>1. first # Null
  BY SoundFacts, AddressAssumption
<1>2. CASE next[y] # Null
  <2>1. r = next[y]
    BY <1>2 DEF Step
  <2>2. PICK x \in InTree : Stands(y, x)
    BY Chains
  <2>3. IsNext(mts_mp, Places, y, r)
    BY <1>2, <2>1, <2>2, ChainIsNext
  <2> QED
    BY <1>2, <2>1, <2>3, NextRank, PlacesFacts DEF IsNext
<1>3. CASE next[y] = Null
  BY <1>1, <1>3 DEF Step
<1> QED
  BY <1>2, <1>3

(* f has the lines of a list: each leads to the next, until one finds none.                   *)
Lines(f, b, e, first) ==
  /\ f[b] = first
  /\ \A i \in (b + 1) .. e :
       f[i] = IF IS_NULL(f[i - 1]) THEN Null ELSE Step(tree, next, f[i - 1], f[i - 1], first).n

LEMMA LinesByPlace ==
  ASSUME Sound, NEW b \in Nat, NEW e \in Nat, b <= e, NEW first \in mts_mp,
         Rank(mts_mp, Places, first) = b, NEW f, Lines(f, b, e, first)
  PROVE  \A i \in b .. e : f[i] = Null \/ (f[i] \in mts_mp /\ Rank(mts_mp, Places, f[i]) \in b .. i)
<1> DEFINE R(y) == Rank(mts_mp, Places, y)
           n == e - b
           Fits(i) == f[i] = Null \/ (f[i] \in mts_mp /\ R(f[i]) \in b .. i)
           Good == {k \in 0 .. n : Fits(b + k)}
<1>1. n \in Nat /\ \A y \in mts_mp : ~ IS_NULL(y)
  BY SoundFacts, AddressAssumption DEF IS_NULL
<1>2. 0 \in Good
  <2>1. b + 0 = b /\ f[b] = first
    BY DEF Lines
  <2> QED
    BY <1>1, <2>1
<1>3. ASSUME NEW k \in 1 .. n, k - 1 \in Good
      PROVE  k \in Good
  <2> DEFINE i == b + k
  <2>1. i \in (b + 1) .. e /\ i - 1 = b + (k - 1) /\ k \in 0 .. n
    BY <1>1
  <2>2. Fits(i - 1)
    BY <1>3, <2>1
  <2>3. f[i] = IF IS_NULL(f[i - 1]) THEN Null ELSE Step(tree, next, f[i - 1], f[i - 1], first).n
    BY <2>1 DEF Lines
  <2> HIDE DEF R, i
  <2>4. CASE f[i - 1] = Null
    BY <2>1, <2>3, <2>4 DEF IS_NULL, i
  <2>5. CASE f[i - 1] \in mts_mp /\ R(f[i - 1]) \in b .. (i - 1)
    <3>1. f[i] = Step(tree, next, f[i - 1], f[i - 1], first).n
      BY <1>1, <2>3, <2>5
    <3>2. \/ next[f[i - 1]] # Null /\ f[i] \in mts_mp /\ R(f[i]) = R(f[i - 1]) + 1
          \/ next[f[i - 1]] = Null /\ f[i] = sbt_walk_forw(tree, first)
      BY <2>5, <3>1, OnwardByPlace DEF R
    <3>3. CASE f[i] \in mts_mp /\ R(f[i]) = R(f[i - 1]) + 1
      <4>1. Fits(i)
        BY <2>1, <2>5, <3>3
      <4> QED
        BY <2>1, <4>1 DEF i
    <3>4. CASE next[f[i - 1]] = Null /\ f[i] = sbt_walk_forw(tree, first)
      <4>1. /\ f[i] = Null \/ (f[i] \in mts_mp /\ R(f[i]) \in {b + 1, b + 2})
            /\ next[first] = Null /\ f[i] # Null => R(f[i]) = b + 1
        BY <3>4, JumpByPlace DEF R
      <4>2. Fits(i)
        <5>1. CASE i = b + 1
          <6>1. next[first] = Null
            BY <3>4, <5>1 DEF Lines
          <6> QED
            BY <4>1, <5>1, <6>1
        <5>2. CASE i # b + 1
          <6>1. b + 1 \in b .. i /\ b + 2 \in b .. i
            BY <2>1, <5>2
          <6> QED
            BY <4>1, <6>1
        <5> QED
          BY <5>1, <5>2
      <4> QED
        BY <2>1, <4>2 DEF i
    <3> QED
      BY <3>2, <3>3, <3>4
  <2> QED
    BY <2>2, <2>4, <2>5
<1>4. \A k \in 0 .. n : k \in Good
  <2> HIDE DEF Good, n
  <2> QED
    BY <1>1, <1>2, <1>3, UpTo
<1>5. \A i \in b .. e : i - b \in 0 .. n /\ b + (i - b) = i
  OBVIOUS
<1> QED
  BY <1>4, <1>5

LEMMA SecondLine ==
  ASSUME Sound, NEW b \in Nat, NEW e \in Nat, b < e, NEW first \in mts_mp,
         Rank(mts_mp, Places, first) = b, NEW f, Lines(f, b, e, first), f[b + 1] # Null
  PROVE  f[b + 1] \in mts_mp /\ Rank(mts_mp, Places, f[b + 1]) = b + 1
<1>1. b + 1 \in (b + 1) .. e /\ (b + 1) - 1 = b /\ ~ IS_NULL(first)
  BY SoundFacts, AddressAssumption DEF IS_NULL
<1>2. f[b + 1] = Step(tree, next, first, first, first).n
  BY <1>1 DEF Lines
<1>3. \/ next[first] # Null /\ f[b + 1] \in mts_mp /\ Rank(mts_mp, Places, f[b + 1]) = b + 1
      \/ next[first] = Null /\ f[b + 1] = sbt_walk_forw(tree, first)
  BY <1>2, OnwardByPlace
<1> QED
  BY <1>3, JumpByPlace

(* Without chains no line is missing.                                                    *)
LEMMA LinesOfSingles ==
  ASSUME Sound, \A n \in mts_mp : next[n] = Null, NEW b \in Nat, NEW e \in Nat, b <= e, e < ts_size,
         NEW first \in mts_mp, Rank(mts_mp, Places, first) = b, NEW f, Lines(f, b, e, first)
  PROVE  \A i \in b .. e : f[i] # Null
<1> DEFINE to == sbt_walk_forw(tree, first)
           n == e - b
           Good == {k \in 0 .. n : f[b + k] \in mts_mp /\ (k # 0 => f[b + k] = to)}
<1>1. n \in Nat /\ Null \notin mts_mp /\ \A y \in mts_mp : ~ IS_NULL(y)
  BY SoundFacts, AddressAssumption DEF IS_NULL
<1>2. first \in InTree
  <2>1. PICK x \in InTree : Stands(first, x)
    BY Chains
  <2>2. x \in mts_mp /\ next[x] = Null /\ first # Null
    BY <1>1, SoundFacts
  <2> QED
    BY <2>1, <2>2 DEF Stands
<1>3. ASSUME n # 0
      PROVE  to \in mts_mp
  <2>1. b # ts_size - 1
    BY <1>3, SoundFacts DEF ts_size
  <2> QED
    BY <1>2, <2>1, JumpByPlace
<1>4. 0 \in Good
  <2>1. b + 0 = b /\ f[b] = first
    BY DEF Lines
  <2> QED
    BY <1>1, <2>1
<1>5. ASSUME NEW k \in 1 .. n, k - 1 \in Good
      PROVE  k \in Good
  <2> DEFINE i == b + k
  <2>1. i \in (b + 1) .. e /\ i - 1 = b + (k - 1) /\ k \in 0 .. n /\ n # 0
    BY <1>1
  <2>2. f[i - 1] \in mts_mp
    BY <1>5, <2>1
  <2>3. f[i] = Step(tree, next, f[i - 1], f[i - 1], first).n
    BY <1>1, <2>1, <2>2 DEF Lines
  <2>4. f[i] = to
    BY <2>2, <2>3, OnwardByPlace
  <2> HIDE DEF to
  <2> QED
    BY <1>3, <2>1, <2>4
<1>6. \A k \in 0 .. n : k \in Good
  <2> HIDE DEF Good, n
  <2> QED
    BY <1>1, <1>4, <1>5, UpTo
<1>7. ASSUME NEW i \in b .. e
      PROVE  f[i] \in mts_mp /\ (i # b => f[i] = to)
  <2>1. i - b \in 0 .. n /\ b + (i - b) = i /\ (i # b => i - b # 0)
    OBVIOUS
  <2> HIDE DEF to, n
  <2> QED
    BY <1>6, <2>1
<1> QED
  BY <1>1, <1>7

(* The list of a range holds such lines, up to the first that is none.                        *)
LEMMA LinesExist ==
  ASSUME Sound, NEW b \in Nat, NEW e \in Nat, b <= e, NEW first \in mts_mp,
         first = ts_at(tree, next, b)
  PROVE  \E f : /\ Lines(f, b, e, first)
                /\ ListOf(tree, next, b, e) =
                     [i \in 1 .. Cardinality({j \in b .. e : ~ IS_NULL(f[j])}) |-> f[b + i - 1]]
<1> DEFINE T == mts_mp \cup {Null}
           On(y) == IF IS_NULL(y) THEN Null ELSE Step(tree, next, y, y, first).n
           g == [y \in T |-> On(y)]
           n == e - b
           Turns(f) == f = [i \in b .. e |-> IF i = b THEN first
                                             ELSE IF IS_NULL(f[i - 1]) THEN Null
                                             ELSE Step(tree, next, f[i - 1], f[i - 1], first).n]
           line == CHOOSE f : Turns(f)
<1>1. n \in Nat /\ first \in T /\ \A y \in mts_mp : ~ IS_NULL(y)
  BY SoundFacts, AddressAssumption DEF IS_NULL
<1>2. ASSUME NEW y \in T
      PROVE  On(y) \in T
  <2>1. CASE y = Null
    BY <2>1 DEF IS_NULL
  <2>2. CASE y \in mts_mp
    <3>1. On(y) = Step(tree, next, y, y, first).n
      BY <1>1, <2>2
    <3>2. sbt_walk_forw(tree, first) \in T
      <4>1. Rank(mts_mp, Places, first) \in Nat
        BY PlacesFacts, LowerFacts
      <4> QED
        BY <4>1, JumpByPlace
    <3> HIDE DEF On
    <3> QED
      BY <2>2, <3>1, <3>2, OnwardByPlace
  <2> QED
    BY <2>1, <2>2
<1>3. PICK h : Steps(n, T, first, g, h)
  <2>1. \A y \in T : g[y] \in T
    BY <1>2
  <2> HIDE DEF T, g, n
  <2> QED
    BY <1>1, <2>1, StepsExist
<1>4. h[0] = first /\ \A k \in 1 .. n : h[k] = On(h[k - 1])
  <2>1. h[0] = first /\ h \in [0 .. n -> T] /\ \A k \in 1 .. n : h[k] = g[h[k - 1]]
    BY <1>3 DEF Steps
  <2>2. ASSUME NEW k \in 1 .. n
        PROVE  h[k] = On(h[k - 1])
    <3>1. k - 1 \in 0 .. n
      BY <1>1
    <3>2. h[k - 1] \in T
      BY <2>1, <3>1
    <3> HIDE DEF On, T, n
    <3> QED
      BY <2>1, <2>2, <3>2
  <2> QED
    BY <2>1, <2>2
<1> DEFINE f == [i \in b .. e |-> h[i - b]]
<1>5. ASSUME NEW i \in b .. e
      PROVE  f[i] = IF i = b THEN first ELSE On(f[i - 1])
  <2>1. CASE i = b
    <3>1. i - b = 0
      BY <2>1
    <3> QED
      BY <1>4, <2>1, <3>1
  <2>2. CASE i # b
    <3>1. i - b \in 1 .. n /\ i - 1 \in b .. e /\ (i - 1) - b = (i - b) - 1
      BY <2>2
    <3>2. f[i] = h[i - b] /\ f[i - 1] = h[(i - b) - 1]
      BY <3>1
    <3> HIDE DEF On, f, n
    <3> QED
      BY <1>4, <2>2, <3>1, <3>2
  <2> QED
    BY <2>1, <2>2
<1>6. Turns(f)
  <2>1. f = [i \in b .. e |-> f[i]]
    OBVIOUS
  <2> HIDE DEF f
  <2> QED
    BY <1>5, <2>1
<1>7. Turns(line)
  <2> HIDE DEF Turns, f
  <2> QED
    BY <1>6
<1>8. ListOf(tree, next, b, e) = [i \in 1 .. Cardinality({j \in b .. e : ~ IS_NULL(line[j])}) |-> line[b + i - 1]]
  BY DEF ListOf
<1> HIDE DEF line
<1>9. Lines(line, b, e, first)
  <2>1. b \in b .. e /\ \A i \in (b + 1) .. e : i \in b .. e /\ i # b
    OBVIOUS
  <2> QED
    BY <1>7, <2>1 DEF Lines
<1> QED
  BY <1>8, <1>9

LEMMA RangeStaysInsideAlways == RangeStaysInside
<1> SUFFICES ASSUME Sound, NEW b \in Bound, NEW e \in Bound, InRange(b, e)
             PROVE  LET list == RangeAnswer(b, e).list
                        slice == Slice(b, e)
                    IN  /\ \A i \in DOMAIN list : \E j \in DOMAIN slice : list[i] = slice[j]
                        /\ \A i \in DOMAIN list : i <= 2 => list[i] = slice[i]
                        /\ (\A n \in mts_mp : next[n] = Null) => Len(list) = Len(slice)
  BY DEF RangeStaysInside
<1> DEFINE list == RangeAnswer(b, e).list
           slice == Slice(b, e)
           first == ts_at(tree, next, b)
           R(y) == Rank(mts_mp, Places, y)
           Singles == \A n \in mts_mp : next[n] = Null
<1>1. /\ b \in Nat /\ e \in Nat /\ b <= e /\ e < ts_size /\ ts_size \in Nat
      /\ Numbered(mts_mp, Places) /\ Distinct(mts_mp, Places) /\ \A y \in mts_mp : ~ IS_NULL(y)
  <2>1. b \in Int /\ e \in Int
    BY ScoresAreNumbers
  <2> QED
    BY <2>1, SoundFacts, PlacesFacts, AddressAssumption DEF InRange, IS_NULL, ts_size
<1>2. list = ListOf(tree, next, b, e)
  <2>1. ~ (e < 0) /\ ~ (e >= ts_size) /\ ~ (b < 0) /\ ~ (b >= ts_size)
    BY <1>1
  <2> QED
    BY <2>1 DEF RangeAnswer
<1>3. first \in mts_mp /\ R(first) = b
  BY <1>1, AtIsByPlace
<1>4. PICK f : /\ Lines(f, b, e, first)
               /\ list = [i \in 1 .. Cardinality({j \in b .. e : ~ IS_NULL(f[j])}) |-> f[b + i - 1]]
  <2> HIDE DEF list
  <2>1. first = ts_at(tree, next, b)
    OBVIOUS
  <2> HIDE DEF first
  <2>2. \E f : /\ Lines(f, b, e, first)
               /\ ListOf(tree, next, b, e) =
                    [i \in 1 .. Cardinality({j \in b .. e : ~ IS_NULL(f[j])}) |-> f[b + i - 1]]
    BY <1>1, <1>3, <2>1, LinesExist
  <2> QED
    BY <1>2, <2>2, Zenon
<1> DEFINE listed == {j \in b .. e : ~ IS_NULL(f[j])}
           k == Cardinality(listed)
<1>5. slice = [i \in 1 .. (e - b + 1) |-> ts_at(tree, next, b + i - 1)]
  BY DEF Slice
<1>6. ASSUME NEW i \in 1 .. (e - b + 1)
      PROVE  slice[i] \in mts_mp /\ R(slice[i]) = b + i - 1
  <2>1. b + i - 1 \in Nat /\ b + i - 1 < ts_size
    BY <1>1
  <2>2. slice[i] = ts_at(tree, next, b + i - 1)
    BY <1>5
  <2> HIDE DEF slice
  <2> QED
    BY <2>1, <2>2, AtIsByPlace
<1>7. \A i \in b .. e : f[i] = Null \/ (f[i] \in mts_mp /\ R(f[i]) \in b .. i)
  BY <1>1, <1>3, <1>4, LinesByPlace
<1> HIDE DEF list, slice, first
<1>8. /\ IsFiniteSet(listed) /\ k \in Nat /\ k <= e - b + 1
      /\ Cardinality(b .. e) = e - b + 1 /\ IsFiniteSet(b .. e)
  <2>1. IsFiniteSet(b .. e) /\ Cardinality(b .. e) = e - b + 1
    BY <1>1, FS_Interval
  <2>2. listed \subseteq b .. e
    OBVIOUS
  <2> HIDE DEF listed
  <2> QED
    BY <2>1, <2>2, FS_Subset, FS_CardinalityType
<1>9. ASSUME NEW j \in b .. e, IS_NULL(f[j])
      PROVE  \A i \in j .. e : IS_NULL(f[i])
  <2> DEFINE n == e - j
             Good == {m \in 0 .. n : IS_NULL(f[j + m])}
  <2>1. n \in Nat /\ 0 \in Good
    BY <1>1, <1>9
  <2>2. ASSUME NEW m \in 1 .. n, m - 1 \in Good
        PROVE  m \in Good
    <3>1. j + m \in (b + 1) .. e /\ (j + m) - 1 = j + (m - 1) /\ m \in 0 .. n
      BY <1>1
    <3>2. f[j + m] = Null
      BY <1>4, <2>2, <3>1 DEF Lines
    <3> QED
      BY <3>1, <3>2 DEF IS_NULL
  <2>3. \A m \in 0 .. n : m \in Good
    <3> HIDE DEF Good, n
    <3> QED
      BY <2>1, <2>2, UpTo
  <2>4. \A i \in j .. e : i - j \in 0 .. n /\ j + (i - j) = i
    BY <1>1
  <2> QED
    BY <2>3, <2>4
<1>10. ASSUME NEW i \in 1 .. k
       PROVE  i \in 1 .. (e - b + 1) /\ b + i - 1 \in b .. e /\ ~ IS_NULL(f[b + i - 1])
  <2>1. i \in 1 .. (e - b + 1) /\ b + i - 1 \in b .. e
    BY <1>1, <1>8
  <2>2. ASSUME IS_NULL(f[b + i - 1])
        PROVE  FALSE
    <3>1. \A j \in (b + i - 1) .. e : IS_NULL(f[j])
      BY <1>9, <2>1, <2>2
    <3>2. listed \subseteq b .. (b + i - 2)
      BY <1>1, <2>1, <3>1
    <3>3. IsFiniteSet(b .. (b + i - 2)) /\ Cardinality(b .. (b + i - 2)) = i - 1
      <4>1. b + i - 2 \in Int /\ b + i - 2 - b + 1 = i - 1 /\ b + i - 2 >= b - 1
        BY <1>1, <2>1
      <4>2. CASE b <= b + i - 2
        BY <1>1, <4>1, <4>2, FS_Interval
      <4>3. CASE b + i - 2 < b
        <5>1. b .. (b + i - 2) = {} /\ i - 1 = 0
          BY <1>1, <4>1, <4>3
        <5> QED
          BY <5>1, FS_EmptySet
      <4> QED
        BY <1>1, <4>1, <4>2, <4>3
    <3>4. k <= i - 1
      <4> HIDE DEF listed
      <4> QED
        BY <3>2, <3>3, FS_Subset
    <3> QED
      BY <1>8, <3>4
  <2> QED
    BY <2>1, <2>2
<1>11. DOMAIN list = 1 .. k /\ DOMAIN slice = 1 .. (e - b + 1)
  BY <1>4, <1>5
<1>12. ASSUME NEW i \in DOMAIN list
       PROVE  /\ i \in 1 .. (e - b + 1) /\ b + i - 1 \in b .. e /\ list[i] = f[b + i - 1]
              /\ list[i] \in mts_mp /\ R(list[i]) \in b .. (b + i - 1)
  <2>1. i \in 1 .. k /\ list[i] = f[b + i - 1]
    BY <1>4, <1>11
  <2>2. i \in 1 .. (e - b + 1) /\ b + i - 1 \in b .. e /\ list[i] # Null
    BY <1>10, <2>1 DEF IS_NULL
  <2> HIDE DEF R, listed, k
  <2> QED
    BY <1>7, <2>1, <2>2
<1> HIDE DEF k, listed
<1>13. ASSUME NEW y \in mts_mp, NEW j \in 1 .. (e - b + 1), R(y) = b + j - 1
       PROVE  y = slice[j]
  BY <1>1, <1>6, <1>13, RankTells
<1> HIDE DEF R
<1>14. ASSUME NEW i \in DOMAIN list
       PROVE  \E j \in DOMAIN slice : list[i] = slice[j]
  <2> DEFINE j == R(list[i]) - b + 1
  <2>1. j \in 1 .. (e - b + 1) /\ R(list[i]) = b + j - 1
    BY <1>1, <1>12
  <2> HIDE DEF j
  <2> QED
    BY <1>11, <1>12, <1>13, <2>1
<1>15. ASSUME NEW i \in DOMAIN list, i <= 2
       PROVE  list[i] = slice[i]
  <2>1. i \in 1 .. (e - b + 1) /\ list[i] = f[b + i - 1] /\ list[i] \in mts_mp
    BY <1>12
  <2>2. CASE i = 1
    <3>1. list[i] = first /\ R(list[i]) = b + i - 1
      BY <1>1, <1>3, <1>4, <2>1, <2>2 DEF Lines
    <3> QED
      BY <1>13, <2>1, <3>1
  <2>3. CASE i = 2
    <3>1. b + i - 1 = b + 1 /\ b < e
      BY <1>1, <2>1, <2>3
    <3>2. f[b + 1] # Null
      BY <1>1, <2>1, <3>1 DEF IS_NULL
    <3>3. R(f[b + 1]) = b + 1
      BY <1>1, <1>3, <1>4, <3>1, <3>2, SecondLine DEF R
    <3> QED
      BY <1>13, <2>1, <3>1, <3>3
  <2> QED
    BY <1>15, <2>1, <2>2, <2>3
<1>16. ASSUME Singles
       PROVE  Len(list) = Len(slice)
  <2>1. \A i \in b .. e : f[i] # Null
    BY <1>1, <1>3, <1>4, <1>16, LinesOfSingles DEF R
  <2>2. listed = b .. e
    <3>1. \A i \in b .. e : ~ IS_NULL(f[i])
      BY <1>1, <1>7, <2>1
    <3> QED
      BY <3>1 DEF listed
  <2>3. k = e - b + 1
    BY <1>8, <2>2 DEF k
  <2>4. Len(list) = k /\ Len(slice) = k
    <3>1. \A i \in 1 .. k : i \in DOMAIN list /\ i \in DOMAIN slice
      BY <1>11, <2>3
    <3>2. list \in Seq(mts_mp) /\ slice \in Seq(mts_mp)
      <4>1. list = [i \in 1 .. k |-> list[i]] /\ slice = [i \in 1 .. k |-> slice[i]]
        BY <1>4, <1>5, <2>3 DEF listed, k
      <4>2. \A i \in 1 .. k : list[i] \in mts_mp /\ slice[i] \in mts_mp
        BY <1>6, <1>12, <2>3, <3>1
      <4>3. list \in [1 .. k -> mts_mp] /\ slice \in [1 .. k -> mts_mp]
        BY <4>1, <4>2
      <4> QED
        BY <1>8, <4>3, SeqDef
    <3> QED
      BY <1>8, <1>11, <2>3, <3>2, LenProperties
  <2> QED
    BY <2>4
<1> QED
  BY <1>14, <1>15, <1>16 DEF list, slice

(* What trange lists of a sound set is in the range (io.cpp:441-451), for any members, scores    *)
(* and bounds: its first two lines are right, and without chains it has as many as it          *)
(* announces.                                                                            *)
THEOREM RangeStaysInsideHolds == Spec => []RangeStaysInside
BY RangeStaysInsideAlways, PTL

=============================================================================
