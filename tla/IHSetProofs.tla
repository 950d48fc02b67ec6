----------------------------- MODULE IHSetProofs -----------------------------
(***************************************************************************)
(* Proofs about IHSet, for every set of nodes and keys, every hash, and every *)
(* number of first buckets, load and work per call.                          *)
(***************************************************************************)
EXTENDS IHSet, SequenceTheorems, FiniteSetTheorems, TLAPS

-----------------------------------------------------------------------------
(* Facts about chains.                                                        *)

(* Cons puts its element first and moves the others up by one.                *)
LEMMA ConsFacts ==
  ASSUME NEW S, NEW n \in S, NEW c \in Seq(S)
  PROVE  /\ Cons(n, c) \in Seq(S)
         /\ Len(Cons(n, c)) = Len(c) + 1
         /\ Cons(n, c)[1] = n
         /\ \A i \in 1 .. Len(c) : Cons(n, c)[i + 1] = c[i]
  BY DEF Cons

(* RemoveAt keeps the elements before the place and moves down those after it. *)
LEMMA RemoveAtFacts ==
  ASSUME NEW S, NEW c \in Seq(S), NEW p \in 1 .. Len(c)
  PROVE  /\ RemoveAt(c, p) \in Seq(S)
         /\ Len(RemoveAt(c, p)) = Len(c) - 1
         /\ \A i \in 1 .. (Len(c) - 1) :
              RemoveAt(c, p)[i] = IF i < p THEN c[i] ELSE c[i + 1]
<1> DEFINE before == SubSeq(c, 1, p - 1)
           after  == SubSeq(c, p + 1, Len(c))
<1>1. Len(c) \in Nat /\ p \in Nat
  OBVIOUS
<1>2. /\ before \in Seq(S) /\ Len(before) = p - 1
      /\ \A i \in 1 .. (p - 1) : before[i] = c[i]
  BY <1>1, SMTT(20)
<1>3. /\ after \in Seq(S) /\ Len(after) = Len(c) - p
      /\ \A i \in 1 .. (Len(c) - p) : after[i] = c[p + i]
  BY <1>1, SMTT(20)
<1> HIDE DEF before, after
<1>4. /\ before \o after \in Seq(S)
      /\ Len(before \o after) = Len(c) - 1
      /\ \A i \in 1 .. (Len(c) - 1) :
           (before \o after)[i] = IF i <= p - 1 THEN before[i] ELSE after[i - (p - 1)]
  <2>1. /\ before \o after \in Seq(S)
        /\ Len(before \o after) = Len(before) + Len(after)
        /\ \A i \in 1 .. (Len(before) + Len(after)) :
             (before \o after)[i] =
               IF i <= Len(before) THEN before[i] ELSE after[i - Len(before)]
    BY <1>2, <1>3, ConcatProperties
  <2>2. Len(before) + Len(after) = Len(c) - 1
    BY <1>1, <1>2, <1>3
  <2> QED
    BY <1>2, <2>1, <2>2
<1>5. ASSUME NEW i \in 1 .. (Len(c) - 1)
      PROVE  (before \o after)[i] = IF i < p THEN c[i] ELSE c[i + 1]
  <2>1. CASE i < p
    BY <1>1, <1>2, <1>4, <2>1
  <2>2. CASE ~ (i < p)
    <3>1. i - (p - 1) \in 1 .. (Len(c) - p) /\ p + (i - (p - 1)) = i + 1
      BY <1>1, <2>2
    <3> QED
      BY <1>1, <1>3, <1>4, <2>2, <3>1
  <2> QED
    BY <2>1, <2>2
<1> QED
  BY <1>4, <1>5 DEF RemoveAt, before, after

-----------------------------------------------------------------------------
(* Facts about tables.                                                        *)

WellFormed(t) ==
  /\ IsTable(t)
  /\ InItsBucket(t)
  /\ LinkedOnce(t)
  /\ IsFiniteSet(Linked(t))
  /\ t.size = Cardinality(Linked(t))

(* A node is linked iff it is at some place of some chain.                    *)
LEMMA LinkedAt ==
  ASSUME NEW t, NEW n
  PROVE  n \in Linked(t) <=> \E p \in DOMAIN t.buckets : \E i \in DOMAIN t.buckets[p] :
                                t.buckets[p][i] = n
  BY DEF Linked

(* A chain of a table is a sequence of nodes.                                 *)
LEMMA ChainOfTable ==
  ASSUME NEW t, IsTable(t), NEW p \in DOMAIN t.buckets
  PROVE  /\ p \in 0 .. (t.nb - 1)
         /\ t.buckets[p] \in Seq(Node)
         /\ DOMAIN t.buckets[p] = 1 .. Len(t.buckets[p])
         /\ Len(t.buckets[p]) \in Nat
  BY DEF IsTable

(* A hash selects a bucket of any table that is not null.                     *)
LEMMA PosInTable ==
  ASSUME NEW t, IsTable(t), ~ IsNull(t), NEW k \in Key
  PROVE  Pos(t, k) \in DOMAIN t.buckets
<1>1. t.nb \in Nat /\ t.nb > 0 /\ DOMAIN t.buckets = 0 .. (t.nb - 1)
  BY DEF IsTable, IsNull
<1>2. Hash[k] \in Nat
  BY IndexAssumption
<1>3. Hash[k] % t.nb \in 0 .. (t.nb - 1)
  BY <1>1, <1>2
<1> QED
  BY <1>1, <1>3 DEF Pos

(* A new table is well formed and links nothing.                              *)
LEMMA NewTable ==
  ASSUME NEW nb \in Nat
  PROVE  /\ WellFormed(mk_ihtable(nb))
         /\ Linked(mk_ihtable(nb)) = {}
         /\ mk_ihtable(nb).nb = nb
         /\ mk_ihtable(nb).size = 0
<1> DEFINE t == mk_ihtable(nb)
<1>1. /\ t.nb = nb /\ t.size = 0
      /\ t.buckets = [p \in 0 .. (nb - 1) |-> <<>>]
      /\ t = [nb |-> t.nb, buckets |-> t.buckets, size |-> t.size]
  BY DEF mk_ihtable
<1>2. \A p \in DOMAIN t.buckets : t.buckets[p] = <<>> /\ DOMAIN t.buckets[p] = {}
  BY <1>1
<1>3. Linked(t) = {}
  BY <1>2, LinkedAt
<1>4. IsTable(t)
  BY <1>1 DEF IsTable
<1>5. InItsBucket(t) /\ LinkedOnce(t)
  BY <1>2 DEF InItsBucket, LinkedOnce
<1>6. IsFiniteSet(Linked(t)) /\ Cardinality(Linked(t)) = 0
  BY <1>3, FS_EmptySet
<1> QED
  BY <1>1, <1>3, <1>4, <1>5, <1>6 DEF WellFormed

(* iht_insert links one node more, in the bucket of its hash.                 *)
LEMMA InsertInTable ==
  ASSUME NEW t, WellFormed(t), ~ IsNull(t), NEW n \in Node, n \notin Linked(t)
  PROVE  /\ WellFormed(iht_insert(t, n))
         /\ Linked(iht_insert(t, n)) = Linked(t) \cup {n}
         /\ iht_insert(t, n).nb = t.nb
         /\ iht_insert(t, n).size = t.size + 1
<1> DEFINE u == iht_insert(t, n)
           h == Pos(t, KeyOf[n])
<1>1. IsTable(t) /\ KeyOf[n] \in Key
  BY IndexAssumption DEF WellFormed
<1>2. h \in DOMAIN t.buckets
  BY <1>1, PosInTable
<1>3. /\ u.nb = t.nb /\ u.size = t.size + 1
      /\ u.buckets = [t.buckets EXCEPT ![h] = Cons(n, @)]
      /\ u = [nb |-> u.nb, buckets |-> u.buckets, size |-> u.size]
  BY DEF iht_insert, WithChain
<1>4. /\ DOMAIN u.buckets = DOMAIN t.buckets
      /\ u.buckets[h] = Cons(n, t.buckets[h])
      /\ \A p \in DOMAIN t.buckets : p # h => u.buckets[p] = t.buckets[p]
  BY <1>1, <1>2, <1>3 DEF IsTable
<1>5. /\ t.buckets[h] \in Seq(Node)
      /\ Len(t.buckets[h]) \in Nat
      /\ DOMAIN t.buckets[h] = 1 .. Len(t.buckets[h])
  BY <1>1, <1>2, ChainOfTable
<1>6. /\ u.buckets[h] \in Seq(Node)
      /\ DOMAIN u.buckets[h] = 1 .. (Len(t.buckets[h]) + 1)
      /\ u.buckets[h][1] = n
      /\ \A i \in 1 .. Len(t.buckets[h]) : u.buckets[h][i + 1] = t.buckets[h][i]
  <2> DEFINE c == t.buckets[h]
  <2>1. n \in Node /\ c \in Seq(Node)
    BY <1>5
  <2>2. u.buckets[h] = Cons(n, c)
    BY <1>4
  <2> HIDE DEF c, h, u
  <2>3. /\ Cons(n, c) \in Seq(Node)
        /\ Len(Cons(n, c)) = Len(c) + 1
        /\ Cons(n, c)[1] = n
        /\ \A i \in 1 .. Len(c) : Cons(n, c)[i + 1] = c[i]
    BY <2>1, ConsFacts
  <2>4. DOMAIN Cons(n, c) = 1 .. Len(Cons(n, c))
    BY <2>3
  <2> QED
    BY <2>2, <2>3, <2>4 DEF c
<1>7. Pos(u, KeyOf[n]) = h /\ \A k : Pos(u, k) = Pos(t, k)
  BY <1>3 DEF Pos
<1> HIDE DEF u, h
(* Every place of u but the first of bucket h is a place of t.                *)
<1> DEFINE Old(p, i) == IF p = h THEN i - 1 ELSE i
<1>8. ASSUME NEW p \in DOMAIN u.buckets, NEW i \in DOMAIN u.buckets[p]
      PROVE  \/ p = h /\ i = 1 /\ u.buckets[p][i] = n
             \/ /\ ~ (p = h /\ i = 1)
                /\ Old(p, i) \in DOMAIN t.buckets[p]
                /\ u.buckets[p][i] = t.buckets[p][Old(p, i)]
                /\ u.buckets[p][i] \in Linked(t)
  <2>1. CASE p = h /\ i = 1
    BY <1>6, <2>1
  <2>2. CASE p = h /\ i # 1
    <3>1. i - 1 \in 1 .. Len(t.buckets[h]) /\ (i - 1) + 1 = i
      BY <1>5, <1>6, <2>2
    <3>2. u.buckets[h][i] = t.buckets[h][i - 1]
      BY <1>6, <3>1
    <3> QED
      BY <1>2, <1>5, <2>2, <3>1, <3>2, LinkedAt
  <2>3. CASE p # h
    BY <1>4, <2>3, LinkedAt
  <2> QED
    BY <2>1, <2>2, <2>3
<1>9. Linked(u) = Linked(t) \cup {n}
  <2>1. ASSUME NEW m \in Linked(u)
        PROVE  m \in Linked(t) \cup {n}
    BY <1>8, <2>1, LinkedAt
  <2>2. n \in Linked(u)
    <3>1. 1 \in DOMAIN u.buckets[h]
      BY <1>5, <1>6
    <3> QED
      BY <1>2, <1>4, <1>6, <3>1, LinkedAt
  <2>3. ASSUME NEW m \in Linked(t)
        PROVE  m \in Linked(u)
    <3>1. PICK p \in DOMAIN t.buckets : \E i \in DOMAIN t.buckets[p] : t.buckets[p][i] = m
      BY LinkedAt
    <3>2. PICK i \in DOMAIN t.buckets[p] : t.buckets[p][i] = m
      BY <3>1
    <3>3. CASE p = h
      <4>1. i \in 1 .. Len(t.buckets[h])
        BY <1>5, <3>3
      <4>2. i + 1 \in DOMAIN u.buckets[h]
        BY <1>5, <1>6, <4>1
      <4>3. u.buckets[h][i + 1] = m
        BY <1>6, <3>2, <3>3, <4>1
      <4> QED
        BY <1>2, <1>4, <4>2, <4>3, LinkedAt
    <3>4. CASE p # h
      BY <1>4, <3>2, <3>4, LinkedAt
    <3> QED
      BY <3>3, <3>4
  <2> QED
    BY <2>1, <2>2, <2>3
<1>10. IsTable(u)
  <2>1. \A p \in 0 .. (t.nb - 1) : u.buckets[p] \in Seq(Node)
    BY <1>1, <1>4, <1>6, ChainOfTable DEF IsTable
  <2>2. u.buckets \in [0 .. (u.nb - 1) -> Seq(Node)]
    BY <1>1, <1>3, <2>1 DEF IsTable
  <2> QED
    BY <1>1, <1>3, <2>2 DEF IsTable
<1>11. InItsBucket(u)
  <2> SUFFICES ASSUME NEW p \in DOMAIN u.buckets, NEW i \in DOMAIN u.buckets[p]
               PROVE  Pos(u, KeyOf[u.buckets[p][i]]) = p
    BY DEF InItsBucket
  <2> QED
    BY <1>4, <1>7, <1>8 DEF InItsBucket, WellFormed
<1>12. LinkedOnce(u)
  <2> SUFFICES ASSUME NEW p \in DOMAIN u.buckets, NEW q \in DOMAIN u.buckets,
                      NEW i \in DOMAIN u.buckets[p], NEW j \in DOMAIN u.buckets[q],
                      u.buckets[p][i] = u.buckets[q][j]
               PROVE  p = q /\ i = j
    BY DEF LinkedOnce
  <2>1. CASE u.buckets[p][i] = n
    <3>1. p = h /\ i = 1
      BY <1>8, <2>1
    <3>2. u.buckets[q][j] \notin Linked(t)
      BY <2>1
    <3>3. q = h /\ j = 1
      BY <1>8, <3>2
    <3> QED
      BY <3>1, <3>3
  <2>2. CASE u.buckets[p][i] # n
    <3>1. Old(p, i) \in DOMAIN t.buckets[p] /\ u.buckets[p][i] = t.buckets[p][Old(p, i)]
      BY <1>8, <2>2
    <3>2. Old(q, j) \in DOMAIN t.buckets[q] /\ u.buckets[q][j] = t.buckets[q][Old(q, j)]
      BY <1>8, <2>2
    <3>3. p = q /\ Old(p, i) = Old(q, j)
      <4> HIDE DEF Old
      <4>1. p \in DOMAIN t.buckets /\ q \in DOMAIN t.buckets
        BY <1>4
      <4>2. t.buckets[p][Old(p, i)] = t.buckets[q][Old(q, j)]
        BY <3>1, <3>2
      <4>3. LinkedOnce(t)
        BY DEF WellFormed
      <4> QED
        BY <3>1, <3>2, <4>1, <4>2, <4>3 DEF LinkedOnce
    <3>4. i \in Int /\ j \in Int
      BY <1>1, <1>4, <1>6, <3>3, ChainOfTable
    <3> QED
      BY <3>3, <3>4
  <2> QED
    BY <2>1, <2>2
<1>13. IsFiniteSet(Linked(u)) /\ u.size = Cardinality(Linked(u))
  <2>1. IsFiniteSet(Linked(t)) /\ t.size = Cardinality(Linked(t))
    BY DEF WellFormed
  <2>2. /\ IsFiniteSet(Linked(t) \cup {n})
        /\ Cardinality(Linked(t) \cup {n}) = Cardinality(Linked(t)) + 1
    BY <2>1, FS_AddElement
  <2> QED
    BY <1>3, <1>9, <2>1, <2>2
<1> QED
  BY <1>3, <1>9, <1>10, <1>11, <1>12, <1>13 DEF WellFormed, u

(* iht_del unlinks the one node at the place it is given.                     *)
LEMMA DelFromTable ==
  ASSUME NEW t, WellFormed(t),
         NEW b \in DOMAIN t.buckets, NEW r \in DOMAIN t.buckets[b]
  PROVE  /\ WellFormed(iht_del(t, b, r))
         /\ Linked(iht_del(t, b, r)) = Linked(t) \ {t.buckets[b][r]}
         /\ t.buckets[b][r] \in Linked(t) \cap Node
         /\ iht_del(t, b, r).nb = t.nb
         /\ t.size > 0
         /\ iht_del(t, b, r).size = t.size - 1
<1> DEFINE u == iht_del(t, b, r)
           n == t.buckets[b][r]
<1>1. IsTable(t) /\ LinkedOnce(t)
  BY DEF WellFormed
<1>2. /\ t.buckets[b] \in Seq(Node)
      /\ Len(t.buckets[b]) \in Nat
      /\ DOMAIN t.buckets[b] = 1 .. Len(t.buckets[b])
  BY <1>1, ChainOfTable
<1>3. /\ u.nb = t.nb /\ u.size = t.size - 1
      /\ u.buckets = [t.buckets EXCEPT ![b] = RemoveAt(t.buckets[b], r)]
      /\ u = [nb |-> u.nb, buckets |-> u.buckets, size |-> u.size]
  BY DEF iht_del, WithChain
<1>4. /\ DOMAIN u.buckets = DOMAIN t.buckets
      /\ u.buckets[b] = RemoveAt(t.buckets[b], r)
      /\ \A p \in DOMAIN t.buckets : p # b => u.buckets[p] = t.buckets[p]
  BY <1>1, <1>3 DEF IsTable
<1>5. n \in Linked(t) /\ n \in Node
  BY <1>2, LinkedAt
<1>6. /\ u.buckets[b] \in Seq(Node)
      /\ DOMAIN u.buckets[b] = 1 .. (Len(t.buckets[b]) - 1)
      /\ \A i \in 1 .. (Len(t.buckets[b]) - 1) :
           u.buckets[b][i] = IF i < r THEN t.buckets[b][i] ELSE t.buckets[b][i + 1]
  <2> DEFINE c == t.buckets[b]
  <2>1. c \in Seq(Node) /\ r \in 1 .. Len(c)
    BY <1>2
  <2>2. u.buckets[b] = RemoveAt(c, r)
    BY <1>4
  <2> HIDE DEF c, u
  <2>3. /\ RemoveAt(c, r) \in Seq(Node)
        /\ Len(RemoveAt(c, r)) = Len(c) - 1
        /\ \A i \in 1 .. (Len(c) - 1) :
             RemoveAt(c, r)[i] = IF i < r THEN c[i] ELSE c[i + 1]
    BY <2>1, RemoveAtFacts
  <2>4. DOMAIN RemoveAt(c, r) = 1 .. Len(RemoveAt(c, r))
    BY <2>3
  <2> QED
    BY <2>2, <2>3, <2>4 DEF c
<1>7. \A k : Pos(u, k) = Pos(t, k)
  BY <1>3 DEF Pos
<1> HIDE DEF u, n
(* Every place of u is a place of t, and not the one that was unlinked.       *)
<1> DEFINE Old(p, i) == IF p = b /\ i >= r THEN i + 1 ELSE i
<1>8. ASSUME NEW p \in DOMAIN u.buckets, NEW i \in DOMAIN u.buckets[p]
      PROVE  /\ Old(p, i) \in DOMAIN t.buckets[p]
             /\ ~ (p = b /\ Old(p, i) = r)
             /\ u.buckets[p][i] = t.buckets[p][Old(p, i)]
  <2>1. CASE p = b
    <3>1. i \in 1 .. (Len(t.buckets[b]) - 1) /\ r \in Nat
      BY <1>2, <1>6, <2>1
    <3>2. CASE i < r
      BY <1>2, <1>6, <2>1, <3>1, <3>2
    <3>3. CASE ~ (i < r)
      <4>1. Old(p, i) = i + 1 /\ i + 1 \in DOMAIN t.buckets[p] /\ i + 1 # r
        BY <1>2, <2>1, <3>1, <3>3
      <4>2. u.buckets[p][i] = t.buckets[p][i + 1]
        BY <1>6, <2>1, <3>1, <3>3
      <4> QED
        BY <4>1, <4>2
    <3> QED
      BY <3>2, <3>3
  <2>2. CASE p # b
    BY <1>4, <2>2
  <2> QED
    BY <2>1, <2>2
<1>9. Linked(u) = Linked(t) \ {n}
  <2> HIDE DEF Old
  <2>1. ASSUME NEW m \in Linked(u)
        PROVE  m \in Linked(t) \ {n}
    <3>1. PICK p \in DOMAIN u.buckets : \E i \in DOMAIN u.buckets[p] : u.buckets[p][i] = m
      BY LinkedAt
    <3>2. PICK i \in DOMAIN u.buckets[p] : u.buckets[p][i] = m
      BY <3>1
    <3>3. /\ Old(p, i) \in DOMAIN t.buckets[p]
          /\ ~ (p = b /\ Old(p, i) = r)
          /\ m = t.buckets[p][Old(p, i)]
      BY <1>8, <3>2
    <3>4. m # t.buckets[b][r]
      BY <1>1, <1>4, <3>3 DEF LinkedOnce
    <3> QED
      BY <1>4, <3>3, <3>4, LinkedAt DEF n
  <2>2. ASSUME NEW m \in Linked(t), m # n
        PROVE  m \in Linked(u)
    <3>1. PICK p \in DOMAIN t.buckets : \E i \in DOMAIN t.buckets[p] : t.buckets[p][i] = m
      BY LinkedAt
    <3>2. PICK i \in DOMAIN t.buckets[p] : t.buckets[p][i] = m
      BY <3>1
    <3>3. CASE p # b
      BY <1>4, <3>2, <3>3, LinkedAt
    <3>4. CASE p = b
      <4>1. i \in 1 .. Len(t.buckets[b]) /\ r \in 1 .. Len(t.buckets[b]) /\ i # r
        BY <1>2, <2>2, <3>2, <3>4 DEF n
      <4>2. CASE i < r
        <5>1. i \in DOMAIN u.buckets[b] /\ u.buckets[b][i] = m
          BY <1>2, <1>6, <3>2, <3>4, <4>1, <4>2
        <5> QED
          BY <1>4, <5>1, LinkedAt
      <4>3. CASE i > r
        <5>1. i - 1 \in 1 .. (Len(t.buckets[b]) - 1) /\ ~ (i - 1 < r) /\ (i - 1) + 1 = i
          BY <1>2, <4>1, <4>3
        <5>2. i - 1 \in DOMAIN u.buckets[b] /\ u.buckets[b][i - 1] = m
          BY <1>6, <3>2, <3>4, <5>1
        <5> QED
          BY <1>4, <5>2, LinkedAt
      <4> QED
        BY <4>1, <4>2, <4>3
    <3> QED
      BY <3>3, <3>4
  <2> QED
    BY <2>1, <2>2
<1>10. IsFiniteSet(Linked(u)) /\ u.size = Cardinality(Linked(u)) /\ t.size > 0
  <2>1. IsFiniteSet(Linked(t)) /\ t.size = Cardinality(Linked(t))
    BY DEF WellFormed
  <2>2. /\ IsFiniteSet(Linked(t) \ {n})
        /\ Cardinality(Linked(t) \ {n}) = Cardinality(Linked(t)) - 1
    BY <1>5, <2>1, FS_RemoveElement
  <2>3. Cardinality(Linked(t)) \in Nat /\ Cardinality(Linked(t) \ {n}) \in Nat
    BY <2>1, <2>2, FS_CardinalityType
  <2> QED
    BY <1>3, <1>9, <2>1, <2>2, <2>3
<1>11. IsTable(u)
  <2>1. \A p \in 0 .. (t.nb - 1) : u.buckets[p] \in Seq(Node)
    BY <1>1, <1>4, <1>6, ChainOfTable DEF IsTable
  <2>2. u.buckets \in [0 .. (u.nb - 1) -> Seq(Node)]
    BY <1>1, <1>3, <2>1 DEF IsTable
  <2>3. u.size \in Nat
    BY <1>1, <1>3, <1>10 DEF IsTable
  <2> QED
    BY <1>1, <1>3, <2>2, <2>3 DEF IsTable
<1>12. InItsBucket(u)
  <2> SUFFICES ASSUME NEW p \in DOMAIN u.buckets, NEW i \in DOMAIN u.buckets[p]
               PROVE  Pos(u, KeyOf[u.buckets[p][i]]) = p
    BY DEF InItsBucket
  <2> HIDE DEF Old
  <2> QED
    BY <1>4, <1>7, <1>8 DEF InItsBucket, WellFormed
<1>13. LinkedOnce(u)
  <2> SUFFICES ASSUME NEW p \in DOMAIN u.buckets, NEW q \in DOMAIN u.buckets,
                      NEW i \in DOMAIN u.buckets[p], NEW j \in DOMAIN u.buckets[q],
                      u.buckets[p][i] = u.buckets[q][j]
               PROVE  p = q /\ i = j
    BY DEF LinkedOnce
  <2>1. p = q /\ Old(p, i) = Old(q, j)
    <3> HIDE DEF Old
    <3> QED
      BY <1>1, <1>4, <1>8 DEF LinkedOnce
  <2>2. i \in Int /\ j \in Int /\ r \in Int
    BY <1>1, <1>2, <1>4, <1>6, <2>1, ChainOfTable
  <2> QED
    BY <2>1, <2>2
<1> QED
  BY <1>3, <1>5, <1>9, <1>10, <1>11, <1>12, <1>13 DEF WellFormed, u, n

(* Buckets times load, and what doubling the buckets does to it.              *)
LEMMA RoomFacts ==
  ASSUME NEW nb \in Nat \ {0}
  PROVE  /\ nb * Load \in Nat
         /\ nb * Load > 0
         /\ (2 * nb) * Load = 2 * (nb * Load)
  BY IndexAssumption

(* A null table links nothing and counts nothing.                             *)
LEMMA NullLinksNothing ==
  ASSUME NEW t, WellFormed(t), IsNull(t)
  PROVE  Linked(t) = {} /\ t.size = 0
<1>1. DOMAIN t.buckets = {}
  BY DEF WellFormed, IsTable, IsNull
<1>2. Linked(t) = {}
  BY <1>1, LinkedAt
<1> QED
  BY <1>2, FS_EmptySet DEF WellFormed

(* Linked nodes are nodes.                                                    *)
LEMMA LinkedAreNodes ==
  ASSUME NEW t, IsTable(t)
  PROVE  Linked(t) \subseteq Node
  BY LinkedAt, ChainOfTable

(* iht_get finds nothing only where no linked node has the key.               *)
LEMMA NoMatchMeansNone ==
  ASSUME NEW t, WellFormed(t), NEW k \in Key, NoMatch(t, k), NEW n \in Linked(t)
  PROVE  KeyOf[n] # k
<1>1. PICK p \in DOMAIN t.buckets : \E i \in DOMAIN t.buckets[p] : t.buckets[p][i] = n
  BY LinkedAt
<1>2. PICK i \in DOMAIN t.buckets[p] : t.buckets[p][i] = n
  BY <1>1
<1>3. Pos(t, KeyOf[n]) = p
  BY <1>2 DEF WellFormed, InItsBucket
<1>4. ~ IsNull(t)
  BY NullLinksNothing
<1> QED
  BY <1>2, <1>3, <1>4 DEF NoMatch

-----------------------------------------------------------------------------
(* The inductive invariant, and with every step of it what the step means for *)
(* the migration and for the promise of HashIndex.                            *)

MigrationStep ==
  (~ IsNull(prev) /\ ~ IsNull(prev')) =>
    /\ prev'.nb = prev.nb /\ curr'.nb = curr.nb
    /\ Linked(prev') \subseteq Linked(prev)

IndexStep == [Index!Next]_(Index!ivars)

(* The tables of a state of IInv are well formed.                             *)
LEMMA TablesWellFormed ==
  ASSUME IInv
  PROVE  WellFormed(curr) /\ WellFormed(prev) /\ Linked(curr) \cap Linked(prev) = {}
  BY DEF IInv, TypeOK, Placement, SizesCount, WellFormed

(* The conjuncts of IInv, put together for a successor state.                 *)
LEMMA IInvNext ==
  ASSUME WellFormed(curr'), WellFormed(prev'),
         Linked(curr') \cap Linked(prev') = {},
         migrate_pos' = 0,
         pc' \in {"idle", "prehash", "fault"},
         request' \in Requests,
         work_done' \in 0 .. PrehashWork,
         ret' \in Node \cup {NoNode},
         ~ IsNull(curr') => curr'.nb >= InitBuckets,
         ~ IsNull(prev') => prev'.nb >= InitBuckets /\ curr'.nb = 2 * prev'.nb,
         pc' # "idle" => request'.op # "none",
         pc' = "fault" => ~ IsNull(prev'),
         RoomLeft'
  PROVE  IInv'
  BY DEF IInv, TypeOK, Placement, SizesCount, WellFormed

LEMMA InitInv ==
  Init => IInv
<1> SUFFICES ASSUME Init PROVE IInv
  OBVIOUS
<1>1. InitBuckets \in Nat /\ InitBuckets > 0 /\ 0 \in Nat
  BY IndexAssumption
<1>2. WellFormed(prev) /\ Linked(prev) = {} /\ IsNull(prev) /\ prev.size = 0
  BY <1>1, NewTable DEF Init, NullTable, IsNull
<1>3. /\ WellFormed(curr) /\ Linked(curr) = {} /\ curr.size = 0
      /\ IsNull(curr) \/ curr.nb = InitBuckets
  BY <1>1, NewTable DEF Init, NullTable, IsNull
<1>4. RoomLeft
  BY <1>1, <1>2, <1>3, RoomFacts DEF RoomLeft, IsNull
<1>5. TypeOK
  BY <1>2, <1>3, IndexAssumption DEF TypeOK, Init, WellFormed, Requests
<1> QED
  BY <1>1, <1>2, <1>3, <1>4, <1>5 DEF IInv, Placement, SizesCount, WellFormed, Init

(* What every proof about a step starts from.                                 *)
LEMMA InvFacts ==
  ASSUME IInv
  PROVE  /\ curr.nb \in Nat /\ prev.nb \in Nat
         /\ curr.size \in Nat /\ prev.size \in Nat
         /\ IsNull(curr) => Linked(curr) = {} /\ curr.size = 0
         /\ IsNull(prev) => Linked(prev) = {} /\ prev.size = 0
         /\ ~ IsNull(prev) => ~ IsNull(curr)
         /\ ~ IsNull(curr) => curr.nb \in Nat \ {0} /\ curr.nb * Load \in Nat
         /\ PrehashWork \in Nat \ {0} /\ InitBuckets \in Nat \ {0}
<1>1. WellFormed(curr) /\ WellFormed(prev)
  BY TablesWellFormed
<1>2. PrehashWork \in Nat \ {0} /\ InitBuckets \in Nat \ {0}
  BY IndexAssumption
<1>3. curr.nb \in Nat /\ prev.nb \in Nat /\ curr.size \in Nat /\ prev.size \in Nat
  BY <1>1 DEF WellFormed, IsTable
<1>4. ~ IsNull(prev) => ~ IsNull(curr)
  BY <1>2, <1>3 DEF IInv, IsNull
<1>5. ~ IsNull(curr) => curr.nb \in Nat \ {0} /\ curr.nb * Load \in Nat
  BY <1>3, RoomFacts DEF IsNull
<1> QED
  BY <1>1, <1>2, <1>3, <1>4, <1>5, NullLinksNothing

LEMMA CallInsertStep ==
  ASSUME IInv, NEW n \in Node, CallInsert(n)
  PROVE  IInv' /\ MigrationStep /\ IndexStep
<1> DEFINE t0 == IF IsNull(curr) THEN mk_ihtable(InitBuckets) ELSE curr
           t  == iht_insert(t0, n)
<1>1. /\ pc = "idle" /\ pc' = "prehash"
      /\ n \notin Linked(curr) /\ n \notin Linked(prev)
      /\ request' = [op |-> "insert", node |-> n]
      /\ work_done' = 0 /\ ret' = ret
  BY DEF CallInsert, BeginPrehash, entries
<1>2. IF MustGrow(t) THEN tmigrate(t)
                     ELSE curr' = t /\ prev' = prev /\ migrate_pos' = migrate_pos
  BY DEF CallInsert
<1>3. /\ WellFormed(t0) /\ Linked(t0) = Linked(curr) /\ t0.nb \in Nat /\ ~ IsNull(t0)
      /\ t0.size = curr.size /\ t0.nb >= InitBuckets
      /\ ~ IsNull(prev) => t0 = curr
      /\ IsNull(prev) => t0.size < t0.nb * Load
  <2>1. CASE IsNull(curr)
    <3>1. 0 < InitBuckets * Load
      BY InvFacts, RoomFacts
    <3>2. t0 = mk_ihtable(InitBuckets) /\ InitBuckets \in Nat \ {0}
      BY <2>1, InvFacts
    <3> HIDE DEF t0, t
    <3>3. /\ WellFormed(t0) /\ Linked(t0) = {}
          /\ t0.nb = InitBuckets /\ t0.size = 0
      BY <3>2, NewTable
    <3> QED
      BY <2>1, <3>1, <3>2, <3>3, InvFacts DEF IsNull
  <2>2. CASE ~ IsNull(curr)
    BY <2>2, InvFacts, TablesWellFormed DEF IInv, RoomLeft
  <2> QED
    BY <2>1, <2>2
<1> HIDE DEF t0
<1>4. /\ WellFormed(t) /\ t.nb = t0.nb /\ ~ IsNull(t)
      /\ Linked(t) = Linked(curr) \cup {n}
      /\ t.size = curr.size + 1
  BY <1>1, <1>3, InsertInTable DEF IsNull
<1> HIDE DEF t
<1>5. t.nb \in Nat \ {0} /\ t.nb >= InitBuckets /\ t.nb * Load \in Nat
  BY <1>3, <1>4, RoomFacts DEF IsNull
<1>6. /\ pc' \in {"idle", "prehash", "fault"} /\ request' \in Requests
      /\ work_done' \in 0 .. PrehashWork /\ ret' \in Node \cup {NoNode}
      /\ request'.op = "insert"
  BY <1>1, InvFacts DEF IInv, TypeOK, Requests
<1>7. FreshInsert'
  BY <1>1, <1>6 DEF FreshInsert
<1>8. /\ IInv' /\ MigrationStep
      /\ Linked(curr') \cup Linked(prev') = (Linked(curr) \cup Linked(prev)) \cup {n}
  <2>1. CASE MustGrow(t)
    <3>1. /\ IsNull(prev) /\ t.size >= t.nb * Load
          /\ prev' = t /\ curr' = mk_ihtable(2 * t.nb) /\ migrate_pos' = 0
      BY <1>2, <2>1 DEF MustGrow, tmigrate
    <3>2. /\ WellFormed(curr') /\ Linked(curr') = {}
          /\ curr'.nb = 2 * t.nb /\ curr'.size = 0
      BY <1>5, <3>1, NewTable
    <3>3. t.size = t.nb * Load /\ t.nb * Load > 0
      BY <1>3, <1>4, <1>5, <3>1, InvFacts, RoomFacts
    <3>4. curr'.nb * Load = 2 * (t.nb * Load)
      BY <1>5, <3>2, RoomFacts
    <3>5. RoomLeft'
      BY <1>1, <1>4, <1>5, <1>7, <3>1, <3>2, <3>3, <3>4 DEF RoomLeft
    <3>6. Linked(prev) = {}
      BY <3>1, InvFacts
    <3>7. curr'.nb >= InitBuckets
      BY <1>5, <3>2, InvFacts
    <3> QED
      BY <1>1, <1>4, <1>5, <1>6, <3>1, <3>2, <3>5, <3>6, <3>7, IInvNext DEF MigrationStep
  <2>2. CASE ~ MustGrow(t)
    <3>1. curr' = t /\ prev' = prev /\ migrate_pos' = 0
      BY <1>2, <2>2 DEF IInv
    <3>2. WellFormed(prev') /\ Linked(curr') \cap Linked(prev') = {}
      BY <1>1, <1>4, <3>1, TablesWellFormed
    <3>3. ~ IsNull(prev) => t.nb = curr.nb
      BY <1>3, <1>4
    <3>4. RoomLeft'
      <4>1. CASE IsNull(prev)
        <5>1. t.size < t.nb * Load
          BY <1>4, <1>5, <2>2, <4>1, InvFacts DEF MustGrow
        <5> QED
          BY <3>1, <4>1, <5>1 DEF RoomLeft
      <4>2. CASE ~ IsNull(prev)
        <5> DEFINE room == curr.nb * Load
        <5>1. room \in Nat /\ t.nb * Load = room
          BY <3>3, <4>2, InvFacts
        <5>2. /\ curr.size + prev.size < room
              /\ curr.size + 2 * prev.size <= room
              /\ curr.size + 2 * prev.size # room
              /\ curr.size + 2 < room
          BY <1>1, <4>2 DEF IInv, RoomLeft, FreshInsert
        <5> HIDE DEF room
        <5>3. /\ t.size + prev.size < room
              /\ t.size + 2 * prev.size <= room
          BY <1>4, <5>1, <5>2, InvFacts
        <5> QED
          BY <1>1, <1>7, <3>1, <4>2, <5>1, <5>3 DEF RoomLeft
      <4> QED
        BY <4>1, <4>2
    <3>5. ~ IsNull(prev') => prev'.nb >= InitBuckets /\ curr'.nb = 2 * prev'.nb
      BY <3>1, <3>3 DEF IInv
    <3> QED
      BY <1>1, <1>4, <1>5, <1>6, <3>1, <3>2, <3>3, <3>4, <3>5, IInvNext DEF MigrationStep
  <2> QED
    BY <2>1, <2>2
<1>9. Index!Insert(n)
  BY <1>1, <1>8 DEF Index!Insert, entries
<1> QED
  BY <1>8, <1>9 DEF IndexStep, Index!Next

LEMMA CallLookupStep ==
  ASSUME IInv, NEW op \in {"find", "del"}, NEW k \in Key, CallLookup(op, k)
  PROVE  IInv' /\ MigrationStep /\ IndexStep
<1>1. /\ pc = "idle" /\ pc' = "prehash"
      /\ request' = [op |-> op, key |-> k]
      /\ work_done' = 0 /\ ret' = ret
      /\ curr' = curr /\ prev' = prev /\ migrate_pos' = migrate_pos
  BY DEF CallLookup, BeginPrehash
<1>2. /\ pc' \in {"idle", "prehash", "fault"} /\ request' \in Requests
      /\ work_done' \in 0 .. PrehashWork /\ ret' \in Node \cup {NoNode}
      /\ request'.op # "none"
  BY <1>1, InvFacts DEF IInv, TypeOK, Requests
<1>3. RoomLeft'
  BY <1>1 DEF IInv, RoomLeft, FreshInsert
<1>4. IInv'
  BY <1>1, <1>2, <1>3, TablesWellFormed, IInvNext DEF IInv
<1>5. MigrationStep
  BY <1>1 DEF MigrationStep
<1>6. Index!Ask(op, k)
  BY <1>1 DEF Index!Ask, entries
<1> QED
  BY <1>4, <1>5, <1>6 DEF IndexStep, Index!Next

LEMMA PrehashMoveStep ==
  ASSUME IInv, PrehashMove
  PROVE  IInv' /\ MigrationStep /\ IndexStep
<1> DEFINE b == prev.buckets[migrate_pos]
           n == b[1]
<1>1. /\ pc = "prehash" /\ work_done < PrehashWork /\ prev.size > 0
      /\ b # <<>>
      /\ prev' = iht_del(prev, migrate_pos, 1)
      /\ curr' = iht_insert(curr, n)
      /\ work_done' = work_done + 1
      /\ migrate_pos' = migrate_pos /\ pc' = pc /\ request' = request /\ ret' = ret
  BY DEF PrehashMove, LoopGuard
<1>2. ~ IsNull(prev) /\ ~ IsNull(curr)
  BY <1>1, InvFacts
<1>3. /\ WellFormed(prev) /\ WellFormed(curr) /\ Linked(curr) \cap Linked(prev) = {}
  BY TablesWellFormed
<1>4. migrate_pos \in DOMAIN prev.buckets /\ 1 \in DOMAIN prev.buckets[migrate_pos]
  <2>1. migrate_pos \in DOMAIN prev.buckets
    BY <1>2, <1>3 DEF IInv, WellFormed, IsTable, IsNull
  <2>2. b \in Seq(Node)
    BY <1>3, <2>1, ChainOfTable DEF WellFormed
  <2>3. 1 \in DOMAIN b
    BY <1>1, <2>2
  <2> QED
    BY <2>1, <2>3
<1>5. /\ WellFormed(prev') /\ prev'.nb = prev.nb /\ prev'.size = prev.size - 1
      /\ Linked(prev') = Linked(prev) \ {n} /\ n \in Linked(prev) /\ n \in Node
  BY <1>1, <1>3, <1>4, DelFromTable
<1>6. /\ WellFormed(curr') /\ curr'.nb = curr.nb /\ curr'.size = curr.size + 1
      /\ Linked(curr') = Linked(curr) \cup {n}
  <2>1. n \notin Linked(curr)
    BY <1>3, <1>5
  <2> HIDE DEF n
  <2> QED
    BY <1>1, <1>2, <1>3, <1>5, <2>1, InsertInTable
<1> HIDE DEF b, n
<1>7. work_done' \in 0 .. PrehashWork
  BY <1>1, InvFacts DEF IInv, TypeOK
<1>8. RoomLeft'
  <2> DEFINE room == curr.nb * Load
  <2>1. room \in Nat /\ curr'.nb * Load = room
    BY <1>2, <1>6, InvFacts
  <2>2. /\ curr.size + prev.size < room
        /\ curr.size + 2 * prev.size <= room
    BY <1>2 DEF IInv, RoomLeft
  <2> HIDE DEF room
  <2>3. /\ curr'.size + prev'.size < room
        /\ curr'.size + 2 * prev'.size < room
    BY <1>5, <1>6, <2>1, <2>2, InvFacts
  <2>4. ~ IsNull(prev') /\ pc' # "idle" /\ curr'.nb * Load = room
    BY <1>1, <1>2, <1>5, <2>1 DEF IsNull
  <2>5. curr'.size + 2 * prev'.size <= room /\ curr'.size + 2 * prev'.size # room
    BY <1>5, <1>6, <2>1, <2>3, InvFacts
  <2> QED
    BY <2>3, <2>4, <2>5 DEF RoomLeft
<1>9. IInv'
  <2>1. Linked(curr') \cap Linked(prev') = {}
    BY <1>3, <1>5, <1>6
  <2>2. /\ pc' \in {"idle", "prehash", "fault"} /\ request' \in Requests
        /\ ret' \in Node \cup {NoNode} /\ migrate_pos' = 0
        /\ pc' # "fault" /\ request'.op # "none"
    BY <1>1 DEF IInv, TypeOK
  <2>3. /\ ~ IsNull(curr') => curr'.nb >= InitBuckets
        /\ ~ IsNull(prev') => prev'.nb >= InitBuckets /\ curr'.nb = 2 * prev'.nb
    BY <1>2, <1>5, <1>6 DEF IInv
  <2> QED
    BY <1>5, <1>6, <1>7, <1>8, <2>1, <2>2, <2>3, IInvNext
<1>10. MigrationStep
  BY <1>5, <1>6 DEF MigrationStep
<1>11. UNCHANGED Index!ivars
  <2>1. Linked(curr') \cup Linked(prev') = Linked(curr) \cup Linked(prev)
    BY <1>5, <1>6
  <2> QED
    BY <1>1, <2>1 DEF Index!ivars, entries
<1> QED
  BY <1>9, <1>10, <1>11 DEF IndexStep

LEMMA PrehashFaultStep ==
  ASSUME IInv, PrehashFault
  PROVE  IInv' /\ MigrationStep /\ IndexStep
<1>1. /\ pc = "prehash" /\ prev.size > 0 /\ pc' = "fault"
      /\ curr' = curr /\ prev' = prev /\ migrate_pos' = migrate_pos
      /\ request' = request /\ work_done' = work_done /\ ret' = ret
  BY DEF PrehashFault, LoopGuard
<1>2. ~ IsNull(prev)
  BY <1>1, InvFacts
<1>3. RoomLeft'
  BY <1>1 DEF IInv, RoomLeft, FreshInsert
<1>4. IInv'
  BY <1>1, <1>2, <1>3, TablesWellFormed, IInvNext DEF IInv, TypeOK
<1>5. Index!Die
  BY <1>1 DEF Index!Die, entries
<1> QED
  BY <1>1, <1>4, <1>5 DEF IndexStep, Index!Next, MigrationStep

(* Where the loop of ihs_prehash ends, the old table is drained or a node has  *)
(* been moved: what is left of it leaves room in the new one.                  *)
LEMMA RestFacts ==
  ASSUME IInv, pc = "prehash", ~ LoopGuard
  PROVE  /\ WellFormed(Rest) /\ Linked(Rest) = Linked(prev) /\ Rest.size \in Nat
         /\ IsNull(Rest) /\ ~ IsNull(curr) => curr.size < curr.nb * Load
         /\ ~ IsNull(Rest) => /\ Rest = prev /\ ~ IsNull(prev) /\ prev.size > 0
                              /\ curr.size + 2 * prev.size < curr.nb * Load
<1>1. WellFormed(prev) /\ prev.size \in Nat
  BY TablesWellFormed, InvFacts
<1>2. CASE prev.size = 0
  <2>1. Rest = mk_ihtable(0)
    BY <1>2 DEF Rest, NullTable
  <2>2. WellFormed(Rest) /\ Linked(Rest) = {} /\ IsNull(Rest) /\ Rest.size = 0
    BY <2>1, NewTable DEF IsNull
  <2>3. Linked(prev) = {}
    BY <1>1, <1>2, FS_EmptySet DEF WellFormed
  <2>4. ~ IsNull(curr) => curr.size < curr.nb * Load
    BY <1>2, InvFacts DEF IInv, RoomLeft
  <2> QED
    BY <2>2, <2>3, <2>4
<1>3. CASE prev.size # 0
  <2>1. Rest = prev /\ ~ IsNull(prev) /\ prev.size > 0
    BY <1>1, <1>3, InvFacts DEF Rest
  <2>2. work_done # 0
    BY <2>1, InvFacts DEF LoopGuard
  <2>3. curr.size + 2 * prev.size < curr.nb * Load
    <3> DEFINE room == curr.nb * Load
    <3>1. curr.size + 2 * prev.size <= room /\ curr.size + 2 * prev.size # room
      BY <2>1, <2>2 DEF IInv, RoomLeft, FreshInsert
    <3>2. room \in Nat
      BY <2>1, InvFacts
    <3> HIDE DEF room
    <3>3. curr.size + 2 * prev.size < room
      BY <3>1, <3>2, InvFacts
    <3> QED
      BY <3>3 DEF room
  <2> QED
    BY <1>1, <2>1, <2>3
<1> QED
  BY <1>2, <1>3

(* A call that returns with no more than was linked keeps the invariant.       *)
LEMMA ReturnInv ==
  ASSUME IInv, NEW op, EndPrehash(op),
         WellFormed(curr'), WellFormed(prev'),
         curr'.nb = curr.nb, prev'.nb = Rest.nb,
         curr'.size <= curr.size, prev'.size <= Rest.size,
         Linked(curr') \subseteq Linked(curr), Linked(prev') \subseteq Linked(prev),
         ret' \in Node \cup {NoNode}
  PROVE  IInv' /\ MigrationStep
<1>1. /\ pc = "prehash" /\ ~ LoopGuard /\ pc' = "idle"
      /\ migrate_pos' = migrate_pos /\ request' = request /\ work_done' = work_done
  BY DEF EndPrehash
<1>2. /\ curr.size \in Nat /\ curr'.size \in Nat /\ prev'.size \in Nat
  BY InvFacts DEF WellFormed, IsTable
<1>3. IsNull(curr') <=> IsNull(curr)
  BY DEF IsNull
<1>4. IsNull(prev') <=> IsNull(Rest)
  BY DEF IsNull
<1>5. ~ IsNull(prev') => Rest = prev /\ ~ IsNull(prev) /\ prev'.nb = prev.nb
  BY <1>1, <1>4, RestFacts
<1>6. RoomLeft'
  <2> DEFINE room == curr.nb * Load
  <2>1. curr'.nb * Load = room
    OBVIOUS
  <2>2. CASE IsNull(prev')
    <3>1. ~ IsNull(curr) => curr.size < room /\ room \in Nat
      BY <1>1, <1>4, <2>2, RestFacts, InvFacts
    <3> HIDE DEF room
    <3>2. ~ IsNull(curr') => curr'.size < room
      BY <1>2, <1>3, <3>1
    <3> QED
      BY <2>1, <2>2, <3>2 DEF RoomLeft
  <2>3. CASE ~ IsNull(prev')
    <3>1. /\ curr.size + 2 * prev.size < room /\ room \in Nat
          /\ prev.size > 0 /\ prev.size \in Nat /\ prev'.size <= prev.size
      BY <1>1, <1>4, <1>5, <2>3, RestFacts, InvFacts
    <3> HIDE DEF room
    <3>2. /\ curr'.size + prev'.size < room
          /\ curr'.size + 2 * prev'.size <= room
          /\ curr'.size + 2 * prev'.size # room
          /\ curr'.size + 2 < room
      BY <1>2, <3>1
    <3> QED
      BY <2>1, <2>3, <3>2 DEF RoomLeft
  <2> QED
    BY <2>2, <2>3
<1>7. IInv'
  <2>1. Linked(curr') \cap Linked(prev') = {}
    BY TablesWellFormed
  <2>2. /\ pc' \in {"idle", "prehash", "fault"} /\ request' \in Requests
        /\ work_done' \in 0 .. PrehashWork /\ migrate_pos' = 0
    BY <1>1 DEF IInv, TypeOK
  <2>3. /\ ~ IsNull(curr') => curr'.nb >= InitBuckets
        /\ ~ IsNull(prev') => prev'.nb >= InitBuckets /\ curr'.nb = 2 * prev'.nb
    BY <1>3, <1>5 DEF IInv
  <2> QED
    BY <1>1, <1>6, <2>1, <2>2, <2>3, IInvNext
<1>8. MigrationStep
  BY <1>5 DEF MigrationStep
<1> QED
  BY <1>7, <1>8

LEMMA ReturnInsertStep ==
  ASSUME IInv, ReturnInsert
  PROVE  IInv' /\ MigrationStep /\ IndexStep
<1>1. /\ EndPrehash("insert") /\ pc = "prehash" /\ ~ LoopGuard /\ pc' = "idle"
      /\ request.op = "insert" /\ request' = request
      /\ prev' = Rest /\ curr' = curr /\ ret' = NoNode
  BY DEF ReturnInsert, EndPrehash
<1>2. WellFormed(curr) /\ WellFormed(Rest) /\ Linked(Rest) = Linked(prev) /\ Rest.size \in Nat
  BY <1>1, TablesWellFormed, RestFacts
<1>3. IInv' /\ MigrationStep
  BY <1>1, <1>2, InvFacts, ReturnInv
<1>4. Index!Return
  BY <1>1, <1>2 DEF Index!Return, entries
<1> QED
  BY <1>3, <1>4 DEF IndexStep, Index!Next

(* The node a lookup of a table finds is linked there and has the key.        *)
LEMMA MatchIsLinked ==
  ASSUME NEW t, WellFormed(t), NEW k,
         NEW b \in DOMAIN t.buckets, NEW r \in DOMAIN t.buckets[b],
         iht_get(t, k, b, r)
  PROVE  t.buckets[b][r] \in Linked(t) \cap Node /\ KeyOf[t.buckets[b][r]] = k
  BY DelFromTable DEF iht_get

(* What both tables of a lookup do not have, nothing linked has.              *)
LEMMA NotFoundMeansNone ==
  ASSUME IInv, pc = "prehash", ~ LoopGuard, request.key \in Key, NotFound
  PROVE  \A n \in entries : KeyOf[n] # request.key
<1>1. WellFormed(curr) /\ WellFormed(Rest) /\ Linked(Rest) = Linked(prev)
  BY TablesWellFormed, RestFacts
<1>2. NoMatch(curr, request.key) /\ NoMatch(Rest, request.key)
  BY DEF NotFound
<1>3. \A n \in Linked(curr) : KeyOf[n] # request.key
  BY <1>1, <1>2, NoMatchMeansNone
<1>4. \A n \in Linked(Rest) : KeyOf[n] # request.key
  BY <1>1, <1>2, NoMatchMeansNone
<1> QED
  BY <1>1, <1>3, <1>4 DEF entries

LEMMA ReturnFindStep ==
  ASSUME IInv, ReturnFind
  PROVE  IInv' /\ MigrationStep /\ IndexStep
<1>1. /\ EndPrehash("find") /\ pc = "prehash" /\ ~ LoopGuard /\ pc' = "idle"
      /\ request.op = "find" /\ request' = request
      /\ prev' = Rest /\ curr' = curr
  BY DEF ReturnFind, EndPrehash
<1>2. /\ WellFormed(curr) /\ WellFormed(Rest) /\ Linked(Rest) = Linked(prev)
      /\ Rest.size \in Nat /\ curr.size \in Nat
  BY <1>1, TablesWellFormed, RestFacts, InvFacts
<1>3. request.key \in Key
  BY <1>1 DEF IInv, TypeOK, Requests
<1>4. ret' \in Index!AnswersTo(request.key) /\ ret' \in Node \cup {NoNode}
  <2>1. ASSUME NEW p \in DOMAIN curr.buckets, NEW i \in DOMAIN curr.buckets[p],
               FoundInCurr(p, i), ret' = curr.buckets[p][i]
        PROVE  ret' \in entries \cap Node /\ KeyOf[ret'] = request.key
    BY <1>2, <2>1, MatchIsLinked DEF FoundInCurr, entries
  <2>2. ASSUME NEW p \in DOMAIN Rest.buckets, NEW i \in DOMAIN Rest.buckets[p],
               FoundInPrev(p, i), ret' = Rest.buckets[p][i]
        PROVE  ret' \in entries \cap Node /\ KeyOf[ret'] = request.key
    BY <1>2, <2>2, MatchIsLinked DEF FoundInPrev, entries
  <2>3. CASE NotFound
    BY <1>1, <1>3, <2>3, NotFoundMeansNone
       DEF NotFound, Index!AnswersTo, Index!MatchesOf
  <2>4. CASE ret' \in entries \cap Node /\ KeyOf[ret'] = request.key
    BY <2>4 DEF Index!AnswersTo, Index!MatchesOf
  <2> QED
    BY <2>1, <2>2, <2>3, <2>4 DEF ReturnFind
<1>5. IInv' /\ MigrationStep
  BY <1>1, <1>2, <1>4, ReturnInv
<1>6. Index!Return
  BY <1>1, <1>2, <1>4 DEF Index!Return, entries
<1> QED
  BY <1>5, <1>6 DEF IndexStep, Index!Next

LEMMA ReturnDelStep ==
  ASSUME IInv, ReturnDel
  PROVE  IInv' /\ MigrationStep /\ IndexStep
<1>1. /\ EndPrehash("del") /\ pc = "prehash" /\ ~ LoopGuard /\ pc' = "idle"
      /\ request.op = "del" /\ request' = request
  BY DEF ReturnDel, EndPrehash
<1>2. /\ WellFormed(curr) /\ WellFormed(Rest) /\ Linked(Rest) = Linked(prev)
      /\ Rest.size \in Nat /\ curr.size \in Nat
      /\ Linked(curr) \cap Linked(prev) = {}
      /\ NoNode \notin Node /\ Linked(curr) \subseteq Node /\ Linked(prev) \subseteq Node
  BY <1>1, TablesWellFormed, RestFacts, InvFacts, LinkedAreNodes, IndexAssumption
     DEF WellFormed
<1>3. request.key \in Key
  BY <1>1 DEF IInv, TypeOK, Requests
<1> DEFINE Effect == /\ IInv' /\ MigrationStep
                     /\ ret' \in Index!AnswersTo(request.key)
                     /\ entries' = entries \ {ret'}
<1>4. ASSUME NEW p \in DOMAIN curr.buckets, NEW i \in DOMAIN curr.buckets[p],
             FoundInCurr(p, i), ret' = curr.buckets[p][i],
             curr' = iht_del(curr, p, i), prev' = Rest
      PROVE  Effect
  <2>1. ret' \in Linked(curr) \cap Node /\ KeyOf[ret'] = request.key
    BY <1>2, <1>4, MatchIsLinked DEF FoundInCurr
  <2>2. /\ WellFormed(curr') /\ Linked(curr') = Linked(curr) \ {ret'}
        /\ curr'.nb = curr.nb /\ curr'.size = curr.size - 1
    BY <1>2, <1>4, DelFromTable
  <2>3. IInv' /\ MigrationStep
    BY <1>1, <1>2, <1>4, <2>1, <2>2, ReturnInv
  <2> QED
    BY <1>2, <1>4, <2>1, <2>2, <2>3 DEF entries, Index!AnswersTo, Index!MatchesOf
<1>5. ASSUME NEW p \in DOMAIN Rest.buckets, NEW i \in DOMAIN Rest.buckets[p],
             FoundInPrev(p, i), ret' = Rest.buckets[p][i],
             prev' = iht_del(Rest, p, i), curr' = curr
      PROVE  Effect
  <2>1. ret' \in Linked(Rest) \cap Node /\ KeyOf[ret'] = request.key
    BY <1>2, <1>5, MatchIsLinked DEF FoundInPrev
  <2>2. /\ WellFormed(prev') /\ Linked(prev') = Linked(Rest) \ {ret'}
        /\ prev'.nb = Rest.nb /\ prev'.size = Rest.size - 1
    BY <1>2, <1>5, DelFromTable
  <2>3. IInv' /\ MigrationStep
    BY <1>1, <1>2, <1>5, <2>1, <2>2, ReturnInv
  <2> QED
    BY <1>2, <1>5, <2>1, <2>2, <2>3 DEF entries, Index!AnswersTo, Index!MatchesOf
<1>6. ASSUME NotFound, prev' = Rest, curr' = curr
      PROVE  Effect
  <2>1. ret' = NoNode /\ \A n \in entries : KeyOf[n] # request.key
    BY <1>1, <1>3, <1>6, NotFoundMeansNone DEF NotFound
  <2>2. IInv' /\ MigrationStep
    BY <1>1, <1>2, <1>6, <2>1, ReturnInv
  <2> QED
    BY <1>2, <1>6, <2>1, <2>2 DEF entries, Index!AnswersTo, Index!MatchesOf
<1>7. Effect
  BY <1>4, <1>5, <1>6 DEF ReturnDel
<1>8. Index!Return
  BY <1>1, <1>7 DEF Index!Return
<1> QED
  BY <1>7, <1>8 DEF IndexStep, Index!Next

-----------------------------------------------------------------------------
LEMMA NextStep ==
  ASSUME IInv, [Next]_vars
  PROVE  IInv' /\ MigrationStep /\ IndexStep
<1>1. ASSUME NEW n \in Node, CallInsert(n)
      PROVE  IInv' /\ MigrationStep /\ IndexStep
  BY <1>1, CallInsertStep
<1>2. ASSUME NEW op \in {"find", "del"}, NEW k \in Key, CallLookup(op, k)
      PROVE  IInv' /\ MigrationStep /\ IndexStep
  BY <1>2, CallLookupStep
<1>3. CASE PrehashMove
  BY <1>3, PrehashMoveStep
<1>4. CASE PrehashFault
  BY <1>4, PrehashFaultStep
<1>5. CASE ReturnInsert
  BY <1>5, ReturnInsertStep
<1>6. CASE ReturnFind
  BY <1>6, ReturnFindStep
<1>7. CASE ReturnDel
  BY <1>7, ReturnDelStep
<1>8. CASE UNCHANGED vars
  <2>1. /\ curr' = curr /\ prev' = prev /\ migrate_pos' = migrate_pos
        /\ pc' = pc /\ request' = request /\ work_done' = work_done /\ ret' = ret
    BY <1>8 DEF vars
  <2>2. RoomLeft'
    BY <2>1 DEF IInv, RoomLeft, FreshInsert
  <2>3. IInv'
    BY <2>1, <2>2, TablesWellFormed, IInvNext DEF IInv, TypeOK
  <2> QED
    BY <2>1, <2>3 DEF MigrationStep, IndexStep, Index!ivars, entries
<1> QED
  BY <1>1, <1>2, <1>3, <1>4, <1>5, <1>6, <1>7, <1>8 DEF Next, Prehash, Return

(* The inductive invariant holds of every behaviour of hash.cpp.              *)
THEOREM Invariance == Spec => []IInv
<1>1. Init => IInv
  BY InitInv
<1>2. IInv /\ [Next]_vars => IInv'
  BY NextStep
<1> QED
  BY <1>1, <1>2, PTL DEF Spec

(* Every variable of the set keeps its type.                                  *)
THEOREM TypeCorrect == Spec => []TypeOK
<1>1. IInv => TypeOK
  BY DEF IInv
<1> QED
  BY <1>1, Invariance, PTL

(* Moving nodes between the tables, a call at a time, never loses a node, puts *)
(* one in two chains or leaves one where its hash does not find it.            *)
THEOREM PlacementHolds == Spec => []Placement
<1>1. IInv => Placement
  BY DEF IInv
<1> QED
  BY <1>1, Invariance, PTL

(* The counts that drive growth and end a migration are exact.                *)
THEOREM SizesCountHolds == Spec => []SizesCount
<1>1. IInv => SizesCount
  BY DEF IInv
<1> QED
  BY <1>1, Invariance, PTL

(* Between calls the index is never fuller than its load allows, however many  *)
(* nodes are inserted while a migration goes on.                               *)
THEOREM LoadIsKept == Spec => []LoadKept
<1>1. IInv => LoadKept
  <2> SUFFICES ASSUME IInv, pc = "idle", ~ IsNull(curr)
               PROVE  curr.size + prev.size < curr.nb * Load
    BY DEF LoadKept
  <2>1. curr.size + 0 = curr.size
    BY InvFacts
  <2> QED
    BY <2>1, InvFacts DEF IInv, RoomLeft
<1> QED
  BY <1>1, Invariance, PTL

(* Only an index that has grown crashes.                                      *)
THEOREM FaultNeedsGrowthHolds == Spec => []FaultNeedsGrowth
<1>1. IInv => FaultNeedsGrowth
  <2> SUFFICES ASSUME IInv, pc = "fault"
               PROVE  curr.nb > InitBuckets
    BY DEF FaultNeedsGrowth
  <2>1. prev.nb >= InitBuckets /\ curr.nb = 2 * prev.nb
    BY DEF IInv
  <2> QED
    BY <2>1, InvFacts
<1> QED
  BY <1>1, Invariance, PTL

(* A migration that is not finished is never started again (hash.cpp:87).      *)
THEOREM MigrationRunsOnceHolds == Spec => MigrationRunsOnce
<1>1. IInv /\ [Next]_vars => [MigrationStep]_vars
  BY NextStep
<1> QED
  BY <1>1, Invariance, PTL DEF Spec, MigrationRunsOnce, MigrationStep

(* The set implements the promise of HashIndex: every step is a step of the    *)
(* index, or leaves what its callers see as it was.                            *)
THEOREM ImplementsIndex == Spec => IndexSpec
<1>1. Init => Index!Init
  <2> SUFFICES ASSUME Init PROVE Index!Init
    OBVIOUS
  <2>1. Linked(curr) = {} /\ Linked(prev) = {}
    BY NewTable, IndexAssumption DEF Init, NullTable
  <2> QED
    BY <2>1 DEF Init, Index!Init, entries
<1>2. IInv /\ [Next]_vars => [Index!Next]_(Index!ivars)
  BY NextStep DEF IndexStep
<1> QED
  BY <1>1, <1>2, Invariance, PTL DEF Spec, IndexSpec, Index!Spec
=============================================================================
