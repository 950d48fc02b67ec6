---------------------------- MODULE HashSetProofs ----------------------------
(***************************************************************************)
(* The hash set of kvt_set.cpp, for any nodes, keys and hashes, any first size, load,   *)
(* work of a call and width of the sizes.                                          *)
(***************************************************************************)
EXTENDS HashSet, FiniteSetTheorems, WellFoundedInduction, TLAPS

Link == Node \cup {Null}

Buckets == {NoBuckets} \cup UNION {[0 .. m -> Link] : m \in Nat}

TableRec == [buckets : Buckets, size : SizeT, mask : Nat]

SetRec == [curr : TableRec, prev : TableRec, migrate_pos : Nat, next : [Node -> Link]]

(* There is a bucket to take a node from, if only because no node is ever taken out.      *)
Held(t, pos) == t.size # 0 => Busy(t, pos) # {}

Good(s) ==
  /\ s \in SetRec /\ TableOK(s.curr) /\ TableOK(s.prev)
  /\ s.migrate_pos <= s.prev.mask + 1
  /\ Held(s.curr, 0) /\ Held(s.prev, s.migrate_pos)
  /\ Busy(s.prev, 0) # {} => Busy(s.prev, s.migrate_pos) # {}
  /\ IsNull(s.curr) => IsNull(s.prev)

(* The inductive invariant.                                                            *)
IInv ==
  /\ Good(set)
  /\ where \in [Node -> {"fresh", "in", "out", "freed"}]
  /\ process \in {"up", "hung", "fault", "ended"}
-----------------------------------------------------------------------------

(* % gives a remainder.                                                            *)
LEMMA ModRange ==
  ASSUME NEW a \in Nat, NEW b \in Nat \ {0}
  PROVE  a % b \in 0 .. (b - 1)
  OBVIOUS

(* Sizes stay sizes when nodes are counted in and out.                             *)
LEMMA SizeRange ==
  ASSUME NEW a \in Nat
  PROVE  /\ SizeMod \in Nat \ {0} /\ 0 \in SizeT /\ SizeT \subseteq Nat
         /\ \A n \in Nat : Plus(a, n) \in SizeT
         /\ \A n \in Nat : n <= a => Minus(a, n) \in SizeT
         /\ Minus(a, 1) \in SizeT
<1>1. SizeMod \in Nat \ {0}
  BY SetAssumption
<1>2. ASSUME NEW n \in Nat
      PROVE  Plus(a, n) \in SizeT
  BY <1>1, ModRange DEF Plus, SizeT
<1>3. ASSUME NEW n \in Nat, n <= a
      PROVE  Minus(a, n) \in SizeT
  <2>1. a + SizeMod - n \in Nat
    BY <1>1, <1>3
  <2> QED
    BY <1>1, <2>1, ModRange DEF Minus, SizeT
<1>4. Minus(a, 1) \in SizeT
  <2>1. a + SizeMod - 1 \in Nat
    BY <1>1
  <2> QED
    BY <1>1, <2>1, ModRange DEF Minus, SizeT
<1> QED
  BY <1>1, <1>2, <1>3, <1>4 DEF SizeT

(* What the remainder is, below twice the divisor.                                 *)
LEMMA ModIs ==
  ASSUME NEW a \in Nat, NEW b \in Nat \ {0}
  PROVE  /\ a < b => a % b = a
         /\ b <= a /\ a < 2 * b => a % b = a - b
OBVIOUS

SizeOf(s) == Plus(s.curr.size, s.prev.size)

(* Plus and Minus of sizes, and how they go together.                                     *)
LEMMA PlusMinusAre ==
  ASSUME NEW a \in SizeT, NEW n \in Nat
  PROVE  /\ n <= SizeMod => Plus(a, n) = IF a + n < SizeMod THEN a + n ELSE a + n - SizeMod
         /\ n <= SizeMod => Minus(a, n) = IF n <= a THEN a - n ELSE a + SizeMod - n
<1>1. PICK M \in Nat \ {0} : M = SizeMod
  BY SetAssumption
<1>2. a \in Nat /\ a < M
  BY <1>1 DEF SizeT
<1>3. ASSUME n <= M
      PROVE  (a + n) % M = IF a + n < M THEN a + n ELSE a + n - M
  <2>1. PICK x \in Nat : x = a + n
    BY <1>2
  <2>2. x < 2 * M
    BY <1>2, <1>3, <2>1
  <2>3. CASE x < M
    <3>1. x % M = x
      BY ONLY x \in Nat, M \in Nat \ {0}, <2>3, ModIs
    <3> QED
      BY <1>2, <1>3, <2>1, <2>3, <3>1
  <2>4. CASE ~ (x < M)
    <3>1. M <= x
      BY <2>4
    <3>2. x % M = x - M
      BY ONLY x \in Nat, M \in Nat \ {0}, <2>2, <3>1, ModIs
    <3> QED
      BY <1>2, <1>3, <2>1, <2>4, <3>2
  <2> QED
    BY <2>3, <2>4
<1>4. ASSUME n <= M
      PROVE  (a + M - n) % M = IF n <= a THEN a - n ELSE a + M - n
  <2>1. PICK x \in Nat : x = a + M - n
    BY <1>2, <1>4
  <2>2. x < 2 * M
    BY <1>2, <1>4, <2>1
  <2>3. CASE x < M
    <3>1. x % M = x
      BY ONLY x \in Nat, M \in Nat \ {0}, <2>3, ModIs
    <3> QED
      BY <1>2, <1>4, <2>1, <2>3, <3>1
  <2>4. CASE ~ (x < M)
    <3>1. M <= x
      BY <2>4
    <3>2. x % M = x - M
      BY ONLY x \in Nat, M \in Nat \ {0}, <2>2, <3>1, ModIs
    <3> QED
      BY <1>2, <1>4, <2>1, <2>4, <3>2
  <2> QED
    BY <2>3, <2>4
<1> QED
  BY <1>1, <1>3, <1>4 DEF Plus, Minus

(* The two sizes of a set keep their sum when nodes move; one more, one less.      *)
LEMMA Sums ==
  ASSUME NEW a \in SizeT, NEW b \in SizeT
  PROVE  /\ Plus(a, b) \in SizeT /\ Plus(0, a) = a /\ Plus(a, 0) = a /\ Plus(a, b) = Plus(b, a)
         /\ \A n \in Nat : n <= b => Plus(Plus(a, n), Minus(b, n)) = Plus(a, b)
         /\ Plus(Plus(a, 1), b) = Plus(Plus(a, b), 1)
         /\ Plus(Minus(a, 1), b) = Minus(Plus(a, b), 1)
<1>1. PICK M \in Nat \ {0} : M = SizeMod
  BY SetAssumption
<1>2. a \in Nat /\ a < M /\ b \in Nat /\ b < M
  BY <1>1 DEF SizeT
<1>3. PICK c \in SizeT : c = Plus(a, b)
  BY <1>2, SizeRange
<1>4. c \in Nat /\ c < M /\ c = IF a + b < M THEN a + b ELSE a + b - M
  BY <1>1, <1>2, <1>3, PlusMinusAre DEF SizeT
<1>5. Plus(0, a) = a /\ Plus(a, 0) = a /\ Plus(a, b) = Plus(b, a)
  <2>1. 0 \in SizeT
    BY SizeRange, <1>2
  <2> QED
    BY <1>1, <1>2, <2>1, PlusMinusAre
<1>6. ASSUME NEW n \in Nat, n <= b
      PROVE  Plus(Plus(a, n), Minus(b, n)) = c
  <2>1. PICK x \in SizeT : x = Plus(a, n)
    BY <1>2, SizeRange
  <2>2. x \in Nat /\ x < M /\ x = IF a + n < M THEN a + n ELSE a + n - M
    BY <1>1, <1>2, <1>6, <2>1, PlusMinusAre DEF SizeT
  <2>3. PICK y \in Nat : y = Minus(b, n) /\ y = b - n
    BY <1>1, <1>2, <1>6, PlusMinusAre
  <2>4. Plus(x, y) = IF x + y < M THEN x + y ELSE x + y - M
    BY <1>1, <1>2, <1>6, <2>3, PlusMinusAre
  <2>5. Plus(x, y) = c
    BY <1>2, <1>4, <1>6, <2>2, <2>3, <2>4
  <2> QED
    BY <2>1, <2>3, <2>5
<1>7. Plus(Plus(a, 1), b) = Plus(c, 1)
  <2>1. PICK x \in SizeT : x = Plus(a, 1)
    BY <1>2, SizeRange
  <2>2. x \in Nat /\ x < M /\ x = IF a + 1 < M THEN a + 1 ELSE a + 1 - M
    BY <1>1, <1>2, <2>1, PlusMinusAre DEF SizeT
  <2>3. Plus(x, b) = IF x + b < M THEN x + b ELSE x + b - M
    BY <1>1, <1>2, PlusMinusAre
  <2>4. Plus(c, 1) = IF c + 1 < M THEN c + 1 ELSE c + 1 - M
    BY <1>1, PlusMinusAre
  <2>5. Plus(x, b) = Plus(c, 1)
    BY <1>2, <1>4, <2>2, <2>3, <2>4
  <2> QED
    BY <2>1, <2>5
<1>8. Plus(Minus(a, 1), b) = Minus(c, 1)
  <2>1. PICK x \in SizeT : x = Minus(a, 1)
    BY <1>2, SizeRange
  <2>2. x \in Nat /\ x < M /\ x = IF 1 <= a THEN a - 1 ELSE a + M - 1
    BY <1>1, <1>2, <2>1, PlusMinusAre DEF SizeT
  <2>3. Plus(x, b) = IF x + b < M THEN x + b ELSE x + b - M
    BY <1>1, <1>2, PlusMinusAre
  <2>4. Minus(c, 1) = IF 1 <= c THEN c - 1 ELSE c + M - 1
    BY <1>1, PlusMinusAre
  <2>5. Plus(x, b) = Minus(c, 1)
    BY <1>2, <1>4, <2>2, <2>3, <2>4
  <2> QED
    BY <2>1, <2>5
<1> QED
  BY <1>3, <1>5, <1>6, <1>7, <1>8

(* FirstOf is the least of a set of positions.                                     *)
LEMMA LeastOf ==
  ASSUME NEW T, T \subseteq Nat, T # {}
  PROVE  FirstOf(T) \in T /\ \A q \in T : FirstOf(T) <= q
<1>1. PICK x \in T : \A y \in T : ~ (<<y, x>> \in OpToRel(<, Nat))
  BY NatLessThanWellFounded, WFMin
<1>2. ASSUME NEW y \in T
      PROVE  x <= y
  <2>1. ~ (y < x)
    BY <1>1 DEF OpToRel
  <2> QED
    BY <2>1
<1> QED
  BY <1>2 DEF FirstOf

(* A table without buckets is none with some.                                      *)
LEMMA NoBucketsFacts ==
  /\ DOMAIN NoBuckets = {}
  /\ \A m \in Nat : \A f \in [0 .. m -> Link] : f # NoBuckets
<1>1. DOMAIN NoBuckets = {}
  BY DEF NoBuckets
<1>2. ASSUME NEW m \in Nat, NEW f \in [0 .. m -> Link]
      PROVE  f # NoBuckets
  <2>1. 0 \in DOMAIN f
    OBVIOUS
  <2> QED
    BY <1>1, <2>1
<1> QED
  BY <1>1, <1>2

(* What a link may be.                                                             *)
LEMMA LinkFacts == Null \in Link /\ Node \subseteq Link /\ Null \notin Node
  BY SetAssumption DEF Link

(* A table and its buckets.                                                         *)
LEMMA TableFacts ==
  ASSUME NEW t \in TableRec, TableOK(t)
  PROVE  /\ t.size \in SizeT /\ t.size \in Nat /\ t.mask \in Nat
         /\ ~ IsNull(t) => t.buckets \in [0 .. t.mask -> Link] /\ DOMAIN t.buckets = 0 .. t.mask
         /\ IsNull(t) => DOMAIN t.buckets = {}
         /\ \A pos : Busy(t, pos) \subseteq 0 .. t.mask
         /\ \A pos : \A p \in Busy(t, pos) : t.buckets[p] \in Node /\ p \in 0 .. t.mask
         /\ \A pos : Busy(t, pos) # {} => ~ IsNull(t)
         /\ \A k \in Key : Pos(t, k) \in 0 .. t.mask
<1>1. t.size \in SizeT /\ t.size \in Nat /\ t.mask \in Nat
  BY SizeRange DEF TableRec
<1>2. /\ ~ IsNull(t) => t.buckets \in [0 .. t.mask -> Link] /\ DOMAIN t.buckets = 0 .. t.mask
      /\ IsNull(t) => DOMAIN t.buckets = {}
  BY NoBucketsFacts DEF TableOK, Link, IsNull
<1>3. \A pos : \A p \in Busy(t, pos) :
        ~ IsNull(t) /\ p \in 0 .. t.mask /\ t.buckets[p] \in Node
  BY <1>2 DEF Busy, Link
<1>4. ASSUME NEW k \in Key
      PROVE  Pos(t, k) \in 0 .. t.mask
  <2>1. Hash[k] \in Nat /\ t.mask + 1 \in Nat \ {0}
    BY <1>1, SetAssumption
  <2>2. PICK h \in Nat, b \in Nat \ {0} : h = Hash[k] /\ b = t.mask + 1
    BY <2>1
  <2>3. h % b \in 0 .. (b - 1)
    BY ModRange
  <2>4. h % b \in 0 .. t.mask
    BY <1>1, <2>2, <2>3
  <2> QED
    BY <2>2, <2>4 DEF Pos
<1> QED
  BY <1>1, <1>2, <1>3, <1>4

(* A new table has a bucket for each number up to its mask, all empty.             *)
LEMMA NewTable ==
  ASSUME NEW nb \in Nat \ {0}
  PROVE  LET t == Table(nb)
         IN  /\ t \in TableRec /\ TableOK(t) /\ ~ IsNull(t) /\ t.size = 0 /\ t.mask = nb - 1
             /\ \A p \in 0 .. t.mask : t.buckets[p] = Null
<1> DEFINE b == [p \in 0 .. (nb - 1) |-> Null]
<1>1. nb - 1 \in Nat /\ b \in [0 .. (nb - 1) -> Link] /\ b # NoBuckets
  BY LinkFacts, NoBucketsFacts
<1>2. b \in Buckets /\ \A p \in 0 .. (nb - 1) : b[p] = Null
  BY <1>1 DEF Buckets
<1> HIDE DEF b
<1>3. Table(nb) = [buckets |-> b, size |-> 0, mask |-> nb - 1]
  BY DEF Table, b
<1> QED
  BY <1>1, <1>2, <1>3, SizeRange DEF TableRec, TableOK, IsNull, Link

-----------------------------------------------------------------------------
(* What the helpers do to a set record.                                              *)

(* n is the head of its bucket, and its table counts m more.                            *)
LEMMA Linking ==
  ASSUME NEW s \in SetRec, TableOK(s.curr), ~ IsNull(s.curr), NEW n \in Node, NEW m \in Nat
  PROVE  LET u == LinkTimes(s, n, m)
         IN  /\ u \in SetRec /\ TableOK(u.curr) /\ ~ IsNull(u.curr)
             /\ u.curr.mask = s.curr.mask /\ u.curr.size = Plus(s.curr.size, m)
             /\ \A p \in 0 .. s.curr.mask :
                  u.curr.buckets[p] = IF p = Pos(s.curr, KeyOf[n]) THEN n ELSE s.curr.buckets[p]
             /\ \A x \in Node : x # n => u.next[x] = s.next[x]
             /\ m # 1 => u.next[n] = n
             /\ m = 1 => u.next[n] = s.curr.buckets[Pos(s.curr, KeyOf[n])]
             /\ Busy(u.curr, 0) # {}
             /\ u.prev = s.prev /\ u.migrate_pos = s.migrate_pos
<1>1. /\ s.curr \in TableRec /\ s.prev \in TableRec /\ s.migrate_pos \in Nat
      /\ s.next \in [Node -> Link]
  BY DEF SetRec
<1>2. KeyOf[n] \in Key
  BY SetAssumption
<1>3. PICK p : p = Pos(s.curr, KeyOf[n])
  OBVIOUS
<1>4. /\ p \in 0 .. s.curr.mask /\ s.curr.mask \in Nat
      /\ s.curr.buckets \in [0 .. s.curr.mask -> Link] /\ s.curr.size \in Nat
  BY <1>1, <1>2, <1>3, TableFacts
<1>5. PICK x \in Link : x = IF m = 1 THEN s.curr.buckets[p] ELSE n
  BY <1>4, LinkFacts
<1>6. PICK b : b = [s.curr.buckets EXCEPT ![p] = n]
  OBVIOUS
<1>7. /\ b \in [0 .. s.curr.mask -> Link] /\ b[p] = n
      /\ b \in Buckets /\ b # NoBuckets
  <2>1. b \in [0 .. s.curr.mask -> Link] /\ b[p] = n
    BY <1>4, <1>6, LinkFacts
  <2> QED
    BY <1>4, <2>1, NoBucketsFacts DEF Buckets
<1>8. PICK c : c = [buckets |-> b, size |-> Plus(s.curr.size, m), mask |-> s.curr.mask]
  OBVIOUS
<1>9. /\ c \in TableRec /\ TableOK(c) /\ ~ IsNull(c) /\ c.mask = s.curr.mask
      /\ c.size = Plus(s.curr.size, m) /\ c.buckets = b
  BY <1>4, <1>7, <1>8, SizeRange DEF TableRec, TableOK, IsNull, Link
<1>10. Busy(c, 0) # {}
  <2>1. p \in DOMAIN c.buckets /\ 0 <= p /\ c.buckets[p] # Null
    BY <1>4, <1>7, <1>9, LinkFacts
  <2> QED
    BY <2>1 DEF Busy
<1>11. PICK w : w = [s.next EXCEPT ![n] = x]
  OBVIOUS
<1>12. w \in [Node -> Link]
  BY <1>1, <1>11
<1>13. LinkTimes(s, n, m) =
         [curr |-> c, prev |-> s.prev, migrate_pos |-> s.migrate_pos, next |-> w]
  <2>1. s = [curr |-> s.curr, prev |-> s.prev, migrate_pos |-> s.migrate_pos, next |-> s.next]
    BY DEF SetRec
  <2>2. PICK a : a = [s EXCEPT !.next[n] = x]
    OBVIOUS
  <2>3. a = [curr |-> s.curr, prev |-> s.prev, migrate_pos |-> s.migrate_pos, next |-> w]
    BY <1>11, <2>1, <2>2
  <2>4. Inserted(s.curr, p, n, m) = c
    <3>1. s.curr = [buckets |-> s.curr.buckets, size |-> s.curr.size, mask |-> s.curr.mask]
      BY <1>1 DEF TableRec
    <3>2. PICK d : d = [s.curr EXCEPT !.buckets[p] = n]
      OBVIOUS
    <3>3. d = [buckets |-> b, size |-> s.curr.size, mask |-> s.curr.mask]
      BY <1>6, <3>1, <3>2
    <3>4. c = [d EXCEPT !.size = Plus(@, m)]
      BY <1>8, <3>3
    <3> QED
      BY <3>2, <3>4 DEF Inserted
  <2>5. LinkTimes(s, n, m) = [a EXCEPT !.curr = Inserted(@, p, n, m)]
    BY <1>3, <1>5, <2>2 DEF LinkTimes
  <2>6. a.curr = s.curr
    BY <2>3
  <2>7. LinkTimes(s, n, m) = [a EXCEPT !.curr = c]
    BY <2>4, <2>5, <2>6
  <2> QED
    BY <2>3, <2>7
<1>14. LinkTimes(s, n, m) \in SetRec
  BY <1>1, <1>9, <1>12, <1>13 DEF SetRec
<1>15. PICK u : u = LinkTimes(s, n, m)
  OBVIOUS
<1>16. u.curr = c /\ u.prev = s.prev /\ u.migrate_pos = s.migrate_pos /\ u.next = w
  BY ONLY <1>13, <1>15
<1>17. \A q \in 0 .. s.curr.mask :
         c.buckets[q] = IF q = Pos(s.curr, KeyOf[n]) THEN n ELSE s.curr.buckets[q]
  BY <1>3, <1>4, <1>6, <1>9
<1>18. /\ \A y \in Node : y # n => w[y] = s.next[y]
       /\ w[n] = IF m = 1 THEN s.curr.buckets[Pos(s.curr, KeyOf[n])] ELSE n
  BY <1>1, <1>3, <1>5, <1>11
<1> QED
  BY ONLY <1>9, <1>10, <1>14, <1>15, <1>16, <1>17, <1>18

(* A node put into a good set leaves it good.                                            *)
LEMMA LinkKeeps ==
  ASSUME NEW s, Good(s), ~ IsNull(s.curr), NEW n \in Node, NEW m \in Nat
  PROVE  LET u == LinkTimes(s, n, m)
         IN  /\ Good(u) /\ ~ IsNull(u.curr)
             /\ u.prev = s.prev /\ u.curr.mask = s.curr.mask /\ Busy(u.curr, 0) # {}
             /\ u.curr.size = Plus(s.curr.size, m)
<1>1. s \in SetRec /\ TableOK(s.curr)
  BY DEF Good
<1>2. PICK u : u = LinkTimes(s, n, m)
  OBVIOUS
<1>3. /\ u \in SetRec /\ TableOK(u.curr) /\ ~ IsNull(u.curr)
      /\ u.curr.mask = s.curr.mask /\ u.curr.size = Plus(s.curr.size, m)
      /\ Busy(u.curr, 0) # {}
      /\ u.prev = s.prev /\ u.migrate_pos = s.migrate_pos
  BY <1>1, <1>2, Linking
<1>4. Good(u)
  BY <1>3 DEF Good, Held
<1> QED
  BY <1>2, <1>3, <1>4

Counted(s, m, f) == [s EXCEPT !.prev.size = Minus(@, m), !.migrate_pos = f]

(* prev counts m less, and the migration stands at f.                                   *)
LEMMA Counting ==
  ASSUME NEW u \in SetRec, NEW m \in Nat, m <= u.prev.size, NEW f \in Nat
  PROVE  LET v == Counted(u, m, f)
         IN  /\ v \in SetRec /\ v.curr = u.curr /\ v.migrate_pos = f
             /\ v.prev.buckets = u.prev.buckets /\ v.prev.mask = u.prev.mask
             /\ v.prev.size = Minus(u.prev.size, m)
<1>1. /\ u = [curr |-> u.curr, prev |-> u.prev, migrate_pos |-> u.migrate_pos, next |-> u.next]
      /\ u.prev \in TableRec
  BY DEF SetRec
<1>2. PICK t : t = [u.prev EXCEPT !.size = Minus(@, m)]
  OBVIOUS
<1>3. /\ t \in TableRec /\ t.buckets = u.prev.buckets /\ t.mask = u.prev.mask
      /\ t.size = Minus(u.prev.size, m)
  <2>1. u.prev.size \in Nat
    BY <1>1, SizeRange DEF TableRec
  <2>2. Minus(u.prev.size, m) \in SizeT
    BY <2>1, SizeRange
  <2> QED
    BY <1>1, <1>2, <2>2 DEF TableRec
<1>4. PICK v : v = Counted(u, m, f)
  OBVIOUS
<1>5. v = [curr |-> u.curr, prev |-> t, migrate_pos |-> f, next |-> u.next]
  BY <1>1, <1>2, <1>4 DEF Counted
<1>6. v \in SetRec
  BY <1>1, <1>3, <1>5 DEF SetRec
<1>7. v.curr = u.curr /\ v.migrate_pos = f /\ v.prev = t
  BY <1>5
<1> HIDE <1>5
<1>8. /\ v.prev.buckets = u.prev.buckets /\ v.prev.mask = u.prev.mask
      /\ v.prev.size = Minus(u.prev.size, m)
  BY <1>3, <1>7
<1> QED
  BY ONLY <1>4, <1>6, <1>7, <1>8

(* A table that has the buckets of another has its chains' heads.                        *)
LEMMA SameBuckets ==
  ASSUME NEW t \in TableRec, NEW u \in TableRec, u.buckets = t.buckets, u.mask = t.mask
  PROVE  /\ TableOK(t) => TableOK(u)
         /\ IsNull(u) <=> IsNull(t)
         /\ \A pos : Busy(u, pos) = Busy(t, pos)
  BY DEF TableOK, IsNull, Busy, TableRec

(* Moving nodes: a bucket is always found, it is kept, and curr has room for every node.    *)
LEMMA Progress ==
  ASSUME NEW s, Good(s)
  PROVE  LET u == progress_rehash(s)
         IN  /\ Good(u) /\ ~ Outside(u) /\ SizeOf(u) = SizeOf(s)
             /\ u.prev.buckets = s.prev.buckets /\ (s.prev.size = 0 => u = s)
             /\ IsNull(u.curr) <=> IsNull(s.curr)
<1>1. /\ s \in SetRec /\ s.curr \in TableRec /\ s.prev \in TableRec /\ s.migrate_pos \in Nat
      /\ TableOK(s.curr) /\ TableOK(s.prev) /\ s.prev.size \in Nat /\ s.prev.mask \in Nat
  BY TableFacts DEF Good, SetRec
<1>2. RehashWork \in Nat \ {0}
  BY SetAssumption
<1> DEFINE m == IF s.prev.size < RehashWork THEN s.prev.size ELSE RehashWork
<1>4. m \in Nat /\ m <= s.prev.size /\ (m = 0 <=> s.prev.size = 0)
  BY <1>1, <1>2
<1> HIDE DEF m
<1>5. CASE m = 0
  <2>1. progress_rehash(s) = s
    BY <1>5 DEF progress_rehash, m
  <2> QED
    BY <1>4, <1>5, <2>1 DEF Outside
<1>6. CASE m # 0
  <2>1. Busy(s.prev, s.migrate_pos) # {} /\ Busy(s.prev, s.migrate_pos) \subseteq Nat
    BY <1>1, <1>4, <1>6, TableFacts DEF Good, Held
  <2>2. PICK f : f = FirstOf(Busy(s.prev, s.migrate_pos))
    OBVIOUS
  <2>3. /\ f \in Busy(s.prev, s.migrate_pos) /\ s.prev.buckets[f] \in Node
        /\ f \in 0 .. s.prev.mask /\ f \in DOMAIN s.prev.buckets /\ ~ IsNull(s.prev)
    BY <1>1, <2>1, <2>2, LeastOf, TableFacts DEF Busy
  <2>4. ~ IsNull(s.curr)
    BY <2>3 DEF Good
  <2>5. PICK u : u = LinkTimes(s, s.prev.buckets[f], m)
    OBVIOUS
  <2>6. /\ u \in SetRec /\ TableOK(u.curr) /\ ~ IsNull(u.curr)
        /\ Busy(u.curr, 0) # {} /\ u.prev = s.prev
        /\ u.curr.size = Plus(s.curr.size, m)
    <3>1. PICK n \in Node : n = s.prev.buckets[f]
      BY <2>3
    <3>2. /\ Good(u) /\ ~ IsNull(u.curr) /\ u.prev = s.prev /\ Busy(u.curr, 0) # {}
          /\ u.curr.size = Plus(s.curr.size, m)
      BY <1>4, <2>4, <2>5, <3>1, LinkKeeps
    <3> QED
      BY <3>2 DEF Good
  <2>7. PICK v : v = Counted(u, m, f)
    OBVIOUS
  <2>8. progress_rehash(s) = v
    <3>1. TakeHead(s, s.prev, s.migrate_pos, m) = u
      BY <1>6, <2>2, <2>5 DEF TakeHead
    <3>2. progress_rehash(s)
            = Counted(TakeHead(s, s.prev, s.migrate_pos, m), m,
                      FirstOf(Busy(s.prev, s.migrate_pos)))
      BY ONLY <1>6, <2>1 DEF progress_rehash, Counted, m
    <3> QED
      BY ONLY <2>2, <2>7, <3>1, <3>2
  <2>9. /\ v \in SetRec /\ v.curr = u.curr /\ v.migrate_pos = f
        /\ v.prev.buckets = s.prev.buckets /\ v.prev.mask = s.prev.mask
        /\ v.prev.size = Minus(s.prev.size, m)
    BY <1>4, <2>3, <2>6, <2>7, Counting
  <2>10. /\ TableOK(v.prev) /\ ~ IsNull(v.prev)
         /\ \A pos : Busy(v.prev, pos) = Busy(s.prev, pos)
    <3>1. v.prev \in TableRec
      BY <2>9 DEF SetRec
    <3> QED
      BY <1>1, <2>3, <2>9, <3>1, SameBuckets
  <2>11. Busy(v.prev, f) # {}
    <3>1. f \in Busy(s.prev, f)
      BY <2>3 DEF Busy
    <3> QED
      BY <2>10, <3>1
  <2>12. f <= v.prev.mask + 1
    BY <1>1, <2>3, <2>9
  <2>13. Good(v)
    BY <2>6, <2>9, <2>10, <2>11, <2>12 DEF Good, Held
  <2>14. ~ Outside(v)
    BY <2>3, <2>9 DEF Outside
  <2>15. SizeOf(v) = SizeOf(s)
    <3>1. s.curr.size \in SizeT /\ s.prev.size \in SizeT
      BY <1>1 DEF TableRec
    <3> QED
      BY <1>4, <2>6, <2>9, <3>1, Sums DEF SizeOf
  <2> QED
    BY <1>4, <1>6, <2>4, <2>6, <2>8, <2>9, <2>13, <2>14, <2>15
<1> QED
  BY <1>5, <1>6

(* A migration begins at the first bucket of what was curr.                               *)
LEMMA Growth ==
  ASSUME NEW s, Good(s), ~ IsNull(s.curr)
  PROVE  /\ Good(Grown(s)) /\ ~ IsNull(Grown(s).curr) /\ SizeOf(Grown(s)) = SizeOf(s)
         /\ MustGrow(s) => Grown(s).prev = s.curr
<1>1. /\ s \in SetRec /\ s.curr \in TableRec /\ TableOK(s.curr) /\ s.next \in [Node -> Link]
      /\ s.curr.mask \in Nat
  BY TableFacts DEF Good, SetRec
<1>2. PICK nb \in Nat \ {0} : nb = (s.curr.mask + 1) * 2
  <2>1. (s.curr.mask + 1) * 2 \in Nat \ {0}
    BY <1>1
  <2> QED
    BY <2>1
<1>3. PICK c : c = Table(nb)
  OBVIOUS
<1>4. c \in TableRec /\ TableOK(c) /\ ~ IsNull(c) /\ c.size = 0
  BY <1>3, NewTable
<1>5. PICK v : v = [curr |-> c, prev |-> s.curr, migrate_pos |-> 0, next |-> s.next]
  OBVIOUS
<1>6. migrate(s) = v
  <2>1. s = [curr |-> s.curr, prev |-> s.prev, migrate_pos |-> s.migrate_pos, next |-> s.next]
    BY <1>1 DEF SetRec
  <2>2. PICK a : a = [s EXCEPT !.prev = s.curr]
    OBVIOUS
  <2>3. a = [curr |-> s.curr, prev |-> s.curr, migrate_pos |-> s.migrate_pos, next |-> s.next]
    BY ONLY <2>1, <2>2
  <2>4. PICK b : b = [a EXCEPT !.curr = c]
    OBVIOUS
  <2>5. b = [curr |-> c, prev |-> s.curr, migrate_pos |-> s.migrate_pos, next |-> s.next]
    BY ONLY <2>3, <2>4
  <2>6. [b EXCEPT !.migrate_pos = 0] = v
    BY ONLY <1>5, <2>5
  <2>7. migrate(s) = [[[s EXCEPT !.prev = s.curr] EXCEPT !.curr = Table((s.curr.mask + 1) * 2)]
                        EXCEPT !.migrate_pos = 0]
    BY DEF migrate
  <2>8. migrate(s) = [b EXCEPT !.migrate_pos = 0]
    BY ONLY <1>2, <1>3, <2>2, <2>4, <2>7
  <2> QED
    BY <2>6, <2>8
<1>7. Good(v) /\ ~ IsNull(v.curr)
  BY <1>1, <1>4, <1>5 DEF Good, Held, SetRec
<1>8. MustGrow(s) => SizeOf(v) = SizeOf(s)
  <2>1. s.curr.size \in SizeT /\ v.curr.size = 0 /\ v.prev.size = s.curr.size
    BY <1>1, <1>4, <1>5 DEF TableRec
  <2> QED
    BY <2>1, Sums DEF SizeOf, MustGrow
<1>9. v.prev = s.curr
  BY <1>5
<1> QED
  BY <1>6, <1>7, <1>8, <1>9 DEF Grown

(* HashSet::insert leaves a good set good, and does not read past the last bucket.          *)
LEMMA Inserting ==
  ASSUME NEW s, Good(s), ~ IsNull(s.curr), NEW n \in Node
  PROVE  /\ Good(insert(s, n)) /\ ~ Outside(insert(s, n))
         /\ SizeOf(insert(s, n)) = Plus(SizeOf(s), 1)
<1>1. PICK u : u = LinkTimes(s, n, 1)
  OBVIOUS
<1>2. Good(u) /\ ~ IsNull(u.curr)
  BY <1>1, LinkKeeps
<1>3. Good(Grown(u)) /\ SizeOf(Grown(u)) = SizeOf(u)
  BY <1>2, Growth
<1>4. SizeOf(u) = Plus(SizeOf(s), 1)
  <2>1. s.curr.size \in SizeT /\ s.prev.size \in SizeT
    BY DEF Good, SetRec, TableRec
  <2>2. u.curr.size = Plus(s.curr.size, 1) /\ u.prev = s.prev
    BY <1>1, LinkKeeps
  <2> QED
    BY <2>1, <2>2, Sums DEF SizeOf
<1> QED
  BY <1>1, <1>3, <1>4, Progress DEF insert

-----------------------------------------------------------------------------
(* Chains.                                                                          *)

(* A set with a number in it has a least one.                                      *)
LEMMA LeastPos ==
  ASSUME NEW P, NEW x \in Nat, x \in P
  PROVE  \E i \in Nat : i \in P /\ \A j \in Nat : j < i => j \notin P
<1> DEFINE T == {i \in Nat : i \in P}
<1>1. T \subseteq Nat /\ T # {}
  OBVIOUS
<1>2. PICK i : i = FirstOf(T)
  OBVIOUS
<1>3. i \in T /\ \A q \in T : i <= q
  BY <1>1, <1>2, LeastOf
<1> QED
  BY <1>3

(* There are so many nodes and no more.                                            *)
LEMMA Nodes == Cardinality(Node) \in Nat
  BY SetAssumption, FS_CardinalityType

Chases(s, b, m) ==
  {f \in [0 .. m -> Link] :
     /\ f[0] = b
     /\ \A i \in 1 .. m : f[i] = IF f[i - 1] = Null THEN Null ELSE s.next[f[i - 1]]}

(* The links of a bucket can be followed as far as one likes.                             *)
LEMMA Chasing ==
  ASSUME NEW s \in SetRec, NEW b \in Link, NEW N \in Nat
  PROVE  Chases(s, b, N) # {}
<1> DEFINE Bad == {i \in Nat : Chases(s, b, i) = {}}
<1>1. SUFFICES ASSUME N \in Bad
      PROVE  FALSE
  OBVIOUS
<1>2. PICK m \in Nat : m \in Bad /\ \A j \in Nat : j < m => j \notin Bad
  BY <1>1, LeastPos
<1>3. s.next \in [Node -> Link]
  BY DEF SetRec
<1>4. CASE m = 0
  <2>1. PICK f : f = [i \in 0 .. 0 |-> b]
    OBVIOUS
  <2>2. f \in [0 .. 0 -> Link] /\ f[0] = b
    BY <2>1
  <2>3. f \in Chases(s, b, 0)
    BY <2>2 DEF Chases
  <2> QED
    BY <1>2, <1>4, <2>3
<1>5. CASE m # 0
  <2>1. m - 1 \in Nat /\ m - 1 < m
    BY <1>5
  <2>2. PICK f : f \in Chases(s, b, m - 1)
    BY <1>2, <2>1
  <2>3. /\ f \in [0 .. (m - 1) -> Link] /\ f[0] = b
        /\ \A i \in 1 .. (m - 1) : f[i] = IF f[i - 1] = Null THEN Null ELSE s.next[f[i - 1]]
    BY <2>2 DEF Chases
  <2>4. PICK x \in Link : x = IF f[m - 1] = Null THEN Null ELSE s.next[f[m - 1]]
    BY <1>3, <2>1, <2>3, LinkFacts DEF Link
  <2>5. PICK g : g = [i \in 0 .. m |-> IF i = m THEN x ELSE f[i]]
    OBVIOUS
  <2>6. g \in [0 .. m -> Link] /\ g[0] = b
    BY <1>5, <2>3, <2>5
  <2>7. ASSUME NEW i \in 1 .. m
        PROVE  g[i] = IF g[i - 1] = Null THEN Null ELSE s.next[g[i - 1]]
    <3>1. g[i - 1] = f[i - 1] /\ i - 1 \in 0 .. m
      BY <2>5
    <3>2. CASE i = m
      BY <2>4, <2>5, <3>1, <3>2
    <3>3. CASE i # m
      BY <2>3, <2>5, <3>1, <3>3
    <3> QED
      BY <3>2, <3>3
  <2>8. g \in Chases(s, b, m)
    BY <2>6, <2>7 DEF Chases
  <2> QED
    BY <1>2, <2>8
<1> QED
  BY <1>4, <1>5

(* The chain of a bucket is what one gets by following its links.                          *)
LEMMA ChainFacts ==
  ASSUME NEW s \in SetRec, NEW t, NEW p, t.buckets[p] \in Link
  PROVE  ChainOf(s, t, p) \in Chases(s, t.buckets[p], Cardinality(Node))
<1> DEFINE N == Cardinality(Node)
           b == t.buckets[p]
           Step(f) == [i \in 0 .. N |->
                         IF i = 0 THEN b ELSE IF f[i - 1] = Null THEN Null ELSE s.next[f[i - 1]]]
<1>1. N \in Nat /\ b \in Link
  BY Nodes
<1>2. ChainOf(s, t, p) = CHOOSE f : f = Step(f)
  BY DEF ChainOf
<1> HIDE DEF N, b
<1>3. PICK g : g \in Chases(s, b, N)
  BY <1>1, Chasing
<1>4. g = Step(g)
  BY <1>1, <1>3 DEF Chases
<1>5. PICK c : c = ChainOf(s, t, p)
  OBVIOUS
<1> HIDE DEF Step
<1>6. c = Step(c)
  BY ONLY <1>2, <1>4, <1>5, Zenon
<1> USE DEF Step
<1> HIDE <1>2
<1>7. /\ DOMAIN c = 0 .. N /\ c[0] = b
      /\ \A i \in 1 .. N : c[i] = IF c[i - 1] = Null THEN Null ELSE s.next[c[i - 1]]
  BY <1>1, <1>6
<1>8. \A i \in 0 .. N : c[i] = g[i]
  <2>1. SUFFICES ASSUME NEW x \in 0 .. N, c[x] # g[x]
        PROVE  FALSE
    OBVIOUS
  <2> DEFINE Bad == {j \in 0 .. N : c[j] # g[j]}
  <2>2. x \in Nat /\ x \in Bad
    BY <1>1, <2>1
  <2>3. PICK j \in Nat : j \in Bad /\ \A k \in Nat : k < j => k \notin Bad
    BY <2>2, LeastPos
  <2>4. g[0] = b /\ \A k \in 1 .. N : g[k] = IF g[k - 1] = Null THEN Null ELSE s.next[g[k - 1]]
    BY <1>3 DEF Chases
  <2>5. j # 0
    BY <1>7, <2>3, <2>4
  <2>6. j \in 1 .. N /\ j - 1 \in Nat /\ j - 1 < j /\ j - 1 \in 0 .. N
    BY <1>1, <2>3, <2>5
  <2>7. c[j - 1] = g[j - 1]
    BY <2>3, <2>6
  <2>8. c[j] = g[j]
    BY <1>7, <2>4, <2>6, <2>7
  <2> QED
    BY <2>3, <2>8
<1>9. c = g
  <2>1. DOMAIN g = 0 .. N /\ g = [i \in 0 .. N |-> g[i]]
    BY <1>3 DEF Chases
  <2>2. c = [i \in 0 .. N |-> c[i]]
    BY <1>6, <1>7
  <2> QED
    BY <1>8, <2>1, <2>2
<1> QED
  BY <1>3, <1>5, <1>9 DEF N, b

(* A chain holds what its first link leads to, and an empty bucket's holds nothing.         *)
LEMMA EmptyChain ==
  ASSUME NEW s \in SetRec, NEW t, NEW p, t.buckets[p] = Null
  PROVE  \A i \in 0 .. Cardinality(Node) : ChainOf(s, t, p)[i] = Null
<1>1. PICK N \in Nat : N = Cardinality(Node)
  BY Nodes
<1>2. PICK c : c = ChainOf(s, t, p)
  OBVIOUS
<1>3. c[0] = Null /\ \A i \in 1 .. N : c[i] = IF c[i - 1] = Null THEN Null ELSE s.next[c[i - 1]]
  BY <1>1, <1>2, ChainFacts, LinkFacts DEF Chases
<1>4. SUFFICES ASSUME NEW x \in 0 .. N, c[x] # Null
      PROVE  FALSE
  BY <1>1, <1>2
<1> DEFINE Bad == {j \in 0 .. N : c[j] # Null}
<1>5. x \in Nat /\ x \in Bad
  BY <1>4
<1>6. PICK j \in Nat : j \in Bad /\ \A k \in Nat : k < j => k \notin Bad
  BY <1>5, LeastPos
<1>7. j \in 1 .. N /\ j - 1 \in Nat /\ j - 1 < j /\ j - 1 \in 0 .. N
  BY <1>3, <1>6
<1> QED
  BY <1>3, <1>6, <1>7

(* What a lookup in a table returns; a node is found only where there are nodes.            *)
LEMMA Found ==
  ASSUME NEW s \in SetRec, NEW t \in TableRec, TableOK(t), NEW k \in Key
  PROVE  LET n == table_find(s, t, k)
         IN  /\ n \in Link \cup {Endless}
             /\ n \in Node => ~ IsNull(t) /\ KeyOf[n] = k /\ Busy(t, 0) # {}
<1>1. PICK p : p = Pos(t, k)
  OBVIOUS
<1>2. CASE IsNull(t)
  BY <1>2, LinkFacts DEF table_find
<1>3. CASE ~ IsNull(t)
  <2>1. p \in 0 .. t.mask /\ t.buckets[p] \in Link /\ p \in DOMAIN t.buckets /\ t.mask \in Nat
    BY <1>1, <1>3, TableFacts
  <2>2. PICK c : c = ChainOf(s, t, p)
    OBVIOUS
  <2>3. PICK N \in Nat : N = Cardinality(Node)
    BY Nodes
  <2>4. c \in [0 .. N -> Link]
    BY <2>1, <2>2, <2>3, ChainFacts DEF Chases
  <2>5. PICK H : H = {i \in DOMAIN c : c[i] # Null /\ KeyOf[c[i]] = k}
    OBVIOUS
  <2>6. table_find(s, t, k)
          = IF H # {} THEN c[FirstOf(H)] ELSE IF Loops(s, t, p) THEN Endless ELSE Null
    BY <1>1, <1>3, <2>2, <2>5 DEF table_find
  <2>7. CASE H # {}
    <3>1. H \subseteq Nat
      BY <2>4, <2>5
    <3>2. FirstOf(H) \in H
      BY <2>7, <3>1, LeastOf
    <3>3. PICK i : i = FirstOf(H)
      OBVIOUS
    <3>4. i \in 0 .. N /\ c[i] \in Node /\ KeyOf[c[i]] = k
      BY <2>4, <2>5, <3>2, <3>3 DEF Link
    <3>5. t.buckets[p] # Null
      <4>1. SUFFICES ASSUME t.buckets[p] = Null
            PROVE  FALSE
        OBVIOUS
      <4>2. c[i] = Null
        BY <2>2, <2>3, <3>4, <4>1, EmptyChain
      <4> QED
        BY <3>4, <4>2, LinkFacts
    <3>6. p \in Busy(t, 0)
      BY <2>1, <3>5 DEF Busy
    <3> QED
      BY <1>3, <2>6, <2>7, <3>3, <3>4, <3>6, LinkFacts
  <2>8. CASE H = {}
    <3>1. table_find(s, t, k) \in {Endless, Null}
      BY <2>6, <2>8
    <3> QED
      BY <3>1, SetAssumption DEF Link
  <2> QED
    BY <2>7, <2>8
<1> QED
  BY <1>2, <1>3

(* The node that find returns is the one of curr, or there is none in curr.                 *)
LEMMA Finding ==
  ASSUME NEW s, Good(s), NEW k \in Key
  PROVE  LET n == find(s, k)
         IN  /\ n \in Link \cup {Endless}
             /\ n \in Node =>
                  /\ KeyOf[n] = k
                  /\ \/ n = table_find(s, s.curr, k) /\ ~ IsNull(s.curr) /\ Busy(s.curr, 0) # {}
                     \/ /\ n # table_find(s, s.curr, k)
                        /\ ~ IsNull(s.prev) /\ Busy(s.prev, 0) # {}
<1>1. /\ s \in SetRec /\ s.curr \in TableRec /\ s.prev \in TableRec
      /\ TableOK(s.curr) /\ TableOK(s.prev)
  BY DEF Good, SetRec
<1>2. PICK a : a = table_find(s, s.curr, k)
  OBVIOUS
<1>3. PICK b : b = table_find(s, s.prev, k)
  OBVIOUS
<1>4. /\ a \in Link \cup {Endless}
      /\ a \in Node => KeyOf[a] = k /\ ~ IsNull(s.curr) /\ Busy(s.curr, 0) # {}
  BY <1>1, <1>2, Found
<1>5. /\ b \in Link \cup {Endless}
      /\ b \in Node => KeyOf[b] = k /\ ~ IsNull(s.prev) /\ Busy(s.prev, 0) # {}
  BY <1>1, <1>3, Found
<1>6. find(s, k) = IF a # Null THEN a ELSE b
  BY <1>2, <1>3 DEF find
<1> QED
  BY <1>2, <1>4, <1>5, <1>6, LinkFacts

(* A table that counts one node less.                                                  *)
LEMMA OneLess ==
  ASSUME NEW t \in TableRec
  PROVE  LET u == [t EXCEPT !.size = Minus(@, 1)]
         IN  /\ u \in TableRec /\ u.buckets = t.buckets /\ u.mask = t.mask
             /\ u.size = Minus(t.size, 1)
<1>1. t.size \in Nat /\ t = [buckets |-> t.buckets, size |-> t.size, mask |-> t.mask]
  BY SizeRange DEF TableRec
<1>2. Minus(t.size, 1) \in SizeT
  BY <1>1, SizeRange
<1> QED
  BY <1>2 DEF TableRec

(* del leaves the buckets as they are, and so leaves nodes for the counts.                  *)
LEMMA Uncounting ==
  ASSUME NEW s, Good(s)
  PROVE  /\ Busy(s.curr, 0) # {} => Good([s EXCEPT !.curr.size = Minus(@, 1)])
         /\ Busy(s.prev, 0) # {} => Good([s EXCEPT !.prev.size = Minus(@, 1)])
         /\ SizeOf([s EXCEPT !.curr.size = Minus(@, 1)]) = Minus(SizeOf(s), 1)
         /\ SizeOf([s EXCEPT !.prev.size = Minus(@, 1)]) = Minus(SizeOf(s), 1)
<1>1. /\ s \in SetRec /\ s.curr \in TableRec /\ s.prev \in TableRec
      /\ TableOK(s.curr) /\ TableOK(s.prev)
      /\ s = [curr |-> s.curr, prev |-> s.prev, migrate_pos |-> s.migrate_pos, next |-> s.next]
  BY DEF Good, SetRec
<1>2. PICK c : c = [s.curr EXCEPT !.size = Minus(@, 1)]
  OBVIOUS
<1>3. PICK q : q = [s.prev EXCEPT !.size = Minus(@, 1)]
  OBVIOUS
<1>4. /\ c \in TableRec /\ c.mask = s.curr.mask /\ TableOK(c) /\ (IsNull(c) <=> IsNull(s.curr))
      /\ \A pos : Busy(c, pos) = Busy(s.curr, pos)
  <2>1. c \in TableRec /\ c.buckets = s.curr.buckets /\ c.mask = s.curr.mask
    BY <1>1, <1>2, OneLess
  <2> QED
    BY <1>1, <2>1, SameBuckets
<1>5. /\ q \in TableRec /\ q.mask = s.prev.mask /\ TableOK(q) /\ (IsNull(q) <=> IsNull(s.prev))
      /\ \A pos : Busy(q, pos) = Busy(s.prev, pos)
  <2>1. q \in TableRec /\ q.buckets = s.prev.buckets /\ q.mask = s.prev.mask
    BY <1>1, <1>3, OneLess
  <2> QED
    BY <1>1, <2>1, SameBuckets
<1>6. ASSUME Busy(s.curr, 0) # {}
      PROVE  Good([s EXCEPT !.curr.size = Minus(@, 1)])
  <2>1. PICK v : v = [curr |-> c, prev |-> s.prev, migrate_pos |-> s.migrate_pos, next |-> s.next]
    OBVIOUS
  <2>2. [s EXCEPT !.curr.size = Minus(@, 1)] = v
    BY ONLY <1>1, <1>2, <2>1
  <2>3. v \in SetRec
    BY <1>1, <1>4, <2>1 DEF SetRec
  <2>4. v.curr = c /\ v.prev = s.prev /\ v.migrate_pos = s.migrate_pos
    BY <2>1
  <2>5. Good(v)
    BY <1>4, <1>6, <2>3, <2>4 DEF Good, Held
  <2> QED
    BY <2>2, <2>5
<1>7. ASSUME Busy(s.prev, 0) # {}
      PROVE  Good([s EXCEPT !.prev.size = Minus(@, 1)])
  <2>1. PICK v : v = [curr |-> s.curr, prev |-> q, migrate_pos |-> s.migrate_pos, next |-> s.next]
    OBVIOUS
  <2>2. [s EXCEPT !.prev.size = Minus(@, 1)] = v
    BY ONLY <1>1, <1>3, <2>1
  <2>3. v \in SetRec
    BY <1>1, <1>5, <2>1 DEF SetRec
  <2>4. v.curr = s.curr /\ v.prev = q /\ v.migrate_pos = s.migrate_pos
    BY <2>1
  <2>5. Good(v)
    BY <1>5, <1>7, <2>3, <2>4 DEF Good, Held
  <2> QED
    BY <2>2, <2>5
<1>8. s.curr.size \in SizeT /\ s.prev.size \in SizeT
  BY <1>1 DEF TableRec
<1>9. SizeOf([s EXCEPT !.curr.size = Minus(@, 1)]) = Minus(SizeOf(s), 1)
  <2>1. PICK v : v = [s EXCEPT !.curr.size = Minus(@, 1)]
    OBVIOUS
  <2>2. v.curr = c /\ v.prev = s.prev
    BY ONLY <1>1, <1>2, <2>1
  <2>3. c.size = Minus(s.curr.size, 1)
    BY <1>1, <1>2, OneLess
  <2> QED
    BY <1>8, <2>1, <2>2, <2>3, Sums DEF SizeOf
<1>10. SizeOf([s EXCEPT !.prev.size = Minus(@, 1)]) = Minus(SizeOf(s), 1)
  <2>1. PICK v : v = [s EXCEPT !.prev.size = Minus(@, 1)]
    OBVIOUS
  <2>2. v.curr = s.curr /\ v.prev = q
    BY ONLY <1>1, <1>3, <2>1
  <2>3. q.size = Minus(s.prev.size, 1)
    BY <1>1, <1>3, OneLess
  <2>4. Minus(s.prev.size, 1) \in SizeT
    BY <1>8, SizeRange DEF SizeT
  <2>5. Plus(s.curr.size, Minus(s.prev.size, 1)) = Plus(Minus(s.prev.size, 1), s.curr.size)
    BY <1>8, <2>4, Sums
  <2> QED
    BY <1>8, <2>1, <2>2, <2>3, <2>5, Sums DEF SizeOf
<1> QED
  BY <1>6, <1>7, <1>9, <1>10

-----------------------------------------------------------------------------
(* The steps.                                                                       *)

(* Taking the first head of a table as often as its size says.                     *)
LEMMA Taking ==
  ASSUME NEW s, Good(s), ~ IsNull(s.curr), NEW t \in TableRec, TableOK(t), Held(t, 0)
  PROVE  LET u == TakeHead(s, t, 0, t.size)
         IN  /\ Good(u) /\ ~ IsNull(u.curr) /\ u.prev = s.prev
             /\ u.curr.size = Plus(s.curr.size, t.size)
<1>1. t.size \in Nat
  BY SizeRange DEF TableRec
<1>2. CASE t.size = 0
  <2>1. s.curr.size \in SizeT
    BY DEF Good, SetRec, TableRec
  <2> QED
    BY <1>2, <2>1, Sums DEF TakeHead
<1>3. CASE t.size # 0
  <2>1. PICK f : f = FirstOf(Busy(t, 0))
    OBVIOUS
  <2>2. Busy(t, 0) # {} /\ Busy(t, 0) \subseteq Nat
    BY <1>3, TableFacts DEF Held
  <2>3. f \in Busy(t, 0)
    BY <2>1, <2>2, LeastOf
  <2>4. t.buckets[f] \in Node
    BY <2>3, TableFacts
  <2>5. TakeHead(s, t, 0, t.size) = LinkTimes(s, t.buckets[f], t.size)
    BY <1>3, <2>1 DEF TakeHead
  <2> QED
    BY <1>1, <2>4, <2>5, LinkKeeps
<1> QED
  BY <1>2, <1>3

(* A rehash puts the two heads into a new table.                                           *)
LEMMA Rehashing ==
  ASSUME Good(set), Rehash
  PROVE  Good(set') /\ SizeOf(set') = SizeOf(set)
<1>1. /\ set \in SetRec /\ set.curr \in TableRec /\ set.prev \in TableRec
      /\ TableOK(set.curr) /\ TableOK(set.prev) /\ set.curr.mask \in Nat
      /\ set.next \in [Node -> Link] /\ set.migrate_pos \in Nat
      /\ set = [curr |-> set.curr, prev |-> set.prev, migrate_pos |-> set.migrate_pos,
                next |-> set.next]
  BY TableFacts DEF Good, SetRec
<1> DEFINE nb == IF size > (set.curr.mask + 1) * MaxLoad
                 THEN (set.curr.mask + 1) * 2 ELSE set.curr.mask + 1
<1>2. nb \in Nat \ {0}
  BY <1>1
<1> HIDE DEF nb
<1>3. PICK c : c = Table(nb)
  OBVIOUS
<1>4. c \in TableRec /\ TableOK(c) /\ ~ IsNull(c) /\ c.size = 0
  BY <1>2, <1>3, NewTable
<1>5. PICK start : start = [set EXCEPT !.curr = c]
  OBVIOUS
<1>6. start = [curr |-> c, prev |-> set.prev, migrate_pos |-> set.migrate_pos, next |-> set.next]
  BY ONLY <1>1, <1>5
<1>7. Good(start) /\ ~ IsNull(start.curr)
  <2>1. start \in SetRec
    BY <1>1, <1>4, <1>6 DEF SetRec
  <2>2. start.curr = c /\ start.prev = set.prev /\ start.migrate_pos = set.migrate_pos
    BY <1>6
  <2> QED
    BY <1>4, <2>1, <2>2 DEF Good, Held
<1>8. Held(set.curr, 0) /\ Held(set.prev, 0)
  <2>1. Busy(set.prev, set.migrate_pos) \subseteq Busy(set.prev, 0)
    BY <1>1, TableFacts DEF Busy
  <2> QED
    BY <2>1 DEF Good, Held
<1>9. PICK u : u = TakeHead(start, set.prev, 0, set.prev.size)
  OBVIOUS
<1>10. Good(u) /\ ~ IsNull(u.curr) /\ u.curr.size = Plus(start.curr.size, set.prev.size)
  BY <1>1, <1>7, <1>8, <1>9, Taking
<1>11. PICK v : v = TakeHead(u, set.curr, 0, set.curr.size)
  OBVIOUS
<1>12. Good(v) /\ ~ IsNull(v.curr) /\ v.curr.size = Plus(u.curr.size, set.curr.size)
  BY <1>1, <1>8, <1>10, <1>11, Taking
<1>13. set' = [v EXCEPT !.prev.size = 0]
  <2>1. \E s \in {TakeHead([set EXCEPT !.curr = Table(nb)], set.prev, 0, set.prev.size)} :
          set' = [TakeHead(s, set.curr, 0, set.curr.size) EXCEPT !.prev.size = 0]
    BY DEF Rehash, nb
  <2>2. set' = [TakeHead(u, set.curr, 0, set.curr.size) EXCEPT !.prev.size = 0]
    BY ONLY <1>3, <1>5, <1>9, <2>1
  <2> QED
    BY ONLY <1>11, <2>2
<1>14. PICK q : q = [v.prev EXCEPT !.size = 0]
  OBVIOUS
<1>15. /\ v \in SetRec /\ v.curr \in TableRec /\ v.prev \in TableRec
       /\ v.next \in [Node -> Link] /\ v.migrate_pos \in Nat /\ TableOK(v.prev)
       /\ v = [curr |-> v.curr, prev |-> v.prev, migrate_pos |-> v.migrate_pos, next |-> v.next]
  BY <1>12 DEF Good, SetRec
<1>16. /\ q \in TableRec /\ q.mask = v.prev.mask /\ TableOK(q) /\ (IsNull(q) <=> IsNull(v.prev))
       /\ q.size = 0 /\ \A pos : Busy(q, pos) = Busy(v.prev, pos)
  <2>1. v.prev = [buckets |-> v.prev.buckets, size |-> v.prev.size, mask |-> v.prev.mask]
    BY <1>15 DEF TableRec
  <2>2. q \in TableRec /\ q.mask = v.prev.mask /\ q.buckets = v.prev.buckets /\ q.size = 0
    BY <1>14, <1>15, <2>1, SizeRange DEF TableRec
  <2> QED
    BY <1>15, <2>2, SameBuckets
<1>17. PICK w : w = [curr |-> v.curr, prev |-> q, migrate_pos |-> v.migrate_pos, next |-> v.next]
  OBVIOUS
<1>18. set' = w
  BY ONLY <1>13, <1>14, <1>15, <1>17
<1>19. Good(w)
  <2>1. w \in SetRec
    BY <1>15, <1>16, <1>17 DEF SetRec
  <2>2. w.curr = v.curr /\ w.prev = q /\ w.migrate_pos = v.migrate_pos
    BY <1>17
  <2> QED
    BY <1>12, <1>16, <2>1, <2>2 DEF Good, Held
<1>20. SizeOf(w) = SizeOf(set)
  <2>1. set.curr.size \in SizeT /\ set.prev.size \in SizeT /\ start.curr.size = 0
    BY <1>1, <1>4, <1>6 DEF TableRec
  <2>2. u.curr.size = set.prev.size
    BY <1>10, <2>1, Sums
  <2>3. v.curr.size = Plus(set.curr.size, set.prev.size) /\ v.curr.size \in SizeT
    BY <1>12, <2>1, <2>2, Sums
  <2>4. w.curr.size = v.curr.size /\ w.prev.size = 0
    BY <1>16, <1>17
  <2> QED
    BY <2>3, <2>4, Sums DEF SizeOf
<1> QED
  BY <1>18, <1>19, <1>20

(* What detach leaves has no buckets at all.                                              *)
LEMMA Detaching ==
  ASSUME Good(set), Detach
  PROVE  Good(set') /\ IsNull(set'.curr)
<1>1. /\ set \in SetRec /\ set.curr \in TableRec /\ set.prev \in TableRec
      /\ set.curr.mask \in Nat /\ set.prev.mask \in Nat /\ set.next \in [Node -> Link]
      /\ set = [curr |-> set.curr, prev |-> set.prev, migrate_pos |-> set.migrate_pos,
                next |-> set.next]
      /\ set.curr = [buckets |-> set.curr.buckets, size |-> set.curr.size, mask |-> set.curr.mask]
      /\ set.prev = [buckets |-> set.prev.buckets, size |-> set.prev.size, mask |-> set.prev.mask]
  BY TableFacts DEF Good, SetRec, TableRec
<1>2. PICK c : c = [buckets |-> NoBuckets, size |-> 0, mask |-> set.curr.mask]
  OBVIOUS
<1>3. PICK q : q = [buckets |-> NoBuckets, size |-> 0, mask |-> set.prev.mask]
  OBVIOUS
<1>4. PICK w : w = [curr |-> c, prev |-> q, migrate_pos |-> 0, next |-> set.next]
  OBVIOUS
<1>5. set' = w
  <2>1. set' = [set EXCEPT !.curr.buckets = NoBuckets, !.curr.size = 0,
                           !.prev.buckets = NoBuckets, !.prev.size = 0, !.migrate_pos = 0]
    BY DEF Detach
  <2>2. PICK a : a = [set EXCEPT !.curr.buckets = NoBuckets]
    OBVIOUS
  <2>3. a.curr = [buckets |-> NoBuckets, size |-> set.curr.size, mask |-> set.curr.mask]
        /\ a = [curr |-> a.curr, prev |-> set.prev, migrate_pos |-> set.migrate_pos,
                next |-> set.next]
    BY ONLY <1>1, <2>2
  <2>4. PICK b : b = [a EXCEPT !.curr.size = 0]
    OBVIOUS
  <2>5. b = [curr |-> c, prev |-> set.prev, migrate_pos |-> set.migrate_pos, next |-> set.next]
    BY ONLY <1>2, <2>3, <2>4
  <2>6. PICK d : d = [b EXCEPT !.prev.buckets = NoBuckets]
    OBVIOUS
  <2>7. d.prev = [buckets |-> NoBuckets, size |-> set.prev.size, mask |-> set.prev.mask]
        /\ d = [curr |-> c, prev |-> d.prev, migrate_pos |-> set.migrate_pos, next |-> set.next]
    BY ONLY <1>1, <2>5, <2>6
  <2>8. PICK e : e = [d EXCEPT !.prev.size = 0]
    OBVIOUS
  <2>9. e = [curr |-> c, prev |-> q, migrate_pos |-> set.migrate_pos, next |-> set.next]
    BY ONLY <1>3, <2>7, <2>8
  <2>10. [e EXCEPT !.migrate_pos = 0] = w
    BY ONLY <1>4, <2>9
  <2> QED
    BY ONLY <2>1, <2>2, <2>4, <2>6, <2>8, <2>10
<1>6. c \in TableRec /\ q \in TableRec /\ IsNull(c) /\ IsNull(q) /\ c.size = 0 /\ q.size = 0
      /\ TableOK(c) /\ TableOK(q)
  BY <1>1, <1>2, <1>3, SizeRange DEF TableRec, TableOK, IsNull, Buckets
<1>7. Busy(q, 0) = {}
  BY <1>6, TableFacts
<1>8. w \in SetRec /\ w.curr = c /\ w.prev = q /\ w.migrate_pos = 0
  BY <1>1, <1>4, <1>6 DEF SetRec
<1>9. 0 <= q.mask + 1
  BY <1>1, <1>3
<1>10. Good(w)
  BY <1>6, <1>7, <1>8, <1>9 DEF Good, Held
<1> QED
  BY <1>5, <1>6, <1>8, <1>10

Wheres == {"fresh", "in", "out", "freed"}
Processes == {"up", "hung", "fault", "ended"}

(* A call leaves the process in one of its four states.                            *)
LEMMA LivesFacts ==
  ASSUME NEW s, NEW found, Lives(s, found)
  PROVE  process' \in Processes
BY DEF Lives, Processes

(* A node that is put in keeps the invariant.                                      *)
LEMMA Adding ==
  ASSUME IInv, NEW s, Good(s), NEW n \in Node, Adds(s, n)
  PROVE  IInv'
<1>1. CASE IsNull(s.curr)
  BY <1>1 DEF Adds, IInv
<1>2. CASE ~ IsNull(s.curr)
  <2>1. PICK u : u = insert(s, n)
    OBVIOUS
  <2>2. set' = u /\ Lives(u, Null) /\ where' = [where EXCEPT ![n] = "in"]
    BY <1>2, <2>1 DEF Adds
  <2>3. Good(u)
    BY <1>2, <2>1, Inserting
  <2>4. where' \in [Node -> Wheres]
    BY <2>2 DEF IInv, Wheres
  <2> QED
    BY <2>2, <2>3, <2>4, LivesFacts DEF IInv, Wheres, Processes
<1> QED
  BY <1>1, <1>2

(* The empty set satisfies the invariant.                                          *)
LEMMA InitInv == Init => IInv
<1> SUFFICES ASSUME Init
    PROVE  IInv
  OBVIOUS
<1>1. InitBuckets \in Nat \ {0}
  BY SetAssumption
<1>2. PICK c : c = Table(InitBuckets)
  OBVIOUS
<1>3. c \in TableRec /\ TableOK(c) /\ ~ IsNull(c) /\ c.size = 0
  BY <1>1, <1>2, NewTable
<1>4. PICK q : q = [buckets |-> NoBuckets, size |-> 0, mask |-> 0]
  OBVIOUS
<1>5. q \in TableRec /\ TableOK(q) /\ IsNull(q) /\ q.size = 0 /\ q.mask = 0
  BY <1>4, SizeRange DEF TableRec, TableOK, IsNull, Buckets
<1>6. PICK w : w = [n \in Node |-> Null]
  OBVIOUS
<1>7. w \in [Node -> Link]
  BY <1>6, LinkFacts
<1>8. set = [curr |-> c, prev |-> q, migrate_pos |-> 0, next |-> w]
  BY <1>2, <1>4, <1>6 DEF Init
<1>9. set \in SetRec /\ set.curr = c /\ set.prev = q /\ set.migrate_pos = 0
  BY <1>3, <1>5, <1>7, <1>8 DEF SetRec
<1>10. Busy(q, 0) = {}
  BY <1>5, TableFacts
<1>11. Good(set)
  BY <1>3, <1>5, <1>9, <1>10 DEF Good, Held
<1>12. where \in [Node -> Wheres] /\ process \in Processes
  BY DEF Init, Wheres, Processes
<1> QED
  BY <1>11, <1>12 DEF IInv, Wheres, Processes

(* Every call keeps it.                                                            *)
LEMMA NextInv == IInv /\ [Next]_vars => IInv'
<1> SUFFICES ASSUME IInv, [Next]_vars
    PROVE  IInv'
  OBVIOUS
<1>1. Good(set) /\ where \in [Node -> Wheres] /\ process \in Processes
  BY DEF IInv, Wheres, Processes
<1>2. PICK s : s = progress_rehash(set)
  OBVIOUS
<1>3. Good(s)
  BY <1>1, <1>2, Progress
<1>4. ASSUME NEW k \in Key, Find(k)
      PROVE  IInv'
  <2>1. set' = s /\ Lives(s, find(s, k)) /\ where' = where
    BY <1>2, <1>4 DEF Find
  <2> QED
    BY <1>1, <1>3, <2>1, LivesFacts DEF IInv, Wheres, Processes
<1>5. ASSUME NEW k \in Key, Emplace(k)
      PROVE  IInv'
  <2>1. CASE find(s, k) # Null
    <3>1. set' = s /\ Lives(s, find(s, k)) /\ where' = where
      BY <1>2, <1>5, <2>1 DEF Emplace
    <3> QED
      BY <1>1, <1>3, <3>1, LivesFacts DEF IInv, Wheres, Processes
  <2>2. CASE find(s, k) = Null
    <3>1. PICK n \in Node : Adds(s, n)
      BY <1>2, <1>5, <2>2 DEF Emplace
    <3> QED
      BY <1>3, <3>1, Adding
  <2> QED
    BY <2>1, <2>2
<1>6. ASSUME NEW k \in Key, Del(k)
      PROVE  IInv'
  <2>1. PICK found : found = find(s, k)
    OBVIOUS
  <2>2. /\ Lives(s, found)
        /\ IF found \notin Node THEN set' = s /\ UNCHANGED where
           ELSE /\ set' = IF table_find(s, s.curr, k) = found
                          THEN [s EXCEPT !.curr.size = Minus(@, 1)]
                          ELSE [s EXCEPT !.prev.size = Minus(@, 1)]
                /\ where' = [where EXCEPT ![found] = "out"]
    BY <1>2, <1>6, <2>1 DEF Del
  <2>3. process' \in Processes
    BY <2>2, LivesFacts
  <2>4. where' \in [Node -> Wheres]
    BY <1>1, <2>2 DEF Wheres
  <2>5. Good(set')
    <3>1. CASE found \notin Node
      BY <1>3, <2>2, <3>1
    <3>2. CASE found \in Node /\ table_find(s, s.curr, k) = found
      <4>1. Busy(s.curr, 0) # {}
        BY <1>3, <2>1, <3>2, Finding
      <4> QED
        BY <1>3, <2>2, <3>2, <4>1, Uncounting
    <3>3. CASE found \in Node /\ table_find(s, s.curr, k) # found
      <4>1. Busy(s.prev, 0) # {}
        BY <1>3, <2>1, <3>3, Finding
      <4> QED
        BY <1>3, <2>2, <3>3, <4>1, Uncounting
    <3> QED
      BY <3>1, <3>2, <3>3
  <2> QED
    BY <2>3, <2>4, <2>5 DEF IInv, Wheres, Processes
<1>7. ASSUME NEW n \in Node, Insert(n)
      PROVE  IInv'
  BY <1>1, <1>7, Adding DEF Insert
<1>8. CASE Rehash
  <2>1. Good(set')
    BY <1>1, <1>8, Rehashing
  <2> QED
    BY <1>1, <1>8, <2>1 DEF IInv, Wheres, Processes, Rehash
<1>9. CASE Detach
  <2>1. Good(set')
    BY <1>1, <1>9, Detaching
  <2>2. where' \in [Node -> Wheres]
    BY <1>1, <1>9 DEF Detach, Wheres
  <2> QED
    BY <1>1, <1>9, <2>1, <2>2 DEF IInv, Wheres, Processes, Detach
<1>10. CASE Format
  <2>1. process' \in Processes /\ set' = set /\ where' = where
    BY <1>10 DEF Format, Processes
  <2> QED
    BY <1>1, <2>1 DEF IInv, Wheres, Processes
<1>11. CASE Destroy
  <2>1. process' \in Processes /\ set' = set
    BY <1>11 DEF Destroy, Processes
  <2>2. where' \in [Node -> Wheres]
    BY <1>1, <1>11 DEF Destroy, Wheres
  <2> QED
    BY <1>1, <2>1, <2>2 DEF IInv, Wheres, Processes
<1>12. CASE UNCHANGED vars
  BY <1>12 DEF IInv, vars
<1> QED
  BY <1>4, <1>5, <1>6, <1>7, <1>8, <1>9, <1>10, <1>11, <1>12 DEF Next

(* What is true of the set after every sequence of calls.                                   *)
THEOREM Invariance == Spec => []IInv
BY InitInv, NextInv, PTL DEF Spec

(* Every variable has its type: the tables have as many buckets as their mask says, or     *)
(* none, and the migration stands at a bucket of prev or just behind the last.             *)
THEOREM TypeCorrect == Spec => []TypeOK
<1>1. IInv => TypeOK
  <2> SUFFICES ASSUME IInv
      PROVE  TypeOK
    OBVIOUS
  <2>1. /\ Good(set) /\ set \in SetRec /\ set.migrate_pos \in Nat /\ set.prev.mask \in Nat
        /\ set.next \in [Node -> Link] /\ set.prev \in TableRec
        /\ TableOK(set.curr) /\ TableOK(set.prev) /\ set.migrate_pos <= set.prev.mask + 1
    BY TableFacts DEF IInv, Good, SetRec, TableRec
  <2>2. set.migrate_pos \in 0 .. (set.prev.mask + 1)
    BY <2>1
  <2> QED
    BY <2>1, <2>2 DEF TypeOK, IInv, Link
<1> QED
  BY <1>1, Invariance, PTL

(* progress_rehash always finds a bucket to take a node from, whatever the deletions have   *)
(* left of the sizes.                                                                 *)
THEOREM MigrationStaysInsideHolds == Spec => []MigrationStaysInside
<1>1. IInv => MigrationStaysInside
  BY DEF IInv, Good, Held, MigrationStaysInside
<1> QED
  BY <1>1, Invariance, PTL

-----------------------------------------------------------------------------
(* What a sound set answers.                                                            *)

(* The nodes of a bucket are those of its chain.                                   *)
LEMMA InFacts ==
  ASSUME NEW s, NEW t, NEW p
  PROVE  In(s, t, p) = {ChainOf(s, t, p)[i] : i \in 0 .. Cardinality(Node)} \ {Null}
BY DEF In

(* A lookup in a table that leads to no node.                                           *)
LEMMA NothingThere ==
  ASSUME NEW s \in SetRec, NEW t \in TableRec, TableOK(t), NEW k \in Key, Linked(s, t) = {}
  PROVE  table_find(s, t, k) = Null
<1>1. CASE IsNull(t)
  BY <1>1 DEF table_find
<1>2. CASE ~ IsNull(t)
  <2>1. PICK p : p = Pos(t, k)
    OBVIOUS
  <2>2. p \in DOMAIN t.buckets /\ t.buckets[p] \in Link
    BY <1>2, <2>1, TableFacts
  <2>3. PICK c : c = ChainOf(s, t, p)
    OBVIOUS
  <2>4. PICK N \in Nat : N = Cardinality(Node)
    BY Nodes
  <2>5. DOMAIN c = 0 .. N
    BY <2>2, <2>3, <2>4, ChainFacts DEF Chases
  <2>6. In(s, t, p) = {}
    BY <2>2 DEF Linked
  <2>7. \A i \in 0 .. N : c[i] = Null
    BY <2>3, <2>4, <2>6, InFacts
  <2>8. {i \in DOMAIN c : c[i] # Null /\ KeyOf[c[i]] = k} = {}
    BY <2>5, <2>7
  <2>9. ~ Loops(s, t, p)
    BY <2>3, <2>4, <2>7 DEF Loops
  <2> QED
    BY <1>2, <2>1, <2>3, <2>8, <2>9 DEF table_find
<1> QED
  BY <1>1, <1>2

(* A lookup in a table whose nodes are in the buckets of their hashes, without cycles.       *)
LEMMA Placed ==
  ASSUME NEW s \in SetRec, NEW t \in TableRec, TableOK(t), ~ IsNull(t), NEW k \in Key,
         \A p \in DOMAIN t.buckets :
           ~ Loops(s, t, p) /\ \A n \in In(s, t, p) : p = Pos(t, KeyOf[n])
  PROVE  IF \E n \in Linked(s, t) : KeyOf[n] = k
         THEN table_find(s, t, k) \in {n \in Linked(s, t) : KeyOf[n] = k}
         ELSE table_find(s, t, k) = Null
<1>1. PICK p : p = Pos(t, k)
  OBVIOUS
<1>2. p \in DOMAIN t.buckets /\ t.buckets[p] \in Link
  BY <1>1, TableFacts
<1>3. PICK c : c = ChainOf(s, t, p)
  OBVIOUS
<1>4. PICK N \in Nat : N = Cardinality(Node)
  BY Nodes
<1>5. DOMAIN c = 0 .. N
  BY <1>2, <1>3, <1>4, ChainFacts DEF Chases
<1>6. In(s, t, p) \subseteq Linked(s, t)
  BY <1>2 DEF Linked
<1>7. In(s, t, p) = {c[i] : i \in 0 .. N} \ {Null}
  BY <1>3, <1>4, InFacts
<1>8. PICK H : H = {i \in DOMAIN c : c[i] # Null /\ KeyOf[c[i]] = k}
  OBVIOUS
<1>9. table_find(s, t, k) = IF H # {} THEN c[FirstOf(H)] ELSE Null
  <2>1. table_find(s, t, k)
          = IF H # {} THEN c[FirstOf(H)] ELSE IF Loops(s, t, p) THEN Endless ELSE Null
    BY <1>1, <1>3, <1>8 DEF table_find
  <2> QED
    BY <1>2, <2>1
<1>10. CASE H # {}
  <2>1. H \subseteq Nat
    BY <1>5, <1>8
  <2>2. PICK i : i = FirstOf(H)
    OBVIOUS
  <2>3. i \in H
    BY <1>10, <2>1, <2>2, LeastOf
  <2>4. c[i] \in Linked(s, t) /\ KeyOf[c[i]] = k
    BY <1>5, <1>6, <1>7, <1>8, <2>3
  <2> QED
    BY <1>9, <1>10, <2>2, <2>4
<1>11. CASE H = {}
  <2>1. SUFFICES ASSUME NEW n \in Linked(s, t), KeyOf[n] = k
        PROVE  FALSE
    BY <1>9, <1>11
  <2>2. PICK q \in DOMAIN t.buckets : n \in In(s, t, q)
    BY DEF Linked
  <2>3. q = p
    BY <1>1, <2>1, <2>2
  <2>4. PICK i \in 0 .. N : n = c[i] /\ n # Null
    BY <1>7, <2>2, <2>3
  <2>5. i \in H
    BY <1>5, <1>8, <2>1, <2>4
  <2> QED
    BY <1>11, <2>5
<1> QED
  BY <1>10, <1>11

(* As long as the set is sound, find returns a member for a key that has one, and no        *)
(* node for any other.                                                                *)
THEOREM AnswersAreRightHolds == Spec => []AnswersAreRight
<1>1. IInv => AnswersAreRight
  <2> SUFFICES ASSUME IInv, Sound, NEW k \in Key
      PROVE  IF \E n \in members : KeyOf[n] = k
             THEN find(set, k) \in {n \in members : KeyOf[n] = k} ELSE find(set, k) = Null
    BY DEF AnswersAreRight
  <2>1. /\ set \in SetRec /\ set.curr \in TableRec /\ set.prev \in TableRec
        /\ TableOK(set.curr) /\ TableOK(set.prev)
    BY DEF IInv, Good, SetRec
  <2>2. /\ ~ IsNull(set.curr) /\ Linked(set, set.prev) = {} /\ Linked(set, set.curr) = members
        /\ \A p \in DOMAIN set.curr.buckets :
             /\ ~ Loops(set, set.curr, p)
             /\ \A n \in In(set, set.curr, p) : p = Pos(set.curr, KeyOf[n])
    BY DEF Sound
  <2>3. table_find(set, set.prev, k) = Null
    BY <2>1, <2>2, NothingThere
  <2>4. IF \E n \in members : KeyOf[n] = k
        THEN table_find(set, set.curr, k) \in {n \in members : KeyOf[n] = k}
        ELSE table_find(set, set.curr, k) = Null
    <3>1. IF \E n \in Linked(set, set.curr) : KeyOf[n] = k
          THEN table_find(set, set.curr, k) \in {n \in Linked(set, set.curr) : KeyOf[n] = k}
          ELSE table_find(set, set.curr, k) = Null
      BY <2>1, <2>2, Placed
    <3> QED
      BY <2>2, <3>1
  <2>5. Null \notin members
    BY LinkFacts DEF members
  <2> QED
    BY <2>3, <2>4, <2>5 DEF find
<1> QED
  BY <1>1, Invariance, PTL

-----------------------------------------------------------------------------
(* What size() counts.                                                                 *)

JustAdded == \E n \in Node : where[n] # "in" /\ where'[n] = "in"

(* A node that is put in is counted, wherever the migration puts it.               *)
LEMMA AddingCounts ==
  ASSUME IInv, NEW s, Good(s), SizeOf(s) = size, NEW n \in Node, where[n] = "fresh", Adds(s, n)
  PROVE  IF JustAdded THEN size' = Plus(size, 1) ELSE size' = size
<1>1. CASE IsNull(s.curr)
  <2>1. set' = set /\ where' = where
    BY <1>1 DEF Adds
  <2> QED
    BY <2>1 DEF JustAdded, size
<1>2. CASE ~ IsNull(s.curr)
  <2>1. PICK u : u = insert(s, n)
    OBVIOUS
  <2>2. set' = u /\ where' = [where EXCEPT ![n] = "in"]
    BY <1>2, <2>1 DEF Adds
  <2>3. SizeOf(u) = Plus(size, 1)
    BY <1>2, <2>1, Inserting
  <2>4. size' = Plus(size, 1)
    BY <2>2, <2>3 DEF size, SizeOf
  <2>5. JustAdded
    BY <2>2 DEF IInv, JustAdded
  <2> QED
    BY <2>4, <2>5
<1> QED
  BY <1>1, <1>2

(* size() goes up by one with every node that is put in, down by one with every node that   *)
(* del finds, to nothing with detach, and no move of nodes between the tables changes it.   *)
THEOREM SizeCountsCallsHolds == Spec => SizeCountsCalls
<1> DEFINE Counts == IF JustAdded THEN size' = Plus(size, 1)
                     ELSE size' # size =>
                            Detach \/ (size' = Minus(size, 1) /\ \E k \in Key : Removes(k))
<1>1. IInv /\ [Next]_vars => [Counts]_vars
  <2> SUFFICES ASSUME IInv, [Next]_vars
      PROVE  [Counts]_vars
    OBVIOUS
  <2>1. Good(set) /\ where \in [Node -> Wheres] /\ size = SizeOf(set)
    BY DEF IInv, Wheres, size, SizeOf
  <2>2. PICK s : s = progress_rehash(set)
    OBVIOUS
  <2>3. Good(s) /\ SizeOf(s) = size
    BY <2>1, <2>2, Progress
  <2>4. ASSUME where' = where, size' = size
        PROVE  Counts
    BY <2>4 DEF JustAdded
  <2>5. ASSUME NEW k \in Key, Find(k)
        PROVE  Counts
    <3>1. set' = s /\ where' = where
      BY <2>2, <2>5 DEF Find
    <3>2. size' = size
      BY <2>3, <3>1 DEF size, SizeOf
    <3> QED
      BY <2>4, <3>1, <3>2
  <2>6. ASSUME NEW k \in Key, Emplace(k)
        PROVE  Counts
    <3>1. CASE find(s, k) # Null
      <4>1. set' = s /\ where' = where
        BY <2>2, <2>6, <3>1 DEF Emplace
      <4>2. size' = size
        BY <2>3, <4>1 DEF size, SizeOf
      <4> QED
        BY <2>4, <4>1, <4>2
    <3>2. CASE find(s, k) = Null
      <4>1. PICK n \in Node : where[n] = "fresh" /\ Adds(s, n)
        BY <2>2, <2>6, <3>2 DEF Emplace
      <4> QED
        BY <2>3, <4>1, AddingCounts
    <3> QED
      BY <3>1, <3>2
  <2>7. ASSUME NEW n \in Node, Insert(n)
        PROVE  Counts
    <3>1. where[n] = "fresh" /\ Adds(set, n)
      BY <2>7 DEF Insert
    <3> QED
      BY <2>1, <3>1, AddingCounts
  <2>8. ASSUME NEW k \in Key, Del(k)
        PROVE  Counts
    <3>1. PICK found : found = find(s, k)
      OBVIOUS
    <3>2. IF found \notin Node THEN set' = s /\ UNCHANGED where
          ELSE /\ set' = IF table_find(s, s.curr, k) = found
                         THEN [s EXCEPT !.curr.size = Minus(@, 1)]
                         ELSE [s EXCEPT !.prev.size = Minus(@, 1)]
               /\ where' = [where EXCEPT ![found] = "out"]
      BY <2>2, <2>8, <3>1 DEF Del
    <3>3. CASE found \notin Node
      <4>1. set' = s /\ where' = where
        BY <3>2, <3>3
      <4>2. size' = size
        BY <2>3, <4>1 DEF size, SizeOf
      <4> QED
        BY <2>4, <4>1, <4>2
    <3>4. CASE found \in Node
      <4>1. size' = Minus(size, 1)
        <5>1. SizeOf(set') = Minus(SizeOf(s), 1)
          BY <2>3, <3>2, <3>4, Uncounting
        <5> QED
          BY <2>3, <5>1 DEF size, SizeOf
      <4>2. Removes(k)
        BY <2>2, <2>8, <3>1, <3>4 DEF Removes
      <4>3. ~ JustAdded
        BY <2>1, <3>2, <3>4 DEF JustAdded
      <4> QED
        BY <4>1, <4>2, <4>3
    <3> QED
      BY <3>3, <3>4
  <2>9. CASE Rehash
    <3>1. where' = where
      BY <2>9 DEF Rehash
    <3>2. size' = size
      <4>1. SizeOf(set') = SizeOf(set)
        BY <2>1, <2>9, Rehashing
      <4> QED
        BY <4>1 DEF size, SizeOf
    <3> QED
      BY <2>4, <3>1, <3>2
  <2>10. CASE Detach
    <3>1. ~ JustAdded
      BY <2>10 DEF Detach, JustAdded
    <3> QED
      BY <2>10, <3>1
  <2>11. CASE Format
    <3>1. where' = where /\ set' = set
      BY <2>11 DEF Format
    <3>2. size' = size
      BY <3>1 DEF size
    <3> QED
      BY <2>4, <3>1, <3>2
  <2>12. CASE Destroy
    <3>1. set' = set /\ ~ JustAdded
      BY <2>12 DEF Destroy, JustAdded
    <3>2. size' = size
      BY <3>1 DEF size
    <3> QED
      BY <3>1, <3>2
  <2> HIDE DEF Counts
  <2>13. CASE UNCHANGED vars
    BY <2>13
  <2> QED
    BY <2>5, <2>6, <2>7, <2>8, <2>9, <2>10, <2>11, <2>12, <2>13 DEF Next
<1>2. [][Counts]_vars => SizeCountsCalls
  BY DEF SizeCountsCalls, JustAdded
<1> HIDE DEF Counts
<1> QED
  BY <1>1, <1>2, Invariance, PTL DEF Spec

-----------------------------------------------------------------------------
(* The destruction of a sound set.                                                        *)

(* Nothing is freed while the set lives.                                                   *)
Unfreed == process = "up" => \A n \in Node : where[n] # "freed"

(* No node is freed before there is one.                                           *)
LEMMA UnfreedInit == Init => Unfreed
BY DEF Init, Unfreed

(* No call but the destruction frees a node, and no call follows that.             *)
LEMMA UnfreedNext == IInv /\ Unfreed /\ [Next]_vars => Unfreed'
<1> SUFFICES ASSUME IInv, Unfreed, [Next]_vars
    PROVE  Unfreed'
  OBVIOUS
<1>1. where \in [Node -> Wheres]
  BY DEF IInv, Wheres
<1>2. CASE UNCHANGED vars
  BY <1>2 DEF Unfreed, vars
<1>3. CASE Next
  <2>1. \A n \in Node : where[n] # "freed"
    BY <1>3 DEF Next, Unfreed
  <2>2. ASSUME NEW s, NEW n \in Node, Adds(s, n)
        PROVE  Unfreed'
    BY <1>1, <2>1, <2>2 DEF Adds, Unfreed
  <2>3. ASSUME NEW k \in Key, Find(k)
        PROVE  Unfreed'
    BY <2>1, <2>3 DEF Find, Unfreed
  <2>4. ASSUME NEW k \in Key, Emplace(k)
        PROVE  Unfreed'
    <3>1. where' = where \/ \E n \in Node : \E s : Adds(s, n)
      BY <2>4 DEF Emplace
    <3>2. CASE where' = where
      BY <2>1, <3>2 DEF Unfreed
    <3> QED
      BY <2>2, <3>1, <3>2
  <2>5. ASSUME NEW k \in Key, Del(k)
        PROVE  Unfreed'
    <3>1. where' = where \/ \E n : where' = [where EXCEPT ![n] = "out"]
      BY <2>5 DEF Del
    <3> QED
      BY <1>1, <2>1, <3>1 DEF Unfreed
  <2>6. ASSUME NEW n \in Node, Insert(n)
        PROVE  Unfreed'
    BY <2>2, <2>6 DEF Insert
  <2>7. CASE Rehash
    BY <2>1, <2>7 DEF Rehash, Unfreed
  <2>8. CASE Detach
    BY <2>1, <2>8 DEF Detach, Unfreed
  <2>9. CASE Format
    BY <2>1, <2>9 DEF Format, Unfreed
  <2>10. CASE Destroy
    BY <2>10 DEF Destroy, Unfreed
  <2> QED
    BY <1>3, <2>3, <2>4, <2>5, <2>6, <2>7, <2>8, <2>9, <2>10 DEF Next
<1> QED
  BY <1>2, <1>3

(* What destroy_table has left to free when it comes to a bucket.                           *)
LeftOf(t) ==
  LET left[p \in 0 .. (t.mask + 1)] ==
        IF p = 0 THEN t.size ELSE Minus(left[p - 1], Cardinality(In(set, t, p - 1)))
  IN  left

(* The buckets that are freed, by what is left to free.                            *)
LEMMA SweptIs ==
  ASSUME NEW t
  PROVE  Swept(t) = {p \in DOMAIN t.buckets : \A q \in 0 .. p : LeftOf(t)[q] # 0}
BY DEF Swept, LeftOf

CountsDown(f, t, m) ==
  /\ f = [i \in 0 .. m |-> f[i]] /\ f[0] = t.size
  /\ \A i \in 1 .. m : f[i] = Minus(f[i - 1], Cardinality(In(set, t, i - 1)))

(* The sizes left can be counted down for as many buckets as one likes.            *)
LEMMA CountingDown ==
  ASSUME NEW t, NEW N \in Nat
  PROVE  \E f : CountsDown(f, t, N)
<1> DEFINE Bad == {i \in Nat : ~ \E f : CountsDown(f, t, i)}
<1>1. SUFFICES ASSUME N \in Bad
      PROVE  FALSE
  OBVIOUS
<1>2. PICK m \in Nat : m \in Bad /\ \A j \in Nat : j < m => j \notin Bad
  BY <1>1, LeastPos
<1>3. CASE m = 0
  <2>1. PICK f : f = [i \in 0 .. 0 |-> t.size]
    OBVIOUS
  <2>2. CountsDown(f, t, 0)
    BY <2>1 DEF CountsDown
  <2> QED
    BY <1>2, <1>3, <2>2
<1>4. CASE m # 0
  <2>1. m - 1 \in Nat /\ m - 1 < m
    BY <1>4
  <2>2. PICK f : CountsDown(f, t, m - 1)
    BY <1>2, <2>1
  <2>3. /\ f[0] = t.size
        /\ \A i \in 1 .. (m - 1) : f[i] = Minus(f[i - 1], Cardinality(In(set, t, i - 1)))
    BY <2>2 DEF CountsDown
  <2>4. PICK x : x = Minus(f[m - 1], Cardinality(In(set, t, m - 1)))
    OBVIOUS
  <2>5. PICK g : g = [i \in 0 .. m |-> IF i = m THEN x ELSE f[i]]
    OBVIOUS
  <2>6. g = [i \in 0 .. m |-> g[i]] /\ g[0] = t.size
    BY <1>4, <2>3, <2>5
  <2>7. ASSUME NEW i \in 1 .. m
        PROVE  g[i] = Minus(g[i - 1], Cardinality(In(set, t, i - 1)))
    <3>1. g[i - 1] = f[i - 1] /\ i - 1 \in 0 .. m
      BY <2>5
    <3>2. CASE i = m
      BY <2>4, <2>5, <3>1, <3>2
    <3>3. CASE i # m
      BY <2>3, <2>5, <3>1, <3>3
    <3> QED
      BY <3>2, <3>3
  <2>8. CountsDown(g, t, m)
    BY <2>6, <2>7 DEF CountsDown
  <2> QED
    BY <1>2, <2>8
<1> QED
  BY <1>3, <1>4

(* LeftOf does count down, bucket by bucket.                                       *)
LEMMA LeftFacts ==
  ASSUME NEW t, t.mask \in Nat
  PROVE  /\ LeftOf(t)[0] = t.size
         /\ \A i \in 1 .. (t.mask + 1) :
              LeftOf(t)[i] = Minus(LeftOf(t)[i - 1], Cardinality(In(set, t, i - 1)))
<1> DEFINE N == t.mask + 1
           Step(f) == [p \in 0 .. N |->
                         IF p = 0 THEN t.size
                         ELSE Minus(f[p - 1], Cardinality(In(set, t, p - 1)))]
<1>1. LeftOf(t) = CHOOSE f : f = Step(f)
  BY DEF LeftOf
<1>2. N \in Nat
  OBVIOUS
<1> HIDE DEF N
<1>3. PICK g : CountsDown(g, t, N)
  BY <1>2, CountingDown
<1>4. g = Step(g)
  <2>1. /\ g = [i \in 0 .. N |-> g[i]] /\ g[0] = t.size
        /\ \A i \in 1 .. N : g[i] = Minus(g[i - 1], Cardinality(In(set, t, i - 1)))
    BY <1>3 DEF CountsDown
  <2>2. PICK h : h = Step(g)
    OBVIOUS
  <2>3. ASSUME NEW i \in 0 .. N
        PROVE  h[i] = g[i]
    <3>1. CASE i = 0
      BY <2>1, <2>2, <3>1
    <3>2. CASE i # 0
      <4>1. i \in 1 .. N
        BY <1>2, <3>2
      <4> QED
        BY <2>1, <2>2, <3>2, <4>1
    <3> QED
      BY <3>1, <3>2
  <2>4. h = [i \in 0 .. N |-> h[i]]
    BY <2>2
  <2>5. h = g
    BY ONLY <2>1, <2>3, <2>4
  <2> QED
    BY <2>2, <2>5
<1>5. PICK c : c = LeftOf(t)
  OBVIOUS
<1> HIDE DEF Step
<1>6. c = Step(c)
  BY ONLY <1>1, <1>4, <1>5, Zenon
<1> USE DEF Step
<1> HIDE <1>1
<1>7. c[0] = t.size /\ \A i \in 1 .. N : c[i] = Minus(c[i - 1], Cardinality(In(set, t, i - 1)))
  BY <1>2, <1>6
<1> QED
  BY <1>5, <1>7 DEF N

(* The members in the buckets from q on.                                                  *)
Rest(q) == {n \in members : q <= Pos(set.curr, KeyOf[n])}

(* destroy_table counts a sound table down bucket by bucket, so that it stops behind the    *)
(* last that is not empty.                                                             *)
LEMMA SoundSweep ==
  ASSUME IInv, Sound
  PROVE  /\ FreedBy(set.curr) = members /\ FreedBy(set.prev) = {}
         /\ \A t \in {set.curr, set.prev} : \A p \in Swept(t) : ~ Loops(set, t, p)
<1> DEFINE T == set.curr
<1>1. /\ T \in TableRec /\ TableOK(T) /\ T.mask \in Nat /\ ~ IsNull(T)
      /\ DOMAIN T.buckets = 0 .. T.mask
      /\ set.prev \in TableRec /\ TableOK(set.prev) /\ set.prev.mask \in Nat
      /\ set.prev.size = 0 /\ DOMAIN set.prev.buckets \subseteq 0 .. set.prev.mask
  <2>1. /\ T \in TableRec /\ TableOK(T) /\ set.prev \in TableRec /\ TableOK(set.prev)
        /\ ~ IsNull(T) /\ set.prev.size = 0
    BY DEF IInv, Good, SetRec, Sound
  <2> QED
    BY <2>1, TableFacts
<1>2. IsFiniteSet(members) /\ members \subseteq Node
  <2>1. members \subseteq Node /\ IsFiniteSet(Node)
    BY SetAssumption DEF members
  <2> QED
    BY <2>1, FS_Subset
<1>3. \A p \in 0 .. T.mask : In(set, T, p) = {n \in members : p = Pos(T, KeyOf[n])}
  <2>1. ASSUME NEW p \in 0 .. T.mask
        PROVE  In(set, T, p) = {n \in members : p = Pos(T, KeyOf[n])}
    <3>1. In(set, T, p) \subseteq members /\ \A n \in In(set, T, p) : p = Pos(T, KeyOf[n])
      BY <1>1, <2>1 DEF Sound, Linked
    <3>2. ASSUME NEW n \in members, p = Pos(T, KeyOf[n])
          PROVE  n \in In(set, T, p)
      <4>1. PICK q \in DOMAIN T.buckets : n \in In(set, T, q)
        BY DEF Sound, Linked
      <4>2. q = Pos(T, KeyOf[n])
        BY <4>1 DEF Sound
      <4> QED
        BY <3>2, <4>1, <4>2
    <3> QED
      BY <3>1, <3>2
  <2> QED
    BY <2>1
<1>4. \A n \in members : Pos(T, KeyOf[n]) \in 0 .. T.mask
  <2>1. \A n \in members : KeyOf[n] \in Key
    BY <1>2, SetAssumption
  <2> QED
    BY <1>1, <2>1, TableFacts
<1>5. T.size = Cardinality(members) /\ T.size \in SizeT
  BY <1>1 DEF Sound, TableRec
<1>6. /\ LeftOf(T)[0] = T.size
      /\ \A i \in 1 .. (T.mask + 1) :
           LeftOf(T)[i] = Minus(LeftOf(T)[i - 1], Cardinality(In(set, T, i - 1)))
  BY <1>1, LeftFacts
<1>7. \A q \in 0 .. (T.mask + 1) : LeftOf(T)[q] = Cardinality(Rest(q))
  <2>1. SUFFICES ASSUME NEW x \in 0 .. (T.mask + 1), LeftOf(T)[x] # Cardinality(Rest(x))
        PROVE  FALSE
    OBVIOUS
  <2> DEFINE Bad == {q \in 0 .. (T.mask + 1) : LeftOf(T)[q] # Cardinality(Rest(q))}
  <2>2. x \in Nat /\ x \in Bad
    BY <1>1, <2>1
  <2>3. PICK q \in Nat : q \in Bad /\ \A j \in Nat : j < q => j \notin Bad
    BY <2>2, LeastPos
  <2>4. CASE q = 0
    <3>1. Rest(0) = members
      BY <1>4 DEF Rest
    <3> QED
      BY <1>5, <1>6, <2>3, <2>4, <3>1
  <2>5. CASE q # 0
    <3>1. /\ q \in 1 .. (T.mask + 1) /\ q - 1 \in Nat /\ q - 1 < q
          /\ q - 1 \in 0 .. (T.mask + 1) /\ q - 1 \in 0 .. T.mask
      BY <1>1, <2>3, <2>5
    <3>2. PICK R : R = Rest(q - 1)
      OBVIOUS
    <3>3. PICK S : S = In(set, T, q - 1)
      OBVIOUS
    <3>4. LeftOf(T)[q - 1] = Cardinality(R)
      BY <2>3, <3>1, <3>2
    <3>5. S = {n \in members : q - 1 = Pos(T, KeyOf[n])}
      BY <1>3, <3>1, <3>3
    <3>6. Rest(q) = R \ S
      <4>1. ASSUME NEW n \in members
            PROVE  q <= Pos(T, KeyOf[n])
                     <=> q - 1 <= Pos(T, KeyOf[n]) /\ ~ (q - 1 = Pos(T, KeyOf[n]))
        BY <1>1, <1>4, <3>1
      <4> QED
        BY <3>2, <3>5, <4>1 DEF Rest
    <3>7. R \cap S = S
      <4>1. S \subseteq R
        BY <3>1, <3>2, <3>5 DEF Rest
      <4> QED
        BY <4>1
    <3>8. R \in SUBSET members
      BY <3>2 DEF Rest
    <3>9. IsFiniteSet(R) /\ Cardinality(R) <= T.size
      BY <1>2, <1>5, <3>8, FS_Subset
    <3>10. S \in SUBSET R
      BY <3>7
    <3>11. /\ Cardinality(R) \in Nat /\ Cardinality(S) \in Nat /\ Cardinality(S) <= Cardinality(R)
           /\ IsFiniteSet(S)
      BY <3>9, <3>10, FS_Subset, FS_CardinalityType
    <3>12. Cardinality(Rest(q)) = Cardinality(R) - Cardinality(S)
      <4>1. Cardinality(R \ S) = Cardinality(R) - Cardinality(R \cap S)
        BY ONLY <3>9, FS_Difference
      <4> QED
        BY ONLY <3>6, <3>7, <4>1
    <3>13. PICK a \in SizeT : a = Cardinality(R)
      <4>1. SizeMod \in Nat
        BY SetAssumption
      <4>2. Cardinality(R) \in SizeT
        BY <1>5, <3>9, <3>11, <4>1 DEF SizeT
      <4> QED
        BY <4>2
    <3>14. PICK b \in Nat : b = Cardinality(S)
      BY <3>11
    <3>15. Minus(a, b) = a - b
      <4>1. b <= a /\ a \in Nat /\ SizeMod \in Nat /\ a < SizeMod
        BY <3>11, <3>13, <3>14, SetAssumption DEF SizeT
      <4> QED
        BY <4>1, PlusMinusAre
    <3>16. LeftOf(T)[q] = Minus(a, b)
      BY <1>6, <3>1, <3>3, <3>4, <3>13, <3>14
    <3>17. Cardinality(Rest(q)) = a - b
      BY <3>12, <3>13, <3>14
    <3> QED
      BY <2>3, <3>15, <3>16, <3>17
  <2> QED
    BY <2>4, <2>5
<1>8. Swept(T) = {p \in DOMAIN T.buckets : \A q \in 0 .. p : LeftOf(T)[q] # 0}
  BY SweptIs
<1>9. ASSUME NEW n \in members
      PROVE  n \in FreedBy(T)
  <2>1. PICK p \in 0 .. T.mask : p = Pos(T, KeyOf[n])
    BY <1>4
  <2>2. n \in In(set, T, p)
    BY <1>3, <2>1
  <2>3. ASSUME NEW q \in 0 .. p
        PROVE  LeftOf(T)[q] # 0
    <3>1. n \in Rest(q)
      BY <2>1 DEF Rest
    <3>2. Rest(q) \in SUBSET members
      BY DEF Rest
    <3>3. IsFiniteSet(Rest(q))
      BY <1>2, <3>2, FS_Subset
    <3>4. Cardinality(Rest(q)) # 0
      BY <3>1, <3>3, FS_EmptySet
    <3>5. q \in 0 .. (T.mask + 1)
      BY <1>1, <2>1
    <3> QED
      BY <1>7, <3>4, <3>5
  <2>4. p \in Swept(T)
    BY <1>1, <1>8, <2>3
  <2> QED
    BY <2>2, <2>4 DEF FreedBy
<1>10. FreedBy(T) \subseteq members
  BY <1>8 DEF FreedBy, Sound, Linked
<1>11. Swept(set.prev) = {}
  <2>1. LeftOf(set.prev)[0] = 0
    BY <1>1, LeftFacts
  <2>2. ASSUME NEW p \in DOMAIN set.prev.buckets
        PROVE  0 \in 0 .. p
    BY <1>1, <2>2
  <2> QED
    BY <2>1, <2>2, SweptIs
<1>12. \A p \in Swept(T) : ~ Loops(set, T, p)
  BY <1>8 DEF Sound
<1> QED
  BY <1>9, <1>10, <1>11, <1>12 DEF FreedBy

(* The destructor of a sound set frees every member, once, and nothing else.                *)
THEOREM EndsCleanHolds == Spec => EndsClean
<1>1. IInv /\ Unfreed /\ [Next]_vars
        => [Sound /\ Destroy =>
              process' = "ended" /\ {n \in Node : where'[n] = "freed"} = members]_vars
  <2> SUFFICES ASSUME IInv, Unfreed, Next, Sound, Destroy
      PROVE  process' = "ended" /\ {n \in Node : where'[n] = "freed"} = members
    OBVIOUS
  <2>1. /\ FreedBy(set.curr) = members /\ FreedBy(set.prev) = {}
        /\ \A t \in {set.curr, set.prev} : \A p \in Swept(t) : ~ Loops(set, t, p)
    BY SoundSweep
  <2>2. process' = "ended"
    BY <2>1 DEF Destroy
  <2>3. where' = [n \in Node |-> IF n \in members THEN "freed" ELSE where[n]]
    BY <2>1 DEF Destroy
  <2>4. \A n \in Node : where[n] # "freed"
    BY DEF Unfreed, Next
  <2>5. members \subseteq Node
    BY DEF members
  <2> QED
    BY <2>2, <2>3, <2>4, <2>5
<1>2. Spec => [](IInv /\ Unfreed)
  <2>1. Init => IInv /\ Unfreed
    BY InitInv, UnfreedInit
  <2>2. IInv /\ Unfreed /\ [Next]_vars => (IInv /\ Unfreed)'
    BY NextInv, UnfreedNext
  <2> QED
    BY <2>1, <2>2, PTL DEF Spec
<1> QED
  BY <1>1, <1>2, PTL DEF Spec, EndsClean

-----------------------------------------------------------------------------
(* Which calls break a sound hash set: the proof of BreaksOnlyAt.  It needs also the    *)
(* chains that a call leaves.                                                     *)

(* Sound, of any set record and any members.                                         *)
Holds(s, M) ==
  /\ ~ IsNull(s.curr) /\ s.prev.size = 0 /\ Linked(s, s.prev) = {}
  /\ Linked(s, s.curr) = M
  /\ s.curr.size = Cardinality(M)
  /\ \A p \in DOMAIN s.curr.buckets :
       /\ ~ Loops(s, s.curr, p)
       /\ \A n \in In(s, s.curr, p) : p = Pos(s.curr, KeyOf[n])

(* Holds is Sound.                                                                 *)
LEMMA SoundIs == (Sound <=> Holds(set, members)) /\ (Sound' <=> Holds(set', members'))
BY DEF Sound, Holds

-----------------------------------------------------------------------------

(* The chain of a bucket starts with its link.                                     *)
LEMMA ChainShape ==
  ASSUME NEW s \in SetRec, NEW t \in TableRec, TableOK(t), NEW p \in DOMAIN t.buckets
  PROVE  /\ ChainOf(s, t, p) \in Chases(s, t.buckets[p], Cardinality(Node))
         /\ t.buckets[p] \in Link
<1>1. t.buckets[p] \in Link
  BY TableFacts
<1> QED
  BY <1>1, ChainFacts

(* A table leads to no node when its buckets are empty, and not otherwise.                *)
LEMMA LinkedNone ==
  ASSUME NEW s \in SetRec, NEW t \in TableRec, TableOK(t)
  PROVE  Linked(s, t) = {} <=> \A p \in DOMAIN t.buckets : t.buckets[p] = Null
<1>1. PICK N \in Nat : N = Cardinality(Node)
  BY Nodes
<1>2. ASSUME NEW p \in DOMAIN t.buckets, t.buckets[p] # Null
      PROVE  Linked(s, t) # {}
  <2>1. ChainOf(s, t, p)[0] = t.buckets[p]
    BY <1>1, ChainShape DEF Chases
  <2>2. t.buckets[p] \in In(s, t, p)
    BY <1>1, <1>2, <2>1, InFacts
  <2> QED
    BY <2>2 DEF Linked
<1>3. ASSUME \A p \in DOMAIN t.buckets : t.buckets[p] = Null
      PROVE  Linked(s, t) = {}
  <2>1. ASSUME NEW p \in DOMAIN t.buckets
        PROVE  In(s, t, p) = {}
    BY <1>3, EmptyChain, InFacts
  <2> QED
    BY <2>1 DEF Linked
<1> QED
  BY <1>2, <1>3

(* An empty bucket's chain ends.                                                       *)
LEMMA EmptyEnds ==
  ASSUME NEW s \in SetRec, NEW t, NEW p, t.buckets[p] = Null
  PROVE  ~ Loops(s, t, p) /\ In(s, t, p) = {}
<1>1. Cardinality(Node) \in 0 .. Cardinality(Node)
  BY Nodes
<1> QED
  BY <1>1, EmptyChain, InFacts DEF Loops

(* Two walks that meet go on together, as long as the nodes they meet are linked alike.      *)
LEMMA Together ==
  ASSUME NEW s \in SetRec, NEW u \in SetRec, NEW b \in Link, NEW a \in Link, NEW m \in Nat,
         NEW f \in Chases(s, b, m), NEW g \in Chases(u, a, m), NEW o \in 0 .. m, g[o] = b,
         \A i \in 0 .. m : f[i] # Null => u.next[f[i]] = s.next[f[i]]
  PROVE  \A i \in 0 .. (m - o) : g[i + o] = f[i]
<1>1. SUFFICES ASSUME NEW x \in 0 .. (m - o), g[x + o] # f[x]
      PROVE  FALSE
  OBVIOUS
<1> DEFINE Bad == {i \in 0 .. (m - o) : g[i + o] # f[i]}
<1>2. x \in Nat /\ x \in Bad
  BY <1>1
<1>3. PICK j \in Nat : j \in Bad /\ \A k \in Nat : k < j => k \notin Bad
  BY <1>2, LeastPos
<1>4. /\ f \in [0 .. m -> Link] /\ f[0] = b /\ g \in [0 .. m -> Link]
      /\ \A i \in 1 .. m : f[i] = IF f[i - 1] = Null THEN Null ELSE s.next[f[i - 1]]
      /\ \A i \in 1 .. m : g[i] = IF g[i - 1] = Null THEN Null ELSE u.next[g[i - 1]]
  BY DEF Chases
<1>5. j # 0
  <2>1. g[0 + o] = f[0]
    BY <1>4
  <2> QED
    BY <1>3, <2>1
<1>6. /\ j - 1 \in Nat /\ j - 1 < j /\ j - 1 \in 0 .. (m - o) /\ j \in 1 .. m
      /\ j + o \in 1 .. m /\ (j + o) - 1 = (j - 1) + o /\ j - 1 \in 0 .. m
  BY <1>3, <1>5
<1>7. g[(j - 1) + o] = f[j - 1]
  BY <1>3, <1>6
<1>8. f[j] = IF f[j - 1] = Null THEN Null ELSE s.next[f[j - 1]]
  BY <1>4, <1>6
<1>9. g[j + o] = IF f[j - 1] = Null THEN Null ELSE u.next[f[j - 1]]
  BY <1>4, <1>6, <1>7
<1>10. g[j + o] = f[j]
  BY <1>6, <1>8, <1>9
<1> QED
  BY <1>3, <1>10

(* Behind the end of a walk there is nothing.                                            *)
LEMMA Ended ==
  ASSUME NEW s \in SetRec, NEW b \in Link, NEW m \in Nat, NEW f \in Chases(s, b, m),
         NEW e \in 0 .. m, f[e] = Null
  PROVE  \A i \in e .. m : f[i] = Null
<1>1. SUFFICES ASSUME NEW x \in e .. m, f[x] # Null
      PROVE  FALSE
  OBVIOUS
<1> DEFINE Bad == {i \in e .. m : f[i] # Null}
<1>2. x \in Nat /\ x \in Bad
  BY <1>1
<1>3. PICK j \in Nat : j \in Bad /\ \A k \in Nat : k < j => k \notin Bad
  BY <1>2, LeastPos
<1>4. j # e
  BY <1>3
<1>5. j - 1 \in Nat /\ j - 1 < j /\ j - 1 \in e .. m /\ j \in 1 .. m
  BY <1>3, <1>4
<1>6. f[j - 1] = Null
  BY <1>3, <1>5
<1>7. f[j] = Null
  BY <1>5, <1>6 DEF Chases
<1> QED
  BY <1>3, <1>7

(* A walk that ends meets every node once: from a node that is met again it would not end.  *)
LEMMA OnceEach ==
  ASSUME NEW s \in SetRec, NEW b \in Link, NEW m \in Nat, NEW f \in Chases(s, b, m),
         f[m] = Null, NEW i \in 0 .. m, NEW j \in 0 .. m, i < j, f[i] = f[j]
  PROVE  f[i] = Null
<1>1. /\ f \in [0 .. m -> Link]
      /\ \A k \in 1 .. m : f[k] = IF f[k - 1] = Null THEN Null ELSE s.next[f[k - 1]]
  BY DEF Chases
<1>2. \A d \in 0 .. (m - j) : f[i + d] = f[j + d]
  <2>1. SUFFICES ASSUME NEW x \in 0 .. (m - j), f[i + x] # f[j + x]
        PROVE  FALSE
    OBVIOUS
  <2> DEFINE Bad == {d \in 0 .. (m - j) : f[i + d] # f[j + d]}
  <2>2. x \in Nat /\ x \in Bad
    BY <2>1
  <2>3. PICK d \in Nat : d \in Bad /\ \A k \in Nat : k < d => k \notin Bad
    BY <2>2, LeastPos
  <2>4. d # 0
    <3>1. i + 0 = i /\ j + 0 = j
      OBVIOUS
    <3> QED
      BY <2>3, <3>1
  <2>5. /\ d - 1 \in Nat /\ d - 1 < d /\ d - 1 \in 0 .. (m - j)
        /\ i + d \in 1 .. m /\ j + d \in 1 .. m
        /\ (i + d) - 1 = i + (d - 1) /\ (j + d) - 1 = j + (d - 1)
    BY <2>3, <2>4
  <2>6. f[i + (d - 1)] = f[j + (d - 1)]
    BY <2>3, <2>5
  <2>7. f[i + d] = f[j + d]
    BY <1>1, <2>5, <2>6
  <2> QED
    BY <2>3, <2>7
<1>6. SUFFICES ASSUME f[i] # Null
      PROVE  FALSE
  OBVIOUS
(* The first end is behind j, and as far before it as j is from i there is another.       *)
<1>7. PICK h \in Nat : /\ h \in {k \in 0 .. m : f[k] = Null}
                       /\ \A k \in Nat : k < h => k \notin {x \in 0 .. m : f[x] = Null}
  <2>1. m \in {k \in 0 .. m : f[k] = Null}
    OBVIOUS
  <2> QED
    BY <2>1, LeastPos
<1>8. h \in 0 .. m /\ f[h] = Null /\ \A k \in 0 .. m : k < h => f[k] # Null
  BY <1>7
<1>9. j < h
  <2>1. f[j] # Null
    BY <1>6
  <2>2. ~ (h <= j)
    <3>1. SUFFICES ASSUME h <= j
          PROVE  FALSE
      OBVIOUS
    <3>2. j \in h .. m
      BY <1>8, <3>1
    <3> QED
      BY <1>8, <2>1, <3>2, Ended
  <2> QED
    BY <1>8, <2>2
<1>10. h - j \in 0 .. (m - j) /\ j + (h - j) = h /\ i + (h - j) \in 0 .. m /\ i + (h - j) < h
  BY <1>8, <1>9
<1>11. f[i + (h - j)] = Null
  BY <1>2, <1>8, <1>10
<1> QED
  BY <1>8, <1>10, <1>11

(* Without one of the nodes, a walk that ends does so one turn earlier.                     *)
LEMMA EndsEarly ==
  ASSUME NEW s \in SetRec, NEW b \in Link, NEW n \in Node,
         NEW f \in Chases(s, b, Cardinality(Node)), f[Cardinality(Node)] = Null,
         \A i \in 0 .. Cardinality(Node) : f[i] # n
  PROVE  Cardinality(Node) >= 1 /\ f[Cardinality(Node) - 1] = Null
<1> DEFINE N == Cardinality(Node)
<1>1. N \in Nat /\ IsFiniteSet(Node)
  BY Nodes, SetAssumption
<1>2. IsFiniteSet(Node \ {n}) /\ Cardinality(Node \ {n}) = N - 1
  <2>1. IsFiniteSet(Node \ {n}) /\ Cardinality(Node \ {n})
          = IF n \in Node THEN Cardinality(Node) - 1 ELSE Cardinality(Node)
    BY ONLY <1>1, FS_RemoveElement
  <2> QED
    BY <2>1
<1>3. N >= 1
  <2>1. N # 0
    BY <1>1, FS_EmptySet
  <2> QED
    BY <1>1, <2>1
<1>4. /\ f \in [0 .. N -> Link] /\ f[N] = Null /\ \A i \in 0 .. N : f[i] # n
      /\ f \in Chases(s, b, N)
  BY DEF Chases
<1> HIDE DEF N
<1>5. SUFFICES ASSUME f[N - 1] # Null
      PROVE  FALSE
  BY <1>3 DEF N
<1>6. N - 1 \in Nat /\ N - 1 \in 0 .. N
  BY <1>1, <1>3
<1>7. ASSUME NEW i \in 0 .. (N - 1)
      PROVE  f[i] \in Node \ {n}
  <2>1. i \in 0 .. N /\ N - 1 \in i .. N
    BY <1>1, <1>6
  <2>2. f[i] # Null
    BY <1>1, <1>4, <1>5, <2>1, Ended
  <2> QED
    BY <1>4, <2>1, <2>2 DEF Link
<1>8. PICK g : g = [i \in 0 .. (N - 1) |-> f[i]]
  OBVIOUS
<1>9. g \in [0 .. (N - 1) -> Node \ {n}]
  BY <1>7, <1>8
<1>10. IsFiniteSet(0 .. (N - 1)) /\ Cardinality(0 .. (N - 1)) = N
  <2>1. PICK z \in Int : z = N - 1
    BY <1>6
  <2>2. IsFiniteSet(0 .. z) /\ Cardinality(0 .. z) = IF 0 > z THEN 0 ELSE z - 0 + 1
    BY FS_Interval
  <2> QED
    BY <1>1, <1>3, <2>1, <2>2
<1>11. PICK i \in 0 .. (N - 1), j \in 0 .. (N - 1) : i # j /\ g[i] = g[j]
  <2>1. PICK S : S = 0 .. (N - 1)
    OBVIOUS
  <2>2. PICK T : T = Node \ {n}
    OBVIOUS
  <2>3. Cardinality(T) < Cardinality(S) /\ IsFiniteSet(S) /\ IsFiniteSet(T)
    BY <1>1, <1>2, <1>10, <2>1, <2>2
  <2>4. g \in [S -> T]
    BY <1>9, <2>1, <2>2
  <2>5. \E i, j \in S : i # j /\ g[i] = g[j]
    BY ONLY <2>3, <2>4, FS_PigeonHole
  <2> QED
    BY <2>1, <2>5
<1>12. f[i] = f[j] /\ f[i] # Null /\ i \in 0 .. N /\ j \in 0 .. N
  <2>1. f[i] # Null
    BY <1>7, LinkFacts
  <2> QED
    BY <1>1, <1>8, <1>11, <2>1
<1>13. i < j \/ j < i
  BY <1>11
<1> QED
  BY <1>1, <1>4, <1>12, <1>13, OnceEach

-----------------------------------------------------------------------------
(* A node that is put in without growth leaves a sound set sound.                            *)

(* The buckets that the node is not put in keep their chains.                               *)
LEMMA OtherBuckets ==
  ASSUME NEW s, Good(s), NEW M, M \subseteq Node, Holds(s, M), NEW n \in Node, n \notin M,
         NEW u, u = LinkTimes(s, n, 1), NEW q \in DOMAIN s.curr.buckets,
         q # Pos(s.curr, KeyOf[n])
  PROVE  In(u, u.curr, q) = In(s, s.curr, q) /\ ~ Loops(u, u.curr, q)
<1>1. PICK N \in Nat : N = Cardinality(Node)
  BY Nodes
<1>2. s \in SetRec /\ s.curr \in TableRec /\ TableOK(s.curr) /\ ~ IsNull(s.curr)
  BY DEF Good, SetRec, Holds
<1>3. u \in SetRec /\ u.curr \in TableRec /\ TableOK(u.curr) /\ ~ IsNull(u.curr)
      /\ u.curr.mask = s.curr.mask
  BY <1>2, Linking DEF SetRec
<1>4. DOMAIN s.curr.buckets = 0 .. s.curr.mask /\ DOMAIN u.curr.buckets = 0 .. s.curr.mask
  BY <1>2, <1>3, TableFacts
<1>5. u.curr.buckets[q] = s.curr.buckets[q] /\ \A x \in Node : x # n => u.next[x] = s.next[x]
  <2>1. q \in 0 .. s.curr.mask
    BY <1>4
  <2>2. /\ \A x \in Node : x # n => u.next[x] = s.next[x]
        /\ \A p \in 0 .. s.curr.mask :
             u.curr.buckets[p] = IF p = Pos(s.curr, KeyOf[n]) THEN n ELSE s.curr.buckets[p]
    BY <1>2, Linking
  <2> QED
    BY <2>1, <2>2
<1>6. PICK b \in Link : b = s.curr.buckets[q]
  BY <1>2, ChainShape
<1>7. PICK f : f = ChainOf(s, s.curr, q)
  OBVIOUS
<1>8. PICK g : g = ChainOf(u, u.curr, q)
  OBVIOUS
<1>9. f \in Chases(s, b, N)
  BY <1>1, <1>2, <1>6, <1>7, ChainShape
<1>10. g \in Chases(u, b, N)
  BY <1>1, <1>3, <1>4, <1>5, <1>6, <1>8, ChainShape
<1>11. In(s, s.curr, q) = {f[i] : i \in 0 .. N} \ {Null} /\ In(s, s.curr, q) \subseteq M
  BY <1>1, <1>7, InFacts DEF Holds, Linked
<1>12. \A i \in 0 .. N : f[i] # Null => u.next[f[i]] = s.next[f[i]]
  <2>1. ASSUME NEW i \in 0 .. N, f[i] # Null
        PROVE  f[i] \in Node /\ f[i] # n
    BY <1>11, <2>1
  <2> QED
    BY <1>5, <2>1
<1>13. g[0] = b
  BY <1>10 DEF Chases
<1>14. \A i \in 0 .. N : g[i] = f[i]
  <2>1. 0 \in 0 .. N
    OBVIOUS
  <2>2. \A i \in 0 .. (N - 0) : g[i + 0] = f[i]
    BY <1>2, <1>3, <1>9, <1>10, <1>12, <1>13, <2>1, Together
  <2> QED
    BY <2>2
<1>15. f[N] = Null
  BY <1>1, <1>7 DEF Holds, Loops
<1>16. In(u, u.curr, q) = {g[i] : i \in 0 .. N} \ {Null}
  BY <1>1, <1>8, InFacts
<1>17. N \in 0 .. N
  OBVIOUS
<1> QED
  BY <1>1, <1>8, <1>11, <1>14, <1>15, <1>16, <1>17 DEF Loops

(* The bucket that it is put in has it at its head, before what was there.                  *)
LEMMA ItsBucket ==
  ASSUME NEW s, Good(s), NEW M, M \subseteq Node, Holds(s, M), NEW n \in Node, n \notin M,
         NEW u, u = LinkTimes(s, n, 1), NEW q, q = Pos(s.curr, KeyOf[n])
  PROVE  /\ q \in DOMAIN s.curr.buckets
         /\ In(u, u.curr, q) = In(s, s.curr, q) \cup {n} /\ ~ Loops(u, u.curr, q)
<1>1. PICK N \in Nat : N = Cardinality(Node)
  BY Nodes
<1>2. s \in SetRec /\ s.curr \in TableRec /\ TableOK(s.curr) /\ ~ IsNull(s.curr)
  BY DEF Good, SetRec, Holds
<1>3. u \in SetRec /\ u.curr \in TableRec /\ TableOK(u.curr) /\ ~ IsNull(u.curr)
      /\ u.curr.mask = s.curr.mask
  BY <1>2, Linking DEF SetRec
<1>4. DOMAIN s.curr.buckets = 0 .. s.curr.mask /\ DOMAIN u.curr.buckets = 0 .. s.curr.mask
  BY <1>2, <1>3, TableFacts
<1>5. q \in 0 .. s.curr.mask
  <2>1. KeyOf[n] \in Key
    BY SetAssumption
  <2> QED
    BY <1>2, <2>1, TableFacts
<1>6. /\ u.curr.buckets[q] = n /\ u.next[n] = s.curr.buckets[q]
      /\ \A x \in Node : x # n => u.next[x] = s.next[x]
  BY <1>2, <1>5, Linking
<1>7. PICK b \in Link : b = s.curr.buckets[q]
  BY <1>2, <1>4, <1>5, ChainShape
<1>8. PICK f : f = ChainOf(s, s.curr, q)
  OBVIOUS
<1>9. PICK g : g = ChainOf(u, u.curr, q)
  OBVIOUS
<1>10. f \in Chases(s, b, N)
  BY <1>1, <1>2, <1>4, <1>5, <1>7, <1>8, ChainShape
<1>11. g \in Chases(u, n, N) /\ n \in Link
  BY <1>1, <1>3, <1>4, <1>5, <1>6, <1>9, ChainShape, LinkFacts
<1>12. In(s, s.curr, q) = {f[i] : i \in 0 .. N} \ {Null} /\ In(s, s.curr, q) \subseteq M
  BY <1>1, <1>4, <1>5, <1>8, InFacts DEF Holds, Linked
<1>13. ASSUME NEW i \in 0 .. N
       PROVE  f[i] # n
  BY <1>12, LinkFacts
<1>14. f[N] = Null
  BY <1>1, <1>4, <1>5, <1>8 DEF Holds, Loops
<1>15. N >= 1 /\ f[N - 1] = Null
  BY <1>1, <1>2, <1>10, <1>13, <1>14, EndsEarly
<1>16. g[0] = n /\ g[1] = b
  <2>1. 1 \in 1 .. N
    BY <1>15
  <2>2. g[0] = n /\ g[1] = IF g[1 - 1] = Null THEN Null ELSE u.next[g[1 - 1]]
    BY <1>11, <2>1 DEF Chases
  <2>3. 1 - 1 = 0
    OBVIOUS
  <2>4. g[1] = u.next[n]
    BY <2>2, <2>3, LinkFacts
  <2> QED
    BY <1>6, <1>7, <2>2, <2>4
<1>17. \A i \in 0 .. N : f[i] # Null => u.next[f[i]] = s.next[f[i]]
  <2>1. ASSUME NEW i \in 0 .. N, f[i] # Null
        PROVE  f[i] \in Node
    BY <1>12, <2>1
  <2> QED
    BY <1>6, <1>13, <2>1
<1>18. \A i \in 0 .. (N - 1) : g[i + 1] = f[i]
  <2>1. 1 \in 0 .. N
    BY <1>15
  <2> QED
    BY <1>2, <1>3, <1>10, <1>11, <1>16, <1>17, <2>1, Together
<1>19. g[N] = Null
  <2>1. N - 1 \in 0 .. (N - 1) /\ (N - 1) + 1 = N
    BY <1>15
  <2> QED
    BY <1>15, <1>18, <2>1
<1>20. {g[i] : i \in 0 .. N} \ {Null} = ({f[i] : i \in 0 .. N} \ {Null}) \cup {n}
  <2>1. ASSUME NEW i \in 0 .. N
        PROVE  g[i] = n \/ \E k \in 0 .. N : g[i] = f[k]
    <3>1. CASE i = 0
      BY <1>16, <3>1
    <3>2. CASE i # 0
      <4>1. i - 1 \in 0 .. (N - 1) /\ (i - 1) + 1 = i /\ i - 1 \in 0 .. N
        BY <3>2
      <4> QED
        BY <1>18, <4>1
    <3> QED
      BY <3>1, <3>2
  <2>2. ASSUME NEW i \in 0 .. N, f[i] # Null
        PROVE  \E k \in 0 .. N : g[k] = f[i]
    <3>1. i # N
      BY <1>14, <2>2
    <3>2. i \in 0 .. (N - 1) /\ i + 1 \in 0 .. N
      BY <3>1
    <3> QED
      BY <1>18, <3>2
  <2>3. 0 \in 0 .. N /\ n # Null
    BY LinkFacts
  <2> QED
    BY <1>16, <2>1, <2>2, <2>3
<1>21. In(u, u.curr, q) = {g[i] : i \in 0 .. N} \ {Null}
  BY <1>1, <1>9, InFacts
<1> QED
  BY <1>1, <1>4, <1>5, <1>9, <1>12, <1>19, <1>20, <1>21 DEF Loops

(* The set with its new member is sound, if the set was.                           *)
LEMMA PutIn ==
  ASSUME NEW s, Good(s), NEW M, M \subseteq Node, Holds(s, M), NEW n \in Node, n \notin M,
         NEW u, u = LinkTimes(s, n, 1)
  PROVE  Holds(u, M \cup {n})
<1>1. /\ s \in SetRec /\ s.curr \in TableRec /\ TableOK(s.curr) /\ ~ IsNull(s.curr)
      /\ s.prev \in TableRec /\ TableOK(s.prev)
  BY DEF Good, SetRec, Holds
<1>2. /\ u \in SetRec /\ u.curr \in TableRec /\ TableOK(u.curr) /\ ~ IsNull(u.curr)
      /\ u.curr.mask = s.curr.mask /\ u.curr.size = Plus(s.curr.size, 1) /\ u.prev = s.prev
  BY <1>1, Linking DEF SetRec
<1>3. DOMAIN s.curr.buckets = DOMAIN u.curr.buckets
  BY <1>1, <1>2, TableFacts
<1>4. Linked(u, u.prev) = {}
  <2>1. Linked(s, s.prev) = {}
    BY DEF Holds
  <2>2. \A p \in DOMAIN s.prev.buckets : s.prev.buckets[p] = Null
    BY <1>1, <2>1, LinkedNone
  <2> QED
    BY <1>1, <1>2, <2>2, LinkedNone
<1>5. PICK q : q = Pos(s.curr, KeyOf[n])
  OBVIOUS
<1>6. /\ q \in DOMAIN s.curr.buckets
      /\ In(u, u.curr, q) = In(s, s.curr, q) \cup {n} /\ ~ Loops(u, u.curr, q)
  BY <1>5, ItsBucket
<1>7. \A p \in DOMAIN s.curr.buckets :
        p # q => In(u, u.curr, p) = In(s, s.curr, p) /\ ~ Loops(u, u.curr, p)
  BY <1>5, OtherBuckets
<1>8. /\ Linked(s, s.curr) = M
      /\ \A p \in DOMAIN s.curr.buckets : \A x \in In(s, s.curr, p) : p = Pos(s.curr, KeyOf[x])
  BY DEF Holds
<1>9. Linked(u, u.curr) = M \cup {n}
  <2>1. Linked(u, u.curr) \subseteq M \cup {n}
    BY <1>3, <1>6, <1>7, <1>8 DEF Linked
  <2>2. M \cup {n} \subseteq Linked(u, u.curr)
    BY <1>3, <1>6, <1>7, <1>8 DEF Linked
  <2> QED
    BY <2>1, <2>2
<1>10. \A k : Pos(u.curr, k) = Pos(s.curr, k)
  BY <1>2 DEF Pos
<1>11. ASSUME NEW p \in DOMAIN u.curr.buckets
       PROVE  ~ Loops(u, u.curr, p) /\ \A x \in In(u, u.curr, p) : p = Pos(u.curr, KeyOf[x])
  <2>1. CASE p = q
    BY <1>3, <1>5, <1>6, <1>8, <1>10, <2>1
  <2>2. CASE p # q
    BY <1>3, <1>7, <1>8, <1>10, <1>11, <2>2
  <2> QED
    BY <2>1, <2>2
<1>12. u.curr.size = Cardinality(M \cup {n})
  <2>1. s.curr.size = Cardinality(M) /\ s.curr.size \in SizeT
    BY <1>1 DEF Holds, TableRec
  <2>2. IsFiniteSet(Node) /\ Cardinality(Node) < SizeMod /\ SizeMod \in Nat
    BY SetAssumption
  <2>3. IsFiniteSet(M)
    <3>1. M \in SUBSET Node
      OBVIOUS
    <3> QED
      BY <2>2, <3>1, FS_Subset
  <2>4. Cardinality(M \cup {n}) = Cardinality(M) + 1
    <3>1. Cardinality(M \cup {n}) = IF n \in M THEN Cardinality(M) ELSE Cardinality(M) + 1
      BY ONLY <2>3, FS_AddElement
    <3> QED
      BY <3>1
  <2>5. Cardinality(M \cup {n}) <= Cardinality(Node)
    <3>1. M \cup {n} \in SUBSET Node
      OBVIOUS
    <3> QED
      BY <2>2, <3>1, FS_Subset
  <2>6. PICK a \in SizeT : a = Cardinality(M) /\ a = s.curr.size
    BY <2>1
  <2>7. a \in Nat /\ a + 1 < SizeMod /\ Cardinality(Node) \in Nat
    <3>1. a \in Nat /\ Cardinality(Node) \in Nat
      BY <2>2, Nodes DEF SizeT
    <3> QED
      BY <2>2, <2>4, <2>5, <2>6, <3>1
  <2>8. Plus(a, 1) = a + 1
    BY <2>2, <2>7, PlusMinusAre
  <2> QED
    BY <1>2, <2>4, <2>6, <2>8
<1>13. u.prev.size = 0
  BY <1>2 DEF Holds
<1> QED
  BY <1>2, <1>4, <1>9, <1>11, <1>12, <1>13 DEF Holds

-----------------------------------------------------------------------------
(* A rehash of a sound set.                                                              *)

(* An empty table in place of curr: a sound set of nothing.                                 *)
LEMMA Cleared ==
  ASSUME NEW s, Good(s), NEW M, Holds(s, M), NEW nb \in Nat \ {0}, NEW u,
         u = [s EXCEPT !.curr = Table(nb)]
  PROVE  Good(u) /\ Holds(u, {}) /\ u.prev = s.prev
<1>1. /\ s \in SetRec /\ s.prev \in TableRec /\ TableOK(s.prev) /\ s.next \in [Node -> Link]
      /\ s.migrate_pos \in Nat
      /\ s = [curr |-> s.curr, prev |-> s.prev, migrate_pos |-> s.migrate_pos, next |-> s.next]
  BY DEF Good, SetRec
<1>2. PICK c : c = Table(nb)
  OBVIOUS
<1>3. /\ c \in TableRec /\ TableOK(c) /\ ~ IsNull(c) /\ c.size = 0
      /\ \A p \in 0 .. c.mask : c.buckets[p] = Null
  BY <1>2, NewTable
<1>4. u = [curr |-> c, prev |-> s.prev, migrate_pos |-> s.migrate_pos, next |-> s.next]
  BY ONLY <1>1, <1>2, u = [s EXCEPT !.curr = Table(nb)]
<1>5. u \in SetRec /\ u.curr = c /\ u.prev = s.prev /\ u.migrate_pos = s.migrate_pos
  BY <1>1, <1>3, <1>4 DEF SetRec
<1>6. Good(u)
  BY <1>3, <1>5 DEF Good, Held
<1>7. DOMAIN c.buckets = 0 .. c.mask
  BY <1>3, TableFacts
<1>8. Linked(u, u.curr) = {}
  BY <1>3, <1>5, <1>7, LinkedNone
<1>9. Linked(u, u.prev) = {}
  <2>1. \A p \in DOMAIN s.prev.buckets : s.prev.buckets[p] = Null
    BY <1>1, LinkedNone DEF Holds
  <2> QED
    BY <1>1, <1>5, <2>1, LinkedNone
<1>10. ASSUME NEW p \in DOMAIN u.curr.buckets
       PROVE  ~ Loops(u, u.curr, p) /\ In(u, u.curr, p) = {}
  BY <1>3, <1>5, <1>7, <1>10, EmptyEnds
<1>11. u.curr.size = Cardinality({}) /\ u.prev.size = 0
  BY <1>3, <1>5, FS_EmptySet DEF Holds
<1> QED
  BY <1>3, <1>5, <1>6, <1>8, <1>9, <1>10, <1>11 DEF Holds

(* A node that is put in twice is its own next, and its bucket's chain has no end.            *)
LEMMA PutInTwice ==
  ASSUME NEW s, Good(s), ~ IsNull(s.curr), NEW n \in Node, NEW m \in Nat, m # 1,
         NEW u, u = LinkTimes(s, n, m)
  PROVE  \E p \in DOMAIN u.curr.buckets : Loops(u, u.curr, p)
<1>1. PICK N \in Nat : N = Cardinality(Node)
  BY Nodes
<1>2. s \in SetRec /\ s.curr \in TableRec /\ TableOK(s.curr)
  BY DEF Good, SetRec
<1>3. u \in SetRec /\ u.curr \in TableRec /\ TableOK(u.curr) /\ ~ IsNull(u.curr)
      /\ u.curr.mask = s.curr.mask
  BY <1>2, Linking DEF SetRec
<1>4. PICK q : q = Pos(s.curr, KeyOf[n])
  OBVIOUS
<1>5. q \in 0 .. s.curr.mask
  <2>1. KeyOf[n] \in Key
    BY SetAssumption
  <2> QED
    BY <1>2, <1>4, <2>1, TableFacts
<1>6. q \in DOMAIN u.curr.buckets
  BY <1>3, <1>5, TableFacts
<1>7. u.curr.buckets[q] = n /\ u.next[n] = n
  BY <1>2, <1>4, <1>5, Linking
<1>8. PICK g : g = ChainOf(u, u.curr, q)
  OBVIOUS
<1>9. g \in Chases(u, n, N)
  BY <1>1, <1>3, <1>6, <1>7, <1>8, ChainShape
<1>10. g[N] = n
  <2>1. SUFFICES ASSUME g[N] # n
        PROVE  FALSE
    OBVIOUS
  <2> DEFINE Bad == {i \in 0 .. N : g[i] # n}
  <2>2. N \in Nat /\ N \in Bad
    BY <2>1
  <2>3. PICK j \in Nat : j \in Bad /\ \A k \in Nat : k < j => k \notin Bad
    BY <2>2, LeastPos
  <2>4. /\ g[0] = n
        /\ \A i \in 1 .. N : g[i] = IF g[i - 1] = Null THEN Null ELSE u.next[g[i - 1]]
    BY <1>9 DEF Chases
  <2>5. j \in 1 .. N /\ j - 1 \in Nat /\ j - 1 < j /\ j - 1 \in 0 .. N
    BY <2>3, <2>4
  <2>6. g[j - 1] = n
    BY <2>3, <2>5
  <2>7. g[j] = n
    BY <1>7, <2>4, <2>5, <2>6, LinkFacts
  <2> QED
    BY <2>3, <2>7
<1> QED
  BY <1>1, <1>6, <1>8, <1>10, LinkFacts DEF Loops

(* A rehash keeps a sound set that has one member at most, and no other.                     *)
LEMMA RehashOfSound ==
  ASSUME IInv, Sound, Rehash
  PROVE  Sound' <=> ~ (size >= 2)
<1>1. Good(set) /\ Holds(set, members)
  BY SoundIs DEF IInv
<1>2. /\ set.curr \in TableRec /\ TableOK(set.curr) /\ set.curr.mask \in Nat
      /\ set.curr.size \in SizeT /\ set.curr.size \in Nat /\ set \in SetRec
      /\ set.prev.size = 0 /\ set.curr.size = Cardinality(members)
      /\ Linked(set, set.curr) = members
  <2>1. set.curr \in TableRec /\ TableOK(set.curr) /\ set \in SetRec
    BY <1>1 DEF Good, SetRec
  <2> QED
    BY <1>1, <2>1, TableFacts DEF Holds
<1>3. PICK a \in Nat : a = set.curr.size
  BY <1>2
<1>4. size = a
  BY <1>2, <1>3, Sums DEF size
<1> DEFINE nb == IF size > (set.curr.mask + 1) * MaxLoad
                 THEN (set.curr.mask + 1) * 2 ELSE set.curr.mask + 1
<1>5. nb \in Nat \ {0}
  BY <1>2
<1> HIDE DEF nb
<1>6. PICK s : s = [set EXCEPT !.curr = Table(nb)]
  OBVIOUS
<1>7. Good(s) /\ Holds(s, {}) /\ s.prev = set.prev
  BY <1>1, <1>5, <1>6, Cleared
<1>8. PICK v : v = TakeHead(s, set.curr, 0, a)
  OBVIOUS
<1>9. set' = [v EXCEPT !.prev.size = 0] /\ where' = where
  <2>1. /\ \E x \in {TakeHead([set EXCEPT !.curr = Table(nb)], set.prev, 0, set.prev.size)} :
             set' = [TakeHead(x, set.curr, 0, set.curr.size) EXCEPT !.prev.size = 0]
        /\ where' = where
    BY DEF Rehash, nb
  <2>2. set' = [TakeHead(TakeHead(s, set.prev, 0, 0), set.curr, 0, a) EXCEPT !.prev.size = 0]
    <3>1. set.prev.size = 0
      BY <1>2
    <3> QED
      BY ONLY <1>3, <1>6, <2>1, <3>1
  <2>3. TakeHead(s, set.prev, 0, 0) = s
    BY DEF TakeHead
  <2> QED
    BY ONLY <1>8, <2>1, <2>2, <2>3
<1>10. ASSUME v \in SetRec, v.prev.size = 0
       PROVE  set' = v
  <2>1. /\ v = [curr |-> v.curr, prev |-> v.prev, migrate_pos |-> v.migrate_pos, next |-> v.next]
        /\ v.prev = [buckets |-> v.prev.buckets, size |-> v.prev.size, mask |-> v.prev.mask]
    BY <1>10 DEF SetRec, TableRec
  <2>2. PICK t : t = [v.prev EXCEPT !.size = 0]
    OBVIOUS
  <2>3. t = v.prev
    BY ONLY <1>10, <2>1, <2>2
  <2>4. [v EXCEPT !.prev.size = 0] = [v EXCEPT !.prev = t]
    BY ONLY <2>2
  <2>5. [v EXCEPT !.prev = t] = v
    BY ONLY <2>1, <2>3
  <2> QED
    BY ONLY <1>9, <2>4, <2>5
<1>11. members' = members
  BY <1>9 DEF members
<1>12. IsFiniteSet(members)
  <2>1. members \in SUBSET Node /\ IsFiniteSet(Node)
    BY SetAssumption DEF members
  <2> QED
    BY <2>1, FS_Subset
<1>13. CASE a = 0
  <2>1. v = s
    BY <1>8, <1>13 DEF TakeHead
  <2>2. set' = s
    <3>1. v \in SetRec /\ v.prev.size = 0
      BY <1>2, <1>7, <2>1 DEF Good
    <3> QED
      BY <1>10, <2>1, <3>1
  <2>3. members = {}
    BY <1>2, <1>3, <1>12, <1>13, FS_EmptySet
  <2>4. Sound'
    BY <1>7, <1>11, <2>2, <2>3, SoundIs
  <2> QED
    BY <1>4, <1>13, <2>4
<1>14. CASE a # 0
  <2>1. PICK f : f = FirstOf(Busy(set.curr, 0))
    OBVIOUS
  <2>2. Busy(set.curr, 0) # {} /\ Busy(set.curr, 0) \subseteq Nat
    BY <1>1, <1>2, <1>3, <1>14, TableFacts DEF Good, Held
  <2>3. f \in Busy(set.curr, 0)
    BY <2>1, <2>2, LeastOf
  <2>4. PICK n \in Node : n = set.curr.buckets[f]
    BY <1>2, <2>3, TableFacts
  <2>5. n \in members
    <3>1. f \in DOMAIN set.curr.buckets
      BY <2>3 DEF Busy
    <3>2. PICK N \in Nat : N = Cardinality(Node)
      BY Nodes
    <3>3. ChainOf(set, set.curr, f)[0] = n
      BY <1>2, <2>4, <3>1, ChainShape DEF Chases
    <3>4. n \in In(set, set.curr, f)
      BY <3>2, <3>3, InFacts, LinkFacts
    <3> QED
      BY <1>2, <3>1, <3>4 DEF Linked
  <2>6. v = LinkTimes(s, n, a)
    BY <1>8, <1>14, <2>1, <2>4 DEF TakeHead
  <2>7. Good(v) /\ v.prev = s.prev
    BY <1>7, <2>6, LinkKeeps DEF Holds
  <2>8. set' = v
    <3>1. v \in SetRec /\ v.prev.size = 0
      BY <1>2, <1>7, <2>7 DEF Good
    <3> QED
      BY <1>10, <3>1
  <2>9. CASE a = 1
    <3>1. members = {n}
      <4>1. Cardinality({n}) = 1 /\ {n} \in SUBSET members
        BY <2>5, FS_Singleton
      <4> QED
        BY <1>2, <1>3, <1>12, <2>9, <4>1, FS_Subset
    <3>2. Holds(v, {} \cup {n})
      BY <1>7, <2>6, <2>9, PutIn
    <3>3. Sound'
      BY <1>11, <2>8, <3>1, <3>2, SoundIs
    <3> QED
      BY <1>4, <2>9, <3>3
  <2>10. CASE a # 1
    <3>1. ~ IsNull(s.curr)
      BY <1>7 DEF Holds
    <3>2. \E p \in DOMAIN v.curr.buckets : Loops(v, v.curr, p)
      BY <1>7, <2>6, <2>10, <3>1, PutInTwice
    <3>3. ~ Holds(v, members)
      BY <3>2 DEF Holds
    <3>4. ~ Sound'
      BY <1>11, <2>8, <3>3, SoundIs
    <3> QED
      BY <1>4, <1>14, <2>10, <3>4
  <2> QED
    BY <2>9, <2>10
<1> QED
  BY <1>13, <1>14

-----------------------------------------------------------------------------
(* The calls that break a sound set, and those that do not.                                 *)

(* After a growth, what was curr is prev, and its buckets still lead to nodes.               *)
LEMMA GrownUnsound ==
  ASSUME NEW s, Good(s), ~ IsNull(s.curr), NEW n \in Node, MustGrow(LinkTimes(s, n, 1)), NEW M
  PROVE  ~ Holds(insert(s, n), M)
<1>1. PICK u : u = LinkTimes(s, n, 1)
  OBVIOUS
<1>2. Good(u) /\ ~ IsNull(u.curr) /\ Busy(u.curr, 0) # {}
  BY <1>1, LinkKeeps
<1>3. PICK g : g = Grown(u)
  OBVIOUS
<1>4. Good(g) /\ g.prev = u.curr
  BY <1>1, <1>2, <1>3, Growth
<1>5. PICK v : v = insert(s, n)
  OBVIOUS
<1>6. v = progress_rehash(g)
  BY <1>1, <1>3, <1>5 DEF insert
<1>7. Good(v) /\ v.prev.buckets = u.curr.buckets
  BY <1>4, <1>6, Progress
<1>8. v \in SetRec /\ v.prev \in TableRec /\ TableOK(v.prev)
  BY <1>7 DEF Good, SetRec
<1>9. \E p \in DOMAIN v.prev.buckets : v.prev.buckets[p] # Null
  BY <1>2, <1>7 DEF Busy
<1>10. Linked(v, v.prev) # {}
  BY <1>8, <1>9, LinkedNone
<1> QED
  BY <1>5, <1>10 DEF Holds

(* A put without growth.                                                                *)
LEMMA InsertIdle ==
  ASSUME NEW s, Good(s), ~ IsNull(s.curr), s.prev.size = 0, NEW n \in Node,
         ~ MustGrow(LinkTimes(s, n, 1))
  PROVE  insert(s, n) = LinkTimes(s, n, 1)
<1>1. PICK u : u = LinkTimes(s, n, 1)
  OBVIOUS
<1>2. Good(u) /\ u.prev = s.prev
  BY <1>1, LinkKeeps
<1>3. Grown(u) = u
  BY <1>1 DEF Grown
<1>4. progress_rehash(u) = u
  BY <1>2, Progress
<1> QED
  BY <1>1, <1>3, <1>4 DEF insert

(* The chains of a set depend on its links and its buckets, not on its sizes.                *)
LEMMA SameChains ==
  ASSUME NEW s, NEW u, NEW t, NEW w, u.next = s.next, w.buckets = t.buckets
  PROVE  Linked(u, w) = Linked(s, t)
<1>1. ASSUME NEW p
      PROVE  ChainOf(u, w, p) = ChainOf(s, t, p)
  BY DEF ChainOf
<1>2. ASSUME NEW p
      PROVE  In(u, w, p) = In(s, t, p)
  BY <1>1 DEF In
<1> QED
  BY <1>2 DEF Linked

(* A node that is found is counted out and handed to the caller, and stays linked.           *)
LEMMA RemovedUnsound ==
  ASSUME IInv, Sound, NEW k \in Key, Removes(k)
  PROVE  ~ Sound' /\ \E n \in Node : where[n] = "in" /\ where'[n] = "out"
<1>1. /\ Good(set) /\ set \in SetRec /\ set.curr \in TableRec /\ TableOK(set.curr)
      /\ set.prev \in TableRec /\ TableOK(set.prev) /\ where \in [Node -> Wheres]
      /\ set = [curr |-> set.curr, prev |-> set.prev, migrate_pos |-> set.migrate_pos,
                next |-> set.next]
  BY DEF IInv, Good, SetRec, Wheres
<1>2. Holds(set, members)
  BY SoundIs
<1>3. progress_rehash(set) = set
  BY <1>1, <1>2, Progress DEF Holds
<1>4. PICK found : found = find(set, k)
  OBVIOUS
<1>5. /\ found \in Node
      /\ set' = IF table_find(set, set.curr, k) = found
                THEN [set EXCEPT !.curr.size = Minus(@, 1)]
                ELSE [set EXCEPT !.prev.size = Minus(@, 1)]
      /\ where' = [where EXCEPT ![found] = "out"]
  BY <1>3, <1>4 DEF Removes, Del
<1>6. table_find(set, set.prev, k) = Null
  BY <1>1, <1>2, NothingThere DEF Holds
<1>7. table_find(set, set.curr, k) = found /\ found \in members
  <2>1. table_find(set, set.curr, k) = found
    BY <1>4, <1>5, <1>6, LinkFacts DEF find
  <2>2. IF \E n \in Linked(set, set.curr) : KeyOf[n] = k
        THEN table_find(set, set.curr, k) \in {n \in Linked(set, set.curr) : KeyOf[n] = k}
        ELSE table_find(set, set.curr, k) = Null
    BY <1>1, <1>2, Placed DEF Holds
  <2> QED
    BY <1>2, <1>5, <2>1, <2>2, LinkFacts DEF Holds
<1>8. PICK t : t = [set.curr EXCEPT !.size = Minus(@, 1)]
  OBVIOUS
<1>9. t.buckets = set.curr.buckets
  BY <1>1, <1>8, OneLess
<1>10. PICK v : v = [set EXCEPT !.curr.size = Minus(@, 1)]
  OBVIOUS
<1>11. v.curr = t /\ v.next = set.next
  BY ONLY <1>1, <1>8, <1>10
<1>12. set' = v
  BY <1>5, <1>7, <1>10
<1>13. Linked(v, v.curr) = members
  BY <1>2, <1>9, <1>11, SameChains DEF Holds
<1>14. found \notin members' /\ where[found] = "in" /\ where'[found] = "out"
  BY <1>1, <1>5, <1>7 DEF members
<1>15. ~ Holds(set', members')
  BY <1>7, <1>12, <1>13, <1>14 DEF Holds
<1> QED
  BY <1>5, <1>14, <1>15, SoundIs

(* A call that adds a node keeps a sound set sound unless the set has to grow.                *)
LEMMA AddToSound ==
  ASSUME IInv, Sound, NEW n \in Node, where[n] = "fresh", Adds(set, n)
  PROVE  /\ Sound' <=> ~ MustGrow(LinkTimes(set, n, 1))
         /\ \A x \in Node : (where[x] # "in" /\ where'[x] = "in") <=> x = n
<1>1. Good(set) /\ where \in [Node -> Wheres]
  BY DEF IInv, Wheres
<1>2. Holds(set, members) /\ members \subseteq Node /\ n \notin members
  BY SoundIs DEF members
<1>3. ~ IsNull(set.curr) /\ set.prev.size = 0
  BY <1>2 DEF Holds
<1>4. set' = insert(set, n) /\ where' = [where EXCEPT ![n] = "in"]
  BY <1>3 DEF Adds
<1>5. members' = members \cup {n}
  BY <1>1, <1>4 DEF members
<1>6. ASSUME MustGrow(LinkTimes(set, n, 1))
      PROVE  ~ Sound'
  BY <1>1, <1>3, <1>4, <1>6, GrownUnsound, SoundIs
<1>7. ASSUME ~ MustGrow(LinkTimes(set, n, 1))
      PROVE  Sound'
  <2>1. set' = LinkTimes(set, n, 1)
    BY <1>1, <1>3, <1>4, <1>7, InsertIdle
  <2>2. Holds(set', members \cup {n})
    BY <1>1, <1>2, <2>1, PutIn
  <2> QED
    BY <1>5, <2>2, SoundIs
<1>8. \A x \in Node : (where[x] # "in" /\ where'[x] = "in") <=> x = n
  BY <1>1, <1>4
<1> QED
  BY <1>6, <1>7, <1>8

(* A call that leaves a sound set as it was is none of the risky ones.                       *)
LEMMA NothingRisked ==
  ASSUME IInv, Sound, set' = set, where' = where
  PROVE  Sound' /\ ~ Risky
<1>1. Sound'
  <2>1. members' = members
    BY DEF members
  <2> QED
    BY <2>1, SoundIs
<1>2. ASSUME NEW k \in Key, Removes(k)
      PROVE  FALSE
  BY <1>1, <1>2, RemovedUnsound
<1>3. ASSUME Rehash, size >= 2
      PROVE  FALSE
  BY <1>1, <1>3, RehashOfSound
<1>4. ASSUME Detach
      PROVE  FALSE
  <2>1. IsNull(set'.curr)
    BY <1>4, Detaching DEF IInv
  <2> QED
    BY <1>1, <2>1 DEF Sound
<1> QED
  BY <1>1, <1>2, <1>3, <1>4 DEF Risky

(* The set is broken by the call that makes it grow, by a deletion that finds its node, by    *)
(* a rehash of two members or more and by detach, each time, and by no other call.            *)
THEOREM BreaksOnlyAtHolds == Spec => BreaksOnlyAt
<1> DEFINE Breaks == Sound /\ process' # "ended" => (Sound' <=> ~ Risky)
<1>1. IInv /\ [Next]_vars => [Breaks]_vars
  <2> SUFFICES ASSUME IInv, Next, Sound, process' # "ended"
      PROVE  Sound' <=> ~ Risky
    OBVIOUS
  <2>1. Good(set) /\ where \in [Node -> Wheres] /\ set.prev.size = 0 /\ ~ IsNull(set.curr)
    BY DEF IInv, Wheres, Sound
  <2>2. progress_rehash(set) = set
    BY <2>1, Progress
  <2>3. ASSUME Risky, ~ \E n \in Node : where[n] # "in" /\ where'[n] = "in"
        PROVE  ~ Sound'
    <3>1. (\E k \in Key : Removes(k)) \/ (Rehash /\ size >= 2) \/ Detach
      BY <2>3 DEF Risky
    <3>2. ASSUME NEW k \in Key, Removes(k)
          PROVE  ~ Sound'
      BY <3>2, RemovedUnsound
    <3>3. CASE Rehash /\ size >= 2
      BY <3>3, RehashOfSound
    <3>4. CASE Detach
      <4>1. IsNull(set'.curr)
        BY <2>1, <3>4, Detaching
      <4> QED
        BY <4>1 DEF Sound
    <3> QED
      BY <3>1, <3>2, <3>3, <3>4
  <2>4. ASSUME NEW n \in Node, where[n] = "fresh", Adds(set, n)
        PROVE  Sound' <=> ~ Risky
    <3>1. /\ Sound' <=> ~ MustGrow(LinkTimes(set, n, 1))
          /\ \A x \in Node : (where[x] # "in" /\ where'[x] = "in") <=> x = n
      BY <2>4, AddToSound
    <3>2. ASSUME NEW k \in Key, Removes(k)
          PROVE  ~ Sound'
      BY <3>2, RemovedUnsound
    <3>3. Rehash => where' = where
      BY DEF Rehash
    <3>4. Detach => IsNull(set'.curr)
      BY <2>1, Detaching
    <3>5. Detach => ~ Sound'
      BY <3>4 DEF Sound
    <3>6. ~ Rehash
      BY <3>1, <3>3
    <3> QED
      BY <3>1, <3>2, <3>5, <3>6 DEF Risky
  <2>5. ASSUME NEW k \in Key, Find(k)
        PROVE  Sound' <=> ~ Risky
    <3>1. set' = set /\ where' = where
      BY <2>2, <2>5 DEF Find
    <3> QED
      BY <3>1, NothingRisked
  <2>6. ASSUME NEW k \in Key, Emplace(k)
        PROVE  Sound' <=> ~ Risky
    <3>1. CASE find(set, k) # Null
      <4>1. set' = set /\ where' = where
        BY <2>2, <2>6, <3>1 DEF Emplace
      <4> QED
        BY <4>1, NothingRisked
    <3>2. CASE find(set, k) = Null
      <4>1. PICK n \in Node : where[n] = "fresh" /\ Adds(set, n)
        BY <2>2, <2>6, <3>2 DEF Emplace
      <4> QED
        BY <2>4, <4>1
    <3> QED
      BY <3>1, <3>2
  <2>7. ASSUME NEW n \in Node, Insert(n)
        PROVE  Sound' <=> ~ Risky
    BY <2>4, <2>7 DEF Insert
  <2>8. ASSUME NEW k \in Key, Del(k)
        PROVE  Sound' <=> ~ Risky
    <3>1. CASE find(set, k) \in Node
      <4>1. Removes(k)
        BY <2>2, <2>8, <3>1 DEF Removes
      <4>2. Risky
        BY <4>1 DEF Risky
      <4> QED
        BY <4>1, <4>2, RemovedUnsound
    <3>2. CASE find(set, k) \notin Node
      <4>1. set' = set /\ where' = where
        BY <2>2, <2>8, <3>2 DEF Del
      <4> QED
        BY <4>1, NothingRisked
    <3> QED
      BY <3>1, <3>2
  <2>9. CASE Rehash
    <3>1. Sound' <=> ~ (size >= 2)
      BY <2>9, RehashOfSound
    <3>2. where' = where
      BY <2>9 DEF Rehash
    <3>3. size >= 2 => Risky
      BY <2>9 DEF Risky
    <3>4. Risky => ~ Sound'
      BY <2>3, <3>2
    <3> QED
      BY <3>1, <3>3, <3>4
  <2>10. CASE Detach
    <3>1. Risky
      BY <2>10 DEF Risky
    <3>2. IsNull(set'.curr)
      BY <2>1, <2>10, Detaching
    <3> QED
      BY <3>1, <3>2 DEF Sound
  <2>11. CASE Format
    <3>1. set' = set /\ where' = where
      BY <2>11 DEF Format
    <3> QED
      BY <3>1, NothingRisked
  <2>12. CASE Destroy
    <3>1. process' = "ended"
      BY <2>12, SoundSweep DEF Destroy
    <3> QED
      BY <3>1
  <2> QED
    BY <2>5, <2>6, <2>7, <2>8, <2>9, <2>10, <2>11, <2>12 DEF Next
<1> HIDE DEF Breaks
<1>2. [][Breaks]_vars => BreaksOnlyAt
  BY DEF BreaksOnlyAt, Breaks
<1> QED
  BY <1>1, <1>2, Invariance, PTL DEF Spec
=============================================================================
