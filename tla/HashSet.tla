-------------------------------- MODULE HashSet --------------------------------
(***************************************************************************)
(* The hash set of src/src/kvt_hash_t.h and kvt_set.cpp (redbrouk::Set): nodes that   *)
(* carry their key, two tables, and a migration of at most rehash_work moves a call.   *)
(* No command uses it; set_test.cc does.                                        *)
(*                                                                          *)
(* Table::del takes a node out through a reference to the link that leads to it, but    *)
(* all its callers except destroy_table give it a local copy of that link: the size is  *)
(* counted down and the node stays where it was.  This module says what follows.      *)
(***************************************************************************)
EXTENDS Naturals, FiniteSets

CONSTANTS Node,        (* HashSetNodes that are made, by emplace or by a caller      *)
          Key, KeyOf,  (* HashSetNode::key                                         *)
          Hash,        (* genHash of a key                                         *)
          Null,        (* the null pointer                                         *)
          Endless,     (* what a loop that does not end returns                     *)
          InitBuckets, (* 8                                                       *)
          MaxLoad,     (* max_load: 1                                              *)
          RehashWork,  (* rehash_work: 128                                         *)
          SizeMod      (* 2^64: sizes are size_t                                    *)

ASSUME SetAssumption ==
  /\ IsFiniteSet(Node) /\ KeyOf \in [Node -> Key] /\ Hash \in [Key -> Nat]
  /\ Null \notin Node /\ Endless \notin Node \cup {Null}
  /\ {InitBuckets, MaxLoad, RehashWork, SizeMod} \subseteq Nat \ {0}
  /\ Cardinality(Node) < SizeMod  (* each has an address, and a size_t counts as far   *)

VARIABLES set,     (* curr, prev, migrate_pos, and HashSetNode::next of every node     *)
          where,   (* "fresh" not made yet, "in" the set, "out" the caller's, "freed" *)
          process  (* "up", "hung" in a loop, "fault", or "ended" with the set       *)

vars == <<set, where, process>>

-----------------------------------------------------------------------------
(* Tables.  mask is the number of buckets less one.                               *)

(* Wrong: the mask is the number of buckets.                                         *)
Table_MaskIsCount(nb) == [buckets |-> [p \in 0 .. (nb - 1) |-> Null], size |-> 0, mask |-> nb]

Table(nb) == [buckets |-> [p \in 0 .. (nb - 1) |-> Null], size |-> 0, mask |-> nb - 1]

(* What is left of a table whose buckets were moved or released.                   *)
NoBuckets == <<>>
IsNull(t) == t.buckets = NoBuckets

Pos(t, k) == Hash[k] % (t.mask + 1)

Plus(size, n) == (size + n) % SizeMod
Minus(size, n) == (size + SizeMod - n) % SizeMod

size == Plus(set.curr.size, set.prev.size)

(* n is inserted in curr m times in a row: the second time it is the head already, and  *)
(* becomes its own next.                                                        *)
Inserted(t, p, n, m) == [t EXCEPT !.buckets[p] = n, !.size = Plus(@, m)]

LinkTimes(s, n, m) ==
  LET p == Pos(s.curr, KeyOf[n])
  IN  [s EXCEPT !.next[n] = IF m = 1 THEN s.curr.buckets[p] ELSE n,
                !.curr = Inserted(@, p, n, m)]

(* The buckets from pos on that a migration does not skip.                          *)
Busy(t, pos) == {p \in DOMAIN t.buckets : pos <= p /\ t.buckets[p] # Null}
FirstOf(positions) == CHOOSE p \in positions : \A q \in positions : p <= q

(* m turns of a loop that takes nodes from t: `node' is a copy of the first bucket's   *)
(* head, the bucket keeps it, and every turn takes that one.                         *)
TakeHead(s, t, pos, m) ==
  IF m = 0 THEN s ELSE LinkTimes(s, t.buckets[FirstOf(Busy(t, pos))], m)

(* Wrong, the first: a node is not counted out of prev; the second: the bucket it was     *)
(* taken from is done with.                                                      *)
progress_rehash_KeepSize(s) ==
  LET m == IF s.prev.size < RehashWork THEN s.prev.size ELSE RehashWork
  IN  IF m = 0 THEN s
      ELSE [TakeHead(s, s.prev, s.migrate_pos, m)
              EXCEPT !.migrate_pos = FirstOf(Busy(s.prev, s.migrate_pos))]
progress_rehash_NextBucket(s) ==
  LET m == IF s.prev.size < RehashWork THEN s.prev.size ELSE RehashWork
  IN  IF m = 0 THEN s
      ELSE [TakeHead(s, s.prev, s.migrate_pos, m)
              EXCEPT !.prev.size = Minus(@, m),
                     !.migrate_pos = FirstOf(Busy(s.prev, s.migrate_pos)) + 1]

(* progress_rehash.  Without a bucket to take from it would read past the last.        *)
progress_rehash(s) ==
  LET m == IF s.prev.size < RehashWork THEN s.prev.size ELSE RehashWork
  IN  IF m = 0 THEN s
      ELSE IF Busy(s.prev, s.migrate_pos) = {} THEN [s EXCEPT !.migrate_pos = s.prev.mask + 1]
      ELSE [TakeHead(s, s.prev, s.migrate_pos, m)
              EXCEPT !.prev.size = Minus(@, m),
                     !.migrate_pos = FirstOf(Busy(s.prev, s.migrate_pos))]

Outside(s) == s.prev.size # 0 /\ s.migrate_pos \notin DOMAIN s.prev.buckets

(* The buckets of the last migration go with prev, whatever they still lead to.         *)
migrate(s) ==
  [s EXCEPT !.prev = s.curr, !.curr = Table((s.curr.mask + 1) * 2), !.migrate_pos = 0]

MustGrow(s) == s.prev.size = 0 /\ s.curr.size >= (s.curr.mask + 1) * MaxLoad

(* Wrong: nbuckets, which is the mask, is taken for the number of buckets.              *)
Grown_AtMask(s) ==
  IF s.prev.size = 0 /\ s.curr.size >= s.curr.mask * MaxLoad THEN migrate(s) ELSE s

Grown(s) == IF MustGrow(s) THEN migrate(s) ELSE s

(* HashSet::insert.                                                           *)
insert(s, n) == progress_rehash(Grown(LinkTimes(s, n, 1)))

-----------------------------------------------------------------------------
(* The i-th node of bucket p, from 0.  No chain without a cycle is longer than Node.   *)
ChainOf(s, t, p) ==
  LET at[i \in 0 .. Cardinality(Node)] ==
        IF i = 0 THEN t.buckets[p] ELSE IF at[i - 1] = Null THEN Null ELSE s.next[at[i - 1]]
  IN  at

Loops(s, t, p) == ChainOf(s, t, p)[Cardinality(Node)] # Null

In(s, t, p) == {ChainOf(s, t, p)[i] : i \in 0 .. Cardinality(Node)} \ {Null}

Linked(s, t) == UNION {In(s, t, p) : p \in DOMAIN t.buckets}

(* Wrong: only the head of the bucket is looked at.                                 *)
table_find_Head(s, t, k) ==
  IF IsNull(t) THEN Null
  ELSE LET head == t.buckets[Pos(t, k)]
       IN  IF head # Null /\ KeyOf[head] = k THEN head ELSE Null

table_find(s, t, k) ==
  IF IsNull(t) THEN Null
  ELSE LET chain == ChainOf(s, t, Pos(t, k))
           hits == {i \in DOMAIN chain : chain[i] # Null /\ KeyOf[chain[i]] = k}
       IN  IF hits # {} THEN chain[FirstOf(hits)]
           ELSE IF Loops(s, t, Pos(t, k)) THEN Endless ELSE Null

find(s, k) ==
  LET inCurr == table_find(s, s.curr, k)
  IN  IF inCurr # Null THEN inCurr ELSE table_find(s, s.prev, k)

-----------------------------------------------------------------------------
Lives(s, found) == process' = IF Outside(s) THEN "fault"
                              ELSE IF found = Endless THEN "hung" ELSE "up"

Find(k) ==
  \E s \in {progress_rehash(set)} : \E found \in {find(s, k)} :
    /\ set' = s /\ Lives(s, found)
    /\ UNCHANGED where

(* A call of insert: curr has no buckets only after detach.                          *)
Adds(s, n) ==
  IF IsNull(s.curr) THEN process' = "fault" /\ UNCHANGED <<set, where>>
  ELSE \E to \in {insert(s, n)} :
         set' = to /\ Lives(to, Null) /\ where' = [where EXCEPT ![n] = "in"]

(* A caller inserts a node it made; one that del gave back is not inserted again.        *)
Insert(n) ==
  /\ where[n] = "fresh"
  /\ Adds(set, n)

Emplace(k) ==
  \E s \in {progress_rehash(set)} : \E found \in {find(s, k)} :
    IF found # Null
    THEN set' = s /\ Lives(s, found) /\ UNCHANGED where
    ELSE \E n \in Node : KeyOf[n] = k /\ where[n] = "fresh" /\ Adds(s, n)

(* The table the node is found in counts it out, and keeps it.                         *)
Del(k) ==
  \E s \in {progress_rehash(set)} : \E found \in {find(s, k)} :
    /\ Lives(s, found)
    /\ IF found \notin Node THEN set' = s /\ UNCHANGED where
       ELSE /\ set' = IF table_find(s, s.curr, k) = found
                      THEN [s EXCEPT !.curr.size = Minus(@, 1)]
                      ELSE [s EXCEPT !.prev.size = Minus(@, 1)]
            /\ where' = [where EXCEPT ![found] = "out"]

(* Both loops of rehash take the head of their first busy bucket as often as the size     *)
(* says.                                                                     *)
Rehash ==
  LET cap == IF size > (set.curr.mask + 1) * MaxLoad
             THEN (set.curr.mask + 1) * 2 ELSE set.curr.mask + 1
      start == [set EXCEPT !.curr = Table(cap)]
  IN  \E s \in {TakeHead(start, set.prev, 0, set.prev.size)} :
        /\ set' = [TakeHead(s, set.curr, 0, set.curr.size) EXCEPT !.prev.size = 0]
        /\ UNCHANGED <<where, process>>

(* The nodes are left to the caller, and the set is left without buckets.               *)
Detach ==
  /\ set' = [set EXCEPT !.curr.buckets = NoBuckets, !.curr.size = 0,
                        !.prev.buckets = NoBuckets, !.prev.size = 0, !.migrate_pos = 0]
  /\ where' = [n \in Node |-> IF where[n] = "in" THEN "out" ELSE where[n]]
  /\ UNCHANGED process

(* std::format of a set prints every chain of a table that is not empty.               *)
Format ==
  LET endless(t) == t.size # 0 /\ \E p \in DOMAIN t.buckets : Loops(set, t, p)
  IN  /\ process' = IF endless(set.curr) \/ endless(set.prev) THEN "hung" ELSE "up"
      /\ UNCHANGED <<set, where>>

(* Wrong: the last bucket is left out.                                               *)
Swept_OneShort(t) == {p \in DOMAIN t.buckets : t.size # 0 /\ p < t.mask}

(* The buckets destroy_table frees: from the first on, until the size is counted down.  *)
Swept(t) ==
  LET left[p \in 0 .. (t.mask + 1)] ==
        IF p = 0 THEN t.size ELSE Minus(left[p - 1], Cardinality(In(set, t, p - 1)))
  IN  {p \in DOMAIN t.buckets : \A q \in 0 .. p : left[q] # 0}

FreedBy(t) == UNION {In(set, t, p) : p \in Swept(t)}

(* Here del is given the bucket itself.  A node met twice, in a cycle or in both           *)
(* tables, is read after it was freed.                                            *)
Destroy ==
  /\ process' = IF \/ \E t \in {set.curr, set.prev} : \E p \in Swept(t) : Loops(set, t, p)
                   \/ FreedBy(set.curr) \cap FreedBy(set.prev) # {}
                THEN "fault" ELSE "ended"
  /\ where' = [n \in Node |-> IF n \in FreedBy(set.curr) \cup FreedBy(set.prev)
                              THEN "freed" ELSE where[n]]
  /\ UNCHANGED set

Init ==
  /\ set = [curr |-> Table(InitBuckets),
            prev |-> [buckets |-> NoBuckets, size |-> 0, mask |-> 0],
            migrate_pos |-> 0,
            next |-> [n \in Node |-> Null]]
  /\ where = [n \in Node |-> "fresh"]
  /\ process = "up"

Next ==
  /\ process = "up"
  /\ \/ \E k \in Key : Find(k) \/ Emplace(k) \/ Del(k)
     \/ \E n \in Node : Insert(n)
     \/ Rehash \/ Detach \/ Format \/ Destroy

Spec == Init /\ [][Next]_vars

-----------------------------------------------------------------------------
SizeT == 0 .. (SizeMod - 1)

TableOK(t) ==
  /\ t.size \in SizeT /\ t.mask \in Nat
  /\ IsNull(t) \/ t.buckets \in [0 .. t.mask -> Node \cup {Null}]

TypeOK ==
  /\ TableOK(set.curr) /\ TableOK(set.prev)
  /\ set.migrate_pos \in 0 .. (set.prev.mask + 1)
  /\ set.next \in [Node -> Node \cup {Null}]
  /\ where \in [Node -> {"fresh", "in", "out", "freed"}]
  /\ process \in {"up", "hung", "fault", "ended"}

members == {n \in Node : where[n] = "in"}

(* All that a set should be: its members, and nothing else, in the buckets of their       *)
(* hashes, each once, counted right, with no migration under way.                    *)
Sound ==
  /\ ~ IsNull(set.curr) /\ set.prev.size = 0 /\ Linked(set, set.prev) = {}
  /\ Linked(set, set.curr) = members
  /\ set.curr.size = Cardinality(members)
  /\ \A p \in DOMAIN set.curr.buckets :
       /\ ~ Loops(set, set.curr, p)
       /\ \A n \in In(set, set.curr, p) : p = Pos(set.curr, KeyOf[n])

(* A deletion that finds a node.                                                 *)
Removes(k) == find(progress_rehash(set), k) \in Node /\ Del(k)

(* The calls that break a sound set: the one that makes it grow, a deletion that finds     *)
(* what it looks for, a rehash of two members or more, and detach.                     *)
Risky ==
  \/ \E n \in Node : MustGrow(LinkTimes(set, n, 1)) /\ where[n] # "in" /\ where'[n] = "in"
  \/ \E k \in Key : Removes(k)
  \/ Rehash /\ size >= 2
  \/ Detach

(* They do, each time, and no other call does.                                     *)
BreaksOnlyAt == [][Sound /\ process' # "ended" => (Sound' <=> ~ Risky)]_vars

(* A sound set finds a member of every key that has one, and no other.                  *)
AnswersAreRight ==
  Sound => \A k \in Key :
    IF \E n \in members : KeyOf[n] = k
    THEN find(set, k) \in {n \in members : KeyOf[n] = k} ELSE find(set, k) = Null

(* Whatever has become of the tables, size() (kvt_hash_t.h:56) counts the calls: moves       *)
(* keep the sum of both sizes.                                                   *)
SizeCountsCalls ==
  [][IF \E n \in Node : where[n] # "in" /\ where'[n] = "in" THEN size' = Plus(size, 1)
     ELSE size' # size =>
            Detach \/ (size' = Minus(size, 1) /\ \E k \in Key : Removes(k))]_vars

(* No loop over the buckets of prev runs past the last one, however wrong its size is:        *)
(* the node that is taken stays in its bucket.                                       *)
MigrationStaysInside ==
  set.prev.size # 0 => Busy(set.prev, set.migrate_pos) # {}

(* The destruction of a sound set frees each member once.                              *)
EndsClean ==
  [][Sound /\ Destroy =>
       process' = "ended" /\ {n \in Node : where'[n] = "freed"} = members]_vars
=============================================================================
