-------------------------------- MODULE IHSet --------------------------------
(***************************************************************************)
(* The intrusive hash set of src/src/hash.{h,cpp}: chained buckets, and a    *)
(* table that doubles by moving its nodes, a bounded number per call, from   *)
(* the table `prev' to the table `curr'.  A chain is the sequence of nodes    *)
(* reached from the bucket's head through iHNode::next.  Each call is split   *)
(* at every turn of the loop of ihs_prehash: that loop is where the code      *)
(* crashes, and where a node is in neither its old place nor its new one.     *)
(***************************************************************************)
EXTENDS Naturals, FiniteSets, SequencesExt

CONSTANTS Node,        (* the intrusive nodes callers may link                *)
          Key,         (* what a caller's eq() compares                       *)
          KeyOf,       (* the key a node carries                              *)
          Hash,        (* iHNode::hval, genHash of the key                    *)
          NoNode,      (* the null pointer                                    *)
          InitBuckets, (* 8: buckets of a first table                         *)
          Load,        (* ihs_load: nodes per bucket that start a migration   *)
          PrehashWork  (* prehash_work: nodes moved by one call               *)

ASSUME IndexAssumption ==
  /\ KeyOf \in [Node -> Key]
  /\ Hash \in [Key -> Nat]
  /\ NoNode \notin Node
  /\ InitBuckets \in Nat \ {0}
  /\ Load \in Nat \ {0}
  /\ PrehashWork \in Nat \ {0}

VARIABLES curr,        (* hs->curr                                            *)
          prev,        (* hs->prev: NullTable unless a migration is going on  *)
          migrate_pos, (* hs->migrate_pos                                     *)
          pc,          (* "idle", "prehash" in its loop, "fault": SIGSEGV     *)
          request,     (* the call in progress, or the last one               *)
          work_done,   (* the local of ihs_prehash                            *)
          ret          (* what the last call returned                         *)

vars == <<curr, prev, migrate_pos, pc, request, work_done, ret>>

-----------------------------------------------------------------------------
(* Tables: nb buckets (the code keeps nb - 1 as the mask), null iff nb = 0.  *)

mk_ihtable(nb) == [nb |-> nb, buckets |-> [p \in 0 .. (nb - 1) |-> <<>>], size |-> 0]

NullTable == mk_ihtable(0)

IsNull(t) == t.nb = 0

Pos(t, k) == Hash[k] % t.nb

WithChain(t, p, chain, size) ==
  [nb |-> t.nb, buckets |-> [t.buckets EXCEPT ![p] = chain], size |-> size]

iht_insert(t, n) ==
  LET p == Pos(t, KeyOf[n])
  IN  WithChain(t, p, Cons(n, t.buckets[p]), t.size + 1)

(* The link iht_get returns: the i-th of bucket p, the first with the key.   *)
iht_get(t, k, p, i) ==
  /\ ~ IsNull(t)
  /\ p = Pos(t, k)
  /\ KeyOf[t.buckets[p][i]] = k
  /\ \A j \in DOMAIN t.buckets[p] : KeyOf[t.buckets[p][j]] = k => i <= j

(* iht_get returns nullptr.                                                  *)
NoMatch(t, k) ==
  ~ IsNull(t) =>
    \A i \in DOMAIN t.buckets[Pos(t, k)] : KeyOf[t.buckets[Pos(t, k)][i]] # k

(* Wrong: the size is not counted down.                                         *)
iht_del_KeepSize(t, p, i) == WithChain(t, p, RemoveAt(t.buckets[p], i), t.size)

iht_del(t, p, i) == WithChain(t, p, RemoveAt(t.buckets[p], i), t.size - 1)

Linked(t) ==
  UNION {{t.buckets[p][i] : i \in DOMAIN t.buckets[p]} : p \in DOMAIN t.buckets}

entries == Linked(curr) \cup Linked(prev)

-----------------------------------------------------------------------------
(* A zeroed set (iHMap's member) or one made by mk_ihset (a sorted set's).   *)
Init ==
  /\ curr \in {NullTable, mk_ihtable(InitBuckets)}
  /\ prev = NullTable
  /\ migrate_pos = 0
  /\ pc = "idle"
  /\ request = [op |-> "none"]
  /\ work_done = 0
  /\ ret = NoNode

(* Every call but iht_get enters the loop of ihs_prehash with a fresh count.  *)
BeginPrehash(r) ==
  /\ pc' = "prehash"
  /\ request' = r
  /\ work_done' = 0
  /\ UNCHANGED ret

(* Wrong: one node late.                                                        *)
MustGrow_Late(t) == IsNull(prev) /\ t.size > t.nb * Load

(* nbuckets is one less than the number of buckets, hence +1 in the code;     *)
(* `(nbuckets + 1) * 2' buckets for the next table, whatever the load.        *)
MustGrow(t) == IsNull(prev) /\ t.size >= t.nb * Load

(* Wrong: the new table is no larger.                                           *)
tmigrate_SameSize(t) ==
  /\ prev' = t
  /\ curr' = mk_ihtable(t.nb)
  /\ migrate_pos' = 0

tmigrate(t) ==
  /\ prev' = t
  /\ curr' = mk_ihtable(2 * t.nb)
  /\ migrate_pos' = 0

(* Wrong: while a migration goes on, new nodes are linked in the old table.      *)
CallInsert_InPrev(n) ==
  /\ pc = "idle"
  /\ n \notin entries
  /\ BeginPrehash([op |-> "insert", node |-> n])
  /\ LET t == iht_insert(IF IsNull(curr) THEN mk_ihtable(InitBuckets) ELSE curr, n)
     IN  IF ~ IsNull(prev)
         THEN prev' = iht_insert(prev, n) /\ UNCHANGED <<curr, migrate_pos>>
         ELSE IF MustGrow(t)
         THEN tmigrate(t)
         ELSE curr' = t /\ UNCHANGED <<prev, migrate_pos>>

(* ihs_insert, up to its call of ihs_prehash.  The caller's part: a node is   *)
(* linked at most once.                                                      *)
CallInsert(n) ==
  /\ pc = "idle"
  /\ n \notin entries
  /\ BeginPrehash([op |-> "insert", node |-> n])
  /\ LET t == iht_insert(IF IsNull(curr) THEN mk_ihtable(InitBuckets) ELSE curr, n)
     IN  IF MustGrow(t)
         THEN tmigrate(t)
         ELSE curr' = t /\ UNCHANGED <<prev, migrate_pos>>

(* ihs_find and ihs_del start with ihs_prehash.                               *)
CallLookup(op, k) ==
  /\ pc = "idle"
  /\ BeginPrehash([op |-> op, key |-> k])
  /\ UNCHANGED <<curr, prev, migrate_pos>>

(* Wrong: the work of a call has no bound.                                      *)
LoopGuard_Unbounded == pc = "prehash" /\ prev.size > 0

LoopGuard == pc = "prehash" /\ work_done < PrehashWork /\ prev.size > 0

(* Wrong: the node goes to the bucket it came from.                             *)
PrehashMove_SameBucket ==
  /\ LoopGuard
  /\ prev.buckets[migrate_pos] # <<>>
  /\ prev' = iht_del(prev, migrate_pos, 1)
  /\ curr' = WithChain(curr, migrate_pos,
                       Cons(prev.buckets[migrate_pos][1], curr.buckets[migrate_pos]),
                       curr.size + 1)
  /\ work_done' = work_done + 1
  /\ UNCHANGED <<migrate_pos, pc, request, ret>>

(* One turn of the loop.  bucket_head is the address of a bucket, so the test *)
(* that should skip an empty bucket never succeeds and migrate_pos stays.     *)
PrehashMove ==
  /\ LoopGuard
  /\ prev.buckets[migrate_pos] # <<>>
  /\ prev' = iht_del(prev, migrate_pos, 1)
  /\ curr' = iht_insert(curr, prev.buckets[migrate_pos][1])
  /\ work_done' = work_done + 1
  /\ UNCHANGED <<migrate_pos, pc, request, ret>>

(* Wrong: an empty bucket is skipped, without going on to the next.              *)
PrehashFault_Continue ==
  /\ LoopGuard
  /\ prev.buckets[migrate_pos] = <<>>
  /\ UNCHANGED vars

(* On an empty bucket iht_del reads node->next of a null node.                *)
PrehashFault ==
  /\ LoopGuard
  /\ prev.buckets[migrate_pos] = <<>>
  /\ pc' = "fault"
  /\ UNCHANGED <<curr, prev, migrate_pos, request, work_done, ret>>

(* The end of ihs_prehash gives prev back once it is empty, and the call goes *)
(* on to its answer.                                                         *)
Rest == IF prev.size = 0 THEN NullTable ELSE prev

EndPrehash(op) ==
  /\ pc = "prehash"
  /\ ~ LoopGuard
  /\ request.op = op
  /\ pc' = "idle"
  /\ UNCHANGED <<migrate_pos, request, work_done>>

ReturnInsert ==
  /\ EndPrehash("insert")
  /\ prev' = Rest
  /\ ret' = NoNode
  /\ UNCHANGED curr

(* Both lookups try curr first, then what is left of prev.                    *)
FoundInCurr(p, i) == iht_get(curr, request.key, p, i)

FoundInPrev(p, i) == NoMatch(curr, request.key) /\ iht_get(Rest, request.key, p, i)

(* Wrong: a lookup forgets the nodes not migrated yet.                          *)
NotFound_CurrOnly == NoMatch(curr, request.key) /\ ret' = NoNode

NotFound == NoMatch(curr, request.key) /\ NoMatch(Rest, request.key) /\ ret' = NoNode

ReturnFind ==
  /\ EndPrehash("find")
  /\ prev' = Rest
  /\ UNCHANGED curr
  /\ \/ \E p \in DOMAIN curr.buckets : \E i \in DOMAIN curr.buckets[p] :
           FoundInCurr(p, i) /\ ret' = curr.buckets[p][i]
     \/ \E p \in DOMAIN Rest.buckets : \E i \in DOMAIN Rest.buckets[p] :
           FoundInPrev(p, i) /\ ret' = Rest.buckets[p][i]
     \/ NotFound

ReturnDel ==
  /\ EndPrehash("del")
  /\ \/ \E p \in DOMAIN curr.buckets : \E i \in DOMAIN curr.buckets[p] :
           /\ FoundInCurr(p, i)
           /\ ret' = curr.buckets[p][i]
           /\ curr' = iht_del(curr, p, i)
           /\ prev' = Rest
     \/ \E p \in DOMAIN Rest.buckets : \E i \in DOMAIN Rest.buckets[p] :
           /\ FoundInPrev(p, i)
           /\ ret' = Rest.buckets[p][i]
           /\ prev' = iht_del(Rest, p, i)
           /\ UNCHANGED curr
     \/ NotFound /\ prev' = Rest /\ UNCHANGED curr

Prehash == PrehashMove \/ PrehashFault

Return == ReturnInsert \/ ReturnFind \/ ReturnDel

Next ==
  \/ \E n \in Node : CallInsert(n)
  \/ \E op \in {"find", "del"}, k \in Key : CallLookup(op, k)
  \/ Prehash
  \/ Return

(* A call that is entered runs on: nothing in it waits.                       *)
Spec == Init /\ [][Next]_vars /\ WF_vars(Prehash \/ Return)

-----------------------------------------------------------------------------
IsTable(t) ==
  /\ t.nb \in Nat
  /\ t.size \in Nat
  /\ t = [nb |-> t.nb, buckets |-> t.buckets, size |-> t.size]
  /\ t.buckets \in [0 .. (t.nb - 1) -> Seq(Node)]

Requests == [op : {"insert"}, node : Node]
            \cup [op : {"find", "del"}, key : Key]
            \cup {[op |-> "none"]}

TypeOK ==
  /\ IsTable(curr) /\ IsTable(prev)
  /\ migrate_pos \in Nat
  /\ pc \in {"idle", "prehash", "fault"}
  /\ request \in Requests
  /\ work_done \in 0 .. PrehashWork
  /\ ret \in Node \cup {NoNode}

(* Every linked node is reached by one link only, of one table, in the bucket *)
(* its hash selects: the rewiring of a migration neither loses a node to the  *)
(* lookups nor leaves it in two chains.                                      *)
InItsBucket(t) ==
  \A p \in DOMAIN t.buckets : \A i \in DOMAIN t.buckets[p] :
    Pos(t, KeyOf[t.buckets[p][i]]) = p

LinkedOnce(t) ==
  \A p \in DOMAIN t.buckets, q \in DOMAIN t.buckets :
    \A i \in DOMAIN t.buckets[p], j \in DOMAIN t.buckets[q] :
      t.buckets[p][i] = t.buckets[q][j] => p = q /\ i = j

Placement ==
  /\ InItsBucket(curr) /\ InItsBucket(prev)
  /\ LinkedOnce(curr) /\ LinkedOnce(prev)
  /\ Linked(curr) \cap Linked(prev) = {}

(* The sizes that start a migration, bound its loop and free the old table    *)
(* count the nodes that are really there.                                    *)
SizesCount ==
  /\ curr.size = Cardinality(Linked(curr))
  /\ prev.size = Cardinality(Linked(prev))

(* Whatever the calls, between two of them the nodes are fewer than the       *)
(* buckets times the load: a migration always ends before the insertions that *)
(* go on beside it would need the next one, so "only migrate if the previous  *)
(* bucket set is empty" (hash.cpp:87) never makes chains grow.                *)
LoadKept ==
  (pc = "idle" /\ ~ IsNull(curr)) => curr.size + prev.size < curr.nb * Load

(* A migration that is not finished is not started again, and the old table   *)
(* only loses nodes, to the new table or to the caller of ihs_del.            *)
MigrationRunsOnce ==
  [][(~ IsNull(prev) /\ ~ IsNull(prev')) =>
        /\ prev'.nb = prev.nb /\ curr'.nb = curr.nb
        /\ Linked(prev') \subseteq Linked(prev)]_vars

(* The crash needs a table that has grown, so an index that never held as     *)
(* many nodes as the first table has buckets is safe.                         *)
FaultNeedsGrowth == pc = "fault" => curr.nb > InitBuckets

(* No call of the set crashes (what the tests of the sorted set presume).     *)
NeverFaults == pc # "fault"

(* Every call returns, unless it crashes.                                     *)
CallsEnd == (pc = "prehash") ~> (pc # "prehash")

(* The set keeps the promise of HashIndex.                                    *)
Index == INSTANCE HashIndex
           WITH status <- IF pc = "prehash" THEN "busy" ELSE pc
IndexSpec == Index!Spec

-----------------------------------------------------------------------------
(* Why the above holds.  Moving a node takes one from the weight, inserting   *)
(* adds one, and the weight starts at the room of the new table: only an       *)
(* insertion that has not moved a node yet can find no room to spare.          *)
FreshInsert == pc # "idle" /\ request.op = "insert" /\ work_done = 0

RoomLeft ==
  LET room   == curr.nb * Load
      weight == curr.size + 2 * prev.size
  IN  IF IsNull(prev)
      THEN ~ IsNull(curr) => curr.size < room
      ELSE /\ curr.size + prev.size < room
           /\ weight <= room
           /\ weight = room => FreshInsert
           /\ pc = "idle" => curr.size + 2 < room

(* The inductive invariant: what is linked where, how the two tables relate,   *)
(* and how much room the new one has left.                                    *)
IInv ==
  /\ TypeOK
  /\ Placement
  /\ IsFiniteSet(Linked(curr)) /\ IsFiniteSet(Linked(prev))
  /\ SizesCount
  /\ migrate_pos = 0
  /\ ~ IsNull(curr) => curr.nb >= InitBuckets
  /\ ~ IsNull(prev) => prev.nb >= InitBuckets /\ curr.nb = 2 * prev.nb
  /\ pc # "idle" => request.op # "none"
  /\ pc = "fault" => ~ IsNull(prev)
  /\ RoomLeft
=============================================================================
