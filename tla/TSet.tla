--------------------------------- MODULE TSet ---------------------------------
(***************************************************************************)
(* A sorted set, src/src/kvt_tset.{h,cpp}, and the two commands of io.cpp that  *)
(* use it: members have a name and a score and are found by either, through    *)
(* two indexes that every operation must change together.  A member is known    *)
(* by its name: its TSTNode is allocated when the name is first added.          *)
(*                                                                          *)
(* mts_mp, the index by name, is the set of the nodes linked in it (IHSet says  *)
(* what it does; below ihs_load members it never migrates).  stm_root, the       *)
(* index by score, is a tree of RBTree; of members with one score the tree has   *)
(* the first, whose `next' leads to another.                                  *)
(***************************************************************************)
EXTENDS RBTree

CONSTANTS Score,   (* the scores clients give; scores are doubles, and 0 is one   *)
          Bound    (* the begin and end trange is asked for                      *)

ASSUME ScoresAreNumbers == Score \subseteq Int /\ Bound \subseteq Int

VARIABLES tree,    (* stm_root and every tst_node::tnode                       *)
          next,    (* tst_node::next                                          *)
          mts_mp,  (* the nodes in the index by name                           *)
          asked,   (* the score each name was last given by a client, or Null      *)
          process  (* "up", or "aborted" by an assertion                        *)

vars == <<tree, next, mts_mp, asked, process>>

-----------------------------------------------------------------------------
(* A score index: a tree and the chains, the part of a set ts_insert and ts_delete  *)
(* use.  ts_insert's result also says whether it took the node.                   *)
Index(t, nx) == [tree |-> t, next |-> nx]
Result(t, nx, taken) == [tree |-> t, next |-> nx, taken |-> taken]

(* ts_insert: a node whose score is taken goes behind the node that has it,       *)
(* in place of whatever was there.                                             *)
ts_insert(ix, n) ==
  LET t == ix.tree
      found == sbt_search(t, t.key[n])
  IN  IF found # Null THEN Result(t, [ix.next EXCEPT ![found] = n], TRUE)
      ELSE IF Refuses(t, t.key[n]) THEN Result(t, ix.next, FALSE)
      ELSE Result(rbt_insert(t, n), ix.next, TRUE)

(* Wrong: stm_root still points to the node that left.                            *)
ts_delete_KeepRoot(ix, n) ==
  LET heir == ix.next[n]
  IN  IF heir # Null
      THEN Index(sbt_replace(ix.tree, n, heir), [ix.next EXCEPT ![n] = Null])
      ELSE Index(rbt_delete(ix.tree, n), ix.next)

(* ts_delete: the next of the chain takes the node's place in the tree.            *)
ts_delete(ix, n) ==
  LET heir == ix.next[n]
  IN  IF heir # Null
      THEN Index(sbt_replace([ix.tree EXCEPT !.root = IF @ = n THEN heir ELSE @], n, heir),
                 [ix.next EXCEPT ![n] = Null])
      ELSE Index(rbt_delete(ix.tree, n), ix.next)

(* A new score and the look of a new node, but for its parent.                     *)
Renew(ix, n, score) ==
  [ix EXCEPT !.tree = [@ EXCEPT !.key[n] = score, !.left[n] = NILNODE,
                                !.right[n] = NILNODE, !.color[n] = "RED"]]

(* Wrong: the score given is added to the one there was.                          *)
ts_update_Adds(ix, n, score) ==
  ts_insert(Renew(ts_delete(ix, n), n, ix.tree.key[n] + score), n)

ts_update(ix, n, score) == ts_insert(Renew(ts_delete(ix, n), n, score), n)

-----------------------------------------------------------------------------
(* Commands.                                                                  *)

Asked(n, score) == asked' = [asked EXCEPT ![n] = score] /\ UNCHANGED process

(* do_add_tset, a name that is new: mk_tstn and ts_insertn, which deletes the node  *)
(* that was not taken.                                                        *)
AddMember(n, score) ==
  /\ n \notin mts_mp
  /\ \E r \in {ts_insert(Index(NewNode(tree, n, score), [next EXCEPT ![n] = Null]), n)} :
       /\ tree' = r.tree
       /\ next' = r.next
       /\ mts_mp' = IF r.taken THEN mts_mp \cup {n} ELSE mts_mp
  /\ Asked(n, score)

(* do_add_tset, a name that is there.  ts_update does not look at what ts_insert     *)
(* returned.                                                                  *)
UpdateMember(n, score) ==
  /\ n \in mts_mp
  /\ \E r \in {ts_update(Index(tree, next), n, score)} :
       /\ tree' = r.tree
       /\ next' = r.next
       /\ mts_mp' = IF r.taken THEN mts_mp ELSE mts_mp \ {n}
  /\ Asked(n, score)

(* By name: no command of the server deletes a member.  Nobody has the node any       *)
(* more, unless an index still does.                                            *)
ts_deleten(n) ==
  /\ n \in mts_mp
  /\ \E r \in {ts_delete(Index(tree, next), n)} :
       tree' = Forget(r.tree, n) /\ next' = r.next
  /\ mts_mp' = mts_mp \ {n}
  /\ Asked(n, Null)

ts_size == Cardinality(mts_mp)

(* Wrong: members that share a score are passed over.                             *)
Step_NoChain(t, nx, n, x, head) ==
  LET to == sbt_walk_forw(t, IF head = Null THEN x ELSE head) IN [n |-> to, found |-> to]

(* One step of ts_walk from member n, the cursor `found' standing at x: along the     *)
(* chain if there is more of it, else to the next score.  A head given by the       *)
(* caller replaces the cursor.                                                 *)
Step(t, nx, n, x, head) ==
  IF nx[n] # Null THEN [n |-> nx[n], found |-> x]
  ELSE LET to == sbt_walk_forw(t, IF head = Null THEN x ELSE head) IN [n |-> to, found |-> to]

(* ts_at: offset steps of one walk, from the least score.                          *)
ts_at(t, nx, offset) ==
  LET least == Leftmost(t, t.root)
      walk[i \in 0 .. offset] == IF i = 0 THEN [n |-> least, found |-> least]
                         ELSE Step(t, nx, walk[i - 1].n, walk[i - 1].found, Null)
  IN  walk[offset].n

(* ts_seek: like sbt_search, but it goes on through the sentinel and compares its key, 0,   *)
(* so that it may find the sentinel.  `out', the closest score, is not returned.            *)
ts_seek(t, score) ==
  LET x == Descent(t, score).at IN IF x # Null /\ t.key[x] = score THEN x ELSE Null

(* Wrong: one line too many.                                                     *)
ListOf_OneMore(t, nx, begin, end) ==
  LET first == ts_at(t, nx, begin)
      line[i \in begin .. (end + 1)] == IF i = begin THEN first
                         ELSE IF IS_NULL(line[i - 1]) THEN Null
                         ELSE Step(t, nx, line[i - 1], line[i - 1], first).n
      listed == {i \in begin .. (end + 1) : ~ IS_NULL(line[i])}
  IN  [i \in 1 .. Cardinality(listed) |-> line[begin + i - 1]]

(* The list of do_range_tset: a fresh walk of one step for each line, with the first  *)
(* member of the range as its head, until one finds none.                          *)
ListOf(t, nx, begin, end) ==
  LET first == ts_at(t, nx, begin)
      line[i \in begin .. end] == IF i = begin THEN first
                         ELSE IF IS_NULL(line[i - 1]) THEN Null
                         ELSE Step(t, nx, line[i - 1], line[i - 1], first).n
      listed == {i \in begin .. end : ~ IS_NULL(line[i])}
  IN  [i \in 1 .. Cardinality(listed) |-> line[begin + i - 1]]

(* What do_range_tset answers: ts_at's first assertion compares begin as an unsigned   *)
(* number, so that it fails for a negative one.                                  *)
RangeAnswer(begin, asked_end) ==
  LET end == IF asked_end < 0 THEN ts_size + asked_end ELSE asked_end
  IN  IF end >= ts_size \/ end < 0 THEN [status |-> "range_oob", list |-> <<>>]
      ELSE IF begin < 0 \/ begin >= ts_size THEN [status |-> "aborted", list |-> <<>>]
      ELSE [status |-> "ok", list |-> ListOf(tree, next, begin, end)]

do_range_tset(begin, end) ==
  /\ process' = IF RangeAnswer(begin, end).status = "aborted" THEN "aborted" ELSE "up"
  /\ UNCHANGED <<tree, next, mts_mp, asked>>

-----------------------------------------------------------------------------
Init ==
  /\ tree = EmptyTree
  /\ next = [n \in Node |-> Null]
  /\ mts_mp = {}
  /\ asked = [n \in Node |-> Null]
  /\ process = "up"

(* An assertion that fails ends the process.                                    *)
Next ==
  /\ process = "up"
  /\ \/ \E n \in Node : \/ \E score \in Score : AddMember(n, score) \/ UpdateMember(n, score)
                        \/ ts_deleten(n)
     \/ \E begin, end \in Bound : do_range_tset(begin, end)

Spec == Init /\ [][Next]_vars

-----------------------------------------------------------------------------
InTree == Under(tree, tree.root)

TypeOK ==
  /\ tree \in Tree /\ tree.key \in [Ptr -> Score \cup {0}]
  /\ next \in [Node -> Node \cup {Null}]
  /\ mts_mp \subseteq Node
  /\ asked \in [Node -> Score \cup {Null}]
  /\ process \in {"up", "aborted"}

(* A member can be found by its score as by its name (kvt_tset.h:12-14): it is in      *)
(* the tree, or follows one in the tree that has its score; and nothing else is.      *)
MembersAreIndexed ==
  /\ InTree \subseteq mts_mp
  /\ \A n \in mts_mp \ InTree : \E h \in InTree : next[h] = n
  /\ \A h \in InTree : next[h] # Null =>
       next[h] \in mts_mp \ InTree /\ tree.key[next[h]] = tree.key[h]

(* The members are the names clients gave a score, with the last score given.         *)
Promised ==
  /\ mts_mp \subseteq Node
  /\ \A n \in Node : IF asked[n] = Null THEN n \notin mts_mp
                     ELSE n \in mts_mp /\ tree.key[n] = asked[n]

(* A member outside the tree looks new, as ts_delete supposes when it unlinks it.      *)
Fresh(n) ==
  /\ next[n] = Null
  /\ tree.parent[n] = Null /\ tree.left[n] = NILNODE /\ tree.right[n] = NILNODE

(* All that a set should be.                                                     *)
Sound ==
  /\ SearchTree(tree) /\ RedBlack(tree)
  /\ MembersAreIndexed /\ Promised
  /\ \A n \in mts_mp \ InTree : Fresh(n)

(* The calls that break a sound set.  An addition: of score 0, which the sentinel's key is  *)
(* mistaken for, or of a third member with one score, which takes the second one's place     *)
(* in the chain.                                                                *)
RiskyAdd(k) ==
  \/ k = 0 /\ mts_mp # {} /\ \A h \in InTree : tree.key[h] # 0
  \/ \E h \in InTree : tree.key[h] = k /\ next[h] # Null

(* A deletion: of a member that is not in the tree, whose predecessor keeps pointing     *)
(* to it, or one that rbt_del_fix fails in.                                        *)
RiskyDelete(n) ==
  \/ n \notin InTree
  \/ next[n] = Null /\ DelFixFails(tree, n)

(* The member that n goes behind, with score k, once it has been deleted.                *)
Behind(n, k) == {h \in (InTree \ {n}) \cup ({next[n]} \ {Null}) : tree.key[h] = k}

(* An update: of the only member, or of a member that is not in the tree, unless to the      *)
(* score it has, which puts it back; of another, to 0, or to a score that is taken, where it  *)
(* goes behind with the parent it had in the tree, or in place of a second member.         *)
RiskyUpdate(n, k) ==
  \/ mts_mp = {n}
  \/ n \notin InTree /\ k # tree.key[n]
  \/ /\ n \in InTree /\ ~ RiskyDelete(n)
     /\ \/ k = 0 /\ Behind(n, k) = {}
        \/ \E h \in Behind(n, k) : next[h] # Null \/ tree.parent[n] # Null

(* Each of them does, and every other call, in any order, leaves a sound set: both indexes   *)
(* hold the same members, at the scores last given, in a red-black search tree.  But where   *)
(* rbt_del_fix fails in an update of one of several, the insertion that follows may mend    *)
(* what the deletion broke.                                                       *)
BreaksOnlyAt ==
  [][Sound =>
       LET broken == \E n \in Node :
             \/ \E k \in Score : \/ RiskyAdd(k) /\ AddMember(n, k)
                                 \/ RiskyUpdate(n, k) /\ UpdateMember(n, k)
             \/ RiskyDelete(n) /\ ts_deleten(n)
       IN  /\ broken => ~ Sound'
           /\ ~ Sound' =>
                \/ broken
                \/ \E n \in InTree, k \in Score : RiskyDelete(n) /\ UpdateMember(n, k)]_vars

(* Both ways to look into a sound set agree with it.  ts_at finds every member by its       *)
(* rank (kvt_tset.h:44): walking along the chains and between them meets each once, by      *)
(* score.  Of the members with one score ts_seek finds the first of that walk.  Nothing is   *)
(* said of other scores, for which it should find the closest above (kvt_tset.h:43).        *)
LookupsAgree ==
  Sound =>
    LET at == [i \in 0 .. (ts_size - 1) |-> ts_at(tree, next, i)]
    IN  /\ \A i \in DOMAIN at : at[i] \in mts_mp
        /\ \A i \in DOMAIN at : \A j \in 0 .. (i - 1) :
             tree.key[at[j]] < tree.key[at[i]] \/ next[at[j]] = at[i]
        /\ \A score \in Score :
             LET has == {i \in DOMAIN at : tree.key[at[i]] = score}
             IN  has # {} => ts_seek(tree, score) = at[CHOOSE i \in has : \A j \in has : i <= j]

(* The answer to a trange whose bounds are ranks of members.                       *)
Slice(begin, end) == [i \in 1 .. (end - begin + 1) |-> ts_at(tree, next, begin + i - 1)]

InRange(begin, end) == 0 <= begin /\ begin <= end /\ end < ts_size

(* A trange lists the members of the range (kvt_tset.h:79, "range of pairs by score") in     *)
(* order, each once: the loop of io.cpp:445 hands ts_walk the first of them as its head,      *)
(* "to keep track of the first node in the same value list" (io.cpp:444).               *)
RangeInOrder ==
  Sound => \A begin, end \in Bound :
    InRange(begin, end) => RangeAnswer(begin, end).list = Slice(begin, end)

(* What holds of it all the same.  Nothing is listed that is not in the range, the first     *)
(* two lines are right, chains or not, and while no two members share a score there are as    *)
(* many lines as the answer announces.                                               *)
RangeStaysInside ==
  Sound => \A begin, end \in Bound :
    InRange(begin, end) =>
      LET list == RangeAnswer(begin, end).list
          slice == Slice(begin, end)
      IN  /\ \A i \in DOMAIN list : \E j \in DOMAIN slice : list[i] = slice[j]
          /\ \A i \in DOMAIN list : i <= 2 => list[i] = slice[i]
          /\ (\A n \in mts_mp : next[n] = Null) => Len(list) = Len(slice)
=============================================================================
