# A TLA+ model of Redbrouk

Redbrouk is a single-threaded key-value server: a `poll` loop over non-blocking sockets, a key
space kept in an intrusive hash set, string values and sorted sets. This directory holds TLA+
modules translated from its source, the TLC configurations that check them on small instances,
and proofs, checked by TLAPS, of what matters most for every instance. `PROJECT.json` lists the
components, runs, mutants (one wrong variant of the code for every property checked), the source
lines of every definition, the findings, hazards and theorems.

Paths below are relative to the repository: `src/hash.cpp`, `test/tset_test.cc`.

## 1. Inventory

| Component | State | Operations | Correct when |
|---|---|---|---|
| Intrusive hash set, `hash.{h,cpp}` | two tables `curr`, `prev` of chained buckets, their sizes, `migrate_pos` | `ihs_insert`, `ihs_find`, `ihs_del`; each first moves up to 64 nodes from `prev` to `curr` | no lookup notices a migration; sizes are true; migrations end in time; calls return |
| Event loop, `io.cpp`, `connection.{h,cpp}`, `network.h` | table of connections by descriptor, each with flags and four offsets; one receive and one send buffer for all | poll, accept, read, answer all complete requests, write, close | each request answered once, in order, to its client; flags ask poll for the right thing; descriptors and table agree |
| Key space and commands, `io.cpp`, `kvobj.*` | an array of objects filled from the start, the hash set of those in the key space | `get`, `set`, `del`, `tadd`, `trange` | one object per key; values last; a refused command changes nothing |
| Sorted set, `kvt_tset.{h,cpp}` | a hash set by name, a tree by score, a chain `next` for equal scores | add, update, delete, by rank, walk | both indexes hold the same members at the last score given |
| Red-black tree, `sbtree.{h,cpp}` | root, nodes, one sentinel `NILNODE` shared by every tree of the process | search, insert, delete, detach, replace, walk, by rank | ordered, balanced, parents agree with children |
| Request framing, `parse_req` | none | lengths to words | refuses exactly what is not a list of words |
| `HashSet`, `HashMap` (`kvt_hash_t.h`, `kvt_set.cpp`) | as the hash set, with nodes that carry their key | emplace, insert, find, del, rehash, detach, format, destruction | as the hash set, and every node freed once |
| `IntrusiveHashMap` (`kvt_map.*`) | a pool of pairs, a free list, a hash set | emplace, insert, remove, find | pool and hash set agree |
| Start, end, blocking calls, utilities | - | `init`, `make_listener`, signal handler, `brecv`, `bsend`, `Connect` | - |

How they meet: the loop calls `handle_read`, which calls `try_request` while a whole request is
there, which calls `do_request` with the words and appends the answer to the send buffer. Commands
look up an object in `db.kvs` (a hash set), or make one; a sorted set has a second hash set of its
own and a tree. There are no threads and no locks: what interleaves is the server with its clients
and with the kernel, the calls of different connections on the shared buffers, and the calls of
different commands on a hash set in the middle of a migration. Nothing is persisted, nothing times
out and nothing is retried.

The hard parts, in the order of the plan: migrations that spread over calls; requests in pieces,
short writes and departures at any moment; buffers shared by connections; two indexes that must
change together; the repairs of a red-black deletion. `PROJECT.json` lists 40 hazards at their
lines.

## 2. Modules

| Module | Models | Code |
|---|---|---|
| `HashIndex` | what an index promises: inserted nodes are found until deleted | the interface in `hash.h` |
| `IHSet` | the hash set, one step for each turn of its migration loop | `hash.cpp` |
| `MCIHSet` | two instances of it | |
| `IHSetProofs` | its theorems | |
| `Session` | what the server promises each client, without buffers, flags or `poll` | the interface of the server |
| `EventLoop`, `MCEventLoop` | the server's thread, kernel and clients; it implements `Session` | `io.cpp` 50-175 and 226-271, `connection.cpp`, `network.h` |
| `EventLoopProofs` | its theorems, for any clients, requests and fragments; those about requests, replies and `Session` | |
| `Requests` | the format of a request: written by the client, read by the server | `test/pl_client.cc` 54-75, `io.cpp` 239-304 |
| `RBTree` | the tree's functions as operators on a record of its fields | `sbtree.cpp`, `sbtree.h` |
| `RBTreeProofs` | lemmas: what the functions that read a tree find in a search tree, and what `rbt_insert` makes of a red-black one | |
| `SBTree`, `MCSBTree` | a tree under insertions, deletions and detachments | `rbt_insert`, `rbt_delete`, `sbt_detach` |
| `SBTreeProofs` | its theorems about walks and ranks, insertion and removal, with the lemmas about `rbt_delete` and `rbt_del_fix` | |
| `TSet`, `MCTSet` | a sorted set: `RBTree`, chains and the index by name | `kvt_tset.cpp`, `io.cpp` 411-485 |
| `TSetProofs` | its theorems about `ts_at`, `ts_seek` and `trange` | |
| `KVStore`, `MCKVStore` | the commands on the key space | `io.cpp` 179-224 and 309-485, `kvobj.*` |
| `KVStoreProofs` | its theorems, and those about `Requests`, for any base, limits, buffers and streams | |
| `HashSet`, `MCHashSet` | the other hash set | `kvt_hash_t.h`, `kvt_set.cpp` |
| `HashSetProofs` | its theorems | |
| `IHMap`, `MCIHMap` | the map of strings over a pool of pairs, and its caller | `kvt_map.{h,cpp}` |
| `IHMapProofs` | its theorems | |

**IHSet.** `curr`, `prev`, `migrate_pos` are the fields of `iHSet`. A table is a number of buckets,
a function from positions to chains and a size; a chain is the sequence of nodes that
`iHNode::next` leads through, so `iht_insert` is `Cons` and `iht_del` is `RemoveAt`. The code keeps
`nb - 1` as a mask: `hval & mask` is `Hash % nb` for the powers of two it uses. `CallInsert` and
`CallLookup` are the part of a call before `ihs_prehash`; `PrehashMove` and `PrehashFault` one turn
of its loop; `ReturnInsert`, `ReturnFind`, `ReturnDel` the rest. Splitting the call is not
concurrency: it makes every intermediate state of the migration a state that invariants are checked
in. `PrehashFault` is the null dereference of `hash.cpp:102`.

**EventLoop.** `pc` is where the thread stands: at `poll`, at `accept`, scanning what poll reported, in
`handle_read` before its read, in its loop over requests, in `handle_write` (called from `handle_read` or from
the loop), or at the test that closes a connection. Code between two system calls is one step, except that each
request answered is a step. Bytes are counted in units: a frame is a header unit and a body unit, a reply is one
unit; that is enough to tell a whole frame, a header without its body, and bytes that are no header. The buffers
are functions from offsets to units because who wrote what where is the question. Clients connect once, send
requests that can be served, refused by `parse_req`, or too long, read, and leave; leaving with replies unread
resets the connection, and writing to one that left may get a reset back, after which a write is a SIGPIPE.
Bytes that are no length (what is left of a request whose first piece was overwritten) read as any: the
connection is closed or waits for more (`Garbled`, `Unserved`). `Polled` is Linux's answer. `cur`, the
descriptor served, is only meaningful while `pc` says so.

**RBTree, SBTree, TSet.** A tree is a record of `root` and the functions `parent`, `left`, `right`,
`key`, `color` over the nodes *and* `NILNODE`: the code reads the sentinel's key (0) and writes its
parent, and both matter. Each C++ function is an operator from tree to tree; a loop is a recursive
function over what it has in hand (the node it is at; for `rbt_fix` and `rbt_del_fix` the tree as well), and
`Under`, the nodes below a node, is the least set around it that has the children of its nodes, because a
broken tree may have cycles. In
`TSet` a member is known by its name, and the index by name is the set of nodes linked in it: below
`ihs_load` members it never migrates, and what happens above that is `IHSet`'s subject.

`sbt_walk`, `sbt_at`, `sbt_min`, `sbt_max` are operators of `RBTree` too. `SBTree!Elsewhere` is what
calls on other trees do to this one: they write the sentinel. A deletion writes its parent
(`sbtree.cpp:114`); a tree that `rbt_del_fix` has broken also gives it children in a rotation (52) and
colours it (336, 469), so `Elsewhere` writes any parent, children and colour. Two things are left out: that
a broken tree elsewhere goes on through the sentinel's parent or children into nodes of this one, and other
sets in `TSet`, which has one.

**KVStore.** `data`, `data_idx` and `linked` are `db.data`, `db.data_idx` and `db.kvs`. `get_val`,
`set_val`, `del_val`, `do_add_tset`, `do_range_tset` are the commands. The index is used as its
promise `HashIndex`: it finds what is linked, or ends the process (`LookupDies`). Where the code
reads an uninitialised pointer (`set_val` on a key that is there), the answer is any value, or the
process dies.

**Session.** A client's requests are a queue: how many it has asked, how many were served, which
replies it has read. `EventLoop` maps to it with `ServedOf` (the replies made, which is `ot_end`),
`Life` (a client that closed, in whatever way, has left) and `pc # "killed"`. Reading, delivery,
`poll`, `accept` and every change of a flag are stutters; `Serve` is the making of a reply,
`Disconnect` the closing of a descriptor.

**Requests.** A byte is a number below `Base`, a `uint32_t` is `FieldLen` of them. `Frame` is what
`send_req` writes. `parse_req` reads `nstr` and then, string by string, a length and its bytes;
`try_request` waits, closes or serves; `Served` is the loop of `handle_read` over the buffer. These
are functions of the bytes, so the module has no variables; its two properties are checked with
`KVStore`, whose commands are what comes out. `Behind` is what `recv_buf` may hold behind a request,
`Sent` what clients send; the proofs suppose nothing of either.

**HashSet.** `Table::del` is meant to be given the link that leads to a node; `progress_rehash`,
`rehash` and `del` give it a local copy. `LinkTimes` is the effect of a loop that takes one node `m`
times: `m` counts, and a node that is its own next. `where` says whose a node is. A loop over a
chain with a cycle makes the process `"hung"`, a read past a table's buckets or of a freed node
`"fault"`. Sizes wrap (`SizeMod` for 2^64).

**IHMap.** The hash set below is taken by its promise, as in `KVStore`; one pair of the caller's, which
`insert(iHMPair&)` links where it lies, and the string the caller passes by reference are part of the
state, because the code changes both. `Cell` has one place more than the array: `emplace` in a full pool
(`NoRoom`) builds a pair behind it, links it and counts `positions_used` on (`kvt_map.cpp:46`), and behind the
array lies `free_list`, which from then on reads as what was built over it. The process is then `"overrun"`,
and nothing is said of later calls.

## 3. Runs

States are distinct states found. `rbtree` and `loop_faults` take about two minutes, every other run one or less.

| Run | Instance | States | Shows |
|---|---|---|---|
| `ihset` | 5 nodes of 4 keys (two nodes share a key, two keys a hash), first table of 2 buckets, one move a call | 21,806 | all invariants of the set, the inductive invariant `IInv`, `HashIndex` as a property |
| `ihset_test` | the code's constants: 8 buckets, 64 moves; 8 nodes of one hash | violated | **finding**: `hash.cpp:102` crashes the test's own sequence |
| `loop_whole` | 2 clients, 2 descriptors, 3 requests and 1, whole frames, sockets that take one reply | 81,290 | `Session` as a property; requests are answered, departures noticed, short writes finished; offsets count the lifetime |
| `loop_faults` | 3 clients, 2 descriptors, good, bad and oversized requests in fragments, sockets that take one reply | 2,697,852 | the flags ask poll for what a connection needs; the assertions of `main_loop`; table against descriptors |
| `loop_split` | 1 client, fragments | violated | **finding**: `io.cpp:148` overwrites the first piece of a request |
| `loop_shared` | 2 clients, 2 descriptors, 2 requests each, room for one reply | violated | **finding**: `io.cpp:94`, one client reads another's reply |
| `rbtree` | all trees of 6 keys, and trees of up to 12 keys without a gap | 5,181 | insertion, both walks and ranks, exactly which deletions fail and at what cost, and when other trees break this one |
| `tset` | 5 names (symmetric), scores 0 to 4, ranks -1 to 5 | 3,639 | exactly which calls break a sorted set; `ts_at`, `ts_seek`, `trange` as far as they are right |
| `tset_range` | 3 names, scores 1 to 3 | violated | **finding**: `trange` leaves out or repeats members of its range |
| `kvstore` | 2 keys, 2 values, 4 slots; bodies of up to 7 bytes in base 3 | 49,986 | the commands; the format of the requests they come in |
| `hashset` | 4 nodes of 3 keys, 4 buckets, 3 moves a call, sizes modulo 8 | 27,756 | exactly which calls break `HashSet`; what stays true of it when it is broken |
| `ihmap` | 2 elements, 1 pair of the caller's, 2 strings | 1,546,176 | exactly which calls break the map; when its pool overruns |

Why the bounds are enough. `ihset`: with one move a call a migration spans calls, the set grows twice, a lookup
meets each of: only `curr`, a table being emptied, a table just emptied; nodes with one key can be in both
tables. `loop_*`: two clients are what shared buffers and reused descriptors need; three requests give one
answered, one buffered and one on the way; a socket that takes one reply makes every write of two short. In
`loop_whole` the second client asks once: its reply then lies at offset 0 of the shared buffer, and what the
first has there its socket takes at once. With two requests each it is `loop_shared`, which shows what happens.
`loop_faults` has more clients than descriptors and two of those, so that between `poll` and a descriptor's turn
the other connection is served, closed or accepted while this one has a reply waiting, and a descriptor goes
from one client to the next; the first client asks twice, the second once, and the third only takes up a
descriptor. `Offset` is exactly as long as the requests need: there is no claim about the 4096th byte except
that offsets never go back. `rbtree`: eight keys in order are the first size at which the repair of an insertion
climbs and ends in a rotation at the root, ten or eleven the first at which every case of `rbt_del_fix` is also
met below the root and its loop climbs. Twelve real nodes, with all subsets only of the first six, keep that
small; one more node stands for those of other trees. Everything they may write to the sentinel is tried in
every sound state; where the tree is not sound afterwards, exploration ends as it does after a deletion that
fails. `tset`: five members give two chains and a member besides, or a tree of three levels, and a range over
more than two scores. `hashset`: four buckets grow at the fourth insertion; two keys meet in a bucket and two
nodes have one key; with 3 moves a call a migration of four takes two calls; with sizes modulo 8 a size wraps
and is still larger than what is there. `ihmap`: one element more than the smallest pool, so that elements are
given out in order and from the stack, and a pair that is not in the array. The format: bytes 0 to 2, fields of
two of them, at most two strings, and every byte string of up to 7 bytes as a body, so that the limits
`MaxFrame` and `MaxStrs` are within reach; behind a body nothing, or bytes that read as one; streams of up to
two of five commands (no string, an empty one, one of a byte or two, two strings), cut everywhere.

`CONSTRAINT Sound` (in `rbtree`, as part of `Within12`, and `tset`): a tree that `rbt_del_fix` has broken may contain cycles
on which the C++ code does not return, so exploration goes on from sound states only. The broken
states themselves are still generated and checked, and the action properties `BreaksOnlyInDelFix`
and `BreaksOnlyAt` say which calls lead to them. They are the statement of what *is* right: every
other call, in any order, leaves both indexes and the tree as they should be.

`BreaksOnlyInDelFix` says it exactly. From a red-black tree, a deletion that moves a black node fails if
and only if `DelFixFails`: the root itself is deleted; or the black replacement has a black parent and a
red sibling, or all black around it and a grandparent (colours are lost); or the rotation that a red
sibling, niece or nephew calls for is about the root (`*root` stays below). In no case is a node or
the order lost below the true root: only the pointer the caller holds may lead to a part of the
tree. That is why `TSet`, whose root pointer is its only way in, loses members.

`BreaksOnlyAt` of `HashSet` is an equivalence too: growing, deleting what is there, rehashing two
members or more, and detaching break a sound set, each time, and nothing else does. So the set of
`test/set_test.cc`, which takes 19 strings and prints itself, works for seven; with the eighth it grows,
the node moved first becomes its own next, and printing it (`Format`), or looking for a key of that bucket, does not
end. Of a broken
set it is shown that `size()` still counts the calls and that no loop over buckets runs past them:
the same mistake, a node that stays in its bucket, sees to that.

`BreaksOnlyAt` of `IHMap` likewise: `find` empties the caller's string, an assignment to a missing key
changes what every missing key reads as, an inserted pair without its hash cannot be found, one that
`remove` returned is linked and free at once, and `remove` makes a pair of the caller's an element
of the pool. `emplace` with no room builds over the free list; that is when `is_full()` says so, as long as no
pair of the caller's is about and no element is both linked and free (`FullIsNoRoom`), but nobody asks.

`trange` means to list the members of its range in order, and does not (`RangeInOrder`, violated in
`tset_range`): `do_range_tset` goes on passing the first member of the range as the head of `ts_walk`
(`io.cpp:447`; the comment at 444 calls it the first node of the current list of equal scores). Without equal
scores every line from the third on repeats the second; with them lines are lost. `RangeStaysInside` is what is
true all the same: only members of the range are listed, the first two lines are right, and without equal scores
there are as many lines as the answer announces.

`BreaksOnlyAt` of `TSet` lists the calls that break a set, and each of them does: a third member with one score;
score 0 in a set that has other scores only, added or by update; the deletion of a second member, or one that
`rbt_del_fix` fails in; an update of a second member to another score; an update of a first one to a score that
two others have, or that one has while the member has a parent in the tree; and an update of the only member.
The last is a set of one: its tree is emptied, `*root` stays at `NILNODE`, and the insertion that
follows makes that the root (`sbtree.cpp:352`), so that the member is found by name only. Of one kind of call it
says less: where `rbt_del_fix` fails in an update of one of several, the insertion that follows may set `*root`
right again.

Three disagreements of the code with its comments and tests have no run of their own:

* `kvt_tset.h:43` promises of `ts_seek` the closest greater score; for a score no member has it gives nothing, or
  the sentinel for score 0. `LookupsAgree` is about the scores members have. No command calls it.
* A begin of `trange` that counts from the end, as an end may, aborts the process: the first assertion of
  `ts_at` (`kvt_tset.cpp:164`) compares it as an unsigned number, the second (165) would allow it. `RangeAnswer`
  says "aborted", and the properties of `trange` are about begins that are ranks.
* `test/set_test.cc` prints a set of 19 strings: see `HashSet` above.

`CHECK_DEADLOCK FALSE` is set in every run because the modelled system may stop: a process that
crashed or was killed, a loop in `poll` with all clients done.

Some clauses are true only because of something else that is wrong, and are marked so. The reply of
`del` on a sorted set has status `RES_OK` because line 385 overwrites `RES_ERR`; with the status kept,
`RefusalsChangeNothing` fails (its mutant). A client whose request was refused after an answered one
is not closed when the flush completes (`connection.cpp:42`); `PollsForWhatItNeeds` holds of it.

### Fairness

`IHSet`: weak fairness of `Prehash \/ Return`, because a call that was entered runs on; nothing in it
waits. `EventLoop`: weak fairness of the server's next step, because the thread is only ever blocked in
`poll`, which is disabled in the model as it is in the kernel while nothing is ready; of delivery, for
TCP; and of each client's reading, which is what a client that waits for its replies does. Clients
need not ask, nor leave. `Answered` and `DepartedAreReaped` except a process that was killed, and
`Answered` a client that left. `Answered` is checked where a read returns whole frames and the
buffers do not clash: elsewhere it does not hold, as the findings show. The other modules have
safety properties only.

## 4. Proofs

`IHSetProofs` (for any set of nodes and keys, any assignment of keys and hashes, any first size,
load and bound of work, under `IndexAssumption`):

* `Invariance`: `Spec => []IInv`; from it `TypeCorrect`, `PlacementHolds`, `SizesCountHolds`,
  `LoadIsKept`, `FaultNeedsGrowthHolds`;
* `MigrationRunsOnceHolds`, an action property;
* `ImplementsIndex`: `Spec => IndexSpec`, the refinement of `HashIndex` with the linked nodes as
  `entries`.

`LoadKept` is not inductive. What makes it so is `RoomLeft`: during a migration, the nodes in the new table plus
twice those in the old one are at most the room of the new one (buckets times load). A move takes one node from
the old table to the new one and lowers this weight by one; an insertion raises it by one and is followed by a
move in the same call, so only an insertion that has not moved yet finds the weight at its limit; a migration
starts with the weight at most the room, because the new table has twice the buckets. `FaultNeedsGrowth` needs
only that the old table has at least the first size and the new one twice the old. `RoomLeft` also shows that
the test of `hash.cpp:87`, "only migrate if the previous bucket set is empty", never decides: during a migration
the new table is never full when a call begins. The proof is organised by tables: lemmas say what `iht_insert`
and `iht_del` do to a well-formed table (whose links are unique and whose size is their number), then one lemma
per action shows that it keeps `IInv` and is a step of `HashIndex` or a stutter.

`KVStoreProofs` (for any keys and values and an array of any length, under `PoolAssumption`): `TypeOK`,
`OneObjectPerKey`, `HoldsWhatMadeIt` hold together inductively, as `IInv`; `RefusalsChangeNothing` and
`ObjectsAreForGood` follow from each step. Three lemmas carry it: a command that changes no object,
one that makes an object for a key that had none, and a `del`.

`EventLoopProofs` (for any clients, descriptors, numbers and kinds of requests, room of the sockets, and
any cutting of the streams, under `LoopAssumption`): `TypeOK`, `TableMatchesSockets`, `AssertsHold`,
`PollsForWhatItNeeds` and `OffsetsCountLifetime`. None is inductive, and none stands without the others.
`IInv` adds

* `Placed`: a client is waiting to be accepted, or at one descriptor, or neither; a descriptor in use leads
  to a client that has connected and was not closed; only those have anything reported by `poll`;
* `InOrder`: of each connection, `in_start` is at most `in_end`, `ot_start` at most `ot_end`, and
  `in_start` is two units a reply;
* `Counted`: what a client sent is coming or counted by `in_end`, what it got is counted by `ot_start`. It is
  what bounds the offsets, so `TypeOK` needs it;
* `Flags`: what is true of the flags in each phase of the handlers (`Served`), and of every connection
  that no handler is at work on: it is settled, and what `poll` said of it and was not acted upon still
  fits its flags.

`PollsForWhatItNeeds` is `Flags` at `pc = "poll"`; `AssertsHold` is `Fits` at the moment a descriptor's turn
comes. One lemma per action; two lemmas, `HandlerStep` and `ClientStep`, say what a step on one connection
and a step of a client leave alone. `OffsetsCountLifetimeHolds` supposes that no client sends a frame longer
than 4096, whose length the server reads without its body; then a request is two units.

`EventLoopProofs` also proves that the event loop implements `Session` (`ImplementsSession`), that replies come in order
(`RepliesInOrderHolds`) and that nobody is refused (`NeverRefusedHolds`) for any number of clients, under two
hypotheses neither of which can be dropped, as the findings show:

* `WholeRequests`: reads return whole frames, and they are requests that `parse_req` takes. Without it
  `loop_split` violates `NeverRefused`;
* `OneAsksMore`: of all clients one sends more than one request. Without it `loop_shared` violates
  `RepliesInOrder`. (`NeverRefusedHolds` does not need it: what is read into the common receive buffer is
  served before the next read, what waits in the common send buffer is not.)

The invariant has two stages. `RInv` is about requests: what is coming to a connection are the units of its client
from `in_end` on (`Streams`); what was read of it is consumed before another handler runs, and what
lies between `in_start` and `in_end` of the connection served are its units (`Consumed`); `poll` reports an error,
or something to read, only of a client that left or that sent something (`Truthful`), hence no `recv` of
nothing and no refusal closes a connection whose client is there. `SInv` adds the replies: those on the way and
those read (`Delivered`), those between `ot_start` and `ot_end` of *every* connection, in the one `send_buf`
(`Pending`), and that the first reply of every connection is written in the call that made it
(`FirstIsOut`). The last is why one client may ask more often: a client with one request writes at offset 0, where
nothing of another one waits. The refinement then takes each action to its step of `Session`.

`IHMapProofs` (for any pool, pairs of the caller's and strings, under `MapAssumption`): `TypeOK`, `FullIsNoRoom`
and `BreaksOnlyAt`. What is inductive is `TypeOK` with `NoneLost`: the elements of the array that are linked
or in the chain of free ones are exactly those given out so far. The
equivalence of `BreaksOnlyAt` is proved in both directions, call by call.

`HashSetProofs` (for any nodes, keys, hashes, first size, load, work of a call and width of the sizes, under
`SetAssumption`, which says of the nodes only that a `size_t` can count them): `TypeOK`,
`MigrationStaysInside`, `AnswersAreRight`, `SizeCountsCalls`, `EndsClean`. `MigrationStaysInside` is not inductive:
a `del` may count `prev` down below zero, and its size is then the largest number there is. What is
inductive is `Good`, by which a table with a size has a bucket that is not empty (`Held`), at or behind
`migrate_pos` in `prev`: no call empties a bucket, and `del` changes a size only of a table in which it found a
node (`Found`, `Uncounting`). A chain is a recursive function; `Chasing` and `ChainFacts` show, by the least
position where it could fail, that it is what one gets by following the links. `SizeCountsCalls` is the
arithmetic of `Sums`: what is added to `curr` modulo `SizeMod` was taken from `prev`. For `EndsClean`, what
`destroy_table` has left to free at a bucket is shown to be the number of members from there on (`SoundSweep`).

`BreaksOnlyAt` is proved in both directions. A node that is put in leaves the chains of other
buckets alone (`OtherBuckets`) and comes before what was in its own (`ItsBucket`). That this chain still ends within
`Cardinality(Node)` turns is the pigeonhole: a chain that ends meets no node twice (`OnceEach`), so without the new
node it was shorter (`EndsEarly`). What was `curr` before a growth still leads to nodes as `prev`
(`GrownUnsound`), what `del` found stays linked (`RemovedUnsound`), and what is put in twice is its own next
(`PutInTwice`).

The request format, in `KVStoreProofs` (for any base of at least 2, any width of a field, any limits whose
lengths have a field, any bytes behind a request and any streams, under `FormatAssumption`):

* `RequestsInvert`: `ParseInverts`, so `parse_req` takes exactly the bodies that `send_req` makes;
* `StreamsAreServed`: `ServesInOrder`, so a stream of requests, cut anywhere, is served in order.

Both are facts about functions of bytes, hence of every state. `Number` inverts `Field` because a quotient and a
remainder are unique (`Division`, `OneQuotient`): the digits of a number are those of its quotient by `Base` and
its remainder (`NumberOfField`, `FieldOfNumber`). The loop of `parse_req` is taken by its invariant in both
directions: over a body that `send_req` made, turn `i` stands behind the first `i` strings and has them
(`StrsTakes`); and after any `i` turns that refused nothing, the bytes passed are the strings of what came out
(`StrsFinds`), so that bytes which are taken to their very end are a body. A stream is the joining of its frames
(`Joins`): where a frame begins is the sum of the lengths before it (`JoinedParts`), and each frame is longer
than nothing (`JoinedLong`), so a cut falls into exactly one frame, or between two (`CutStream`). In front of
a whole frame `try_request` serves it (`TryServes`), in front of the beginning of one it waits
(`TryWaits`); `ServedIs` puts the turns together. That each loop has a value at all is `LoopExists`.

`SBTreeProofs` and `TSetProofs` (for any finite set of nodes, any keys, scores and bounds, under
`AddressAssumption`, `KeysAreNumbers` and `ScoresAreNumbers`), over the lemmas of `RBTreeProofs`:

* `WalkIsInOrderHolds`: in a sound tree, walking forwards from the least node, walking backwards, counting
  (`sbt_at`) and searching agree, whatever the size of the tree;
* `OnlyRemovalBreaks`: from a sound tree of any size, insertion leads to a sound tree, with the new node and no
  other; what is left to break it are the steps that take a node out, and other trees that leave `NILNODE`
  children or red;
* `BreaksOnlyInDelFixHolds`: the whole of `BreaksOnlyInDelFix`, for trees of any size: `rbt_delete` breaks a sound
  tree exactly where `DelFixFails` says, and even then every other node is in order below one of them; and other
  trees break it exactly when they leave the sentinel otherwise than `SentinelAsMade`;
* `LookupsAgreeHolds`: `ts_at` finds every member by its rank and `ts_seek` the first of any score members have;
* `RangeStaysInsideHolds`: only members of the range are listed, the first two right, and as many as announced
  where no two share a score.

The facts about what reads a tree hold of every state. `SearchTreeIsOrdered` turns `SearchTree`, which speaks of
what is below a node, into `Ordered`, which is the same for both sides (`Mirrored`), so that what is proved of
`sbt_walk_forw` holds of `sbt_walk_back` with the keys negated. Its strongest part is `Parted`: what is not below a
node comes before all that is, or after. From it, going down ends at the first node below (`DownIsFirst`), climbing at
the first after all that are below (`UpIsNext`), so one step of a walk is to the next key (`NeighbourIsNext`), which
has the next rank (`NextRank`); a walk of `i` steps is at rank `i` (`WalkUp`, `WalkDown`). For `sbt_at`, `Count` is what the
count comes to below a node, given where it begins, and `MeetsIsCount` shows that the code's recursion can only be
that. The same with the members of a set in the order of `Places`, by score and of one score the one in the tree
first, gives `ts_at` (`StepIsNext`, `WalkByPlace`) and `trange`: each line is along a chain or the jump from the
first line over its group (`OnwardByPlace`, `JumpByPlace`). That loops have a value at all is `LoopsExist`.

Insertion needs what a tree is *while* it is edited, with *root left behind and `Under` of no use. `Shaped` therefore
takes the root and what is below each node (`B`) as arguments, so that a step of the proof names them anew:
`ShapedIsSearchTree` and `SearchTreeIsShaped` go to `SearchTree` and back. `RotateFields` is what a rotation
writes, all its aliasing included, `TurnedIsShaped` that it keeps the order, with the child on top (`Pivot`), and
`TurnedCounts`, with `TurnedIsMild`, that with the colours swapped it keeps the number of black nodes on every way
down (`Even`) and makes no red node the child of a red one (`Mild`). The invariant of the loop of `rbt_fix` is `Fixing`:
all is well but that `x` may be a red node below a red one. A turn with a red uncle has it two levels up (`FixClimbs`),
one with a black uncle ends it (`FixRotates`, by `OuterFixes`, after one more rotation if `x` is an inner grandchild),
and as the part of the tree below `x` grows it ends (`FixLoops`). It is left with `Fixed`, in which *root may be one
level below the true root, where `BlackRoot` finds it. That the loop starts with `Fixing`: the search for a key that
is not there falls off where it belongs (`DescentFalls`), and a red leaf changes no count (`LeafIsEven`).

Removal is the same kind of argument with more cases, and an equivalence. Counting black nodes is made local by
giving every node a height (`Tall`; `TallExists`, `TallIsEven` go to the counts and back), so that only the
nodes an edit touches need a new one. *What is cut*: a node with one child gives its place to it
(`SplicedIsShaped`, `SplicedBelowRoot`), the next node is taken out from below (`NextTakenOut`) and takes the
place of the deleted one (`ReplacedIsShaped`), with all the aliasing of `sbt_detach` when that node is the right
child itself (`DetachFields`, `NextHung`); colours and heights move along (`CarriedTall`, `HealthySits`). In a
red-black tree an only child is a red leaf (`OnlyChildTakes`), so a black node that goes leaves a sentinel,
below a parent whose heights then differ by one: a `Gap`, or, seen from the repair, a `Hole` (`GapIsHole`).
*What `rbt_del_fix` does* (`DelFixLoops`): in the first turn the kin of a hole are leaves (`HoleHasKin`), so one
rotation (`OnceMended`) or two (`TwiceMended`) fill it, with *root left behind if the parent was the root
(`HoleOnce`, `HoleTwice`); a red sibling spoils it (`RedSiblingSpoils`); and with all black and a grandparent
the parent is even again but one too low (`SiblingReddened`), and the loop goes on from the *grandparent*. *Why
nothing mends that*: from there on some node is `Lopsided`, no heights fit, and every later turn rotates or
paints above it (`DriftHasKin`, `DriftTurns`, `DriftClimbs`), which leaves it so (`LopsidedStays`,
`SpunLopsided`); the loop ends because it climbs (`DriftIsLost`). So `HoleEnds` has each of the ways of
`DelFixFails` and no other, and `EveryDeletionEnds` says it of `rbt_delete`. No height fits a lopsided tree but
the one there is (`HeightIsOne`), which makes it unsound (`SpoiltIsUnsound`).

Only model-checked: liveness (`CallsEnd`, `Answered`, `DepartedAreReaped`), which the prover does not do under
fairness; `TSet!BreaksOnlyAt`, which needs the same with chains of equal scores instead of single nodes; and `TypeOK` of
`SBTree` and `TSet`: on a tree that `rbt_del_fix` has broken a loop may not end, and what a recursive function is
there is undetermined, so that a proof would have to show which broken trees arise.

## 5. Not modelled, and why

* `HashMap` (`kvt_hash_t.h:132-187`): its destruction deletes, as nodes of their own, elements of its vector, and the
  vector moves them when it grows past 16. What its calls do before that is what `HashSet` does.
* `ts_walk` backwards: only a negative offset of `ts_at` would call it, which its first assertion refuses
  (`RangeAnswer`: "aborted"). `rotate_lr`, `rotate_rl`: nothing calls them.
* The write past the 4096 bytes of a buffer and past the 16384th object: what follows is undefined. The
  model has the offsets and, for objects, the death of the process.
* A broken tree elsewhere that goes on through `NILNODE` into nodes of another tree, and other sets beside the one
  of `TSet`.
* `strtod` reading past a view, uninitialised bounds of `trange`: data, not control.
* A read that returns more than one buffer holds, a `poll` that fails, `stop()`.
* `init`, `make_listener`, signals: a sequence of system calls before the loop. `brecv`, `bsend`, `Connect`,
  `setPeerAddr`: nothing calls them. Formatting but for whether it ends.

## 6. Plan

1. Done: hash set with its abstraction, event loop and `Session`, request format, tree, sorted set, key
   space, `HashSet`, `IHMap`; the theorems above.
2. `KVStore` over `IHSet` itself instead of its promise, so that `LookupDies` becomes the fault of the
   migration: by the theorem `ImplementsIndex` it adds nothing to what is checked but the moment of that
   fault, and it comes last.
