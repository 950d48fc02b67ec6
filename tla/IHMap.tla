--------------------------------- MODULE IHMap ---------------------------------
(***************************************************************************)
(* IntrusiveHashMap, src/src/kvt_map.{h,cpp}: a map from strings to strings over the    *)
(* hash set of IHSet, whose promise is HashIndex.  Its pairs are elements of the array   *)
(* m_elts, given out in order and then again from a stack of those that were removed,    *)
(* or pairs of the caller's that insert links where they are.  No command uses it.       *)
(*                                                                          *)
(* The caller is part of the model: the string it passes by reference, and its pairs.   *)
(***************************************************************************)
EXTENDS Integers, FiniteSets, SequencesExt

CONSTANTS Str,     (* the strings callers use, as keys or as values                   *)
          Empty,   (* "": one of them                                             *)
          MaxElts, (* MAX_IMP_ELTS: 1024 * 16                                      *)
          Pair,    (* pairs of the caller's                                        *)
          None     (* no pair                                                    *)

(* The elements of m_elts, and the place behind the last of them.                        *)
Elt == 0 .. (MaxElts - 1)
Cell == Elt \cup {MaxElts} \cup Pair

ASSUME MapAssumption ==
  /\ Empty \in Str /\ MaxElts \in Nat
  /\ Pair \cap (0 .. MaxElts) = {} /\ None \notin Cell

VARIABLES pair,           (* key and val at every cell, and whether node.hval is the     *)
                          (* key's hash                                         *)
          linked,         (* the cells whose node is in m_table                      *)
          free_list,      (* top first                                           *)
          positions_used,
          nil,            (* the string every missing key reads as                    *)
          key,            (* the caller's string                                  *)
          named,          (* history: what the caller last put in it                   *)
          process         (* "up", "dead" in the hash set, "overrun": free_list was     *)
                          (* built over, "corrupt": a linked node was                 *)

map == <<linked, free_list, positions_used>>
vars == <<pair, map, nil, key, named, process>>

-----------------------------------------------------------------------------
get_size == Cardinality(linked)
is_full == get_size = MaxElts

Matches(k) == {c \in linked : pair[c].key = k}

(* What ihs_find and ihs_del may answer: a pair whose hash was not computed lies in any    *)
(* bucket, and is found if that is the key's.                                       *)
Answers(k) == Matches(k) \cup (IF \E c \in Matches(k) : pair[c].hashed THEN {} ELSE {None})

(* A call of the hash set may end the process (HashIndex!Die).                          *)
Lives == process' \in {"up", "dead"}

(* The caller writes the string it will pass.                                       *)
Name(k) ==
  /\ key' = k /\ named' = k
  /\ UNCHANGED <<pair, map, nil, process>>

(* find swaps the caller's key into a local and does not swap it back.                   *)
Find ==
  /\ key' = Empty
  /\ Lives
  /\ UNCHANGED <<pair, map, nil, named>>

(* m[key] = v: operator[] gives a reference to the value, or to the one nil there is.     *)
Assign(v) ==
  /\ \E c \in Answers(key) :
       IF c = None THEN nil' = v /\ UNCHANGED pair
       ELSE pair' = [pair EXCEPT ![c].val = v] /\ UNCHANGED nil
  /\ Lives
  /\ UNCHANGED <<map, key, named>>

NoRoom == free_list = <<>> /\ positions_used = MaxElts

(* The place emplace builds in: the element removed last, or the next of the array.  Behind  *)
(* the array lies free_list: where a pair was built over it, it reads as a stack whose top  *)
(* is no pair.                                                                    *)
Taken(c) ==
  IF free_list # <<>>
  THEN c = Head(free_list) /\ free_list' = Tail(free_list) /\ UNCHANGED positions_used
  ELSE /\ c = positions_used /\ positions_used' = positions_used + 1
       /\ free_list' = IF NoRoom THEN <<None>> ELSE <<>>

(* emplace, and insert(iHMPair&&), which calls it.  Nobody asks is_full.                  *)
emplace(k, v) ==
  \E c \in Cell :
    /\ Taken(c)
    /\ pair' = [pair EXCEPT ![c] = [key |-> k, val |-> v, hashed |-> TRUE]]
    /\ linked' = linked \cup {c}
    /\ CASE NoRoom -> process' = "overrun"
         [] ~ NoRoom /\ c \in linked -> process' = "corrupt"
         [] OTHER -> Lives
    /\ UNCHANGED <<nil, key, named>>

(* The caller fills a pair of its own, and its hash or not.                             *)
Fill(c, k, v, hashed) ==
  /\ c \in Pair \ linked
  /\ pair' = [pair EXCEPT ![c] = [key |-> k, val |-> v, hashed |-> hashed]]
  /\ UNCHANGED <<map, nil, key, named, process>>

(* insert(iHMPair&) of a pair that is not linked: its own, or one that remove returned.    *)
Insert(c) ==
  /\ c \in (Pair \cup ToSet(free_list)) \ linked
  /\ linked' = linked \cup {c}
  /\ Lives
  /\ UNCHANGED <<pair, free_list, positions_used, nil, key, named>>

(* Wrong, the first: the element is not given back; the second: what was found is not    *)
(* looked at.                                                                    *)
remove_Keep ==
  /\ \E c \in Answers(key) : linked' = linked \ {c}
  /\ Lives
  /\ UNCHANGED <<pair, free_list, positions_used, nil, key, named>>
remove_PushNull ==
  /\ \E c \in Answers(key) : linked' = linked \ {c} /\ free_list' = <<c>> \o free_list
  /\ Lives
  /\ UNCHANGED <<pair, positions_used, nil, key, named>>

(* Either remove: what was found is free for emplace, whoever's it is.                   *)
remove ==
  /\ \E c \in Answers(key) :
       /\ linked' = linked \ {c}
       /\ free_list' = IF c = None THEN free_list ELSE <<c>> \o free_list
  /\ Lives
  /\ UNCHANGED <<pair, positions_used, nil, key, named>>

(* Wrong: the stack is kept.                                                        *)
clear_KeepFree ==
  /\ linked' = {} /\ positions_used' = 0
  /\ UNCHANGED <<pair, free_list, nil, key, named, process>>

clear ==
  /\ linked' = {} /\ free_list' = <<>> /\ positions_used' = 0
  /\ UNCHANGED <<pair, nil, key, named, process>>

Init ==
  /\ pair = [c \in Cell |-> [key |-> Empty, val |-> Empty, hashed |-> FALSE]]
  /\ linked = {} /\ free_list = <<>> /\ positions_used = 0
  /\ nil = Empty
  /\ key = Empty /\ named = Empty
  /\ process = "up"

Next ==
  /\ process = "up"
  /\ \/ \E k \in Str : Name(k)
     \/ \E v \in Str : Assign(v)
     \/ \E k, v \in Str : \/ emplace(k, v)
                          \/ \E c \in Pair, hashed \in BOOLEAN : Fill(c, k, v, hashed)
     \/ \E c \in Cell : Insert(c)
     \/ Find \/ remove \/ clear

Spec == Init /\ [][Next]_vars

-----------------------------------------------------------------------------
TypeOK ==
  /\ pair \in [Cell -> [key : Str, val : Str, hashed : BOOLEAN]]
  /\ linked \subseteq Cell
  /\ IF process = "overrun" THEN free_list = <<None>> /\ positions_used = MaxElts + 1
     ELSE free_list \in Seq(Cell) /\ positions_used \in 0 .. MaxElts
  /\ {nil, key, named} \subseteq Str
  /\ process \in {"up", "dead", "overrun", "corrupt"}

Free == ToSet(free_list)

(* What is free for emplace is not in the map, and is there once.                         *)
FreeIsFree ==
  /\ \A i, j \in DOMAIN free_list : free_list[i] = free_list[j] => i = j
  /\ Free \cap linked = {}

(* What was given out is in the map or free, and all of it lies within the array.           *)
PoolIsSound ==
  /\ FreeIsFree
  /\ Free \cup (linked \ Pair) = 0 .. (positions_used - 1)
  /\ positions_used <= MaxElts

(* What a caller of a map takes for granted besides: what is linked can be found, a missing   *)
(* key reads as "", and its own string is as it left it.                                *)
Sound ==
  /\ PoolIsSound
  /\ \A c \in linked : pair[c].hashed
  /\ nil = Empty
  /\ key = named

(* The calls that break it: find, unless the key is empty; an assignment to a missing key;   *)
(* the insertion of a pair without its hash, or of one that remove returned; the removal   *)
(* of a pair of the caller's; emplace without room.                                    *)
Risky ==
  \/ Find /\ named # Empty
  \/ \E v \in Str : Matches(key) = {} /\ v # Empty /\ Assign(v)
  \/ \E c \in Cell : Insert(c) /\ (c \in Free \/ ~ pair[c].hashed)
  \/ remove /\ \E c \in Pair : c \in linked \ linked'
  \/ \E k, v \in Str : NoRoom /\ emplace(k, v)

(* Each of them does, and no other call does, in any order; and from a sound map emplace     *)
(* does not build over a pair that is linked.                                         *)
BreaksOnlyAt ==
  [][Sound => process' # "corrupt" /\ (Sound' <=> ~ Risky)]_vars

(* emplace builds past m_elts exactly when is_full says there is no room: no removal loses   *)
(* an element.  That is so as long as no pair of the caller's is about, with which is_full   *)
(* says it too early, or never, and no element is both linked and free, or free twice.     *)
FullIsNoRoom ==
  FreeIsFree /\ (linked \cup Free) \cap Pair = {} => (is_full <=> NoRoom)
=============================================================================
