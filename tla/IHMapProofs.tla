------------------------------ MODULE IHMapProofs ------------------------------
(***************************************************************************)
(* IntrusiveHashMap, for any strings, any pairs of the caller's and an array of any      *)
(* length: its types, what is_full says, and which calls break a sound map.             *)
(***************************************************************************)
EXTENDS IHMap, FiniteSetTheorems, SequenceTheorems, TLAPS

(* No element that was given out is lost: it is in the map, or free.  FullIsNoRoom counts   *)
(* on it; it holds in maps that are not sound, too.                                     *)
NoneLost == (linked \cup Free) \ (Pair \cup {None}) = 0 .. (positions_used - 1)

IInv == TypeOK /\ NoneLost

(* BreaksOnlyAt, of one step.                                                       *)
BreaksOnlyAtStep == Sound => process' # "corrupt" /\ (Sound' <=> ~ Risky)

-----------------------------------------------------------------------------
(* The stack of free elements.                                                      *)

Distinct(s) == \A i, j \in DOMAIN s : s[i] = s[j] => i = j

LEMMA EmptyStack ==
  ToSet(<<>>) = {} /\ Distinct(<<>>)
  BY DEF ToSet, Distinct

(* What emplace leaves of the stack where it was built over.                             *)
LEMMA LostStack ==
  ToSet(<<None>>) = {None} /\ Distinct(<<None>>)
  BY DEF ToSet, Distinct

LEMMA Pushed ==
  ASSUME NEW S, NEW s \in Seq(S), NEW c \in S
  PROVE  /\ <<c>> \o s \in Seq(S)
         /\ ToSet(<<c>> \o s) = {c} \cup ToSet(s)
         /\ Distinct(s) /\ c \notin ToSet(s) => Distinct(<<c>> \o s)
<1> DEFINE t == <<c>> \o s
<1>1. /\ t \in Seq(S) /\ Len(t) = Len(s) + 1 /\ t[1] = c
      /\ \A i \in 1 .. Len(s) : t[i + 1] = s[i]
      /\ \A i \in 2 .. Len(t) : t[i] = s[i - 1]
  BY ConcatProperties
<1>2. DOMAIN t = 1 .. Len(t) /\ DOMAIN s = 1 .. Len(s) /\ Len(s) \in Nat
  BY <1>1, LenProperties
<1> HIDE DEF t
<1>3. /\ \A i \in DOMAIN t : i = 1 \/ (i \in 2 .. Len(t) /\ i - 1 \in DOMAIN s)
      /\ 1 \in DOMAIN t /\ \A i \in DOMAIN s : i + 1 \in DOMAIN t
  BY <1>1, <1>2
<1>4. ToSet(t) = {c} \cup ToSet(s)
  <2>1. \A i \in DOMAIN t : t[i] = c \/ \E j \in DOMAIN s : t[i] = s[j]
    BY <1>1, <1>3
  <2>2. \A j \in DOMAIN s : \E i \in DOMAIN t : t[i] = s[j]
    BY <1>1, <1>2, <1>3
  <2>3. \E i \in DOMAIN t : t[i] = c
    BY <1>1, <1>3
  <2> QED
    BY <2>1, <2>2, <2>3 DEF ToSet
<1>5. ASSUME Distinct(s), c \notin ToSet(s)
      PROVE  Distinct(t)
  <2>1. \A i \in DOMAIN s : s[i] # c
    BY <1>5 DEF ToSet
  <2>2. \A i, j \in DOMAIN t : t[i] = t[j] => i = j
    BY <1>1, <1>2, <1>3, <1>5, <2>1 DEF Distinct
  <2> QED
    BY <2>2 DEF Distinct
<1> QED
  BY <1>1, <1>4, <1>5 DEF t

LEMMA Popped ==
  ASSUME NEW S, NEW s \in Seq(S), s # <<>>
  PROVE  /\ Head(s) \in S /\ Tail(s) \in Seq(S)
         /\ ToSet(s) = {Head(s)} \cup ToSet(Tail(s))
         /\ Distinct(s) => Distinct(Tail(s)) /\ Head(s) \notin ToSet(Tail(s))
<1> DEFINE t == Tail(s)
<1>1. /\ Head(s) \in S /\ t \in Seq(S) /\ Len(t) = Len(s) - 1 /\ Head(s) = s[1]
      /\ \A i \in 1 .. Len(t) : t[i] = s[i + 1]
  BY HeadTailProperties
<1>2. DOMAIN t = 1 .. Len(t) /\ DOMAIN s = 1 .. Len(s) /\ Len(s) \in Nat \ {0}
  BY <1>1, LenProperties, EmptySeq
<1> HIDE DEF t
<1>3. /\ \A i \in DOMAIN s : i = 1 \/ (i - 1 \in DOMAIN t /\ t[i - 1] = s[i])
      /\ 1 \in DOMAIN s
      /\ \A i \in DOMAIN t : i + 1 \in DOMAIN s /\ i + 1 # 1 /\ t[i] = s[i + 1]
  BY <1>1, <1>2
<1>4. ToSet(s) = {Head(s)} \cup ToSet(t)
  <2>1. \A i \in DOMAIN s : s[i] = Head(s) \/ \E j \in DOMAIN t : s[i] = t[j]
    BY <1>1, <1>3
  <2>2. \A j \in DOMAIN t : \E i \in DOMAIN s : s[i] = t[j]
    BY <1>3
  <2>3. \E i \in DOMAIN s : s[i] = Head(s)
    BY <1>1, <1>3
  <2> QED
    BY <2>1, <2>2, <2>3 DEF ToSet
<1>5. ASSUME Distinct(s)
      PROVE  Distinct(t) /\ Head(s) \notin ToSet(t)
  <2>1. \A i \in DOMAIN t : t[i] # s[1]
    BY <1>3, <1>5 DEF Distinct
  <2>2. ASSUME NEW i \in DOMAIN t, NEW j \in DOMAIN t, t[i] = t[j]
        PROVE  i = j
    <3>1. i + 1 = j + 1
      BY <1>3, <1>5, <2>2 DEF Distinct
    <3> QED
      BY <1>2, <3>1
  <2> QED
    BY <1>1, <2>1, <2>2 DEF Distinct, ToSet
<1> QED
  BY <1>1, <1>4, <1>5 DEF t

-----------------------------------------------------------------------------
(* Cells and what is found.                                                         *)

LEMMA CellFacts ==
  /\ Elt = 0 .. (MaxElts - 1) /\ Cell = Elt \cup {MaxElts} \cup Pair
  /\ \A p \in 0 .. MaxElts : p \notin Pair
  /\ None \notin Cell /\ Empty \in Str /\ MaxElts \in Nat
  BY MapAssumption DEF Elt, Cell

LEMMA AnswerFacts ==
  ASSUME TypeOK, NEW c \in Answers(key)
  PROVE  c = None \/ (c \in linked /\ c \in Cell /\ c # None)
  BY CellFacts DEF Answers, Matches, TypeOK

(* The element that emplace takes is the top of the stack, or the first that was never     *)
(* given out.                                                                     *)
LEMMA TakenFacts ==
  ASSUME IInv, process = "up", ~ NoRoom, NEW c \in Cell, Taken(c)
  PROVE  /\ free_list' \in Seq(Cell) /\ positions_used' \in 0 .. MaxElts
         /\ \/ /\ positions_used' = positions_used
               /\ Free = {c} \cup Free'
               /\ Distinct(free_list) => Distinct(free_list') /\ c \notin Free'
            \/ /\ c = positions_used /\ c \in Elt /\ c \notin linked \cup Free
               /\ positions_used' = positions_used + 1 /\ free_list' = free_list
<1>1. free_list \in Seq(Cell) /\ positions_used \in 0 .. MaxElts
  BY DEF IInv, TypeOK
<1>2. CASE free_list # <<>>
  BY <1>1, <1>2, Popped DEF Taken, Free
<1>3. CASE free_list = <<>>
  <2>1. /\ c = positions_used /\ positions_used' = positions_used + 1 /\ free_list' = free_list
    BY <1>3 DEF Taken
  <2>2. c \notin Pair /\ c # None /\ c # MaxElts
    BY <1>1, <1>3, <2>1, CellFacts DEF NoRoom
  <2>3. c \in Elt /\ c \notin 0 .. (positions_used - 1) /\ positions_used + 1 \in 0 .. MaxElts
    BY <1>1, <2>1, <2>2, CellFacts
  <2>4. c \notin linked \cup Free
    BY <2>2, <2>3 DEF IInv, NoneLost
  <2> QED
    BY <1>1, <2>1, <2>3, <2>4
<1> QED
  BY <1>2, <1>3

-----------------------------------------------------------------------------
(* The invariant.                                                                  *)

LEMMA InitInv ==
  ASSUME Init
  PROVE  IInv
<1>1. TypeOK
  BY CellFacts, EmptySeq DEF Init, TypeOK
<1>2. NoneLost
  BY EmptyStack DEF Init, NoneLost, Free
<1> QED
  BY <1>1, <1>2 DEF IInv

(* emplace, of the place it took.                                                     *)
Emplaced(c, k, v) ==
  /\ Taken(c)
  /\ pair' = [pair EXCEPT ![c] = [key |-> k, val |-> v, hashed |-> TRUE]]
  /\ linked' = linked \cup {c}
  /\ NoRoom => process' = "overrun"
  /\ ~ NoRoom => IF c \in linked THEN process' = "corrupt" ELSE Lives
  /\ UNCHANGED <<nil, key, named>>

LEMMA EmplaceIs ==
  ASSUME NEW k, NEW v, emplace(k, v)
  PROVE  \E c \in Cell : Emplaced(c, k, v)
  BY DEF emplace, Emplaced

(* Without room the pair is built behind the array, and the stack is lost.                  *)
LEMMA OverrunFacts ==
  ASSUME IInv, process = "up", NoRoom, NEW k \in Str, NEW v \in Str,
         NEW c \in Cell, Emplaced(c, k, v)
  PROVE  TypeOK' /\ NoneLost' /\ positions_used' = MaxElts + 1 /\ process' = "overrun"
<1>1. /\ c = MaxElts /\ positions_used' = MaxElts + 1 /\ free_list' = <<None>>
      /\ process' = "overrun" /\ linked' = linked \cup {MaxElts}
  BY DEF Emplaced, Taken, NoRoom
<1>2. TypeOK'
  <2>1. pair' \in [Cell -> [key : Str, val : Str, hashed : BOOLEAN]]
    BY DEF Emplaced, IInv, TypeOK
  <2> QED
    BY <1>1, <2>1 DEF Emplaced, IInv, TypeOK
<1>3. NoneLost'
  <2>1. linked \ (Pair \cup {None}) = 0 .. (MaxElts - 1)
    BY EmptyStack DEF IInv, NoneLost, NoRoom, Free
  <2>2. Free' = {None} /\ MaxElts \notin Pair \cup {None}
    BY <1>1, LostStack, CellFacts DEF Free
  <2>3. 0 .. (positions_used' - 1) = (0 .. (MaxElts - 1)) \cup {MaxElts}
    BY <1>1, CellFacts
  <2> QED
    BY <1>1, <2>1, <2>2, <2>3 DEF NoneLost
<1> QED
  BY <1>1, <1>2, <1>3

LEMMA EmplaceInv ==
  ASSUME IInv, process = "up", NEW k \in Str, NEW v \in Str, emplace(k, v)
  PROVE  IInv'
<1> PICK c \in Cell : Emplaced(c, k, v)
  BY EmplaceIs
<1>1. CASE NoRoom
  BY <1>1, OverrunFacts DEF IInv
<1>2. CASE ~ NoRoom
  <2>1. TypeOK'
    <3>1. pair' \in [Cell -> [key : Str, val : Str, hashed : BOOLEAN]]
      BY DEF IInv, TypeOK, Emplaced
    <3>2. process' \in {"up", "dead", "overrun", "corrupt"}
      BY <1>2 DEF Lives, Emplaced
    <3> QED
      BY <1>2, <3>1, <3>2, TakenFacts DEF IInv, TypeOK, Emplaced, Lives
  <2>2. NoneLost'
    <3>1. CASE positions_used' = positions_used /\ Free = {c} \cup Free'
      BY <1>2, <3>1 DEF IInv, NoneLost, Emplaced
    <3>2. CASE /\ c = positions_used /\ c \in Elt
               /\ positions_used' = positions_used + 1 /\ free_list' = free_list
      <4>1. Free' = Free /\ c \notin Pair /\ positions_used \in Nat
        BY <3>2, CellFacts DEF Free, IInv, TypeOK
      <4>2. 0 .. (positions_used' - 1) = (0 .. (positions_used - 1)) \cup {c}
        BY <3>2, <4>1
      <4> QED
        BY <1>2, <4>1, <4>2, CellFacts DEF IInv, NoneLost, Emplaced
    <3> QED
      BY <1>2, <3>1, <3>2, TakenFacts DEF Emplaced
  <2> QED
    BY <2>1, <2>2 DEF IInv
<1> QED
  BY <1>1, <1>2

LEMMA RemoveInv ==
  ASSUME IInv, process = "up", remove
  PROVE  IInv'
<1>1. PICK c \in Answers(key) :
        /\ linked' = linked \ {c}
        /\ free_list' = IF c = None THEN free_list ELSE <<c>> \o free_list
  BY DEF remove
<1>2. Lives /\ UNCHANGED <<pair, positions_used, nil, key, named>>
  BY DEF remove
<1>3. free_list \in Seq(Cell)
  BY DEF IInv, TypeOK
<1>4. free_list' \in Seq(Cell) /\ linked' \cup Free' = linked \cup Free
  <2>1. CASE c = None
    BY <1>1, <1>3, <2>1, CellFacts DEF IInv, TypeOK, Free
  <2>2. CASE c # None
    <3>1. c \in linked /\ c \in Cell
      BY <2>2, AnswerFacts DEF IInv
    <3>2. Free' = {c} \cup Free
      BY <1>1, <1>3, <2>2, <3>1, Pushed DEF Free
    <3> QED
      BY <1>1, <1>3, <2>2, <3>1, <3>2, Pushed
  <2> QED
    BY <2>1, <2>2
<1> QED
  BY <1>1, <1>2, <1>4 DEF IInv, TypeOK, NoneLost, Lives

LEMMA AssignInv ==
  ASSUME IInv, process = "up", NEW v \in Str, Assign(v)
  PROVE  IInv'
<1>1. /\ nil' \in Str /\ Lives /\ UNCHANGED <<map, key, named>>
      /\ pair' \in [Cell -> [key : Str, val : Str, hashed : BOOLEAN]]
  BY DEF IInv, TypeOK, Assign
<1> QED
  BY <1>1 DEF IInv, TypeOK, NoneLost, Free, Lives, map

LEMMA FillInv ==
  ASSUME IInv, process = "up", NEW k \in Str, NEW v \in Str, NEW c \in Pair, NEW hashed \in BOOLEAN,
         Fill(c, k, v, hashed)
  PROVE  IInv'
<1>1. pair' \in [Cell -> [key : Str, val : Str, hashed : BOOLEAN]]
  BY DEF IInv, TypeOK, Fill
<1> QED
  BY <1>1 DEF IInv, TypeOK, NoneLost, Free, Fill, map

(* A pair that is inserted is the caller's, or free already.                               *)
LEMMA InsertInv ==
  ASSUME IInv, process = "up", NEW c \in Cell, Insert(c)
  PROVE  IInv'
<1>1. /\ c \in Pair \cup Free /\ linked' = linked \cup {c} /\ Lives
      /\ UNCHANGED <<pair, free_list, positions_used, nil, key, named>>
  BY DEF Insert, Free
<1>2. (linked' \cup Free') \ Pair = (linked \cup Free) \ Pair
  BY <1>1 DEF Free
<1> QED
  BY <1>1, <1>2 DEF IInv, TypeOK, NoneLost, Lives

LEMMA OtherInv ==
  ASSUME IInv, process = "up", \/ \E k \in Str : Name(k)
               \/ Find \/ clear
  PROVE  IInv'
<1>1. CASE \E k \in Str : Name(k)
  BY <1>1 DEF IInv, TypeOK, NoneLost, Free, Name, map
<1>2. CASE Find
  BY <1>2, CellFacts DEF IInv, TypeOK, NoneLost, Free, Find, Lives, map
<1>3. CASE clear
  BY <1>3, CellFacts, EmptyStack, EmptySeq DEF IInv, TypeOK, NoneLost, Free, clear
<1> QED
  BY <1>1, <1>2, <1>3

LEMMA NextInv ==
  ASSUME IInv, [Next]_vars
  PROVE  IInv'
<1>1. CASE Next
  BY <1>1, EmplaceInv, RemoveInv, AssignInv, FillInv, InsertInv, OtherInv DEF Next
<1>2. CASE UNCHANGED vars
  BY <1>2 DEF IInv, TypeOK, NoneLost, Free, vars, map
<1> QED
  BY <1>1, <1>2

(* No element is lost and everything keeps its type, whatever the caller does.               *)
THEOREM Invariance == Spec => []IInv
<1>1. Init => IInv
  BY InitInv
<1>2. IInv /\ [Next]_vars => IInv'
  BY NextInv
<1> QED
  BY <1>1, <1>2, PTL DEF Spec

-----------------------------------------------------------------------------
(* What a step does to a sound map.                                                     *)

LEMMA SoundFacts ==
  ASSUME IInv, process = "up", Sound
  PROVE  /\ Distinct(free_list) /\ Free \cap linked = {} /\ Free \cap Pair = {}
         /\ Free \cup (linked \ Pair) = 0 .. (positions_used - 1)
         /\ positions_used <= MaxElts
         /\ \A c \in linked : pair[c].hashed
         /\ nil = Empty /\ key = named
         /\ \A c \in Answers(key) : c = None <=> Matches(key) = {}
<1>1. Free \cap Pair = {}
  BY CellFacts DEF IInv, TypeOK, Sound, PoolIsSound
<1>2. \A c \in Answers(key) : c = None <=> Matches(key) = {}
  BY CellFacts DEF IInv, TypeOK, Sound, Answers, Matches
<1> QED
  BY <1>1, <1>2 DEF Sound, PoolIsSound, FreeIsFree, Distinct

LEMMA SoundIs ==
  ASSUME Distinct(free_list'), Free' \cap linked' = {},
         Free' \cup (linked' \ Pair) = 0 .. (positions_used' - 1),
         positions_used' <= MaxElts,
         \A c \in linked' : pair'[c].hashed, nil' = Empty, key' = named'
  PROVE  Sound'
  BY DEF Sound, PoolIsSound, FreeIsFree, Distinct

(* The risky calls break it.                                                         *)
LEMMA RiskyBreaks ==
  ASSUME IInv, IInv', process = "up", Sound, Risky
  PROVE  ~ Sound'
<1>1. CASE Find /\ named # Empty
  BY <1>1 DEF Find, Sound
<1>2. ASSUME NEW v \in Str, Matches(key) = {}, v # Empty, Assign(v)
      PROVE  ~ Sound'
  <2>1. nil' = v
    BY <1>2, SoundFacts DEF Assign
  <2> QED
    BY <1>2, <2>1 DEF Sound
<1>3. ASSUME NEW c \in Cell, Insert(c), c \in Free \/ ~ pair[c].hashed
      PROVE  ~ Sound'
  BY <1>3 DEF Insert, Sound, PoolIsSound, FreeIsFree, Free
<1>4. ASSUME remove, NEW c \in Pair, c \in linked \ linked'
      PROVE  ~ Sound'
  <2>1. PICK d \in Answers(key) :
          /\ linked' = linked \ {d}
          /\ free_list' = IF d = None THEN free_list ELSE <<d>> \o free_list
    BY <1>4 DEF remove
  <2>2. d = c /\ c \in Cell /\ c # None
    BY <1>4, <2>1, CellFacts DEF IInv, TypeOK
  <2>3. c \in Free'
    BY <2>1, <2>2, Pushed DEF IInv, TypeOK, Free
  <2> QED
    BY <2>3, SoundFacts, CellFacts DEF IInv, TypeOK, Sound, PoolIsSound
<1>5. ASSUME NEW k \in Str, NEW v \in Str, NoRoom, emplace(k, v)
      PROVE  ~ Sound'
  <2>1. PICK c \in Cell : Emplaced(c, k, v)
    BY <1>5, EmplaceIs
  <2>2. positions_used' = MaxElts + 1
    BY <1>5, <2>1, OverrunFacts
  <2> QED
    BY <2>2, CellFacts DEF Sound, PoolIsSound
<1> QED
  BY <1>1, <1>2, <1>3, <1>4, <1>5 DEF Risky

(* No other call does.                                                               *)
LEMMA EmplaceKeeps ==
  ASSUME IInv, process = "up", Sound, NEW k \in Str, NEW v \in Str, emplace(k, v)
  PROVE  process' # "corrupt" /\ (Sound' \/ NoRoom)
<1> PICK c \in Cell : Emplaced(c, k, v)
  BY EmplaceIs
<1>1. CASE NoRoom
  BY <1>1, OverrunFacts
<1>2. CASE ~ NoRoom
  <2>1. \A d \in linked' : pair'[d].hashed
    BY SoundFacts DEF IInv, TypeOK, Emplaced
  <2>2. /\ c \notin linked /\ c \notin Pair /\ Distinct(free_list')
        /\ Free' \cap linked' = {} /\ Free' \cup (linked' \ Pair) = 0 .. (positions_used' - 1)
    <3>1. CASE /\ positions_used' = positions_used
               /\ Free = {c} \cup Free'
               /\ Distinct(free_list) => Distinct(free_list') /\ c \notin Free'
      BY <1>2, <3>1, SoundFacts DEF Emplaced
    <3>2. CASE /\ c = positions_used /\ c \in Elt /\ c \notin linked \cup Free
               /\ positions_used' = positions_used + 1 /\ free_list' = free_list
      <4>1. Free' = Free /\ c \notin Pair /\ positions_used \in Nat
        BY <3>2, CellFacts DEF Free, IInv, TypeOK
      <4>2. 0 .. (positions_used' - 1) = (0 .. (positions_used - 1)) \cup {c}
        BY <3>2, <4>1
      <4> QED
        BY <1>2, <3>2, <4>1, <4>2, SoundFacts DEF Emplaced
    <3> QED
      BY <1>2, <3>1, <3>2, TakenFacts DEF Emplaced
  <2>3. process' # "corrupt"
    BY <1>2, <2>2 DEF Lives, Emplaced
  <2>4. positions_used' <= MaxElts
    BY <1>2, TakenFacts DEF Emplaced
  <2> QED
    BY <1>2, <2>1, <2>2, <2>3, <2>4, SoundFacts, SoundIs DEF Emplaced
<1> QED
  BY <1>1, <1>2

LEMMA RemoveKeeps ==
  ASSUME IInv, process = "up", Sound, remove, ~ Risky
  PROVE  Sound' /\ process' # "corrupt"
<1>1. PICK c \in Answers(key) :
        /\ linked' = linked \ {c}
        /\ free_list' = IF c = None THEN free_list ELSE <<c>> \o free_list
  BY DEF remove
<1>2. Lives /\ UNCHANGED <<pair, positions_used, nil, key, named>>
  BY DEF remove
<1>3. CASE c = None
  <2>1. linked' = linked /\ free_list' = free_list
    BY <1>1, <1>3, CellFacts DEF IInv, TypeOK
  <2> QED
    BY <1>2, <2>1 DEF Sound, PoolIsSound, FreeIsFree, Free, Lives
<1>4. CASE c # None
  <2>1. c \in linked /\ c \in Cell /\ c \notin Free
    BY <1>4, AnswerFacts, SoundFacts DEF IInv
  <2>2. c \notin Pair
    BY <1>1, <2>1 DEF Risky
  <2>3. Free' = {c} \cup Free /\ Distinct(free_list')
    BY <1>1, <1>4, <2>1, SoundFacts, Pushed DEF IInv, TypeOK, Free
  <2>4. Free' \cap linked' = {} /\ Free' \cup (linked' \ Pair) = 0 .. (positions_used' - 1)
    BY <1>1, <1>2, <2>1, <2>2, <2>3, SoundFacts
  <2> QED
    BY <1>1, <1>2, <2>3, <2>4, SoundFacts, SoundIs DEF Lives
<1> QED
  BY <1>3, <1>4

LEMMA AssignKeeps ==
  ASSUME IInv, process = "up", Sound, NEW v \in Str, Assign(v), ~ Risky
  PROVE  Sound' /\ process' # "corrupt"
<1>1. Lives /\ UNCHANGED <<map, key, named>>
  BY DEF Assign
<1>2. nil' = Empty
  BY SoundFacts DEF Assign, Risky
<1>3. \A c \in linked : pair'[c].hashed
  <2>1. PICK c \in Answers(key) : IF c = None THEN pair' = pair
                                ELSE pair' = [pair EXCEPT ![c].val = v]
    BY DEF Assign
  <2> QED
    BY <2>1, SoundFacts DEF IInv, TypeOK
<1> QED
  BY <1>1, <1>2, <1>3, SoundFacts DEF Sound, PoolIsSound, FreeIsFree, Free, map, Lives

LEMMA OtherKeeps ==
  ASSUME IInv, process = "up", Sound, ~ Risky,
         \/ \E k \in Str : Name(k)
         \/ \E k, v \in Str : \E c \in Pair, hashed \in BOOLEAN : Fill(c, k, v, hashed)
         \/ \E c \in Cell : Insert(c)
         \/ Find \/ clear
  PROVE  Sound' /\ (process' = "corrupt" => process = "corrupt")
<1>1. CASE \E k \in Str : Name(k)
  BY <1>1 DEF Sound, PoolIsSound, FreeIsFree, Free, Name, map
<1>2. ASSUME NEW k \in Str, NEW v \in Str, NEW c \in Pair, NEW hashed \in BOOLEAN,
             Fill(c, k, v, hashed)
      PROVE  Sound' /\ (process' = "corrupt" => process = "corrupt")
  <2>1. \A d \in linked : pair'[d] = pair[d]
    BY <1>2 DEF IInv, TypeOK, Fill
  <2> QED
    BY <1>2, <2>1 DEF Sound, PoolIsSound, FreeIsFree, Free, Fill, map
<1>3. ASSUME NEW c \in Cell, Insert(c)
      PROVE  Sound' /\ (process' = "corrupt" => process = "corrupt")
  <2>1. c \notin Free /\ pair[c].hashed
    BY <1>3 DEF Risky
  <2>2. /\ c \in Pair /\ linked' = linked \cup {c} /\ Lives
        /\ UNCHANGED <<pair, free_list, positions_used, nil, key, named>>
    BY <1>3, <2>1 DEF Insert, Free
  <2>3. Free' = Free
    BY <2>2 DEF Free
  <2> QED
    BY <2>1, <2>2, <2>3, SoundFacts, SoundIs DEF Lives
<1>4. CASE Find
  BY <1>4 DEF Risky, Sound, PoolIsSound, FreeIsFree, Free, Find, Lives, map
<1>5. CASE clear
  <2>1. Free' = {} /\ Distinct(free_list') /\ linked' = {} /\ positions_used' = 0
    BY <1>5, EmptyStack DEF clear, Free
  <2> QED
    BY <1>5, <2>1, SoundFacts, SoundIs, CellFacts DEF clear
<1> QED
  BY <1>1, <1>2, <1>3, <1>4, <1>5

LEMMA BreaksStep ==
  ASSUME IInv, [Next]_vars
  PROVE  [BreaksOnlyAtStep]_vars
<1> SUFFICES ASSUME Sound, Next
             PROVE  process' # "corrupt" /\ (Sound' <=> ~ Risky)
  BY DEF BreaksOnlyAtStep
<1>1. IInv'
  BY NextInv
<1>2. process = "up"
  BY DEF Next
<1>3. process' # "corrupt"
  <2>1. CASE \E k, v \in Str : emplace(k, v)
    BY <1>2, <2>1, EmplaceKeeps
  <2>2. CASE ~ \E k, v \in Str : emplace(k, v)
    BY <1>2, <2>2 DEF Next, Name, Assign, Fill, Insert, Find, remove, clear, Lives
  <2> QED
    BY <2>1, <2>2
<1>4. ~ Risky => Sound'
  <2> SUFFICES ASSUME ~ Risky
               PROVE  Sound'
    OBVIOUS
  <2>1. ASSUME NEW k \in Str, NEW v \in Str, emplace(k, v)
        PROVE  Sound'
    BY <1>2, <2>1, EmplaceKeeps DEF Risky
  <2> QED
    BY <1>2, <2>1, RemoveKeeps, AssignKeeps, OtherKeeps DEF Next
<1> QED
  BY <1>1, <1>2, <1>3, <1>4, RiskyBreaks

-----------------------------------------------------------------------------
(* What holds of every map.                                                             *)

(* Everything stays of its type, in any order of calls: above all, positions_used passes   *)
(* the end of m_elts only where free_list was built over.                                *)
THEOREM TypeCorrect == Spec => []TypeOK
<1>1. IInv => TypeOK
  BY DEF IInv
<1> QED
  BY <1>1, Invariance, PTL

LEMMA UpToIsFinite ==
  ASSUME NEW n \in Nat
  PROVE  IsFiniteSet(0 .. (n - 1)) /\ Cardinality(0 .. (n - 1)) = n
<1>1. IsFiniteSet(0 .. (n - 1))
      /\ Cardinality(0 .. (n - 1)) = IF 0 > n - 1 THEN 0 ELSE (n - 1) - 0 + 1
  BY FS_Interval
<1> QED
  BY <1>1

(* Of a map that is not overrun: all elements are linked or free, and none of them both.     *)
LEMMA FullOfElements ==
  ASSUME IInv, process # "overrun", FreeIsFree, (linked \cup Free) \cap Pair = {}
  PROVE  is_full <=> NoRoom
<1>1. /\ linked \cup Free = 0 .. (positions_used - 1) /\ Free \cap linked = {}
      /\ positions_used \in 0 .. MaxElts /\ MaxElts \in Nat /\ free_list \in Seq(Cell)
  <2>1. None \notin linked \cup Free
    <3>1. free_list \in Seq(Cell) /\ linked \subseteq Cell
      BY DEF IInv, TypeOK
    <3>2. DOMAIN free_list = 1 .. Len(free_list) /\ \A i \in DOMAIN free_list : free_list[i] \in Cell
      BY <3>1, ElementOfSeq, LenProperties
    <3>3. \A x \in Free : x \in Cell
      BY <3>2 DEF Free, ToSet
    <3> QED
      BY <3>1, <3>3, CellFacts
  <2> QED
    BY <2>1, CellFacts DEF IInv, TypeOK, NoneLost, FreeIsFree
<1>2. linked \subseteq Elt
  BY <1>1, CellFacts
<1>3. IsFiniteSet(Elt) /\ Cardinality(Elt) = MaxElts
  BY UpToIsFinite, CellFacts
<1>4. Cardinality(linked) = MaxElts <=> linked = Elt
  BY <1>2, <1>3, FS_Subset
<1>5. Free = {} <=> free_list = <<>>
  <2>1. ASSUME free_list # <<>>
        PROVE  Free # {}
    <3>1. ToSet(free_list) = {Head(free_list)} \cup ToSet(Tail(free_list))
      BY <1>1, <2>1, Popped
    <3> QED
      BY <3>1 DEF Free
  <2> QED
    BY <2>1, EmptyStack DEF Free
<1>6. linked = Elt <=> Free = {} /\ positions_used = MaxElts
  <2>1. ASSUME linked = Elt
        PROVE  Free = {} /\ positions_used = MaxElts
    <3>1. \A x \in 0 .. (MaxElts - 1) : x <= positions_used - 1
      BY <1>1, <2>1, CellFacts
    <3>2. positions_used = MaxElts
      BY <1>1, <3>1
    <3>3. Free \subseteq linked
      BY <1>1, <2>1, <3>2, CellFacts
    <3> QED
      BY <1>1, <3>2, <3>3
  <2>2. ASSUME Free = {}, positions_used = MaxElts
        PROVE  linked = Elt
    BY <1>1, <2>2, CellFacts
  <2> QED
    BY <2>1, <2>2
<1> QED
  BY <1>4, <1>5, <1>6 DEF is_full, get_size, NoRoom

(* Of one that is overrun: one pair more than there are elements is linked.                *)
LEMMA FullAfterOverrun ==
  ASSUME IInv, process = "overrun", (linked \cup Free) \cap Pair = {}
  PROVE  ~ is_full /\ positions_used # MaxElts
<1>1. Free = {None} /\ positions_used = MaxElts + 1 /\ linked \subseteq Cell
  BY LostStack DEF IInv, TypeOK, Free
<1>2. linked = 0 .. MaxElts
  <2>1. linked \cap Pair = {} /\ None \notin linked
    BY <1>1, CellFacts
  <2>2. positions_used - 1 = MaxElts
    BY <1>1, CellFacts
  <2> QED
    BY <1>1, <2>1, <2>2 DEF IInv, NoneLost
<1>3. Cardinality(linked) = MaxElts + 1
  <2>1. linked = 0 .. ((MaxElts + 1) - 1) /\ MaxElts + 1 \in Nat
    BY <1>2, CellFacts
  <2> QED
    BY <2>1, UpToIsFinite
<1> QED
  BY <1>1, <1>3, CellFacts DEF is_full, get_size

(* While no pair of the caller's is about, emplace is out of room exactly when is_full says  *)
(* so: every element is in the map, and none is lost to removals.                       *)
THEOREM FullIsNoRoomHolds == Spec => []FullIsNoRoom
<1>1. IInv => FullIsNoRoom
  <2>1. CASE process = "overrun"
    BY <2>1, FullAfterOverrun DEF FullIsNoRoom, NoRoom
  <2>2. CASE process # "overrun"
    BY <2>2, FullOfElements DEF FullIsNoRoom
  <2> QED
    BY <2>1, <2>2
<1> QED
  BY <1>1, Invariance, PTL

(* Exactly the risky calls take a sound map out of soundness, emplace without room among     *)
(* them, and from a sound map emplace never builds over a pair that is linked.             *)
THEOREM BreaksOnlyAtHolds == Spec => BreaksOnlyAt
<1>1. IInv /\ [Next]_vars => [BreaksOnlyAtStep]_vars
  BY BreaksStep
<1> QED
  BY <1>1, Invariance, PTL DEF Spec, BreaksOnlyAt, BreaksOnlyAtStep

=============================================================================
