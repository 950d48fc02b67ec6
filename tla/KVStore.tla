-------------------------------- MODULE KVStore --------------------------------
(***************************************************************************)
(* The key space of the server and the commands on it: do_request and what it    *)
(* calls in src/src/io.cpp, kvobj.{h,cpp}.  Objects are made one after the other  *)
(* in the array db.data and never given back; an object is in the key space as    *)
(* long as its hook is linked in db.kvs, whose promise is HashIndex.  What a       *)
(* sorted set does inside is TSet: here its commands succeed, fail, or end the     *)
(* process.                                                                  *)
(***************************************************************************)
EXTENDS Naturals, FiniteSets

CONSTANTS Key, Value,
          NoValue,     (* no string, no object                                  *)
          PoolSize     (* 1024 * 16: the length of db.data                       *)

VARIABLES data,     (* db.data: an object, or NoValue where none was made           *)
          data_idx, (* db.data_idx                                            *)
          linked,   (* the slots whose hook is in db.kvs                         *)
          reply,    (* the last Response                                      *)
          process,  (* "up", or "dead"                                        *)
          created   (* history: the value a client gave each string key when it   *)
                    (* last made it, or NoValue                                 *)

vars == <<data, data_idx, linked, reply, process, created>>

Slot == 0 .. (PoolSize - 1)

KVObj == [key : Key, type : {"STRING", "TSET"}, val : Value \cup {NoValue}]

ASSUME PoolAssumption ==
  /\ NoValue \notin Value /\ NoValue \notin KVObj
  /\ PoolSize \in Nat

Status == {"RES_OK", "RES_ERR", "RES_NX"}

Answer(status, val) == reply' = [status |-> status, val |-> val]

-----------------------------------------------------------------------------
(* ihs_find with lookup_eq, in the slots.                                        *)
Found(k) == {i \in linked : data[i].key = k}

HasType(k, type) == \E i \in Found(k) : data[i].type = type

(* emplace_kvobj, and make_val: the next slot.  ihs_insert links the hook before it     *)
(* may end the process (HashIndex!Die), as may what the command does next.  Past the    *)
(* last slot the object is built over what follows the array, db.data_idx: nothing      *)
(* after that is defined.                                                       *)
emplace_kvobj(k, type, v) ==
  IF data_idx < PoolSize
  THEN /\ data' = [data EXCEPT ![data_idx] = [key |-> k, type |-> type, val |-> v]]
       /\ data_idx' = data_idx + 1
       /\ linked' = linked \cup {data_idx}
       /\ created' = [created EXCEPT ![k] = v]
       /\ process' \in {"up", "dead"}
  ELSE process' = "dead" /\ UNCHANGED <<data, data_idx, linked, created>>

Untouched == UNCHANGED <<data, data_idx, linked, process, created>>

(* Nothing is at the key, or something of another type is: an answer and no more.      *)
Missing(k) == Found(k) = {} /\ Answer("RES_NX", NoValue) /\ Untouched

-----------------------------------------------------------------------------
(* get_val answers a value of another type with an error text and status RES_OK.        *)
get_val(k) ==
  \/ Missing(k)
  \/ \E i \in Found(k) :
       /\ Answer("RES_OK", IF data[i].type = "STRING" THEN data[i].val ELSE NoValue)
       /\ Untouched

(* Wrong: the key is not looked up.                                              *)
set_val_Blind(k, v) ==
  /\ emplace_kvobj(k, "STRING", v)
  /\ Answer("RES_OK", v)

(* set_val: a new key gets an object.  For a key that is a string, `entry' was never   *)
(* set: the process dies of it, or answers what it points to; the value stays.       *)
set_val(k, v) ==
  \/ /\ Found(k) = {}
     /\ emplace_kvobj(k, "STRING", v)
     /\ Answer("RES_OK", v)
  \/ /\ HasType(k, "TSET")
     /\ Answer("RES_ERR", NoValue)
     /\ Untouched
  \/ /\ HasType(k, "STRING")
     /\ \E any \in Value \cup {NoValue} : Answer("RES_OK", any)
     /\ process' \in {"up", "dead"}
     /\ UNCHANGED <<data, data_idx, linked, created>>

(* Wrong: the slot of the object is the next one to be given, whether or not it is the  *)
(* last.                                                                     *)
del_val_Reuse(k) ==
  \/ Missing(k)
  \/ \E i \in Found(k) :
       /\ linked' = linked \ {i}
       /\ data_idx' = data_idx - 1
       /\ Answer("RES_OK", data[i].val)
       /\ created' = [created EXCEPT ![k] = NoValue]
       /\ UNCHANGED <<data, process>>

(* Wrong: the status of a mistaken type is kept, but the object is unlinked before its   *)
(* type is looked at.                                                          *)
del_val_KeepStatus(k) ==
  \/ Missing(k)
  \/ \E i \in Found(k) :
       /\ linked' = linked \ {i}
       /\ Answer(IF data[i].type = "STRING" THEN "RES_OK" ELSE "RES_ERR", data[i].val)
       /\ created' = [created EXCEPT ![k] = NoValue]
       /\ UNCHANGED <<data, data_idx, process>>

(* del_val unlinks first and looks at the type then; the status is RES_OK either way.  *)
del_val(k) ==
  \/ Missing(k)
  \/ \E i \in Found(k) :
       /\ linked' = linked \ {i}
       /\ Answer("RES_OK", data[i].val)
       /\ created' = [created EXCEPT ![k] = NoValue]
       /\ UNCHANGED <<data, data_idx, process>>

(* find_tset's three cases: do_add_tset makes the set when there is none.               *)
do_add_tset(k) ==
  \/ /\ Found(k) = {}
     /\ emplace_kvobj(k, "TSET", NoValue)
     /\ Answer("RES_OK", NoValue)
  \/ /\ HasType(k, "STRING")
     /\ Answer("RES_ERR", NoValue)
     /\ Untouched
  \/ /\ HasType(k, "TSET")
     /\ Answer("RES_OK", NoValue)
     /\ process' \in {"up", "dead"}
     /\ UNCHANGED <<data, data_idx, linked, created>>

(* do_range_tset may find its bounds out of range, or fail an assertion.               *)
do_range_tset(k) ==
  \/ Missing(k)
  \/ /\ HasType(k, "STRING")
     /\ Answer("RES_ERR", NoValue)
     /\ Untouched
  \/ /\ HasType(k, "TSET")
     /\ \E status \in {"RES_OK", "RES_ERR"} : Answer(status, NoValue)
     /\ process' \in {"up", "dead"}
     /\ UNCHANGED <<data, data_idx, linked, created>>

(* The lookup a command starts with may end the process before anything is changed.      *)
LookupDies == process' = "dead" /\ UNCHANGED <<data, data_idx, linked, reply, created>>

(* do_request: a command of no known name or length changes nothing.                   *)
Unknown == Answer("RES_ERR", NoValue) /\ Untouched

Init ==
  /\ data = [i \in Slot |-> NoValue]
  /\ data_idx = 0
  /\ linked = {}
  /\ reply = [status |-> "RES_OK", val |-> NoValue]
  /\ process = "up"
  /\ created = [k \in Key |-> NoValue]

do_request ==
  \/ \E k \in Key :
       \/ get_val(k) \/ del_val(k) \/ do_add_tset(k) \/ do_range_tset(k)
       \/ \E v \in Value : set_val(k, v)
  \/ LookupDies
  \/ Unknown

Next == process = "up" /\ do_request

Spec == Init /\ [][Next]_vars

-----------------------------------------------------------------------------
(* TypeOK also says that the objects are in the first data_idx slots.                *)
TypeOK ==
  /\ data_idx \in 0 .. PoolSize
  /\ data \in [Slot -> KVObj \cup {NoValue}]
  /\ \A i \in Slot : i < data_idx <=> data[i] # NoValue
  /\ linked \subseteq 0 .. (data_idx - 1)
  /\ reply \in [status : Status, val : Value \cup {NoValue}]
  /\ process \in {"up", "dead"}
  /\ created \in [Key -> Value \cup {NoValue}]

(* db.kvs does not look for duplicates (hash.cpp:82): that a key leads to one object is   *)
(* left to the commands, which must look it up before they make one, and it is what     *)
(* makes a del final.                                                          *)
OneObjectPerKey == \A i, j \in linked : data[i].key = data[j].key => i = j

(* A string key holds the value it was made with, whatever has been asked since: sets of   *)
(* this key, commands of the wrong type, other keys made and deleted.                  *)
HoldsWhatMadeIt ==
  \A k \in Key :
    IF HasType(k, "STRING")
    THEN \A i \in Found(k) : data[i].val = created[k] /\ created[k] # NoValue
    ELSE created[k] = NoValue

(* A command whose status is RES_ERR or RES_NX changed nothing, unless the process died     *)
(* of it.                                                                     *)
RefusalsChangeNothing ==
  [][reply'.status # "RES_OK" => UNCHANGED <<data, data_idx, linked, created>>]_vars

(* An object that left the key space does not come back, and none is changed while it is    *)
(* in it: hooks handed out by ihs_find stay good for the length of a command.            *)
ObjectsAreForGood ==
  [][/\ \A i \in linked \cap linked' : data'[i] = data[i]
     /\ \A i \in linked' \ linked : i >= data_idx]_vars
=============================================================================
