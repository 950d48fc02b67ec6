------------------------------ MODULE HashIndex ------------------------------
(***************************************************************************)
(* What an index of intrusive nodes promises its callers: the key space of *)
(* the server (iHMap kvs in io.cpp) and the name index of a sorted set      *)
(* (TSet::mts_mp) both rely on nothing else.  An insertion links the node   *)
(* at once; a find or a deletion answers with some linked node of the key   *)
(* asked for, or with none only when no linked node has that key.  Calls do *)
(* not overlap, because the index has no lock and one thread uses it.       *)
(*                                                                          *)
(* Duplicates are part of the promise: insertion does not look for the key, *)
(* so a caller that wants one node per key must look it up first.           *)
(***************************************************************************)
CONSTANTS Node,    (* the intrusive nodes callers may link                  *)
          Key,     (* what a caller's eq() compares                         *)
          KeyOf,   (* the key a node carries                                *)
          NoNode   (* the null pointer                                      *)

VARIABLES entries, (* the linked nodes                                      *)
          status,  (* "idle", "busy" in a call, or "fault": the process died *)
          request, (* the call in progress, or the last one                 *)
          ret      (* what the last call returned                           *)

ivars == <<entries, status, request, ret>>

Requests == [op : {"insert"}, node : Node]
            \cup [op : {"find", "del"}, key : Key]
            \cup {[op |-> "none"]}

MatchesOf(k) == {n \in entries : KeyOf[n] = k}

(* The answers the promise allows a lookup of k. *)
AnswersTo(k) == IF MatchesOf(k) = {} THEN {NoNode} ELSE MatchesOf(k)

TypeOK ==
  /\ entries \subseteq Node
  /\ status \in {"idle", "busy", "fault"}
  /\ request \in Requests
  /\ ret \in Node \cup {NoNode}

Init ==
  /\ entries = {}
  /\ status = "idle"
  /\ request = [op |-> "none"]
  /\ ret = NoNode

Insert(n) ==
  /\ status = "idle"
  /\ n \notin entries
  /\ entries' = entries \cup {n}
  /\ status' = "busy"
  /\ request' = [op |-> "insert", node |-> n]
  /\ UNCHANGED ret

Ask(op, k) ==
  /\ status = "idle"
  /\ status' = "busy"
  /\ request' = [op |-> op, key |-> k]
  /\ UNCHANGED <<entries, ret>>

Return ==
  /\ status = "busy"
  /\ status' = "idle"
  /\ UNCHANGED request
  /\ \/ request.op = "insert" /\ ret' = NoNode /\ UNCHANGED entries
     \/ request.op = "find" /\ ret' \in AnswersTo(request.key) /\ UNCHANGED entries
     \/ request.op = "del" /\ ret' \in AnswersTo(request.key)
                           /\ entries' = entries \ {ret'}

(* The promise does not exclude that the process dies inside a call; it     *)
(* excludes that it dies between calls or loses an entry before it does.    *)
Die == status = "busy" /\ status' = "fault" /\ UNCHANGED <<entries, request, ret>>

Next ==
  \/ \E n \in Node : Insert(n)
  \/ \E op \in {"find", "del"}, k \in Key : Ask(op, k)
  \/ Return
  \/ Die

Spec == Init /\ [][Next]_ivars
=============================================================================
