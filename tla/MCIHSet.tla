------------------------------- MODULE MCIHSet -------------------------------
(***************************************************************************)
(* IHSet on small instances.  The first table has 2 buckets and a call moves *)
(* 1 or 2 nodes where the code says 8 and 64, so that a migration is seen to  *)
(* spread over several calls and the set to grow twice.  Keys are numbers and *)
(* the hash is chosen so that most keys fall in bucket 0 of every table (the   *)
(* only nodes a migration can move) and some do not.                          *)
(***************************************************************************)
EXTENDS IHSet

MCNode == 1 .. 5
MCKey == 1 .. 4
(* Nodes 1 and 5 carry the same key.                                          *)
MCKeyOf == [n \in MCNode |-> IF n = 5 THEN 1 ELSE n]
(* Keys 1 and 2 hash alike; 3 meets them in a table of 2 or 4 buckets.        *)
MCHash == [k \in MCKey |-> IF k = 4 THEN 1 ELSE IF k = 3 THEN 4 ELSE 8]

(* The constants of the code and the names tset_test.cc inserts: tstn_name is  *)
(* moved from, so every name is "" and every hash falls in bucket 1.           *)
TestNode == 1 .. 8
TestKey == {"empty"}
TestKeyOf == [n \in TestNode |-> "empty"]
TestHash == [k \in TestKey |-> 1]
=============================================================================
