------------------------------- MODULE MCKVStore -------------------------------
(***************************************************************************)
(* KVStore on a small instance, and the format of the requests its commands come in:     *)
(* bytes of 0 to 2, lengths of two of them, bodies of up to 7 bytes and 2 strings where   *)
(* the code has 256, 4, 20000 and 20000.                                           *)
(***************************************************************************)
EXTENDS KVStore, Requests

(* What the buffer held before.                                                    *)
MCBehind == {<<>>, <<2, 0, 1, 2, 0, 1>>}

(* Up to two of a few commands.                                                     *)
MCSent == BoundedSeq({<<>>, <<<<>>>>, <<<<2>>>>, <<<<1, 0>>>>, <<<<>>, <<1>>>>}, 2)

(* These say nothing of the state: TLC need not evaluate them but at the start.            *)

(* What parse_req takes is what send_req makes (io.cpp:273).                                *)
ParseInvertsSend == Init => ParseInverts

(* A stream of requests, cut anywhere, is served in order (io.cpp:251).                       *)
StreamIsItsRequests == Init => ServesInOrder
=============================================================================
