-------------------------------- MODULE Session --------------------------------
(***************************************************************************)
(* What the server promises its clients, without buffers, flags, offsets or poll:   *)
(* every client has a queue of requests that are served in the order it asked, once *)
(* each, whatever other clients do; it reads the replies in that order, to its own   *)
(* requests; and the server ends the connection of a client that left, and no other. *)
(* The promise does not exclude that the process dies.                              *)
(***************************************************************************)
EXTENDS Naturals, Sequences

CONSTANTS Client,
          Reply(_, _)  (* the reply to request k of client c                       *)

VARIABLES life,   (* "none", "up", "left", "gone"                                 *)
          asked,  (* how many requests a client has sent                          *)
          served, (* how many of them were served                                 *)
          got,    (* the replies it has read                                      *)
          alive   (* the process runs                                            *)

svars == <<life, asked, served, got, alive>>

Init ==
  /\ life = [c \in Client |-> "none"]
  /\ asked = [c \in Client |-> 0]
  /\ served = [c \in Client |-> 0]
  /\ got = [c \in Client |-> <<>>]
  /\ alive = TRUE

Connect(c) ==
  /\ life[c] = "none"
  /\ life' = [life EXCEPT ![c] = "up"]
  /\ UNCHANGED <<asked, served, got, alive>>

Ask(c) ==
  /\ life[c] = "up"
  /\ asked' = [asked EXCEPT ![c] = @ + 1]
  /\ UNCHANGED <<life, served, got, alive>>

Leave(c) ==
  /\ life[c] = "up"
  /\ life' = [life EXCEPT ![c] = "left"]
  /\ UNCHANGED <<asked, served, got, alive>>

(* What a client sent before it left may still be served.                           *)
Serve(c) ==
  /\ alive
  /\ life[c] \in {"up", "left"}
  /\ served[c] < asked[c]
  /\ served' = [served EXCEPT ![c] = @ + 1]
  /\ UNCHANGED <<life, asked, got, alive>>

(* The first n replies, and no others.                                             *)
Read(c, n) ==
  /\ life[c] = "up"
  /\ n \in Len(got[c]) .. served[c]
  /\ got' = [got EXCEPT ![c] = [k \in 1 .. n |-> Reply(c, k)]]
  /\ UNCHANGED <<life, asked, served, alive>>

(* With the connection what was served of it is forgotten; the process may end.      *)
Disconnect(c) ==
  /\ alive
  /\ life[c] = "left"
  /\ life' = [life EXCEPT ![c] = "gone"]
  /\ served' = [served EXCEPT ![c] = 0]
  /\ alive' \in BOOLEAN
  /\ UNCHANGED <<asked, got>>

Die == alive /\ alive' = FALSE /\ UNCHANGED <<life, asked, served, got>>

Next ==
  \/ \E c \in Client :
       \/ Connect(c) \/ Ask(c) \/ Leave(c) \/ Serve(c) \/ Disconnect(c)
       \/ \E n \in 0 .. served[c] : Read(c, n)
  \/ Die

Spec == Init /\ [][Next]_svars
=============================================================================
