------------------------------ MODULE MCEventLoop ------------------------------
(***************************************************************************)
(* EventLoop with one to three clients.  Where the replies matter and two clients may    *)
(* have some pending, the second asks once: its reply lies at offset 0 of the shared   *)
(* send_buf, where no pending reply of the first ever is (loop_shared shows what      *)
(* happens otherwise).  Where the table matters there are more clients than          *)
(* descriptors: one has more replies to come than its socket takes, one asks for      *)
(* nothing and only takes up a descriptor.                                      *)
(***************************************************************************)
EXTENDS EventLoop

CONSTANTS c1, c2, c3

OneEach == [c \in Client |-> 1]
TwoEach == [c \in Client |-> 2]
ThreeAndOne == [c \in Client |-> IF c = c1 THEN 3 ELSE 1]
TwoOneNone == [c \in Client |-> CASE c = c1 -> 2 [] c = c2 -> 1 [] OTHER -> 0]
=============================================================================
