------------------------------ MODULE EventLoop ------------------------------
(***************************************************************************)
(* The server of src/src/io.cpp and connection.cpp: one thread that polls,     *)
(* accepts, reads, answers and writes, its clients, and the kernel between    *)
(* them.  The server's code runs alone between two system calls; poll,        *)
(* accept, read and write are steps of their own, and so is every turn of the *)
(* loop over the requests of one read.                                       *)
(*                                                                          *)
(* Bytes are counted in units: a frame is a header unit (its 4-byte length)   *)
(* and a body unit, a reply is one unit.  The buffers are kept as what lies    *)
(* at every offset, because all connections write to the same two.            *)
(***************************************************************************)
EXTENDS Naturals, Sequences, FiniteSets

CONSTANTS Client,      (* the processes that may connect, once each            *)
          NoClient,    (* no process                                           *)
          Fd,          (* the descriptors the kernel has for accepted sockets   *)
          MaxReq,      (* how many requests each client sends                   *)
          Kinds,       (* what it sends: a subset of {"rq", "bad", "big"}       *)
          SockCap,     (* how many replies fit between the server and each      *)
          WholeFrames  (* what arrives at a socket are whole frames             *)

ASSUME LoopAssumption ==
  /\ NoClient \notin Client
  /\ Fd \subseteq Nat
  /\ MaxReq \in [Client -> Nat] /\ SockCap \in [Client -> Nat \ {0}]
  /\ Kinds \subseteq {"rq", "bad", "big"}
  /\ WholeFrames \in BOOLEAN

VARIABLES
  connections, (* main_loop's table: a Conn or NoConn at every descriptor      *)
  revents,     (* what poll said of each descriptor and is not yet acted upon   *)
  pc, cur,     (* where the thread is, and the descriptor it serves             *)
  recv_buf, send_buf, (* io_context's, one of each for all connections          *)
  (* the kernel *)
  sock,        (* the client at the other end of a descriptor, or NoClient      *)
  backlog,     (* the clients accept has not returned yet                      *)
  to_srv, to_cli, (* what has arrived and was not read                          *)
  (* the clients *)
  peer,        (* "none", "up", "fin" closed, "reset", "pipe" reset after       *)
               (* closing, "gone" closed by the server                         *)
  outbox,      (* sent, not arrived                                            *)
  asked, got   (* requests sent, replies read                                  *)

server == <<connections, revents, pc, cur, recv_buf, send_buf>>
kernel == <<sock, backlog, to_srv, to_cli>>
clients == <<peer, outbox, asked, got>>
vars == <<server, kernel, clients>>

-----------------------------------------------------------------------------
Header == [kind |-> "hd", from |-> NoClient, k |-> 0]
Zero   == [kind |-> "zero", from |-> NoClient, k |-> 0]

(* Request k of client c: fit to be served, refused by parse_req, or too long. *)
Body(kind, c, k) == [kind |-> kind, from |-> c, k |-> k]
Frame(kind, c, k) ==
  IF kind = "big" THEN <<Body(kind, c, k)>> ELSE <<Header, Body(kind, c, k)>>

Unit == [kind : {"hd", "zero", "rq", "bad", "big"},
         from : Client \cup {NoClient}, k : Nat]

(* Offsets only grow, and a client sends 2 * MaxReq[c] units at most.          *)
Offset == {0} \cup UNION {0 .. 2 * MaxReq[c] : c \in Client}

NoConn == [state |-> {}, in_start |-> 0, in_end |-> 0, ot_start |-> 0, ot_end |-> 0]

Conn == [state : SUBSET {"OPEN", "CLOSED", "SENDING", "RECVING", "ERR"},
         in_start : Offset, in_end : Offset, ot_start : Offset, ot_end : Offset]

conn == connections[cur]
who == sock[cur]
ot_size == conn.ot_end - conn.ot_start

SetState(s) == connections' = [connections EXCEPT ![cur].state = s]

-----------------------------------------------------------------------------
(* Clients and the network.                                                   *)

Connect(c) ==
  /\ peer[c] = "none"
  /\ peer' = [peer EXCEPT ![c] = "up"]
  /\ backlog' = Append(backlog, c)
  /\ UNCHANGED <<server, sock, to_srv, to_cli, outbox, asked, got>>

Ask(c, kind) ==
  /\ peer[c] = "up"
  /\ asked[c] < MaxReq[c]
  /\ asked' = [asked EXCEPT ![c] = @ + 1]
  /\ outbox' = [outbox EXCEPT ![c] = @ \o Frame(kind, c, asked[c] + 1)]
  /\ UNCHANGED <<server, kernel, peer, got>>

(* TCP delivers in order, in pieces of its own choice.                         *)
Arrive(c, n) ==
  /\ peer[c] = "up"
  /\ n \in IF WholeFrames THEN {Len(outbox[c])} \ {0} ELSE 1 .. Len(outbox[c])
  /\ to_srv' = [to_srv EXCEPT ![c] = @ \o SubSeq(outbox[c], 1, n)]
  /\ outbox' = [outbox EXCEPT ![c] = SubSeq(@, n + 1, Len(@))]
  /\ UNCHANGED <<server, sock, backlog, to_cli, peer, asked, got>>

ReadReplies(c) ==
  /\ to_cli[c] # <<>>
  /\ got' = [got EXCEPT ![c] = @ \o to_cli[c]]
  /\ to_cli' = [to_cli EXCEPT ![c] = <<>>]
  /\ UNCHANGED <<server, sock, backlog, to_srv, peer, outbox, asked>>

(* A client that closes with replies unread resets the connection; nobody reads  *)
(* them any more.                                                             *)
Leave(c) ==
  /\ peer[c] = "up"
  /\ peer' = [peer EXCEPT ![c] = IF to_cli[c] = <<>> THEN "fin" ELSE "reset"]
  /\ outbox' = [outbox EXCEPT ![c] = <<>>]
  /\ to_cli' = [to_cli EXCEPT ![c] = <<>>]
  /\ UNCHANGED <<server, sock, backlog, to_srv, asked, got>>

-----------------------------------------------------------------------------
(* main_loop.                                                                 *)

Polled(fd) ==
  LET c == sock[fd]
      s == connections[fd].state
      err == peer[c] \in {"reset", "pipe"}
  IN  {e \in {"in", "out", "err"} :
         \/ e = "in" /\ "RECVING" \in s /\ (to_srv[c] # <<>> \/ err \/ peer[c] = "fin")
         \/ e = "out" /\ "SENDING" \in s /\ (Len(to_cli[c]) < SockCap[c] \/ err)
         \/ e = "err" /\ err}

Poll ==
  /\ pc = "poll"
  /\ revents' = [fd \in Fd |-> IF connections[fd] = NoConn THEN {} ELSE Polled(fd)]
  /\ backlog # <<>> \/ \E fd \in Fd : revents'[fd] # {}
  /\ pc' = IF backlog # <<>> THEN "accept" ELSE "scan"
  /\ UNCHANGED <<connections, cur, recv_buf, send_buf, kernel, clients>>

Free == {fd \in Fd : sock[fd] = NoClient}

(* accept returns the lowest free descriptor, or fails for want of one, and     *)
(* then nothing is done about it.                                             *)
Accept ==
  /\ pc = "accept"
  /\ pc' = "scan"
  /\ \/ Free = {} /\ UNCHANGED <<connections, sock, backlog>>
     \/ \E fd \in Free :
          /\ \A other \in Free : fd <= other
          /\ sock' = [sock EXCEPT ![fd] = Head(backlog)]
          /\ backlog' = Tail(backlog)
          /\ connections' =
               [connections EXCEPT ![fd] = [NoConn EXCEPT !.state = {"OPEN", "RECVING"}]]
  /\ UNCHANGED <<revents, cur, recv_buf, send_buf, to_srv, to_cli, clients>>

Ready == {fd \in Fd : revents[fd] # {}}

(* handle_read and then handle_write, as far as poll reported.                 *)
AfterRead == IF "out" \in revents[cur] THEN "write" ELSE "reap"

(* Wrong: a writable connection is read first.                                  *)
Serve_ReadFirst(fd) ==
  /\ pc = "scan"
  /\ fd \in Ready
  /\ cur' = fd
  /\ pc' = "read"
  /\ UNCHANGED <<connections, revents, recv_buf, send_buf, kernel, clients>>

Serve(fd) ==
  /\ pc = "scan"
  /\ fd \in Ready
  /\ \A other \in Ready : fd <= other
  /\ cur' = fd
  /\ pc' = IF "in" \in revents[fd] THEN "read"
           ELSE IF "out" \in revents[fd] THEN "write" ELSE "reap"
  /\ UNCHANGED <<connections, revents, recv_buf, send_buf, kernel, clients>>

EndScan ==
  /\ pc = "scan"
  /\ Ready = {}
  /\ pc' = "poll"
  /\ UNCHANGED <<connections, revents, cur, recv_buf, send_buf, kernel, clients>>

-----------------------------------------------------------------------------
(* Wrong: the unit after the last one is counted too.                           *)
Recv_OneMore ==
  /\ pc = "read"
  /\ to_srv[who] # <<>>
  /\ connections' = [connections EXCEPT ![cur].in_end = @ + Len(to_srv[who]) + 1]
  /\ to_srv' = [to_srv EXCEPT ![who] = <<>>]
  /\ pc' = "requests"
  /\ UNCHANGED <<revents, cur, recv_buf, send_buf, sock, backlog, to_cli, clients>>

(* handle_read: Conn::recv takes all there is into a local buffer and counts   *)
(* it at in_end; the copy to recv_buf goes to in_data(), which is in_start.     *)
Recv ==
  /\ pc = "read"
  /\ to_srv[who] # <<>>
  /\ LET n == Len(to_srv[who])
     IN  /\ connections' = [connections EXCEPT ![cur].in_end = @ + n]
         /\ recv_buf' = [o \in Offset |->
                           IF o \in conn.in_start .. (conn.in_start + n - 1)
                           THEN to_srv[who][o - conn.in_start + 1] ELSE recv_buf[o]]
  /\ to_srv' = [to_srv EXCEPT ![who] = <<>>]
  /\ pc' = "requests"
  /\ UNCHANGED <<revents, cur, send_buf, sock, backlog, to_cli, clients>>

(* Wrong: the end of the stream is nothing to act upon.                         *)
RecvNothing_Ignored ==
  /\ pc = "read"
  /\ to_srv[who] = <<>>
  /\ pc' = AfterRead
  /\ UNCHANGED <<connections, revents, cur, recv_buf, send_buf, kernel, clients>>

RecvNothing ==
  /\ pc = "read"
  /\ to_srv[who] = <<>>
  /\ SetState(IF peer[who] = "fin" THEN {"CLOSED"} ELSE {"CLOSED", "ERR"})
  /\ pc' = AfterRead
  /\ UNCHANGED <<revents, cur, recv_buf, send_buf, kernel, clients>>

(* try_request, on the units at in_start.                                     *)
first  == recv_buf[conn.in_start]
second == recv_buf[conn.in_start + 1]
in_size == conn.in_end - conn.in_start

Incomplete == in_size = 0 \/ (first.kind = "hd" /\ in_size = 1)
Servable   == ~ Incomplete /\ first.kind = "hd" /\ second.kind = "rq"
Refused    == ~ Incomplete /\ ~ Servable

(* Bytes that are no header, or not the body of theirs: the length read may be more than  *)
(* has arrived.                                                               *)
Garbled == Refused /\ (first.kind \in {"rq", "bad"} \/ (first.kind = "hd" /\ second.kind # "bad"))

(* What the flags may be when try_request returns false: it refuses the bytes, or waits   *)
(* for more of them.                                                          *)
Unserved ==
  (IF Refused THEN {{"CLOSED"}} ELSE {}) \cup (IF Incomplete \/ Garbled THEN {conn.state} ELSE {})

(* do_request and make_response.                                              *)
TryRequest ==
  /\ pc = "requests"
  /\ Servable
  /\ send_buf' = [send_buf EXCEPT ![conn.ot_end] = second]
  /\ connections' = [connections EXCEPT ![cur].in_start = @ + 2, ![cur].ot_end = @ + 1]
  /\ UNCHANGED <<revents, pc, cur, recv_buf, kernel, clients>>

(* Wrong: the connection goes on waiting to read while it has replies to send.   *)
NoRequest_KeepRecving ==
  /\ pc = "requests"
  /\ ~ Servable
  /\ \E state \in Unserved :
       IF ot_size > 0
       THEN SetState(state \cup {"SENDING"}) /\ pc' = "flush"
       ELSE SetState(state) /\ pc' = AfterRead
  /\ UNCHANGED <<revents, cur, recv_buf, send_buf, kernel, clients>>

(* try_request returns false: what was answered is sent, whether or not the     *)
(* connection is to be closed.                                                *)
NoRequest ==
  /\ pc = "requests"
  /\ ~ Servable
  /\ \E state \in Unserved :
       IF ot_size > 0
       THEN SetState((state \ {"RECVING"}) \cup {"SENDING"}) /\ pc' = "flush"
       ELSE SetState(state) /\ pc' = AfterRead
  /\ UNCHANGED <<revents, cur, recv_buf, send_buf, kernel, clients>>

(* Conn::send wrote n units of ot_size: the connection after it.  A write of      *)
(* everything makes it RECVING and nothing else.                               *)
(* The first two are wrong: what was sent is sent again; a short write passes for a   *)
(* whole one.                                                                  *)
Sent_Again(n) ==
  [conn EXCEPT !.state = IF n = ot_size THEN {"RECVING"} ELSE @]
Sent_ShortIsDone(n) ==
  [conn EXCEPT !.ot_start = @ + n, !.state = {"RECVING"}]

Sent(n) ==
  [conn EXCEPT !.ot_start = @ + n, !.state = IF n = ot_size THEN {"RECVING"} ELSE @]

(* handle_write, from handle_read or by itself.                                 *)
Writing == pc \in {"flush", "write"}
AfterWrite == IF pc = "flush" THEN AfterRead ELSE "reap"

Send ==
  /\ Writing
  /\ peer[who] \notin {"reset", "pipe"}
  /\ LET room == SockCap[who] - Len(to_cli[who])
         n == IF ot_size <= room THEN ot_size ELSE room
     IN  /\ connections' = [connections EXCEPT ![cur] = Sent(n)]
         /\ IF peer[who] = "fin"
            THEN /\ peer' \in {peer, [peer EXCEPT ![who] = "pipe"]}
                 /\ UNCHANGED to_cli
            ELSE /\ to_cli' = [to_cli EXCEPT ![who] =
                       @ \o [i \in 1 .. n |-> send_buf[conn.ot_start + i - 1]]]
                 /\ UNCHANGED peer
  /\ pc' = AfterWrite
  /\ UNCHANGED <<revents, cur, recv_buf, send_buf, sock, backlog, to_srv, outbox, asked, got>>

SendFails ==
  /\ Writing
  /\ peer[who] = "reset"
  /\ SetState({"CLOSED", "ERR"})
  /\ pc' = AfterWrite
  /\ UNCHANGED <<revents, cur, recv_buf, send_buf, kernel, clients>>

(* SIGPIPE is not handled: a write after the reset that follows a close kills   *)
(* the process.                                                               *)
SendKills ==
  /\ Writing
  /\ peer[who] = "pipe"
  /\ pc' = "killed"
  /\ UNCHANGED <<connections, revents, cur, recv_buf, send_buf, kernel, clients>>

MustClose == "err" \in revents[cur] \/ "CLOSED" \in conn.state

(* Wrong: the closed connection stays in the table.                             *)
Reap_KeepEntry ==
  /\ pc = "reap"
  /\ IF MustClose
     THEN /\ sock' = [sock EXCEPT ![cur] = NoClient]
          /\ peer' = [peer EXCEPT ![who] = "gone"]
     ELSE UNCHANGED <<sock, peer>>
  /\ pc' = "scan"
  /\ revents' = [revents EXCEPT ![cur] = {}]
  /\ UNCHANGED <<connections, cur, recv_buf, send_buf, backlog, to_srv, to_cli, outbox, asked, got>>

(* ~Conn deletes peer_ep, which Accept left uninitialised: the heap takes it,   *)
(* or aborts the process.                                                     *)
Reap ==
  /\ pc = "reap"
  /\ IF MustClose
     THEN /\ connections' = [connections EXCEPT ![cur] = NoConn]
          /\ sock' = [sock EXCEPT ![cur] = NoClient]
          /\ peer' = [peer EXCEPT ![who] = "gone"]
          /\ to_srv' = [to_srv EXCEPT ![who] = <<>>]
          /\ outbox' = [outbox EXCEPT ![who] = <<>>]
          /\ pc' \in {"scan", "killed"}
     ELSE /\ pc' = "scan"
          /\ UNCHANGED <<connections, sock, peer, to_srv, outbox>>
  /\ revents' = [revents EXCEPT ![cur] = {}]
  /\ UNCHANGED <<cur, recv_buf, send_buf, backlog, to_cli, asked, got>>

-----------------------------------------------------------------------------
Init ==
  /\ connections = [fd \in Fd |-> NoConn]
  /\ revents = [fd \in Fd |-> {}]
  /\ pc = "poll" /\ cur \in Fd
  /\ recv_buf = [o \in Offset |-> Zero]
  /\ send_buf = [o \in Offset |-> Zero]
  /\ sock = [fd \in Fd |-> NoClient]
  /\ backlog = <<>>
  /\ to_srv = [c \in Client |-> <<>>] /\ to_cli = [c \in Client |-> <<>>]
  /\ peer = [c \in Client |-> "none"]
  /\ outbox = [c \in Client |-> <<>>]
  /\ asked = [c \in Client |-> 0]
  /\ got = [c \in Client |-> <<>>]

ServerStep ==
  \/ Poll \/ Accept \/ EndScan
  \/ \E fd \in Fd : Serve(fd)
  \/ Recv \/ RecvNothing \/ TryRequest \/ NoRequest
  \/ Send \/ SendFails \/ SendKills \/ Reap

Next ==
  \/ ServerStep
  \/ \E c \in Client :
       \/ Connect(c) \/ ReadReplies(c) \/ Leave(c)
       \/ \E kind \in Kinds : Ask(c, kind)
       \/ \E n \in Offset : Arrive(c, n)

(* The server runs whenever poll lets it, the network delivers, and a client     *)
(* that waits for its replies reads them.                                      *)
Spec ==
  /\ Init /\ [][Next]_vars
  /\ WF_vars(ServerStep)
  /\ \A c \in Client :
       /\ WF_vars(ReadReplies(c))
       /\ WF_vars(\E n \in Offset : Arrive(c, n))

-----------------------------------------------------------------------------
Phases == {"poll", "accept", "scan", "read", "requests", "flush", "write", "reap", "killed"}

TypeOK ==
  /\ connections \in [Fd -> Conn]
  /\ revents \in [Fd -> SUBSET {"in", "out", "err"}]
  /\ pc \in Phases /\ cur \in Fd
  /\ recv_buf \in [Offset -> Unit] /\ send_buf \in [Offset -> Unit]
  /\ sock \in [Fd -> Client \cup {NoClient}]
  /\ backlog \in Seq(Client)
  /\ to_srv \in [Client -> Seq(Unit)] /\ to_cli \in [Client -> Seq(Unit)]
  /\ peer \in [Client -> {"none", "up", "fin", "reset", "pipe", "gone"}]
  /\ outbox \in [Client -> Seq(Unit)]
  /\ asked \in [Client -> Nat] /\ \A c \in Client : asked[c] <= MaxReq[c]
  /\ got \in [Client -> Seq(Unit)]

(* A connection between two calls of its handlers: it waits to read, with       *)
(* nothing to send, or waits to send what it has, and is not marked closed.      *)
Settled(k) ==
  /\ "CLOSED" \notin k.state
  /\ "RECVING" \in k.state <=> k.ot_start = k.ot_end
  /\ "SENDING" \in k.state <=> k.ot_start < k.ot_end

Open == {fd \in Fd : connections[fd] # NoConn}

(* Whatever the handlers did with the flags, poll is asked of every connection   *)
(* for one thing, the thing it needs: no reply is left unsent with nobody        *)
(* waiting to send it, and no connection is left waiting for nothing.           *)
PollsForWhatItNeeds == pc = "poll" => \A fd \in Open : Settled(connections[fd])

(* The three assertions of main_loop (io.cpp:91, 106, 110): accept's descriptor  *)
(* has no connection, and what poll reported is still what the flags say when    *)
(* the connection's turn comes, after others were served, accepted and closed.   *)
AssertsHold ==
  /\ pc = "accept" => \A fd \in Free : connections[fd] = NoConn
  /\ pc = "read" => "RECVING" \in conn.state
  /\ pc = "write" => "SENDING" \in conn.state

(* The table of connections agrees with the kernel's descriptors, and no two      *)
(* descriptors lead to one client.                                            *)
TableMatchesSockets ==
  /\ \A fd \in Fd : connections[fd] = NoConn <=> sock[fd] = NoClient
  /\ \A fd, other \in Fd : sock[fd] = sock[other] /\ sock[fd] # NoClient => fd = other

(* What a client reads are replies to its own requests, none twice, in the order *)
(* it asked (pl_client.cc:165-169 takes the replies to its four requests so).    *)
RepliesInOrder ==
  \A c \in Client :
    LET replies == got[c] \o to_cli[c]
    IN  \A i \in DOMAIN replies :
          /\ replies[i].from = c /\ replies[i].kind = "rq"
          /\ \A j \in 1 .. (i - 1) : replies[j].k < replies[i].k

(* Every request is answered, unless the client leaves or the process dies.      *)
Answered ==
  \A c \in Client : \A k \in 1 .. MaxReq[c] :
    (asked[c] >= k /\ peer[c] = "up") ~>
       (Len(got[c]) >= k \/ peer[c] \in {"fin", "reset", "pipe"} \/ pc = "killed")

(* A client that has sent nothing but well-formed requests is not disconnected.  *)
NeverRefused == pc = "reap" /\ MustClose => peer[who] # "up"

(* The descriptor of a client that went away is given back.                     *)
DepartedAreReaped ==
  \A c \in Client :
    peer[c] \in {"fin", "reset", "pipe"} ~> (peer[c] = "gone" \/ pc = "killed")

(* The offsets count all a connection ever received and answered, read or not:   *)
(* nothing gives the room in the 4096 bytes of recv_buf and send_buf back.        *)
OffsetsCountLifetime ==
  \A fd \in Open :
    LET c == sock[fd]
    IN  /\ peer[c] = "up" =>
             connections[fd].in_end + Len(to_srv[c]) + Len(outbox[c]) = 2 * asked[c]
        /\ peer[c] = "up" => connections[fd].ot_start = Len(got[c]) + Len(to_cli[c])
        /\ 2 * connections[fd].ot_end = connections[fd].in_start

(* With whole frames and buffers that do not clash the server keeps the promise of      *)
(* Session: a request is served when its reply is made, in the connection's send_buf.   *)
ReplyTo(c, k) == Body("rq", c, k)

ServedOf(c) ==
  IF \E fd \in Fd : sock[fd] = c
  THEN connections[CHOOSE fd \in Fd : sock[fd] = c].ot_end ELSE 0

Life(c) == IF peer[c] \in {"fin", "reset", "pipe"} THEN "left" ELSE peer[c]

Sessions == INSTANCE Session
  WITH Reply <- ReplyTo,
       life <- [c \in Client |-> Life(c)],
       served <- [c \in Client |-> ServedOf(c)],
       alive <- pc # "killed"

(* Every step of the server, of the kernel and of the clients is one of Session or       *)
(* changes nothing a client can tell: no client is served twice, out of order, with the  *)
(* reply of another, for what it did not ask, or disconnected while it is there.        *)
SessionSpec == Sessions!Spec
=============================================================================
