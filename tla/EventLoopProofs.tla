--------------------------- MODULE EventLoopProofs ---------------------------
(***************************************************************************)
(* The event loop, for any clients, descriptors, numbers of requests, room of the   *)
(* sockets, kinds of requests, and any cutting of the streams.                      *)
(***************************************************************************)
EXTENDS EventLoop, SequenceTheorems, TLAPS

Handling == {"read", "requests", "flush", "write", "reap"}

(* No handler is at work on the connection of fd.                                   *)
Idle(fd) == pc \in {"poll", "accept", "scan"} \/ (pc \in Handling /\ fd # cur)

(* A client is with the process at most once: to be accepted, or at a descriptor.   *)
Placed ==
  /\ \A i, j \in 1 .. Len(backlog) : backlog[i] = backlog[j] => i = j
  /\ \A i \in 1 .. Len(backlog) :
       /\ peer[backlog[i]] \notin {"none", "gone"}
       /\ \A fd \in Fd : sock[fd] # backlog[i]
  /\ \A fd \in Fd : sock[fd] # NoClient => peer[sock[fd]] \notin {"none", "gone"}
  /\ \A fd \in Fd : sock[fd] = NoClient => revents[fd] = {}
  /\ pc = "accept" => backlog # <<>>
  /\ pc \in Handling => sock[cur] # NoClient

InOrder(k) ==
  k.in_start <= k.in_end /\ k.ot_start <= k.ot_end /\ 2 * k.ot_end = k.in_start

(* The units c sent that the server has not read, and the replies it was sent.         *)
Coming(c) == Len(to_srv[c]) + Len(outbox[c])
Taken(c) == Len(got[c]) + Len(to_cli[c])

(* What c sent is coming or below in_end, what was sent to it is below ot_start.       *)
Counts(c, in_end, ot_start) ==
  /\ in_end + Coming(c) <= 2 * asked[c]
  /\ peer[c] \in {"none", "up"} =>
       /\ "big" \notin Kinds => in_end + Coming(c) = 2 * asked[c]
       /\ ot_start = Taken(c)

Counted ==
  /\ \A c \in Client : Len(to_cli[c]) <= SockCap[c]
  /\ \A fd \in Fd : sock[fd] # NoClient =>
       Counts(sock[fd], connections[fd].in_end, connections[fd].ot_start)
  /\ \A c \in Client : (\A fd \in Fd : sock[fd] # c) => Counts(c, 0, 0)

(* What poll reported and is not acted upon is still what the flags ask for.          *)
Fits(events, k) ==
  /\ "in" \in events => "RECVING" \in k.state
  /\ "out" \in events => "SENDING" \in k.state

(* The connection k that is served, in each phase of its handlers.                    *)
Served(phase, events, k) ==
  /\ phase \in {"read", "write"} => Settled(k)
  /\ phase \in {"read", "requests"} =>
       "RECVING" \in k.state /\ k.state \cap {"CLOSED", "SENDING"} = {}
  /\ phase \in {"flush", "write"} =>
       "SENDING" \in k.state /\ "RECVING" \notin k.state /\ k.ot_start < k.ot_end
  /\ phase \in {"read", "requests", "flush"} => "out" \notin events
  /\ phase = "reap" => "CLOSED" \in k.state \/ Settled(k)

Flags ==
  /\ \A fd \in Fd : sock[fd] # NoClient /\ Idle(fd) =>
       Settled(connections[fd]) /\ Fits(revents[fd], connections[fd])
  /\ pc \in Handling => Served(pc, revents[cur], conn)

IInv ==
  /\ TypeOK
  /\ TableMatchesSockets
  /\ Placed
  /\ \A fd \in Fd : InOrder(connections[fd])
  /\ Counted
  /\ Flags

-----------------------------------------------------------------------------
(* Facts about the data.                                                           *)

(* The place of an offset among n from e on.                                          *)
LEMMA PlaceOf ==
  ASSUME NEW e \in Nat, NEW n \in Nat, NEW o \in Nat, e <= o, o < e + n
  PROVE  o \in e .. (e + n - 1) /\ o - e + 1 \in 1 .. n /\ e + (o - e + 1) - 1 = o
  OBVIOUS

LEMMA OffsetFacts ==
  /\ Offset \subseteq Nat /\ 0 \in Offset
  /\ \A c \in Client, x \in Nat : x <= 2 * MaxReq[c] => x \in Offset
  BY LoopAssumption DEF Offset

LEMMA OffsetDown ==
  ASSUME NEW y \in Offset, NEW x \in Nat, x <= y
  PROVE  x \in Offset
<1>1. CASE y = 0
  BY <1>1, OffsetFacts
<1>2. ASSUME NEW c \in Client, y \in 0 .. 2 * MaxReq[c]
      PROVE  x \in Offset
  <2>1. MaxReq[c] \in Nat /\ y \in Nat /\ y <= 2 * MaxReq[c]
    BY <1>2, LoopAssumption
  <2>2. x <= 2 * MaxReq[c]
    BY <2>1
  <2> QED
    BY <2>2, OffsetFacts
<1> QED
  BY <1>1, <1>2 DEF Offset

LEMMA ConnFacts ==
  ASSUME TypeOK, NEW fd \in Fd
  PROVE  LET k == connections[fd]
         IN  /\ k \in Conn
             /\ k.in_start \in Nat /\ k.in_end \in Nat /\ k.ot_start \in Nat /\ k.ot_end \in Nat
             /\ k.in_start \in Offset /\ k.in_end \in Offset
             /\ k.ot_start \in Offset /\ k.ot_end \in Offset
  BY OffsetFacts DEF TypeOK, Conn

LEMMA NoConnFacts ==
  /\ NoConn \in Conn /\ InOrder(NoConn)
  /\ \A k \in Conn : k.state # {} => k # NoConn
  BY OffsetFacts DEF NoConn, Conn, InOrder

LEMMA ClientFacts ==
  ASSUME TypeOK, NEW c \in Client
  PROVE  /\ Coming(c) \in Nat /\ Taken(c) \in Nat /\ asked[c] \in Nat
         /\ to_srv[c] \in Seq(Unit) /\ outbox[c] \in Seq(Unit)
         /\ to_cli[c] \in Seq(Unit) /\ got[c] \in Seq(Unit)
<1>1. /\ to_srv[c] \in Seq(Unit) /\ outbox[c] \in Seq(Unit)
      /\ to_cli[c] \in Seq(Unit) /\ got[c] \in Seq(Unit) /\ asked[c] \in Nat
  BY DEF TypeOK
<1>2. /\ to_srv \in [Client -> Seq(Unit)] /\ outbox \in [Client -> Seq(Unit)]
      /\ to_cli \in [Client -> Seq(Unit)] /\ got \in [Client -> Seq(Unit)]
  BY DEF TypeOK
<1>3. Coming(c) \in Nat /\ Taken(c) \in Nat
  BY <1>2 DEF Coming, Taken
<1> QED
  BY <1>1, <1>3

(* The client served, and its room.                                                *)
LEMMA WhoFacts ==
  ASSUME IInv, pc \in Handling
  PROVE  /\ who \in Client /\ who # NoClient /\ cur \in Fd
         /\ conn \in Conn /\ InOrder(conn) /\ Served(pc, revents[cur], conn)
         /\ Counts(who, conn.in_end, conn.ot_start)
         /\ asked[who] \in Nat /\ asked[who] <= MaxReq[who] /\ MaxReq[who] \in Nat
         /\ Len(to_srv[who]) \in Nat /\ Len(to_cli[who]) \in Nat /\ Len(outbox[who]) \in Nat
         /\ Len(to_cli[who]) <= SockCap[who] /\ SockCap[who] \in Nat \ {0}
  <1>1. cur \in Fd /\ who # NoClient /\ who \in Client
    BY DEF IInv, TypeOK, Placed, who
  <1>2. conn \in Conn
    BY <1>1 DEF IInv, TypeOK, conn
  <1>3. /\ to_srv[who] \in Seq(Unit) /\ to_cli[who] \in Seq(Unit) /\ outbox[who] \in Seq(Unit)
        /\ asked[who] \in Nat /\ asked[who] <= MaxReq[who]
    BY <1>1 DEF IInv, TypeOK
  <1> QED
    BY <1>1, <1>2, <1>3, LoopAssumption DEF IInv, Flags, Counted, conn, who

(* What a client sends and what it reads moves between the places Counts counts.      *)
LEMMA ClientCounts ==
  ASSUME Counted, UNCHANGED <<sock, connections>>,
         \A c \in Client : \A i, o \in Nat : Counts(c, i, o) => Counts(c, i, o)',
         \A c \in Client : Len(to_cli'[c]) <= SockCap[c], TypeOK
  PROVE  Counted'
<1>1. ASSUME NEW fd \in Fd, sock[fd] # NoClient
      PROVE  Counts(sock[fd], connections[fd].in_end, connections[fd].ot_start)'
  <2>1. sock[fd] \in Client /\ Counts(sock[fd], connections[fd].in_end, connections[fd].ot_start)
    BY <1>1 DEF Counted, TypeOK
  <2> QED
    BY <2>1, ConnFacts DEF Counts
<1>2. ASSUME NEW c \in Client, \A fd \in Fd : sock[fd] # c
      PROVE  Counts(c, 0, 0)'
  BY <1>2 DEF Counted, Counts
<1> QED
  BY <1>1, <1>2 DEF Counted

-----------------------------------------------------------------------------
(* Between two phases of a handler only the connection served changes.                *)
LEMMA HandlerStep ==
  ASSUME IInv, pc \in Handling,
         NEW k \in Conn, InOrder(k), k.state # {},
         pc' \in Handling, Served(pc', revents[cur], k),
         connections' = [connections EXCEPT ![cur] = k],
         UNCHANGED <<revents, cur, sock, backlog>>,
         \A c \in Client : peer[c] \notin {"none", "gone"} => peer'[c] \notin {"none", "gone"}
  PROVE  TableMatchesSockets' /\ Placed' /\ (\A fd \in Fd : InOrder(connections[fd]))' /\ Flags'
<1>1. /\ cur \in Fd /\ connections \in [Fd -> Conn] /\ sock[cur] # NoClient
      /\ sock \in [Fd -> Client \cup {NoClient}] /\ backlog \in Seq(Client)
  BY DEF IInv, TypeOK, Placed
<1>2. /\ connections'[cur] = k /\ k # NoConn
      /\ \A fd \in Fd : fd # cur => connections'[fd] = connections[fd]
  BY <1>1, NoConnFacts
<1>3. TableMatchesSockets'
  BY <1>1, <1>2 DEF IInv, TableMatchesSockets
<1>4. Placed'
  <2>1. \A i \in 1 .. Len(backlog) : backlog[i] \in Client
    BY <1>1
  <2> QED
    BY <1>1, <2>1 DEF IInv, Placed, Handling
<1>5. \A fd \in Fd : InOrder(connections'[fd])
  BY <1>2 DEF IInv
<1>6. Flags'
  <2>1. \A fd \in Fd : Idle(fd)' => fd # cur /\ Idle(fd)
    BY DEF Idle, Handling
  <2>2. \A fd \in Fd : sock'[fd] # NoClient /\ Idle(fd)' =>
          Settled(connections'[fd]) /\ Fits(revents'[fd], connections'[fd])
    BY <1>2, <2>1 DEF IInv, Flags
  <2>3. conn' = k
    BY <1>2 DEF conn
  <2> QED
    BY <2>2, <2>3 DEF Flags
<1> QED
  BY <1>3, <1>4, <1>5, <1>6

(* A handler that leaves the kernel, the clients and the offsets counted alone.        *)
LEMMA SameCounts ==
  ASSUME IInv, pc \in Handling, NEW k \in Conn,
         k.in_end = conn.in_end, k.ot_start = conn.ot_start,
         connections' = [connections EXCEPT ![cur] = k],
         UNCHANGED <<sock, to_srv, to_cli, clients>>
  PROVE  Counted'
<1>1. \A fd \in Fd : /\ connections'[fd].in_end = connections[fd].in_end
                     /\ connections'[fd].ot_start = connections[fd].ot_start
  BY DEF IInv, TypeOK, conn
<1> QED
  BY <1>1 DEF IInv, Counted, Counts, Coming, Taken, clients

-----------------------------------------------------------------------------
(* The clients and the network.                                                    *)

(* They leave the server's variables and the descriptors alone.                     *)
LEMMA ClientStep ==
  ASSUME IInv, UNCHANGED <<server, sock>>,
         \A c \in Client : peer[c] \notin {"none", "gone"} => peer'[c] \notin {"none", "gone"}
  PROVE  /\ TableMatchesSockets' /\ (\A fd \in Fd : InOrder(connections[fd]))' /\ Flags'
         /\ backlog' = backlog => Placed'
<1>1. TableMatchesSockets' /\ (\A fd \in Fd : InOrder(connections[fd]))'
  BY DEF IInv, TableMatchesSockets, server
<1>2. Flags'
  BY DEF IInv, Flags, Idle, server, conn
<1>3. (\A i \in 1 .. Len(backlog) : backlog[i] \in Client)
      /\ (\A fd \in Fd : sock[fd] # NoClient => sock[fd] \in Client)
  BY DEF IInv, TypeOK
<1>4. backlog' = backlog => Placed'
  BY <1>3 DEF IInv, Placed, server
<1> QED
  BY <1>1, <1>2, <1>4

LEMMA ConnectInv ==
  ASSUME IInv, NEW c \in Client, Connect(c)
  PROVE  IInv'
<1>1. /\ peer[c] = "none" /\ peer' = [peer EXCEPT ![c] = "up"]
      /\ backlog' = Append(backlog, c)
      /\ UNCHANGED <<server, sock, to_srv, to_cli, outbox, asked, got>>
  BY DEF Connect
<1>2. backlog \in Seq(Client) /\ peer \in [Client -> {"none", "up", "fin", "reset", "pipe", "gone"}]
  BY DEF IInv, TypeOK
<1>3. TypeOK'
  BY <1>1, <1>2 DEF IInv, TypeOK, server
<1>4. TableMatchesSockets' /\ (\A fd \in Fd : InOrder(connections[fd]))' /\ Flags'
  BY <1>1, <1>2, ClientStep
<1>5. Placed'
  <2>1. /\ Len(backlog') = Len(backlog) + 1 /\ Len(backlog) \in Nat
        /\ \A i \in 1 .. Len(backlog) : backlog'[i] = backlog[i] /\ backlog[i] \in Client
        /\ backlog'[Len(backlog) + 1] = c
        /\ \A i \in 1 .. Len(backlog') : i \in 1 .. Len(backlog) \/ i = Len(backlog) + 1
    BY <1>1, <1>2
  <2>2. \A i \in 1 .. Len(backlog) : backlog[i] # c
    BY <1>1 DEF IInv, Placed
  <2>3. \A fd \in Fd : sock[fd] # c
    BY <1>1, LoopAssumption DEF IInv, Placed
  <2>4. \A i, j \in 1 .. Len(backlog') : backlog'[i] = backlog'[j] => i = j
    BY <2>1, <2>2 DEF IInv, Placed
  <2>5. \A i \in 1 .. Len(backlog') :
          /\ peer'[backlog'[i]] \notin {"none", "gone"}
          /\ \A fd \in Fd : sock[fd] # backlog'[i]
    BY <1>1, <1>2, <2>1, <2>3 DEF IInv, Placed
  <2>6. \A fd \in Fd : sock[fd] # NoClient => peer'[sock[fd]] \notin {"none", "gone"}
    BY <1>1, <1>2, <2>3 DEF IInv, Placed, TypeOK
  <2>7. backlog' # <<>>
    BY <2>1, <1>2, <1>1
  <2> QED
    BY <1>1, <2>4, <2>5, <2>6, <2>7 DEF IInv, Placed, server
<1>6. Counted'
  <2>1. \A d \in Client : \A i, o \in Nat : Counts(d, i, o) => Counts(d, i, o)'
    BY <1>1, <1>2 DEF Counts, Coming, Taken
  <2> QED
    BY <1>1, <2>1, ClientCounts DEF IInv, Counted, server
<1> QED
  BY <1>3, <1>4, <1>5, <1>6 DEF IInv

LEMMA FrameFacts ==
  ASSUME NEW c \in Client, NEW kind \in Kinds, NEW k \in Nat
  PROVE  /\ Frame(kind, c, k) \in Seq(Unit)
         /\ Len(Frame(kind, c, k)) <= 2
         /\ "big" \notin Kinds => Len(Frame(kind, c, k)) >= 2
<1>1. Body(kind, c, k) \in Unit /\ Header \in Unit
  BY LoopAssumption DEF Body, Header, Unit
<1> QED
  BY <1>1 DEF Frame

LEMMA AskInv ==
  ASSUME IInv, NEW c \in Client, NEW kind \in Kinds, Ask(c, kind)
  PROVE  IInv'
<1> DEFINE f == Frame(kind, c, asked[c] + 1)
<1>1. /\ asked[c] < MaxReq[c] /\ asked' = [asked EXCEPT ![c] = @ + 1]
      /\ outbox' = [outbox EXCEPT ![c] = @ \o f]
      /\ UNCHANGED <<server, kernel, peer, got>>
  BY DEF Ask
<1>2. asked \in [Client -> Nat] /\ outbox \in [Client -> Seq(Unit)]
      /\ \A d \in Client : asked[d] <= MaxReq[d] /\ MaxReq[d] \in Nat
  BY LoopAssumption DEF IInv, TypeOK
<1>3. f \in Seq(Unit) /\ Len(f) <= 2 /\ ("big" \notin Kinds => Len(f) >= 2)
  <2>1. asked[c] + 1 \in Nat
    BY <1>2
  <2> HIDE DEF f
  <2> QED
    BY <2>1, FrameFacts DEF f
<1> HIDE DEF f
<1>4. /\ outbox' \in [Client -> Seq(Unit)]
      /\ Len(outbox'[c]) = Len(outbox[c]) + Len(f)
      /\ \A d \in Client : d # c => outbox'[d] = outbox[d]
  BY <1>1, <1>2, <1>3, ConcatProperties
<1>5. /\ asked' \in [Client -> Nat] /\ asked'[c] = asked[c] + 1
      /\ \A d \in Client : asked'[d] <= MaxReq[d] /\ (d # c => asked'[d] = asked[d])
  BY <1>1, <1>2
<1>6. TypeOK'
  BY <1>1, <1>4, <1>5 DEF IInv, TypeOK, server, kernel
<1>7. TableMatchesSockets' /\ (\A fd \in Fd : InOrder(connections[fd]))' /\ Flags' /\ Placed'
  BY <1>1, ClientStep DEF kernel
<1>8. Counted'
  <2>1. Coming(c)' = Coming(c) + Len(f) /\ UNCHANGED Taken(c)
    <3>1. to_srv' = to_srv /\ to_cli' = to_cli /\ got' = got
      BY <1>1 DEF kernel
    <3>2. to_srv \in [Client -> Seq(Unit)]
      BY DEF IInv, TypeOK
    <3> QED
      BY <1>2, <1>3, <1>4, <3>1, <3>2 DEF Coming, Taken
  <2>2. \A d \in Client : d # c => UNCHANGED <<Coming(d), Taken(d)>>
    BY <1>1, <1>4 DEF Coming, Taken, kernel
  <2>3. ASSUME NEW i \in Nat, NEW o \in Nat, Counts(c, i, o)
        PROVE  Counts(c, i, o)'
    <3>1. \A x, y, n, a \in Nat :
            /\ x + y <= 2 * a /\ n <= 2 => x + (y + n) <= 2 * (a + 1)
            /\ x + y = 2 * a /\ n <= 2 /\ n >= 2 => x + (y + n) = 2 * (a + 1)
      OBVIOUS
    <3>2. Coming(c) \in Nat /\ asked[c] \in Nat
      BY ClientFacts DEF IInv
    <3>3. Len(f) \in Nat /\ Len(f) <= 2 /\ ("big" \notin Kinds => Len(f) >= 2)
      BY <1>3
    <3>4. i + (Coming(c) + Len(f)) <= 2 * (asked[c] + 1)
      BY <2>3, <3>1, <3>2, <3>3 DEF Counts
    <3>5. peer[c] \in {"none", "up"} /\ "big" \notin Kinds =>
            i + (Coming(c) + Len(f)) = 2 * (asked[c] + 1)
      <4>1. peer[c] \in {"none", "up"} /\ "big" \notin Kinds => i + Coming(c) = 2 * asked[c]
        BY <2>3 DEF Counts
      <4> QED
        BY <3>1, <3>2, <3>3, <4>1
    <3> QED
      BY <1>1, <1>5, <2>1, <2>3, <3>4, <3>5 DEF Counts
  <2>4. \A d \in Client : \A i, o \in Nat : Counts(d, i, o) => Counts(d, i, o)'
    BY <1>1, <1>5, <2>2, <2>3 DEF Counts
  <2> QED
    BY <1>1, <2>4, ClientCounts DEF IInv, Counted, server, kernel
<1> QED
  BY <1>6, <1>7, <1>8 DEF IInv

(* What arrives leaves the outbox: nothing is lost.                                   *)
LEMMA ArriveInv ==
  ASSUME IInv, NEW c \in Client, NEW n, Arrive(c, n)
  PROVE  IInv'
<1> DEFINE box == outbox[c]
<1>1. /\ n \in 1 .. Len(box)
      /\ to_srv' = [to_srv EXCEPT ![c] = @ \o SubSeq(box, 1, n)]
      /\ outbox' = [outbox EXCEPT ![c] = SubSeq(box, n + 1, Len(box))]
      /\ UNCHANGED <<server, sock, backlog, to_cli, peer, asked, got>>
  <2>1. box \in Seq(Unit)
    BY DEF IInv, TypeOK
  <2> QED
    BY <2>1 DEF Arrive
<1>2. box \in Seq(Unit) /\ to_srv[c] \in Seq(Unit)
      /\ outbox \in [Client -> Seq(Unit)] /\ to_srv \in [Client -> Seq(Unit)]
  BY DEF IInv, TypeOK
<1>3. /\ SubSeq(box, 1, n) \in Seq(Unit) /\ Len(SubSeq(box, 1, n)) = n
      /\ SubSeq(box, n + 1, Len(box)) \in Seq(Unit)
      /\ Len(SubSeq(box, n + 1, Len(box))) = Len(box) - n
  BY <1>1, <1>2
<1>4. /\ to_srv' \in [Client -> Seq(Unit)] /\ outbox' \in [Client -> Seq(Unit)]
      /\ Len(to_srv'[c]) + Len(outbox'[c]) = Len(to_srv[c]) + Len(outbox[c])
      /\ \A d \in Client : d # c => to_srv'[d] = to_srv[d] /\ outbox'[d] = outbox[d]
  <2>1. to_srv[c] \o SubSeq(box, 1, n) \in Seq(Unit)
        /\ Len(to_srv[c] \o SubSeq(box, 1, n)) = Len(to_srv[c]) + n
    BY <1>2, <1>3, ConcatProperties
  <2>2. to_srv' \in [Client -> Seq(Unit)] /\ outbox' \in [Client -> Seq(Unit)]
    BY <1>1, <1>2, <1>3, <2>1
  <2>3. Len(to_srv'[c]) = Len(to_srv[c]) + n /\ Len(outbox'[c]) = Len(box) - n
    BY <1>1, <1>2, <1>3, <2>1
  <2>4. Len(box) \in Nat /\ Len(to_srv[c]) \in Nat /\ n \in Nat
    BY <1>1, <1>2
  <2>5. Len(to_srv'[c]) + Len(outbox'[c]) = Len(to_srv[c]) + Len(outbox[c])
    BY <1>2, <2>2, <2>3, <2>4
  <2>6. \A d \in Client : d # c => to_srv'[d] = to_srv[d] /\ outbox'[d] = outbox[d]
    BY <1>1, <1>2
  <2> QED
    BY <2>2, <2>5, <2>6
<1>5. TypeOK'
  BY <1>1, <1>4 DEF IInv, TypeOK, server
<1>6. TableMatchesSockets' /\ (\A fd \in Fd : InOrder(connections[fd]))' /\ Flags' /\ Placed'
  BY <1>1, ClientStep
<1>7. Counted'
  <2>1. \A d \in Client : UNCHANGED <<Coming(d), Taken(d)>>
    BY <1>1, <1>4 DEF Coming, Taken
  <2>2. \A d \in Client : \A i, o \in Nat : Counts(d, i, o) => Counts(d, i, o)'
    BY <1>1, <2>1 DEF Counts
  <2> QED
    BY <1>1, <2>2, ClientCounts DEF IInv, Counted, server
<1> QED
  BY <1>5, <1>6, <1>7 DEF IInv

(* What is read leaves the socket.                                                   *)
LEMMA ReadRepliesInv ==
  ASSUME IInv, NEW c \in Client, ReadReplies(c)
  PROVE  IInv'
<1>1. /\ got' = [got EXCEPT ![c] = @ \o to_cli[c]] /\ to_cli' = [to_cli EXCEPT ![c] = <<>>]
      /\ UNCHANGED <<server, sock, backlog, to_srv, peer, outbox, asked>>
  BY DEF ReadReplies
<1>2. got \in [Client -> Seq(Unit)] /\ to_cli \in [Client -> Seq(Unit)]
  BY DEF IInv, TypeOK
<1>3. /\ got' \in [Client -> Seq(Unit)] /\ to_cli' \in [Client -> Seq(Unit)]
      /\ Len(got'[c]) = Len(got[c]) + Len(to_cli[c]) /\ Len(to_cli'[c]) = 0
      /\ \A d \in Client : d # c => got'[d] = got[d] /\ to_cli'[d] = to_cli[d]
  BY <1>1, <1>2, ConcatProperties
<1>4. TypeOK'
  BY <1>1, <1>3 DEF IInv, TypeOK, server
<1>5. TableMatchesSockets' /\ (\A fd \in Fd : InOrder(connections[fd]))' /\ Flags' /\ Placed'
  BY <1>1, ClientStep
<1>6. Counted'
  <2>1. \A d \in Client : \A i, o \in Nat : Counts(d, i, o) => Counts(d, i, o)'
    <3>1. Taken(c)' = Taken(c)
      BY <1>2, <1>3 DEF Taken
    <3>2. \A d \in Client : UNCHANGED <<Coming(d), Taken(d)>>
      BY <1>1, <1>3, <3>1 DEF Coming, Taken
    <3> QED
      BY <1>1, <3>2 DEF Counts
  <2>2. ASSUME NEW d \in Client
        PROVE  Len(to_cli'[d]) <= SockCap[d]
    <3>1. SockCap[d] \in Nat
      BY LoopAssumption
    <3>2. Len(to_cli[d]) <= SockCap[d]
      BY DEF IInv, Counted
    <3>3. Len(to_cli'[c]) = 0 /\ (d # c => to_cli'[d] = to_cli[d])
      BY <1>3
    <3> QED
      BY <3>1, <3>2, <3>3
  <2> QED
    BY <1>1, <2>1, <2>2, ClientCounts DEF IInv, server
<1> QED
  BY <1>4, <1>5, <1>6 DEF IInv

(* A client that leaves sends no more, and its replies are not counted.                *)
LEMMA LeaveInv ==
  ASSUME IInv, NEW c \in Client, Leave(c)
  PROVE  IInv'
<1>1. /\ peer[c] = "up" /\ peer' = [peer EXCEPT ![c] = IF to_cli[c] = <<>> THEN "fin" ELSE "reset"]
      /\ outbox' = [outbox EXCEPT ![c] = <<>>] /\ to_cli' = [to_cli EXCEPT ![c] = <<>>]
      /\ UNCHANGED <<server, sock, backlog, to_srv, asked, got>>
  BY DEF Leave
<1>2. outbox \in [Client -> Seq(Unit)] /\ to_cli \in [Client -> Seq(Unit)]
      /\ peer \in [Client -> {"none", "up", "fin", "reset", "pipe", "gone"}]
  BY DEF IInv, TypeOK
<1>3. /\ outbox' \in [Client -> Seq(Unit)] /\ to_cli' \in [Client -> Seq(Unit)]
      /\ Len(outbox'[c]) = 0 /\ Len(to_cli'[c]) = 0
      /\ peer' \in [Client -> {"none", "up", "fin", "reset", "pipe", "gone"}]
      /\ peer'[c] \in {"fin", "reset"}
      /\ \A d \in Client : d # c =>
           outbox'[d] = outbox[d] /\ to_cli'[d] = to_cli[d] /\ peer'[d] = peer[d]
  BY <1>1, <1>2
<1>4. TypeOK'
  BY <1>1, <1>3 DEF IInv, TypeOK, server
<1>5. TableMatchesSockets' /\ (\A fd \in Fd : InOrder(connections[fd]))' /\ Flags' /\ Placed'
  BY <1>1, <1>3, ClientStep
<1>6. Counted'
  <2>1. \A d \in Client : \A i, o \in Nat : Counts(d, i, o) => Counts(d, i, o)'
    <3>1. Coming(c)' <= Coming(c) /\ Coming(c)' \in Nat
      <4>1. to_srv \in [Client -> Seq(Unit)] /\ to_srv' = to_srv
        BY <1>1 DEF IInv, TypeOK
      <4> QED
        BY <1>2, <1>3, <4>1 DEF Coming
    <3>2. \A d \in Client : d # c => UNCHANGED <<Coming(d), Taken(d)>>
      BY <1>1, <1>3 DEF Coming, Taken
    <3>3. Coming(c) \in Nat /\ asked[c] \in Nat
      BY ClientFacts DEF IInv
    <3> QED
      BY <1>1, <1>3, <3>1, <3>2, <3>3 DEF Counts
  <2>2. ASSUME NEW d \in Client
        PROVE  Len(to_cli'[d]) <= SockCap[d]
    <3>1. SockCap[d] \in Nat
      BY LoopAssumption
    <3>2. Len(to_cli[d]) <= SockCap[d]
      BY DEF IInv, Counted
    <3>3. Len(to_cli'[c]) = 0 /\ (d # c => to_cli'[d] = to_cli[d])
      BY <1>3
    <3> QED
      BY <3>1, <3>2, <3>3
  <2> QED
    BY <1>1, <2>1, <2>2, ClientCounts DEF IInv, server
<1> QED
  BY <1>4, <1>5, <1>6 DEF IInv

-----------------------------------------------------------------------------
(* main_loop: poll, accept, the scan.                                               *)

LEMMA SameTable ==
  ASSUME IInv, UNCHANGED <<connections, kernel, clients>>
  PROVE  TableMatchesSockets' /\ (\A fd \in Fd : InOrder(connections[fd]))' /\ Counted'
<1>1. TableMatchesSockets' /\ (\A fd \in Fd : InOrder(connections[fd]))'
  BY DEF IInv, TableMatchesSockets, kernel
<1>2. Counted'
  BY DEF IInv, Counted, Counts, Coming, Taken, kernel, clients
<1> QED
  BY <1>1, <1>2

(* A settled connection asks poll for one thing only.                                *)
LEMMA SettledFacts ==
  ASSUME NEW k \in Conn, InOrder(k), Settled(k)
  PROVE  /\ "CLOSED" \notin k.state /\ k.state # {}
         /\ "RECVING" \in k.state => "SENDING" \notin k.state
         /\ "SENDING" \in k.state => "RECVING" \notin k.state /\ k.ot_start < k.ot_end
<1>1. k.ot_start \in Nat /\ k.ot_end \in Nat
  BY OffsetFacts DEF Conn
<1>2. k.ot_start = k.ot_end \/ k.ot_start < k.ot_end
  BY <1>1 DEF InOrder
<1>3. ~ (k.ot_start = k.ot_end /\ k.ot_start < k.ot_end)
  BY <1>1
<1> QED
  BY <1>2, <1>3 DEF Settled

LEMMA PollInv ==
  ASSUME IInv, Poll
  PROVE  IInv'
<1>1. /\ pc = "poll" /\ pc' = IF backlog # <<>> THEN "accept" ELSE "scan"
      /\ revents' = [fd \in Fd |-> IF connections[fd] = NoConn THEN {} ELSE Polled(fd)]
      /\ UNCHANGED <<connections, cur, recv_buf, send_buf, kernel, clients>>
  BY DEF Poll
<1>2. /\ \A fd \in Fd : revents'[fd] \in SUBSET {"in", "out", "err"}
      /\ revents' \in [Fd -> SUBSET {"in", "out", "err"}]
  BY <1>1 DEF Polled
<1>3. TypeOK'
  BY <1>1, <1>2 DEF IInv, TypeOK, Phases, kernel, clients
<1>4. TableMatchesSockets' /\ (\A fd \in Fd : InOrder(connections[fd]))' /\ Counted'
  BY <1>1, SameTable
<1>5. Placed'
  BY <1>1 DEF IInv, Placed, TableMatchesSockets, Handling, kernel, clients
<1>6. Flags'
  <2>1. ASSUME NEW fd \in Fd, sock[fd] # NoClient
        PROVE  Settled(connections[fd]) /\ Fits(revents'[fd], connections[fd])
    <3>1. Settled(connections[fd])
      BY <1>1, <2>1 DEF IInv, Flags, Idle
    <3>2. revents'[fd] = {} \/ revents'[fd] = Polled(fd)
      BY <1>1
    <3> QED
      BY <3>1, <3>2 DEF Fits, Polled
  <2> QED
    BY <1>1, <2>1 DEF Flags, Handling, kernel
<1> QED
  BY <1>3, <1>4, <1>5, <1>6 DEF IInv

(* The client accepted is counted from nothing.                                      *)
LEMMA AcceptInv ==
  ASSUME IInv, Accept
  PROVE  IInv'
<1>1. /\ pc = "accept" /\ pc' = "scan" /\ backlog \in Seq(Client) /\ backlog # <<>>
      /\ UNCHANGED <<revents, cur, recv_buf, send_buf, to_srv, to_cli, clients>>
  BY DEF IInv, TypeOK, Placed, Accept
<1>2. CASE UNCHANGED <<connections, sock, backlog>>
  <2>1. TypeOK'
    BY <1>1, <1>2 DEF IInv, TypeOK, Phases, clients
  <2>2. TableMatchesSockets' /\ (\A fd \in Fd : InOrder(connections[fd]))' /\ Counted'
    BY <1>1, <1>2, SameTable DEF kernel
  <2>3. Placed'
    BY <1>1, <1>2 DEF IInv, Placed, Handling, clients
  <2>4. Flags'
    BY <1>1, <1>2 DEF IInv, Flags, Idle, Handling
  <2> QED
    BY <2>1, <2>2, <2>3, <2>4 DEF IInv
<1>3. ASSUME NEW fd \in Free,
             sock' = [sock EXCEPT ![fd] = Head(backlog)],
             backlog' = Tail(backlog),
             connections' = [connections EXCEPT ![fd] = [NoConn EXCEPT !.state = {"OPEN", "RECVING"}]]
      PROVE  IInv'
  <2> DEFINE k == [NoConn EXCEPT !.state = {"OPEN", "RECVING"}]
  <2> PICK c \in Client : c = Head(backlog)
    BY <1>1
  <2>1. /\ c = backlog[1] /\ 1 \in 1 .. Len(backlog)
        /\ backlog' \in Seq(Client)
        /\ \A i \in 1 .. Len(backlog') : i + 1 \in 1 .. Len(backlog) /\ backlog'[i] = backlog[i + 1]
                                         /\ i + 1 # 1 /\ backlog'[i] \in Client
    BY <1>1, <1>3
  <2>2. /\ k = [state |-> {"OPEN", "RECVING"}, in_start |-> 0, in_end |-> 0, ot_start |-> 0, ot_end |-> 0]
        /\ k \in Conn
    <3>1. k = [state |-> {"OPEN", "RECVING"}, in_start |-> 0, in_end |-> 0, ot_start |-> 0, ot_end |-> 0]
      BY DEF NoConn
    <3> QED
      BY <3>1, OffsetFacts DEF Conn
  <2> HIDE DEF k
  <2>3. /\ fd \in Fd /\ sock[fd] = NoClient /\ sock \in [Fd -> Client \cup {NoClient}]
        /\ connections \in [Fd -> Conn] /\ c # NoClient
    BY <2>1, LoopAssumption DEF Free, IInv, TypeOK
  <2>4. /\ sock' \in [Fd -> Client \cup {NoClient}] /\ sock'[fd] = c
        /\ connections' \in [Fd -> Conn] /\ connections'[fd] = k
        /\ \A other \in Fd : other # fd =>
             sock'[other] = sock[other] /\ connections'[other] = connections[other]
    BY <1>3, <2>1, <2>2, <2>3 DEF k
  <2>5. \A other \in Fd : sock[other] # c
    BY <2>1 DEF IInv, Placed
  <2>6. TypeOK'
    BY <1>1, <2>1, <2>4 DEF IInv, TypeOK, Phases, clients
  <2>7. TableMatchesSockets'
    <3>1. k # NoConn
      BY <2>2 DEF NoConn
    <3> QED
      BY <2>3, <2>4, <2>5, <3>1 DEF IInv, TableMatchesSockets
  <2>8. Placed'
    <3>1. \A i, j \in 1 .. Len(backlog') : backlog'[i] = backlog'[j] => i = j
      <4>1. \A i, j \in 1 .. Len(backlog) : backlog[i] = backlog[j] => i = j
        BY DEF IInv, Placed
      <4> QED
        BY <2>1, <4>1
    <3>2. \A i \in 1 .. Len(backlog') :
            /\ peer[backlog'[i]] \notin {"none", "gone"}
            /\ backlog'[i] # c
            /\ \A other \in Fd : sock[other] # backlog'[i]
      BY <2>1 DEF IInv, Placed
    <3>3. peer[c] \notin {"none", "gone"}
      BY <2>1 DEF IInv, Placed
    <3> QED
      BY <1>1, <2>3, <2>4, <3>1, <3>2, <3>3 DEF IInv, Placed, Handling, clients
  <2>9. \A other \in Fd : InOrder(connections'[other])
    BY <2>2, <2>4 DEF IInv, InOrder
  <2>10. Counted'
    <3>1. \A d \in Client : \A i, o : Counts(d, i, o) => Counts(d, i, o)'
      BY <1>1 DEF Counts, Coming, Taken, clients
    <3>2. ASSUME NEW other \in Fd, sock'[other] # NoClient
          PROVE  Counts(sock[other], connections[other].in_end, connections[other].ot_start)'
      <4>1. CASE other = fd
        <5>1. Counts(c, 0, 0)
          BY <2>1, <2>5 DEF IInv, Counted
        <5>2. /\ sock'[other] = c
              /\ connections'[other].in_end = 0 /\ connections'[other].ot_start = 0
          BY <2>2, <2>4, <4>1
        <5>3. /\ 0 + Coming(c) <= 2 * asked[c]
              /\ peer[c] \in {"none", "up"} =>
                   /\ "big" \notin Kinds => 0 + Coming(c) = 2 * asked[c]
                   /\ 0 = Taken(c)
          BY <5>1 DEF Counts
        <5>4. UNCHANGED <<Coming(c), Taken(c), asked, peer>>
          BY <1>1 DEF Coming, Taken, clients
        <5> QED
          BY <5>2, <5>3, <5>4 DEF Counts
      <4>2. CASE other # fd
        <5>1. Counts(sock[other], connections[other].in_end, connections[other].ot_start)
          BY <2>4, <3>2, <4>2 DEF IInv, Counted
        <5> QED
          BY <1>1, <2>4, <4>2, <5>1 DEF Counts, Coming, Taken, clients
      <4> QED
        BY <4>1, <4>2
    <3>3. ASSUME NEW d \in Client, \A other \in Fd : sock'[other] # d
          PROVE  Counts(d, 0, 0)'
      <4>1. \A other \in Fd : sock[other] # d
        BY <2>3, <2>4, <3>3, LoopAssumption
      <4> QED
        BY <1>1, <4>1 DEF IInv, Counted, Counts, Coming, Taken, clients
    <3> QED
      BY <1>1, <3>2, <3>3 DEF IInv, Counted
  <2>11. Flags'
    <3>1. Settled(k) /\ revents[fd] = {}
      BY <2>2, <2>3 DEF Settled, IInv, Placed
    <3>2. \A other \in Fd : sock[other] # NoClient =>
            Settled(connections[other]) /\ Fits(revents[other], connections[other])
      BY <1>1 DEF IInv, Flags, Idle
    <3> QED
      BY <1>1, <2>3, <2>4, <3>1, <3>2 DEF Flags, Fits, Handling
  <2> QED
    BY <2>6, <2>7, <2>8, <2>9, <2>10, <2>11 DEF IInv
<1> QED
  BY <1>2, <1>3 DEF Accept

LEMMA ServeInv ==
  ASSUME IInv, NEW fd \in Fd, Serve(fd)
  PROVE  IInv'
<1>1. /\ pc = "scan" /\ revents[fd] # {} /\ cur' = fd
      /\ pc' = IF "in" \in revents[fd] THEN "read"
               ELSE IF "out" \in revents[fd] THEN "write" ELSE "reap"
      /\ UNCHANGED <<connections, revents, recv_buf, send_buf, kernel, clients>>
  BY DEF Serve, Ready
<1>2. TypeOK'
  BY <1>1 DEF IInv, TypeOK, Phases, kernel, clients
<1>3. TableMatchesSockets' /\ (\A other \in Fd : InOrder(connections[other]))' /\ Counted'
  BY <1>1, SameTable
<1>4. sock[fd] # NoClient
  BY <1>1 DEF IInv, Placed
<1>5. Placed'
  BY <1>1, <1>4 DEF IInv, Placed, Handling, kernel, clients
<1>6. Flags'
  <2>1. \A other \in Fd : sock[other] # NoClient =>
          Settled(connections[other]) /\ Fits(revents[other], connections[other])
    BY <1>1 DEF IInv, Flags, Idle
  <2>2. /\ connections[fd] \in Conn /\ InOrder(connections[fd])
        /\ Settled(connections[fd]) /\ Fits(revents[fd], connections[fd])
    BY <1>4, <2>1 DEF IInv, TypeOK
  <2>3. Served(pc', revents[fd], connections[fd])
    BY <1>1, <2>2, SettledFacts DEF Served, Fits
  <2> QED
    BY <1>1, <2>1, <2>3 DEF Flags, conn, kernel
<1> QED
  BY <1>2, <1>3, <1>5, <1>6 DEF IInv

LEMMA EndScanInv ==
  ASSUME IInv, EndScan
  PROVE  IInv'
<1>1. /\ pc = "scan" /\ pc' = "poll"
      /\ UNCHANGED <<connections, revents, cur, recv_buf, send_buf, kernel, clients>>
  BY DEF EndScan
<1>2. TypeOK'
  BY <1>1 DEF IInv, TypeOK, Phases, kernel, clients
<1>3. TableMatchesSockets' /\ (\A fd \in Fd : InOrder(connections[fd]))' /\ Counted'
  BY <1>1, SameTable
<1>4. Placed'
  BY <1>1 DEF IInv, Placed, Handling, kernel, clients
<1>5. Flags'
  BY <1>1 DEF IInv, Flags, Idle, Handling, kernel
<1> QED
  BY <1>2, <1>3, <1>4, <1>5 DEF IInv

-----------------------------------------------------------------------------
(* handle_read.                                                                    *)

(* A handler counts for the client it serves and changes nothing of another.          *)
LEMMA WhoCounts ==
  ASSUME IInv, pc \in Handling, NEW k \in Conn, NEW c \in Client, c = who,
         connections' = [connections EXCEPT ![cur] = k], UNCHANGED sock,
         \A d \in Client : d # c => UNCHANGED <<Coming(d), Taken(d), asked[d], peer[d], to_cli[d]>>,
         Len(to_cli'[c]) <= SockCap[c],
         Counts(c, k.in_end, k.ot_start)'
  PROVE  Counted'
<1>1. /\ cur \in Fd /\ sock[cur] = c /\ connections \in [Fd -> Conn]
      /\ sock \in [Fd -> Client \cup {NoClient}]
      /\ \A fd \in Fd : fd # cur /\ sock[fd] # NoClient => sock[fd] # c
  BY WhoFacts DEF IInv, TypeOK, TableMatchesSockets, who
<1>2. connections'[cur] = k /\ \A fd \in Fd : fd # cur => connections'[fd] = connections[fd]
  BY <1>1
<1>3. \A d \in Client : d # c => \A i, o : Counts(d, i, o) => Counts(d, i, o)'
  BY DEF Counts
<1>4. ASSUME NEW fd \in Fd, sock[fd] # NoClient
      PROVE  Counts(sock[fd], connections[fd].in_end, connections[fd].ot_start)'
  <2>1. CASE fd = cur
    BY <1>1, <1>2, <2>1 DEF Counts
  <2>2. CASE fd # cur
    <3>1. /\ sock[fd] \in Client /\ sock[fd] # c /\ connections'[fd] = connections[fd]
          /\ Counts(sock[fd], connections[fd].in_end, connections[fd].ot_start)
      BY <1>1, <1>2, <1>4, <2>2 DEF IInv, Counted
    <3> QED
      BY <3>1 DEF Counts
  <2> QED
    BY <2>1, <2>2
<1>5. ASSUME NEW d \in Client, \A fd \in Fd : sock[fd] # d
      PROVE  Counts(d, 0, 0)'
  <2>1. d # c /\ Counts(d, 0, 0)
    BY <1>1, <1>5 DEF IInv, Counted
  <2> QED
    BY <1>3, <2>1 DEF Counts
<1>6. \A d \in Client : Len(to_cli'[d]) <= SockCap[d]
  BY DEF IInv, Counted
<1> QED
  BY <1>4, <1>5, <1>6 DEF Counted

(* What is read was coming; it still lies within what the client asked.                *)
LEMMA RecvInv ==
  ASSUME IInv, Recv
  PROVE  IInv'
<1> PICK c \in Client : c = who
  BY WhoFacts DEF Recv, Handling
<1> PICK n \in Nat : n = Len(to_srv[c])
  BY ClientFacts DEF IInv
<1>1. /\ pc = "read" /\ pc' = "requests"
      /\ connections' = [connections EXCEPT ![cur].in_end = @ + n]
      /\ recv_buf' = [o \in Offset |->
                        IF o \in conn.in_start .. (conn.in_start + n - 1)
                        THEN to_srv[c][o - conn.in_start + 1] ELSE recv_buf[o]]
      /\ to_srv' = [to_srv EXCEPT ![c] = <<>>]
      /\ UNCHANGED <<revents, cur, send_buf, sock, backlog, to_cli, clients>>
  BY DEF Recv
<1>2. /\ cur \in Fd /\ conn \in Conn /\ InOrder(conn) /\ Served("read", revents[cur], conn)
      /\ Counts(c, conn.in_end, conn.ot_start)
      /\ asked[c] \in Nat /\ asked[c] <= MaxReq[c] /\ MaxReq[c] \in Nat
      /\ conn.in_start \in Nat /\ conn.in_end \in Nat
      /\ conn.ot_start \in Nat /\ conn.ot_end \in Nat
  BY <1>1, WhoFacts, ConnFacts DEF Handling, IInv, conn
<1>3. /\ to_srv[c] \in Seq(Unit) /\ Coming(c) \in Nat
      /\ Coming(c) = n + Coming(c)' /\ Coming(c)' \in Nat
  <2>1. /\ to_srv \in [Client -> Seq(Unit)] /\ outbox \in [Client -> Seq(Unit)] /\ outbox' = outbox
    BY <1>1 DEF IInv, TypeOK, clients
  <2>2. to_srv' \in [Client -> Seq(Unit)] /\ to_srv'[c] = <<>>
    BY <1>1, <2>1
  <2>3. Coming(c)' = Len(outbox[c]) /\ Len(outbox[c]) \in Nat
    BY <2>1, <2>2 DEF Coming
  <2>4. Coming(c) = n + Len(outbox[c])
    BY DEF Coming
  <2> QED
    BY <2>1, <2>3, <2>4
<1>4. conn.in_end + n + Coming(c)' = conn.in_end + Coming(c)
  BY <1>2, <1>3
<1>5. conn.in_end + n \in Nat /\ conn.in_end + n \in Offset
  <2>1. conn.in_end + Coming(c) <= 2 * asked[c]
    BY <1>2 DEF Counts
  <2>2. \A x, y, z, r, m \in Nat : x + (y + z) <= 2 * r /\ r <= m => x + y <= 2 * m
    OBVIOUS
  <2>3. conn.in_end + n <= 2 * MaxReq[c]
    BY <1>2, <1>3, <2>1, <2>2
  <2> QED
    BY <1>2, <2>3, OffsetFacts
<1> PICK e \in Nat : e = conn.in_end + n
  BY <1>5
<1> PICK k \in Conn : k = [conn EXCEPT !.in_end = e]
  BY <1>2, <1>5 DEF Conn
<1>6. /\ InOrder(k) /\ k.in_end = e /\ k.ot_start = conn.ot_start
      /\ Served("requests", revents[cur], k) /\ k.state # {}
  <2>1. /\ k.state = conn.state /\ k.in_end = conn.in_end + n
        /\ k.in_start = conn.in_start /\ k.ot_start = conn.ot_start /\ k.ot_end = conn.ot_end
    BY <1>2, <1>5 DEF Conn
  <2>2. InOrder(k)
    BY <1>2, <2>1 DEF InOrder
  <2> QED
    BY <1>2, <2>1, <2>2 DEF Served
<1>7. connections' = [connections EXCEPT ![cur] = k]
  BY <1>1 DEF conn
<1>8. TypeOK'
  <2>1. ASSUME NEW o \in Offset, o \in conn.in_start .. (conn.in_start + n - 1)
        PROVE  to_srv[c][o - conn.in_start + 1] \in Unit
    <3>1. o \in Nat /\ conn.in_start \in Nat
      BY <1>2, OffsetFacts
    <3>2. o - conn.in_start + 1 \in 1 .. n
      BY <2>1, <3>1
    <3> QED
      BY <1>3, <3>2
  <2>2. recv_buf' \in [Offset -> Unit]
    BY <1>1, <2>1 DEF IInv, TypeOK
  <2>3. connections' \in [Fd -> Conn]
    BY <1>6, <1>7 DEF IInv, TypeOK
  <2>4. to_srv' \in [Client -> Seq(Unit)]
    BY <1>1 DEF IInv, TypeOK
  <2> QED
    BY <1>1, <2>2, <2>3, <2>4 DEF IInv, TypeOK, Phases, clients
<1>9. TableMatchesSockets' /\ Placed' /\ (\A fd \in Fd : InOrder(connections[fd]))' /\ Flags'
  BY <1>1, <1>6, <1>7, HandlerStep DEF Handling, clients
<1>10. Counted'
  <2>1. \A d \in Client : d # c => UNCHANGED <<Coming(d), Taken(d), asked[d], peer[d], to_cli[d]>>
    BY <1>1 DEF IInv, TypeOK, Coming, Taken, clients
  <2>2. Len(to_cli'[c]) <= SockCap[c]
    BY <1>1 DEF IInv, Counted
  <2>3. UNCHANGED <<Taken(c), asked, peer>>
    BY <1>1 DEF Taken, clients
  <2>4. Counts(c, k.in_end, k.ot_start)'
    <3>1. /\ e + Coming(c)' <= 2 * asked[c]
          /\ peer[c] \in {"none", "up"} =>
               /\ "big" \notin Kinds => e + Coming(c)' = 2 * asked[c]
               /\ k.ot_start = Taken(c)
      BY <1>2, <1>4, <1>6 DEF Counts
    <3> QED
      BY <1>6, <2>3, <3>1 DEF Counts
  <2> QED
    BY <1>1, <1>6, <1>7, <2>1, <2>2, <2>4, WhoCounts DEF Handling
<1> QED
  BY <1>6, <1>8, <1>9, <1>10 DEF IInv

(* A handler that does nothing but set the flags.                                     *)
LEMMA SetStateInv ==
  ASSUME IInv, pc \in Handling,
         NEW st \in SUBSET {"OPEN", "CLOSED", "SENDING", "RECVING", "ERR"}, st # {},
         SetState(st), pc' \in Handling,
         \A k \in Conn : /\ k.state = st
                         /\ k.ot_start = conn.ot_start /\ k.ot_end = conn.ot_end
                         => Served(pc', revents[cur], k),
         UNCHANGED <<revents, cur, recv_buf, send_buf, kernel, clients>>
  PROVE  IInv'
<1>1. conn \in Conn /\ InOrder(conn) /\ cur \in Fd
  BY WhoFacts
<1> PICK k \in Conn : k = [conn EXCEPT !.state = st]
  BY <1>1 DEF Conn
<1>2. /\ k.state = st /\ k.in_start = conn.in_start /\ k.in_end = conn.in_end
      /\ k.ot_start = conn.ot_start /\ k.ot_end = conn.ot_end
  BY <1>1 DEF Conn
<1>3. connections' = [connections EXCEPT ![cur] = k]
  BY DEF SetState, conn
<1>4. InOrder(k) /\ Served(pc', revents[cur], k)
  BY <1>1, <1>2 DEF InOrder
<1>5. TypeOK'
  BY <1>3 DEF IInv, TypeOK, Handling, Phases, kernel, clients
<1>6. TableMatchesSockets' /\ Placed' /\ (\A fd \in Fd : InOrder(connections[fd]))' /\ Flags'
  BY <1>2, <1>3, <1>4, HandlerStep DEF kernel, clients
<1>7. Counted'
  BY <1>2, <1>3, SameCounts DEF kernel
<1> QED
  BY <1>5, <1>6, <1>7 DEF IInv

(* After a read there is nothing to write that poll had reported: the handler goes to    *)
(* the test that closes.                                                            *)
LEMMA AfterReadFacts ==
  ASSUME IInv, pc \in {"read", "requests", "flush"}
  PROVE  AfterRead = "reap"
  BY WhoFacts DEF Handling, Served, AfterRead

LEMMA RecvNothingInv ==
  ASSUME IInv, RecvNothing
  PROVE  IInv'
<1>1. /\ pc = "read" /\ pc' = "reap"
      /\ SetState({"CLOSED"}) \/ SetState({"CLOSED", "ERR"})
      /\ UNCHANGED <<revents, cur, recv_buf, send_buf, kernel, clients>>
  BY AfterReadFacts DEF RecvNothing
<1>2. ASSUME NEW st \in {{"CLOSED"}, {"CLOSED", "ERR"}}, SetState(st)
      PROVE  IInv'
  BY <1>1, <1>2, SetStateInv DEF Served, Handling
<1> QED
  BY <1>1, <1>2

(* A request served lies whole before in_end.                                         *)
LEMMA TryRequestInv ==
  ASSUME IInv, TryRequest
  PROVE  IInv'
<1>1. /\ pc = "requests" /\ Servable
      /\ send_buf' = [send_buf EXCEPT ![conn.ot_end] = second]
      /\ connections' = [connections EXCEPT ![cur].in_start = @ + 2, ![cur].ot_end = @ + 1]
      /\ UNCHANGED <<revents, pc, cur, recv_buf, kernel, clients>>
  BY DEF TryRequest
<1>2. /\ cur \in Fd /\ conn \in Conn /\ InOrder(conn) /\ Served("requests", revents[cur], conn)
      /\ conn.in_start \in Nat /\ conn.in_end \in Nat /\ conn.in_end \in Offset
      /\ conn.ot_start \in Nat /\ conn.ot_end \in Nat
  BY <1>1, WhoFacts, ConnFacts DEF Handling, IInv, conn
<1>3. conn.in_start + 2 <= conn.in_end
  <2>1. in_size # 0 /\ in_size # 1
    BY <1>1 DEF Servable, Incomplete
  <2> QED
    BY <1>2, <2>1 DEF in_size, InOrder
<1>4. /\ conn.in_start + 1 \in Offset /\ conn.in_start + 2 \in Offset
      /\ conn.ot_end + 1 \in Offset /\ conn.ot_end \in Offset
  <2>1. \A x \in Nat : x <= conn.in_end => x \in Offset
    <3> PICK c \in Client : c = who
      BY <1>1, WhoFacts DEF Handling
    <3>1. conn.in_end + Coming(c) <= 2 * asked[c] /\ Coming(c) \in Nat /\ asked[c] \in Nat
          /\ asked[c] <= MaxReq[c] /\ MaxReq[c] \in Nat
      BY <1>1, WhoFacts, ClientFacts DEF Handling, IInv, Counts
    <3>2. \A x, e, y, r, m \in Nat : x <= e /\ e + y <= 2 * r /\ r <= m => x <= 2 * m
      OBVIOUS
    <3>3. \A x \in Nat : x <= conn.in_end => x <= 2 * MaxReq[c]
      BY <1>2, <3>1, <3>2
    <3> QED
      BY <3>3, OffsetFacts
  <2>2. conn.ot_end + 1 <= conn.in_end
    BY <1>2, <1>3 DEF InOrder
  <2> QED
    BY <1>2, <1>3, <2>1, <2>2
<1> PICK k \in Conn : k = [conn EXCEPT !.in_start = @ + 2, !.ot_end = @ + 1]
  BY <1>2, <1>4 DEF Conn
<1>5. /\ k.state = conn.state /\ k.in_start = conn.in_start + 2 /\ k.in_end = conn.in_end
      /\ k.ot_start = conn.ot_start /\ k.ot_end = conn.ot_end + 1
  BY <1>2 DEF Conn
<1>6. connections' = [connections EXCEPT ![cur] = k]
  BY <1>1 DEF conn
<1>7. InOrder(k) /\ Served("requests", revents[cur], k) /\ k.state # {}
  <2>1. InOrder(k)
    BY <1>2, <1>3, <1>5 DEF InOrder
  <2> QED
    BY <1>2, <1>5, <2>1 DEF Served
<1>8. TypeOK'
  <2>1. second \in Unit
    BY <1>4 DEF IInv, TypeOK, second
  <2>2. send_buf' \in [Offset -> Unit]
    BY <1>1, <2>1 DEF IInv, TypeOK
  <2>3. connections' \in [Fd -> Conn]
    BY <1>6 DEF IInv, TypeOK
  <2> QED
    BY <1>1, <2>2, <2>3 DEF IInv, TypeOK, kernel, clients
<1>9. TableMatchesSockets' /\ Placed' /\ (\A fd \in Fd : InOrder(connections[fd]))' /\ Flags'
  BY <1>1, <1>6, <1>7, HandlerStep DEF Handling, kernel, clients
<1>10. Counted'
  BY <1>1, <1>5, <1>6, SameCounts DEF Handling, kernel
<1> QED
  BY <1>8, <1>9, <1>10 DEF IInv

(* What is left to send is what the flags ask for.                                     *)
LEMMA NoRequestInv ==
  ASSUME IInv, NoRequest
  PROVE  IInv'
<1>1. /\ pc = "requests"
      /\ UNCHANGED <<revents, cur, recv_buf, send_buf, kernel, clients>>
  BY DEF NoRequest
<1>2. /\ conn \in Conn /\ Served("requests", revents[cur], conn) /\ InOrder(conn)
      /\ conn.ot_start \in Nat /\ conn.ot_end \in Nat
  BY <1>1, WhoFacts, ConnFacts DEF Handling, IInv, conn
<1> PICK st \in SUBSET {"OPEN", "CLOSED", "SENDING", "RECVING", "ERR"} :
           /\ st \in {{"CLOSED"}, conn.state}
           /\ IF ot_size > 0
              THEN SetState((st \ {"RECVING"}) \cup {"SENDING"}) /\ pc' = "flush"
              ELSE SetState(st) /\ pc' = AfterRead
  BY <1>2 DEF NoRequest, Unserved, Conn
<1>3. "CLOSED" \in st \/ ("RECVING" \in st /\ "SENDING" \notin st)
  BY <1>2 DEF Served
<1>4. CASE ot_size > 0
  <2>1. SetState((st \ {"RECVING"}) \cup {"SENDING"}) /\ pc' = "flush"
    BY <1>4
  <2>2. conn.ot_start < conn.ot_end
    BY <1>2, <1>4 DEF ot_size
  <2>3. "out" \notin revents[cur]
    BY <1>2 DEF Served
  <2> QED
    BY <1>1, <2>1, <2>2, <2>3, SetStateInv DEF Served, Handling
<1>5. CASE ~ (ot_size > 0)
  <2>1. SetState(st) /\ pc' = "reap"
    BY <1>1, <1>5, AfterReadFacts
  <2>2. conn.ot_start = conn.ot_end
    BY <1>2, <1>5 DEF ot_size, InOrder
  <2>3. \A k \in Conn : k.state = st /\ k.ot_start = conn.ot_start /\ k.ot_end = conn.ot_end
                        => Served("reap", revents[cur], k)
    <3>1. ~ (conn.ot_start < conn.ot_end)
      BY <1>2, <2>2
    <3> QED
      BY <1>3, <2>2, <3>1 DEF Served, Settled
  <2> QED
    BY <1>1, <1>3, <2>1, <2>3, SetStateInv DEF Handling
<1> QED
  BY <1>4, <1>5

-----------------------------------------------------------------------------
(* handle_write, and the end of a connection.                                         *)

LEMMA WritingFacts ==
  ASSUME IInv, Writing
  PROVE  /\ pc \in Handling /\ AfterWrite = "reap" /\ pc \in {"flush", "write"}
         /\ "SENDING" \in conn.state /\ "RECVING" \notin conn.state
         /\ conn.ot_start < conn.ot_end /\ ot_size \in Nat \ {0}
<1>1. pc \in Handling /\ pc \in {"flush", "write"} /\ AfterWrite = "reap"
  BY AfterReadFacts DEF Writing, Handling, AfterWrite
<1>2. /\ "SENDING" \in conn.state /\ "RECVING" \notin conn.state /\ conn.ot_start < conn.ot_end
  BY <1>1, WhoFacts DEF Served
<1>3. conn.ot_start \in Nat /\ conn.ot_end \in Nat
  BY <1>1, WhoFacts, ConnFacts DEF IInv, conn
<1> QED
  BY <1>1, <1>2, <1>3 DEF ot_size

(* Whatever part of the replies is written, the rest is still asked for and the client's   *)
(* replies are counted.                                                             *)
LEMMA SendInv ==
  ASSUME IInv, Send
  PROVE  IInv'
<1>1. /\ pc \in Handling /\ pc' = "reap"
      /\ UNCHANGED <<revents, cur, recv_buf, send_buf, sock, backlog, to_srv, outbox, asked, got>>
  BY WritingFacts DEF Send
<1> PICK c \in Client : c = who
  BY <1>1, WhoFacts
<1>2. /\ cur \in Fd /\ conn \in Conn /\ InOrder(conn)
      /\ Counts(c, conn.in_end, conn.ot_start)
      /\ "SENDING" \in conn.state /\ "RECVING" \notin conn.state
      /\ conn.ot_start \in Nat /\ conn.ot_end \in Nat /\ conn.ot_end \in Offset
      /\ conn.ot_start < conn.ot_end /\ ot_size \in Nat /\ ot_size = conn.ot_end - conn.ot_start
      /\ Len(to_cli[c]) \in Nat /\ Len(to_cli[c]) <= SockCap[c] /\ SockCap[c] \in Nat
  BY <1>1, WhoFacts, WritingFacts, ConnFacts DEF Send, IInv, conn, ot_size
<1>3. PICK n \in Nat :
        /\ n <= ot_size /\ n <= SockCap[c] - Len(to_cli[c])
        /\ connections' = [connections EXCEPT ![cur] = Sent(n)]
        /\ IF peer[c] = "fin"
           THEN /\ peer' \in {peer, [peer EXCEPT ![c] = "pipe"]}
                /\ UNCHANGED to_cli
           ELSE /\ to_cli' = [to_cli EXCEPT ![c] =
                      @ \o [i \in 1 .. n |-> send_buf[conn.ot_start + i - 1]]]
                /\ UNCHANGED peer
  <2> DEFINE room == SockCap[who] - Len(to_cli[who])
             m == IF ot_size <= room THEN ot_size ELSE room
  <2>1. m \in Nat /\ m <= ot_size /\ m <= SockCap[c] - Len(to_cli[c])
    BY <1>2
  <2> QED
    BY <2>1 DEF Send
<1>4. /\ conn.ot_start + n \in Nat /\ conn.ot_start + n <= conn.ot_end
      /\ n = ot_size <=> conn.ot_start + n = conn.ot_end
  BY <1>2, <1>3
<1>5. \A x \in Nat : x <= conn.ot_end => x \in Offset
  BY <1>2, OffsetDown
<1> PICK k \in Conn : k = Sent(n)
  BY <1>2, <1>4, <1>5 DEF Sent, Conn
<1>6. /\ k.in_start = conn.in_start /\ k.in_end = conn.in_end /\ k.ot_end = conn.ot_end
      /\ k.ot_start = conn.ot_start + n
      /\ k.state = IF n = ot_size THEN {"RECVING"} ELSE conn.state
  BY <1>2 DEF Sent, Conn
<1>7. InOrder(k) /\ Served("reap", revents[cur], k) /\ k.state # {}
  <2>1. InOrder(k) /\ k.state # {}
    BY <1>2, <1>4, <1>6 DEF InOrder
  <2>2. CASE n = ot_size
    <3>1. k.ot_start = k.ot_end /\ ~ (k.ot_start < k.ot_end)
      BY <1>2, <1>4, <1>6, <2>2
    <3>2. "RECVING" \in k.state /\ "SENDING" \notin k.state /\ "CLOSED" \notin k.state
      BY <1>6, <2>2
    <3>3. Settled(k)
      BY <3>1, <3>2 DEF Settled
    <3> QED
      BY <2>1, <3>3 DEF Served
  <2>3. CASE n # ot_size
    <3>1. k.ot_start # k.ot_end /\ k.ot_start < k.ot_end
      BY <1>2, <1>3, <1>4, <1>6, <2>3
    <3>2. "RECVING" \notin k.state /\ "SENDING" \in k.state
      BY <1>2, <1>6, <2>3
    <3>3. "CLOSED" \in k.state \/ Settled(k)
      BY <3>1, <3>2 DEF Settled
    <3> QED
      BY <2>1, <3>3 DEF Served
  <2> QED
    BY <2>1, <2>2, <2>3
<1>8. connections' = [connections EXCEPT ![cur] = k]
  BY <1>3
<1> DEFINE sent == [i \in 1 .. n |-> send_buf[conn.ot_start + i - 1]]
<1>9. /\ sent \in Seq(Unit) /\ Len(sent) <= n /\ Len(sent) >= n
  <2>1. \A i \in 1 .. n : send_buf[conn.ot_start + i - 1] \in Unit
    <3>1. \A i \in 1 .. n : conn.ot_start + i - 1 \in Nat /\ conn.ot_start + i - 1 <= conn.ot_end
      BY <1>2, <1>4
    <3> QED
      BY <1>5, <3>1 DEF IInv, TypeOK
  <2> QED
    BY <2>1
<1> HIDE DEF sent
<1>10. /\ peer' \in [Client -> {"none", "up", "fin", "reset", "pipe", "gone"}]
       /\ \A d \in Client : d # c => peer'[d] = peer[d]
       /\ peer'[c] = peer[c] \/ (peer[c] = "fin" /\ peer'[c] = "pipe")
  BY <1>3 DEF IInv, TypeOK
<1>11. /\ to_cli' \in [Client -> Seq(Unit)]
       /\ \A d \in Client : d # c => to_cli'[d] = to_cli[d]
       /\ peer[c] = "fin" => to_cli' = to_cli
       /\ peer[c] # "fin" => to_cli'[c] = to_cli[c] \o sent
  <2>1. to_cli \in [Client -> Seq(Unit)] /\ to_cli[c] \o sent \in Seq(Unit)
    BY <1>9, ConcatProperties DEF IInv, TypeOK
  <2>2. CASE peer[c] = "fin"
    BY <1>3, <2>1, <2>2
  <2>3. CASE peer[c] # "fin"
    <3>1. to_cli' = [to_cli EXCEPT ![c] = @ \o sent]
      BY <1>3, <2>3 DEF sent
    <3> QED
      BY <2>1, <2>3, <3>1
  <2> QED
    BY <2>2, <2>3
<1>12. TypeOK'
  <2>1. connections' \in [Fd -> Conn]
    BY <1>8 DEF IInv, TypeOK
  <2> QED
    BY <1>1, <1>10, <1>11, <2>1 DEF IInv, TypeOK, Phases
<1>13. TableMatchesSockets' /\ Placed' /\ (\A fd \in Fd : InOrder(connections[fd]))' /\ Flags'
  <2>1. \A d \in Client : peer[d] \notin {"none", "gone"} => peer'[d] \notin {"none", "gone"}
    BY <1>10
  <2> QED
    BY <1>1, <1>7, <1>8, <2>1, HandlerStep DEF Handling
<1>14. Counted'
  <2>1. \A d \in Client : d # c => UNCHANGED <<Coming(d), Taken(d), asked[d], peer[d], to_cli[d]>>
    BY <1>1, <1>10, <1>11 DEF Coming, Taken
  <2>2. PICK m \in Nat : m = Len(to_cli[c])
    BY <1>2
  <2>3. peer[c] # "fin" => Len(to_cli'[c]) = m + n
    <3>1. to_cli[c] \in Seq(Unit) /\ n = Len(sent)
      BY <1>4, <1>9 DEF IInv, TypeOK
    <3>2. Len(to_cli[c] \o sent) = m + n
      BY <1>9, <2>2, <3>1, ConcatProperties
    <3> QED
      BY <1>11, <3>2
  <2>4. Len(to_cli'[c]) <= SockCap[c]
    <3>1. m <= SockCap[c] /\ n <= SockCap[c] - m /\ SockCap[c] \in Nat
      BY <1>2, <1>3, <2>2
    <3>2. CASE peer[c] = "fin"
      BY <1>2, <1>11, <3>2
    <3>3. CASE peer[c] # "fin"
      <4>1. m + n <= SockCap[c]
        BY <1>4, <3>1
      <4> QED
        BY <2>3, <3>3, <4>1
    <3> QED
      BY <3>2, <3>3
  <2>5. UNCHANGED <<Coming(c), asked[c], got[c]>>
    BY <1>1 DEF Coming
  <2>6. peer[c] # "fin" => Taken(c)' = Taken(c) + n
    <3>1. PICK g \in Nat : g = Len(got[c])
      BY ClientFacts DEF IInv
    <3>2. Taken(c) = g + m
      BY <3>1, <2>2 DEF Taken
    <3>3. peer[c] # "fin" => Taken(c)' = g + (m + n)
      BY <2>3, <2>5, <3>1 DEF Taken
    <3> QED
      BY <1>4, <3>2, <3>3
  <2>7. Counts(c, k.in_end, k.ot_start)'
    <3>1. Counts(c, k.in_end, conn.ot_start)
      BY <1>2, <1>6
    <3> QED
      BY <1>6, <1>10, <2>5, <2>6, <3>1 DEF Counts
  <2> QED
    BY <1>1, <1>8, <2>1, <2>4, <2>7, WhoCounts
<1> QED
  BY <1>7, <1>12, <1>13, <1>14 DEF IInv

LEMMA SendFailsInv ==
  ASSUME IInv, SendFails
  PROVE  IInv'
<1>1. /\ pc \in Handling /\ pc' = "reap" /\ SetState({"CLOSED", "ERR"})
      /\ UNCHANGED <<revents, cur, recv_buf, send_buf, kernel, clients>>
  BY WritingFacts DEF SendFails
<1> QED
  BY <1>1, SetStateInv DEF Served, Handling

LEMMA SendKillsInv ==
  ASSUME IInv, SendKills
  PROVE  IInv'
<1>1. /\ pc' = "killed"
      /\ UNCHANGED <<connections, revents, cur, recv_buf, send_buf, kernel, clients>>
  BY DEF SendKills
<1>2. TypeOK'
  BY <1>1 DEF IInv, TypeOK, Phases, kernel, clients
<1>3. TableMatchesSockets' /\ (\A fd \in Fd : InOrder(connections[fd]))' /\ Counted'
  BY <1>1, SameTable
<1>4. Placed' /\ Flags'
  BY <1>1 DEF IInv, Placed, Flags, Idle, Handling, kernel, clients
<1> QED
  BY <1>2, <1>3, <1>4 DEF IInv

(* A connection that is closed leaves nothing behind; one that stays is settled.           *)
LEMMA ReapInv ==
  ASSUME IInv, Reap
  PROVE  IInv'
<1> PICK c \in Client : c = who
  BY WhoFacts DEF Reap, Handling
<1>1. /\ pc = "reap" /\ pc' \in {"scan", "killed"} /\ revents' = [revents EXCEPT ![cur] = {}]
      /\ UNCHANGED <<cur, recv_buf, send_buf, backlog, to_cli, asked, got>>
  BY DEF Reap
<1>2. /\ cur \in Fd /\ sock[cur] = c /\ Served("reap", revents[cur], conn)
      /\ revents \in [Fd -> SUBSET {"in", "out", "err"}]
      /\ sock \in [Fd -> Client \cup {NoClient}] /\ connections \in [Fd -> Conn]
  BY <1>1, WhoFacts DEF Handling, IInv, TypeOK, who
<1>3. /\ revents' \in [Fd -> SUBSET {"in", "out", "err"}] /\ revents'[cur] = {}
      /\ \A fd \in Fd : fd # cur => revents'[fd] = revents[fd]
  BY <1>1, <1>2
<1>4. \A fd \in Fd : fd # cur /\ sock[fd] # NoClient =>
        Settled(connections[fd]) /\ Fits(revents[fd], connections[fd])
  BY <1>1 DEF IInv, Flags, Idle, Handling
<1>5. CASE MustClose
  <2>1. /\ connections' = [connections EXCEPT ![cur] = NoConn]
        /\ sock' = [sock EXCEPT ![cur] = NoClient]
        /\ peer' = [peer EXCEPT ![c] = "gone"]
        /\ to_srv' = [to_srv EXCEPT ![c] = <<>>]
        /\ outbox' = [outbox EXCEPT ![c] = <<>>]
    BY <1>5 DEF Reap
  <2>2. /\ connections' \in [Fd -> Conn] /\ connections'[cur] = NoConn
        /\ sock' \in [Fd -> Client \cup {NoClient}] /\ sock'[cur] = NoClient
        /\ \A fd \in Fd : fd # cur =>
             sock'[fd] = sock[fd] /\ connections'[fd] = connections[fd]
    BY <1>2, <2>1, NoConnFacts
  <2>3. /\ peer' \in [Client -> {"none", "up", "fin", "reset", "pipe", "gone"}]
        /\ peer'[c] = "gone"
        /\ to_srv' \in [Client -> Seq(Unit)] /\ outbox' \in [Client -> Seq(Unit)]
        /\ to_srv'[c] = <<>> /\ outbox'[c] = <<>>
        /\ \A d \in Client : d # c =>
             peer'[d] = peer[d] /\ to_srv'[d] = to_srv[d] /\ outbox'[d] = outbox[d]
    BY <2>1 DEF IInv, TypeOK
  <2>4. \A fd \in Fd : fd # cur => sock[fd] # c
    BY <1>2, LoopAssumption DEF IInv, TableMatchesSockets
  <2>5. TypeOK'
    BY <1>1, <1>3, <2>2, <2>3 DEF IInv, TypeOK, Phases
  <2>6. TableMatchesSockets'
    BY <1>2, <2>2 DEF IInv, TableMatchesSockets
  <2>7. Placed'
    <3>1. \A i \in 1 .. Len(backlog) : backlog[i] # c /\ backlog[i] \in Client
      <4>1. \A i \in 1 .. Len(backlog) : sock[cur] # backlog[i]
        BY <1>2 DEF IInv, Placed
      <4>2. backlog \in Seq(Client)
        BY DEF IInv, TypeOK
      <4> QED
        BY <1>2, <4>1, <4>2
    <3>2. \A i, j \in 1 .. Len(backlog') : backlog'[i] = backlog'[j] => i = j
      BY <1>1 DEF IInv, Placed
    <3>3. \A i \in 1 .. Len(backlog') :
            /\ peer'[backlog'[i]] \notin {"none", "gone"}
            /\ \A fd \in Fd : sock'[fd] # backlog'[i]
      <4> SUFFICES ASSUME NEW i \in 1 .. Len(backlog)
                   PROVE  /\ peer'[backlog[i]] \notin {"none", "gone"}
                          /\ \A fd \in Fd : sock'[fd] # backlog[i]
        BY <1>1
      <4>1. /\ backlog[i] \in Client /\ backlog[i] # c /\ backlog[i] # NoClient
            /\ peer[backlog[i]] \notin {"none", "gone"}
            /\ \A fd \in Fd : sock[fd] # backlog[i]
        BY <3>1, LoopAssumption DEF IInv, Placed
      <4> QED
        BY <2>2, <2>3, <4>1
    <3>4. ASSUME NEW fd \in Fd, sock'[fd] # NoClient
          PROVE  peer'[sock'[fd]] \notin {"none", "gone"}
      <4>1. fd # cur /\ sock'[fd] = sock[fd] /\ sock[fd] \in Client /\ sock[fd] # c
        BY <1>2, <2>2, <2>4, <3>4
      <4>2. peer[sock[fd]] \notin {"none", "gone"}
        BY <4>1, LoopAssumption DEF IInv, Placed
      <4> QED
        BY <2>3, <4>1, <4>2
    <3>5. \A fd \in Fd : sock'[fd] = NoClient => revents'[fd] = {}
      BY <1>3, <2>2 DEF IInv, Placed
    <3> QED
      BY <1>1, <3>2, <3>3, <3>4, <3>5 DEF Placed, Handling
  <2>8. \A fd \in Fd : InOrder(connections'[fd])
    BY <2>2, NoConnFacts DEF IInv
  <2>9. Counted'
    <3>1. \A d \in Client : d # c => UNCHANGED <<Coming(d), Taken(d), asked[d], peer[d]>>
      BY <1>1, <2>3 DEF Coming, Taken
    <3>2. Counts(c, 0, 0)'
      <4>1. Coming(c)' = 0 /\ asked[c] \in Nat /\ asked' = asked
        BY <1>1, <2>3 DEF Coming, IInv, TypeOK
      <4> QED
        BY <2>3, <4>1 DEF Counts
    <3>3. ASSUME NEW fd \in Fd, sock'[fd] # NoClient
          PROVE  Counts(sock[fd], connections[fd].in_end, connections[fd].ot_start)'
      <4>1. /\ fd # cur /\ sock[fd] \in Client /\ sock[fd] # c
            /\ sock'[fd] = sock[fd] /\ connections'[fd] = connections[fd]
            /\ Counts(sock[fd], connections[fd].in_end, connections[fd].ot_start)
        BY <1>2, <2>2, <2>4, <3>3 DEF IInv, Counted
      <4> QED
        BY <3>1, <4>1 DEF Counts
    <3>4. ASSUME NEW d \in Client, d # c, \A fd \in Fd : sock'[fd] # d
          PROVE  Counts(d, 0, 0)'
      <4>1. Counts(d, 0, 0)
        BY <1>2, <2>2, <3>4 DEF IInv, Counted
      <4> QED
        BY <3>1, <3>4, <4>1 DEF Counts
    <3> QED
      BY <1>1, <3>2, <3>3, <3>4 DEF IInv, Counted
  <2>10. Flags'
    BY <1>1, <1>3, <1>4, <2>2 DEF Flags, Idle, Handling
  <2> QED
    BY <2>5, <2>6, <2>7, <2>8, <2>9, <2>10 DEF IInv
<1>6. CASE ~ MustClose
  <2>1. pc' = "scan" /\ UNCHANGED <<connections, sock, peer, to_srv, outbox>>
    BY <1>6 DEF Reap
  <2>2. TypeOK'
    BY <1>1, <1>3, <2>1 DEF IInv, TypeOK, Phases
  <2>3. TableMatchesSockets' /\ (\A fd \in Fd : InOrder(connections[fd]))' /\ Counted'
    BY <1>1, <2>1, SameTable DEF kernel, clients
  <2>4. Placed'
    BY <1>1, <1>3, <2>1 DEF IInv, Placed, Handling
  <2>5. Settled(connections[cur]) /\ Fits({}, connections[cur])
    BY <1>2, <1>6 DEF MustClose, Served, Fits, conn
  <2>6. Flags'
    BY <1>3, <1>4, <2>1, <2>5 DEF Flags, Handling
  <2> QED
    BY <2>2, <2>3, <2>4, <2>6 DEF IInv
<1> QED
  BY <1>5, <1>6

-----------------------------------------------------------------------------
(* Every step.                                                                     *)

LEMMA InitInv ==
  ASSUME Init
  PROVE  IInv
<1>1. TypeOK
  <2>1. Zero \in Unit /\ NoConn \in Conn
    BY NoConnFacts DEF Zero, Unit
  <2>2. \A c \in Client : MaxReq[c] \in Nat
    BY LoopAssumption
  <2>3. /\ recv_buf \in [Offset -> Unit] /\ send_buf \in [Offset -> Unit]
        /\ connections \in [Fd -> Conn]
    BY <2>1 DEF Init
  <2> QED
    BY <2>2, <2>3 DEF Init, TypeOK, Phases
<1>2. TableMatchesSockets /\ Placed /\ Flags
  BY DEF Init, TableMatchesSockets, Placed, Flags, Handling
<1>3. \A fd \in Fd : InOrder(connections[fd])
  BY NoConnFacts DEF Init
<1>4. Counted
  <2>1. \A c \in Client :
          to_cli[c] = <<>> /\ to_srv[c] = <<>> /\ outbox[c] = <<>> /\ got[c] = <<>> /\ asked[c] = 0
    BY DEF Init
  <2>2. \A c \in Client : Coming(c) = 0 /\ Taken(c) = 0
    BY <1>1, <2>1 DEF TypeOK, Coming, Taken
  <2>3. \A c \in Client : Counts(c, 0, 0)
    BY <2>1, <2>2 DEF Counts
  <2>4. \A c \in Client : Len(to_cli[c]) <= SockCap[c]
    BY <2>1, LoopAssumption
  <2> QED
    BY <2>3, <2>4 DEF Init, Counted
<1> QED
  BY <1>1, <1>2, <1>3, <1>4 DEF IInv

LEMMA StutterInv ==
  ASSUME IInv, UNCHANGED vars
  PROVE  IInv'
<1>1. UNCHANGED <<server, kernel, clients>>
  BY DEF vars
<1>2. TypeOK'
  BY <1>1 DEF IInv, TypeOK, server, kernel, clients
<1>3. TableMatchesSockets' /\ (\A fd \in Fd : InOrder(connections[fd]))' /\ Counted'
  BY <1>1, SameTable DEF server
<1>4. Placed' /\ Flags'
  BY <1>1 DEF IInv, Placed, Flags, Idle, server, kernel, clients, conn
<1> QED
  BY <1>2, <1>3, <1>4 DEF IInv

LEMMA ServerInv ==
  ASSUME IInv, ServerStep
  PROVE  IInv'
  BY PollInv, AcceptInv, EndScanInv, ServeInv, RecvInv, RecvNothingInv, TryRequestInv,
     NoRequestInv, SendInv, SendFailsInv, SendKillsInv, ReapInv DEF ServerStep

LEMMA ClientInv ==
  ASSUME IInv, NEW c \in Client,
         \/ Connect(c) \/ ReadReplies(c) \/ Leave(c)
         \/ \E kind \in Kinds : Ask(c, kind)
         \/ \E n \in Offset : Arrive(c, n)
  PROVE  IInv'
  BY ConnectInv, ReadRepliesInv, LeaveInv, AskInv, ArriveInv

(* The inductive invariant: the flags, the phase of the thread, what poll said, the table    *)
(* and the offsets fit together in every reachable state of main_loop.                    *)
THEOREM Invariance == Spec => []IInv
<1>1. Init => IInv
  BY InitInv
<1>2. IInv /\ [Next]_vars => IInv'
  BY ServerInv, ClientInv, StutterInv DEF Next
<1> QED
  BY <1>1, <1>2, PTL DEF Spec

-----------------------------------------------------------------------------
(* What it gives.                                                                  *)

(* Every variable of the loop, the kernel and the clients stays of its type; above all, no  *)
(* offset of a connection passes what the clients send.                               *)
THEOREM TypeCorrect == Spec => []TypeOK
<1>1. IInv => TypeOK
  BY DEF IInv
<1> QED
  BY <1>1, Invariance, PTL

(* The table of main_loop has an entry for exactly the descriptors in use, and a client    *)
(* has one descriptor at most, through every accept, close and reuse.                  *)
THEOREM TableHolds == Spec => []TableMatchesSockets
<1>1. IInv => TableMatchesSockets
  BY DEF IInv
<1> QED
  BY <1>1, Invariance, PTL

(* The three assertions of main_loop hold: nothing a handler does to one connection      *)
(* makes what poll said of another one stale.                                         *)
THEOREM AssertsHoldAlways == Spec => []AssertsHold
<1>1. IInv => AssertsHold
  <2>1. ASSUME IInv, pc = "accept"
        PROVE  \A fd \in Free : connections[fd] = NoConn
    BY <2>1 DEF IInv, TableMatchesSockets, Free
  <2>2. ASSUME IInv, pc \in {"read", "write"}
        PROVE  Served(pc, revents[cur], conn)
    BY <2>2 DEF IInv, Flags, Handling
  <2> QED
    BY <2>1, <2>2 DEF AssertsHold, Served
<1> QED
  BY <1>1, Invariance, PTL

(* Whatever the handlers did with the flags, poll waits on every connection for the one     *)
(* thing it needs, however the reads and the writes were cut.                          *)
THEOREM PollsForWhatItNeedsHolds == Spec => []PollsForWhatItNeeds
<1>1. IInv => PollsForWhatItNeeds
  BY DEF IInv, PollsForWhatItNeeds, Open, Flags, Idle, TableMatchesSockets
<1> QED
  BY <1>1, Invariance, PTL

(* A connection's offsets are the totals of its life, none of their room is given back:   *)
(* in_end is all that came of what the client sent, two units a request when none of them   *)
(* is refused for its length, and ot_start all that was written to it.                  *)
THEOREM OffsetsCountLifetimeHolds ==
  ASSUME "big" \notin Kinds
  PROVE  Spec => []OffsetsCountLifetime
<1>1. IInv => OffsetsCountLifetime
  <2> SUFFICES ASSUME IInv, NEW fd \in Open, NEW c \in Client, c = sock[fd],
                      sock[fd] # NoClient
               PROVE  /\ peer[c] = "up" =>
                           connections[fd].in_end + Len(to_srv[c]) + Len(outbox[c]) = 2 * asked[c]
                      /\ peer[c] = "up" => connections[fd].ot_start = Len(got[c]) + Len(to_cli[c])
                      /\ 2 * connections[fd].ot_end = connections[fd].in_start
    BY DEF IInv, TypeOK, TableMatchesSockets, Open, OffsetsCountLifetime
  <2>1. fd \in Fd /\ InOrder(connections[fd])
    BY DEF IInv, Open
  <2> PICK e \in Nat, o \in Nat : e = connections[fd].in_end /\ o = connections[fd].ot_start
    BY <2>1, ConnFacts DEF IInv
  <2>2. Counts(c, e, o)
    BY <2>1 DEF IInv, Counted
  <2>3. peer[c] = "up" => e + Coming(c) = 2 * asked[c] /\ o = Taken(c)
    BY <2>2 DEF Counts
  <2>4. e + Coming(c) = e + Len(to_srv[c]) + Len(outbox[c])
    <3>1. to_srv \in [Client -> Seq(Unit)] /\ outbox \in [Client -> Seq(Unit)]
      BY DEF IInv, TypeOK
    <3> QED
      BY <3>1 DEF Coming
  <2> QED
    BY <2>1, <2>3, <2>4 DEF InOrder, Taken
<1> QED
  BY <1>1, Invariance, PTL

-----------------------------------------------------------------------------
(* The event loop implements Session, for any number of clients and descriptors, when   *)
(* requests arrive whole and only one client at a time can have replies that wait.       *)

(* Every frame is a request parse_req takes, and no read ever returns a part of one.    *)
WholeRequests == WholeFrames = TRUE /\ Kinds \subseteq {"rq"}

(* All clients but one ask once.                                                    *)
OneAsksMore == \E c0 \in Client : \A c \in Client \ {c0} : MaxReq[c] <= 1

-----------------------------------------------------------------------------
(* What lies at offset o of all that client c ever sent, and the units from e on.       *)
UnitOf(c, o) == IF o % 2 = 0 THEN Header ELSE Body("rq", c, (o + 1) \div 2)
Stream(c, e, s) == \A i \in 1 .. Len(s) : s[i] = UnitOf(c, e + i - 1)
Even(n) == n % 2 = 0

(* Client c goes on at e.                                                            *)
Sends(c, e) ==
  /\ Even(e) /\ Even(Len(to_srv[c])) /\ Even(Len(outbox[c]))
  /\ Stream(c, e, to_srv[c])
  /\ Stream(c, e + Len(to_srv[c]), outbox[c])

Streams ==
  /\ \A fd \in Fd : sock[fd] # NoClient => Sends(sock[fd], connections[fd].in_end)
  /\ \A c \in Client : (\A fd \in Fd : sock[fd] # c) => Sends(c, 0)

(* What was read of a connection is served before another one is.                     *)
Consumed ==
  /\ \A fd \in Fd : sock[fd] # NoClient /\ ~ (pc = "requests" /\ fd = cur) =>
       connections[fd].in_start = connections[fd].in_end
  /\ pc = "requests" =>
       \A o \in Offset : conn.in_start <= o /\ o < conn.in_end => recv_buf[o] = UnitOf(who, o)

(* Poll reported nothing but the truth, and nobody is disconnected while it is there.   *)
Truthful ==
  /\ \A fd \in Fd : "err" \in revents[fd] => peer[sock[fd]] \in {"reset", "pipe"}
  /\ \A fd \in Fd :
       "in" \in revents[fd] /\ peer[sock[fd]] = "up" /\ Idle(fd) => to_srv[sock[fd]] # <<>>
  /\ pc = "read" /\ peer[who] = "up" => to_srv[who] # <<>>
  /\ pc \in Handling /\ "CLOSED" \in conn.state => peer[who] # "up"

RInv == IInv /\ Streams /\ Consumed /\ Truthful

-----------------------------------------------------------------------------
(* The replies c has read, and the ones that are on the way to it.                    *)
Delivered ==
  /\ \A c \in Client : peer[c] # "up" => to_cli[c] = <<>>
  /\ \A c \in Client : \A i \in 1 .. Len(got[c]) : got[c][i] = ReplyTo(c, i)
  /\ \A c \in Client : \A i \in 1 .. Len(to_cli[c]) : to_cli[c][i] = ReplyTo(c, Len(got[c]) + i)

(* The replies of a connection that are not written lie in send_buf, where those of     *)
(* others do not: the first reply of every connection is written at once.              *)
Pending ==
  \A fd \in Fd : sock[fd] # NoClient =>
    \A o \in Offset : connections[fd].ot_start <= o /\ o < connections[fd].ot_end =>
      send_buf[o] = ReplyTo(sock[fd], o + 1)

Started(k) == k.ot_start = 0 => k.ot_end = 0

FirstIsOut ==
  /\ \A fd \in Fd : sock[fd] # NoClient /\ Idle(fd) => Started(connections[fd])
  /\ pc \in {"read", "write"} => Started(conn)
  /\ pc = "reap" => "CLOSED" \in conn.state \/ Started(conn)

SInv == RInv /\ Delivered /\ Pending /\ FirstIsOut

-----------------------------------------------------------------------------
(* Facts about the data.                                                           *)

LEMMA EvenFacts ==
  /\ Even(0) /\ ~ Even(1)
  /\ \A m, n \in Nat : Even(m) /\ Even(n) => Even(m + n)
  /\ \A n \in Nat : Even(2 * n)
  BY DEF Even

LEMMA UnitFacts ==
  ASSUME NEW c, NEW k \in Nat
  PROVE  /\ UnitOf(c, 2 * k) = Header
         /\ UnitOf(c, 2 * k + 1) = Body("rq", c, k + 1)
<1>1. (2 * k) % 2 = 0 /\ (2 * k + 1) % 2 = 1 /\ (2 * k + 1 + 1) \div 2 = k + 1
  OBVIOUS
<1> QED
  BY <1>1 DEF UnitOf

LEMMA EmptyStream ==
  ASSUME NEW c, NEW e \in Nat
  PROVE  Stream(c, e, <<>>) /\ Len(<<>>) = 0
  BY DEF Stream

LEMMA StreamConcat ==
  ASSUME NEW c, NEW e \in Nat, NEW s \in Seq(Unit), NEW t \in Seq(Unit),
         Stream(c, e, s), Stream(c, e + Len(s), t)
  PROVE  Stream(c, e, s \o t)
<1>1. PICK m \in Nat : m = Len(s)
  OBVIOUS
<1>2. PICK n \in Nat : n = Len(t)
  OBVIOUS
<1>3. Len(s \o t) = m + n
  BY <1>1, <1>2, ConcatProperties
<1>4. ASSUME NEW i \in 1 .. m + n
      PROVE  (s \o t)[i] = UnitOf(c, e + i - 1)
  <2>1. CASE i <= m
    <3>1. i \in 1 .. Len(s) /\ (s \o t)[i] = s[i]
      BY <1>1, <1>2, <2>1, ConcatProperties
    <3> QED
      BY <3>1 DEF Stream
  <2>2. CASE ~ (i <= m)
    <3>1. i - m \in 1 .. Len(t) /\ (s \o t)[i] = t[i - m]
      BY <1>1, <1>2, <2>2, ConcatProperties
    <3>2. t[i - m] = UnitOf(c, (e + m) + (i - m) - 1)
      BY <1>1, <3>1 DEF Stream
    <3>3. (e + m) + (i - m) - 1 = e + i - 1
      OBVIOUS
    <3> QED
      BY <3>1, <3>2, <3>3
  <2> QED
    BY <2>1, <2>2
<1> QED
  BY <1>3, <1>4 DEF Stream

-----------------------------------------------------------------------------
(* What a step that leaves most alone leaves true.                                      *)

LEMMA StreamsSame ==
  ASSUME Streams, UNCHANGED <<sock, to_srv, outbox>>,
         \A fd \in Fd : connections'[fd].in_end = connections[fd].in_end
  PROVE  Streams'
  BY DEF Streams, Sends

(* Only what client c sends changes, at the place it has reached.                      *)
LEMMA StreamsOf ==
  ASSUME IInv, Streams, NEW c \in Client, UNCHANGED <<sock, connections>>,
         \A d \in Client : d # c => to_srv'[d] = to_srv[d] /\ outbox'[d] = outbox[d],
         \A e, o \in Nat : Counts(c, e, o) /\ Sends(c, e) => Sends(c, e)'
  PROVE  Streams'
<1>1. ASSUME NEW fd \in Fd, sock[fd] # NoClient
      PROVE  Sends(sock[fd], connections[fd].in_end)'
  <2>1. /\ sock[fd] \in Client /\ Sends(sock[fd], connections[fd].in_end)
        /\ Counts(sock[fd], connections[fd].in_end, connections[fd].ot_start)
    BY <1>1 DEF IInv, TypeOK, Streams, Counted
  <2> PICK e \in Nat, o \in Nat : e = connections[fd].in_end /\ o = connections[fd].ot_start
    BY ConnFacts DEF IInv
  <2>2. CASE sock[fd] = c
    BY <2>1, <2>2
  <2>3. CASE sock[fd] # c
    BY <2>1, <2>3 DEF Sends
  <2> QED
    BY <2>2, <2>3
<1>2. ASSUME NEW d \in Client, \A fd \in Fd : sock[fd] # d
      PROVE  Sends(d, 0)'
  <2>1. Sends(d, 0) /\ Counts(d, 0, 0)
    BY <1>2 DEF IInv, Streams, Counted
  <2>2. CASE d = c
    BY <2>1, <2>2
  <2>3. CASE d # c
    BY <2>1, <2>3 DEF Sends
  <2> QED
    BY <2>2, <2>3
<1> QED
  BY <1>1, <1>2 DEF Streams

(* The clients and the network leave the server's variables alone.                     *)
LEMMA ClientRest ==
  ASSUME IInv, Consumed, Truthful, UNCHANGED <<server, sock>>,
         \A c \in Client : peer[c] \in {"reset", "pipe"} => peer'[c] = peer[c],
         \A c \in Client : peer'[c] = "up" => peer[c] \in {"none", "up"},
         \A c \in Client : to_srv[c] # <<>> => to_srv'[c] # <<>>
  PROVE  Consumed' /\ Truthful'
<1>1. Consumed'
  BY DEF Consumed, server, conn, who
<1>2. \A fd \in Fd : sock[fd] # NoClient => sock[fd] \in Client /\ peer[sock[fd]] # "none"
  BY DEF IInv, TypeOK, Placed
<1>3. \A fd \in Fd : revents[fd] # {} => sock[fd] # NoClient
  BY DEF IInv, Placed
<1>4. \A fd \in Fd : "err" \in revents'[fd] => peer'[sock'[fd]] \in {"reset", "pipe"}
  BY <1>2, <1>3 DEF Truthful, server
<1>5. \A fd \in Fd :
        "in" \in revents'[fd] /\ peer'[sock'[fd]] = "up" /\ Idle(fd)' => to_srv'[sock'[fd]] # <<>>
  <2>1. \A fd \in Fd : Idle(fd)' => Idle(fd)
    BY DEF Idle, server
  <2> QED
    BY <1>2, <1>3, <2>1 DEF Truthful, server
<1>6. /\ pc' \in Handling /\ "CLOSED" \in conn'.state => peer'[who'] # "up"
      /\ pc' = "read" /\ peer'[who'] = "up" => to_srv'[who'] # <<>>
  <2>1. cur' = cur /\ who' = who /\ conn' = conn /\ pc' = pc
    BY DEF who, conn, server
  <2> QED
    BY <2>1, WhoFacts, <1>2 DEF Truthful, who, Handling
<1> QED
  BY <1>1, <1>4, <1>5, <1>6 DEF Truthful

-----------------------------------------------------------------------------
(* The requests: the clients and the network.                                        *)

LEMMA ConnectR ==
  ASSUME RInv, NEW c \in Client, Connect(c)
  PROVE  Streams' /\ Consumed' /\ Truthful'
<1>1. /\ peer[c] = "none" /\ peer' = [peer EXCEPT ![c] = "up"]
      /\ UNCHANGED <<server, sock, to_srv, outbox>>
  BY DEF Connect
<1>2. Streams'
  BY <1>1, StreamsSame DEF RInv, server
<1>3. \A d \in Client : peer'[d] = IF d = c THEN "up" ELSE peer[d]
  BY <1>1 DEF RInv, IInv, TypeOK
<1>4. Consumed' /\ Truthful'
  BY <1>1, <1>3, ClientRest DEF RInv
<1> QED
  BY <1>2, <1>4

LEMMA ReadRepliesR ==
  ASSUME RInv, NEW c \in Client, ReadReplies(c)
  PROVE  Streams' /\ Consumed' /\ Truthful'
<1>1. UNCHANGED <<server, sock, to_srv, peer, outbox>>
  BY DEF ReadReplies
<1>2. Streams'
  BY <1>1, StreamsSame DEF RInv, server
<1>3. Consumed' /\ Truthful'
  BY <1>1, ClientRest DEF RInv
<1> QED
  BY <1>2, <1>3

LEMMA LeaveR ==
  ASSUME RInv, NEW c \in Client, Leave(c)
  PROVE  Streams' /\ Consumed' /\ Truthful'
<1>1. /\ peer[c] = "up" /\ peer' = [peer EXCEPT ![c] = IF to_cli[c] = <<>> THEN "fin" ELSE "reset"]
      /\ outbox' = [outbox EXCEPT ![c] = <<>>]
      /\ UNCHANGED <<server, sock, to_srv>>
  BY DEF Leave
<1>2. /\ \A d \in Client : d # c => peer'[d] = peer[d] /\ outbox'[d] = outbox[d]
      /\ outbox'[c] = <<>> /\ peer'[c] # "up"
  BY <1>1 DEF RInv, IInv, TypeOK
<1>3. ASSUME NEW e \in Nat, Sends(c, e)
      PROVE  Sends(c, e)'
  <2>1. Len(to_srv[c]) \in Nat
    BY ClientFacts DEF RInv, IInv
  <2> PICK n \in Nat : n = Len(to_srv[c])
    BY <2>1
  <2>2. Stream(c, e + n, <<>>) /\ Len(<<>>) = 0
    BY EmptyStream
  <2> QED
    BY <1>1, <1>2, <1>3, <2>2, EvenFacts DEF Sends
<1>4. Streams'
  BY <1>1, <1>2, <1>3, StreamsOf DEF RInv, server
<1>5. Consumed' /\ Truthful'
  BY <1>1, <1>2, ClientRest DEF RInv
<1> QED
  BY <1>4, <1>5

(* A request is the next frame of what its client sends.                               *)
LEMMA AskR ==
  ASSUME RInv, WholeRequests, NEW c \in Client, NEW kind \in Kinds, Ask(c, kind)
  PROVE  Streams' /\ Consumed' /\ Truthful'
<1> PICK a \in Nat : a = asked[c]
  BY ClientFacts DEF RInv, IInv
<1> DEFINE f == <<Header, Body("rq", c, a + 1)>>
<1>1. /\ peer[c] = "up" /\ kind = "rq" /\ "big" \notin Kinds
      /\ outbox' = [outbox EXCEPT ![c] = @ \o f]
      /\ UNCHANGED <<server, kernel, peer>>
  BY DEF Ask, Frame, WholeRequests
<1>2. f \in Seq(Unit) /\ Len(f) = 2 /\ f[1] = Header /\ f[2] = Body("rq", c, a + 1)
  BY LoopAssumption DEF Header, Body, Unit
<1> HIDE DEF f
<1>3. /\ outbox'[c] = outbox[c] \o f /\ outbox[c] \in Seq(Unit) /\ to_srv[c] \in Seq(Unit)
      /\ \A d \in Client : d # c => outbox'[d] = outbox[d]
  BY <1>1 DEF RInv, IInv, TypeOK
<1>4. ASSUME NEW e \in Nat, NEW o \in Nat, Counts(c, e, o), Sends(c, e)
      PROVE  Sends(c, e)'
  <2>1. PICK m \in Nat : m = Len(to_srv[c])
    BY <1>3
  <2>2. PICK n \in Nat : n = Len(outbox[c])
    BY <1>3
  <2>3. e + m + n = 2 * a
    <3>1. e + Coming(c) = 2 * a
      BY <1>1, <1>4 DEF Counts
    <3>2. Coming(c) = m + n
      BY <2>1, <2>2 DEF Coming
    <3> QED
      BY <3>1, <3>2
  <2>4. Stream(c, (e + m) + n, f)
    <3>1. UnitOf(c, 2 * a) = Header /\ UnitOf(c, 2 * a + 1) = Body("rq", c, a + 1)
      BY UnitFacts
    <3>2. (e + m) + n + 1 - 1 = 2 * a /\ (e + m) + n + 2 - 1 = 2 * a + 1
      BY <2>3
    <3>3. \A i \in 1 .. 2 : i = 1 \/ i = 2
      OBVIOUS
    <3> QED
      BY <1>2, <3>1, <3>2, <3>3 DEF Stream
  <2>5. Stream(c, e + m, outbox[c] \o f)
    <3>1. Stream(c, e + m, outbox[c])
      BY <1>4, <2>1 DEF Sends
    <3>2. Stream(c, (e + m) + Len(outbox[c]), f)
      BY <2>2, <2>4
    <3>3. f \in Seq(Unit) /\ e + m \in Nat
      BY <1>2
    <3> QED
      BY <1>3, <3>1, <3>2, <3>3, StreamConcat
  <2>6. Even(Len(outbox[c] \o f))
    <3>1. Len(outbox[c] \o f) = n + 2
      <4>1. PICK w \in Nat : w = Len(f)
        BY <1>2
      <4>2. f \in Seq(Unit) /\ outbox[c] \in Seq(Unit)
        BY <1>2, <1>3
      <4>3. Len(outbox[c] \o f) = n + w
        BY <2>2, <4>1, <4>2, ConcatProperties
      <4>4. w = 2
        BY <1>2, <4>1
      <4> QED
        BY <4>3, <4>4
    <3>2. Even(n) /\ Even(2 * 1)
      BY <1>4, <2>2, EvenFacts DEF Sends
    <3> QED
      BY <3>1, <3>2, EvenFacts
  <2>7. to_srv' = to_srv
    BY <1>1 DEF kernel
  <2> QED
    BY <1>3, <1>4, <2>1, <2>5, <2>6, <2>7 DEF Sends
<1>5. Streams'
  BY <1>1, <1>3, <1>4, StreamsOf DEF RInv, server, kernel
<1>6. Consumed' /\ Truthful'
  BY <1>1, ClientRest DEF RInv, kernel
<1> QED
  BY <1>5, <1>6

(* What arrives is all that was sent.                                                *)
LEMMA ArriveR ==
  ASSUME RInv, WholeRequests, NEW c \in Client, NEW n \in Offset, Arrive(c, n)
  PROVE  Streams' /\ Consumed' /\ Truthful'
<1>1. /\ n = Len(outbox[c]) /\ n # 0 /\ n \in Nat
      /\ to_srv' = [to_srv EXCEPT ![c] = @ \o SubSeq(outbox[c], 1, n)]
      /\ outbox' = [outbox EXCEPT ![c] = SubSeq(@, n + 1, Len(@))]
      /\ UNCHANGED <<server, sock, peer>>
  BY OffsetFacts DEF Arrive, WholeRequests
<1>2. outbox[c] \in Seq(Unit) /\ to_srv[c] \in Seq(Unit)
  BY DEF RInv, IInv, TypeOK
<1>3. SubSeq(outbox[c], 1, n) = outbox[c] /\ SubSeq(outbox[c], n + 1, Len(outbox[c])) = <<>>
  BY <1>1, <1>2, SubSeqFull, SubSeqEmpty
<1>4. /\ to_srv'[c] = to_srv[c] \o outbox[c] /\ outbox'[c] = <<>>
      /\ \A d \in Client : d # c => to_srv'[d] = to_srv[d] /\ outbox'[d] = outbox[d]
  BY <1>1, <1>3 DEF RInv, IInv, TypeOK
<1>5. PICK m \in Nat : m = Len(to_srv[c])
  BY <1>2
<1>6. Len(to_srv'[c]) = m + n
  <2>1. n \in Nat /\ n = Len(outbox[c])
    BY <1>1
  <2>2. Len(to_srv[c] \o outbox[c]) = m + n
    BY <1>2, <1>5, <2>1, ConcatProperties
  <2> QED
    BY <1>4, <2>2
<1>7. ASSUME NEW e \in Nat, Sends(c, e)
      PROVE  Sends(c, e)'
  <2>1. Even(e) /\ Even(m) /\ Even(n) /\ Stream(c, e, to_srv[c]) /\ Stream(c, e + Len(to_srv[c]), outbox[c])
    BY <1>1, <1>5, <1>7 DEF Sends
  <2>2. Stream(c, e, to_srv'[c])
    BY <1>2, <1>4, <2>1, StreamConcat
  <2>3. Even(Len(to_srv'[c]))
    BY <1>1, <1>6, <2>1, EvenFacts
  <2>4. Stream(c, e + (m + n), <<>>) /\ Len(<<>>) = 0
    BY <1>1, EmptyStream
  <2> QED
    BY <1>4, <1>6, <2>1, <2>2, <2>3, <2>4, EvenFacts DEF Sends
<1>8. Streams'
  BY <1>1, <1>4, <1>7, StreamsOf DEF RInv, server
<1>9. Consumed' /\ Truthful'
  <2>1. to_srv'[c] # <<>>
    <3>1. Len(to_srv'[c]) # 0
      BY <1>1, <1>6
    <3> QED
      BY <3>1
  <2> QED
    BY <1>1, <1>4, <2>1, ClientRest DEF RInv
<1> QED
  BY <1>8, <1>9

-----------------------------------------------------------------------------
(* The requests: main_loop.                                                          *)

LEMMA PollR ==
  ASSUME RInv, Poll
  PROVE  Streams' /\ Consumed' /\ Truthful'
<1>1. /\ pc = "poll" /\ pc' \in {"accept", "scan"}
      /\ revents' = [fd \in Fd |-> IF connections[fd] = NoConn THEN {} ELSE Polled(fd)]
      /\ UNCHANGED <<connections, cur, recv_buf, send_buf, kernel, clients>>
  BY DEF Poll
<1>2. Streams'
  BY <1>1, StreamsSame DEF RInv, kernel, clients
<1>3. Consumed'
  BY <1>1 DEF RInv, Consumed, kernel, clients
<1>4. Truthful'
  <2>1. ASSUME NEW fd \in Fd
        PROVE  /\ "err" \in revents'[fd] => peer[sock[fd]] \in {"reset", "pipe"}
               /\ "in" \in revents'[fd] /\ peer[sock[fd]] = "up" => to_srv[sock[fd]] # <<>>
    <3>1. revents'[fd] = {} \/ revents'[fd] = Polled(fd)
      BY <1>1
    <3> QED
      BY <3>1 DEF Polled
  <2> QED
    BY <1>1, <2>1 DEF Truthful, Handling, kernel, clients
<1> QED
  BY <1>2, <1>3, <1>4

(* A client that is accepted gets a descriptor nobody uses, and starts at 0.             *)
LEMMA AcceptEffect ==
  ASSUME IInv, Accept
  PROVE  /\ pc = "accept" /\ pc' = "scan"
         /\ UNCHANGED <<revents, cur, recv_buf, send_buf, to_srv, to_cli, clients>>
         /\ \/ UNCHANGED <<connections, sock>>
            \/ \E fd \in Fd, c \in Client :
                 /\ sock[fd] = NoClient /\ revents[fd] = {} /\ \A other \in Fd : sock[other] # c
                 /\ sock'[fd] = c
                 /\ connections'[fd].in_start = 0 /\ connections'[fd].in_end = 0
                 /\ connections'[fd].ot_start = 0 /\ connections'[fd].ot_end = 0
                 /\ \A other \in Fd : other # fd =>
                      sock'[other] = sock[other] /\ connections'[other] = connections[other]
<1>1. /\ pc = "accept" /\ pc' = "scan" /\ backlog \in Seq(Client) /\ backlog # <<>>
      /\ UNCHANGED <<revents, cur, recv_buf, send_buf, to_srv, to_cli, clients>>
  BY DEF IInv, TypeOK, Placed, Accept
<1>2. ASSUME NEW fd \in Free,
             sock' = [sock EXCEPT ![fd] = Head(backlog)],
             connections' = [connections EXCEPT ![fd] = [NoConn EXCEPT !.state = {"OPEN", "RECVING"}]]
      PROVE  \E c \in Client :
                 /\ sock[fd] = NoClient /\ revents[fd] = {} /\ \A other \in Fd : sock[other] # c
                 /\ sock'[fd] = c
                 /\ connections'[fd].in_start = 0 /\ connections'[fd].in_end = 0
                 /\ connections'[fd].ot_start = 0 /\ connections'[fd].ot_end = 0
                 /\ \A other \in Fd : other # fd =>
                      sock'[other] = sock[other] /\ connections'[other] = connections[other]
  <2>1. Head(backlog) \in Client /\ Head(backlog) = backlog[1] /\ 1 \in 1 .. Len(backlog)
    BY <1>1
  <2>2. \A other \in Fd : sock[other] # Head(backlog)
    BY <2>1 DEF IInv, Placed
  <2>3. fd \in Fd /\ sock[fd] = NoClient /\ revents[fd] = {}
    BY DEF Free, IInv, Placed
  <2>4. /\ sock'[fd] = Head(backlog)
        /\ \A other \in Fd : other # fd =>
             sock'[other] = sock[other] /\ connections'[other] = connections[other]
        /\ connections'[fd] = [NoConn EXCEPT !.state = {"OPEN", "RECVING"}]
    BY <1>2, <2>3 DEF IInv, TypeOK
  <2>5. /\ connections'[fd].in_start = 0 /\ connections'[fd].in_end = 0
        /\ connections'[fd].ot_start = 0 /\ connections'[fd].ot_end = 0
    BY <2>4 DEF NoConn
  <2> QED
    BY <2>1, <2>2, <2>3, <2>4, <2>5
<1>3. \/ UNCHANGED <<connections, sock>>
      \/ \E fd \in Free :
           /\ sock' = [sock EXCEPT ![fd] = Head(backlog)]
           /\ connections' = [connections EXCEPT ![fd] = [NoConn EXCEPT !.state = {"OPEN", "RECVING"}]]
  BY DEF Accept
<1>4. Free \subseteq Fd
  BY DEF Free
<1> QED
  BY <1>1, <1>2, <1>3, <1>4

LEMMA AcceptR ==
  ASSUME RInv, Accept
  PROVE  Streams' /\ Consumed' /\ Truthful'
<1>1. /\ pc = "accept" /\ pc' = "scan"
      /\ UNCHANGED <<revents, cur, recv_buf, send_buf, to_srv, to_cli, clients>>
  BY AcceptEffect DEF RInv
<1>2. CASE UNCHANGED <<connections, sock>>
  <2>1. Streams'
    BY <1>1, <1>2, StreamsSame DEF RInv, clients
  <2> QED
    BY <1>1, <1>2, <2>1 DEF RInv, Consumed, Truthful, Idle, Handling, clients
<1>3. ASSUME NEW fd \in Fd, NEW c \in Client,
             sock[fd] = NoClient, revents[fd] = {}, \A other \in Fd : sock[other] # c,
             sock'[fd] = c, connections'[fd].in_start = 0, connections'[fd].in_end = 0,
             \A other \in Fd : other # fd =>
               sock'[other] = sock[other] /\ connections'[other] = connections[other]
      PROVE  Streams' /\ Consumed' /\ Truthful'
  <2>1. \A d, e : Sends(d, e) => Sends(d, e)'
    BY <1>1 DEF Sends, clients
  <2>2. ASSUME NEW other \in Fd, sock'[other] # NoClient
        PROVE  Sends(sock[other], connections[other].in_end)'
    <3>1. CASE other = fd
      <4>1. Sends(c, 0)
        BY <1>3 DEF RInv, Streams
      <4> QED
        BY <1>1, <1>3, <3>1, <4>1 DEF Sends, clients
    <3>2. CASE other # fd
      <4>1. Sends(sock[other], connections[other].in_end)
        BY <1>3, <2>2, <3>2 DEF RInv, Streams
      <4> QED
        BY <1>1, <1>3, <3>2, <4>1 DEF Sends, clients
    <3> QED
      BY <3>1, <3>2
  <2>3. ASSUME NEW d \in Client, \A other \in Fd : sock'[other] # d
        PROVE  Sends(d, 0)'
    <3>1. \A other \in Fd : sock[other] # d
      BY <1>3, <2>3, LoopAssumption
    <3> QED
      BY <2>1, <3>1 DEF RInv, Streams
  <2>4. Streams'
    BY <2>2, <2>3 DEF Streams
  <2>5. Consumed'
    BY <1>1, <1>3 DEF RInv, Consumed
  <2>6. Truthful'
    BY <1>1, <1>3 DEF RInv, Truthful, Idle, Handling, clients
  <2> QED
    BY <2>4, <2>5, <2>6
<1> QED
  BY <1>2, <1>3, AcceptEffect DEF RInv

LEMMA ServeR ==
  ASSUME RInv, NEW fd \in Fd, Serve(fd)
  PROVE  Streams' /\ Consumed' /\ Truthful'
<1>1. /\ pc = "scan" /\ fd \in Ready /\ cur' = fd /\ pc' \in {"read", "write", "reap"}
      /\ pc' = "read" => "in" \in revents[fd]
      /\ UNCHANGED <<connections, revents, recv_buf, send_buf, kernel, clients>>
  BY DEF Serve
<1>2. Streams'
  BY <1>1, StreamsSame DEF RInv, kernel, clients
<1>3. Consumed'
  BY <1>1 DEF RInv, Consumed, kernel, clients
<1>4. "CLOSED" \notin conn'.state
  <2>1. sock[fd] # NoClient /\ Idle(fd)
    BY <1>1 DEF RInv, IInv, Placed, Ready, Idle
  <2>2. Settled(connections[fd])
    BY <2>1 DEF RInv, IInv, Flags
  <2> QED
    BY <1>1, <2>2 DEF Settled, conn
<1>5. Truthful'
  <2>1. pc' = "read" /\ peer'[who'] = "up" => to_srv'[who'] # <<>>
    BY <1>1 DEF RInv, Truthful, Idle, who, kernel, clients
  <2>2. \A other \in Fd : Idle(other)
    BY <1>1 DEF Idle
  <2> QED
    BY <1>1, <1>4, <2>1, <2>2 DEF RInv, Truthful, kernel, clients
<1> QED
  BY <1>2, <1>3, <1>5

LEMMA EndScanR ==
  ASSUME RInv, EndScan
  PROVE  Streams' /\ Consumed' /\ Truthful'
<1>1. /\ pc = "scan" /\ pc' = "poll"
      /\ UNCHANGED <<connections, revents, cur, recv_buf, send_buf, kernel, clients>>
  BY DEF EndScan
<1>2. Streams'
  BY <1>1, StreamsSame DEF RInv, kernel, clients
<1> QED
  BY <1>1, <1>2 DEF RInv, Consumed, Truthful, Idle, Handling, kernel, clients

LEMMA SendKillsR ==
  ASSUME RInv, SendKills
  PROVE  Streams' /\ Consumed' /\ Truthful'
<1>1. /\ pc \in {"flush", "write"} /\ pc' = "killed"
      /\ UNCHANGED <<connections, revents, cur, recv_buf, send_buf, kernel, clients>>
  BY DEF SendKills, Writing
<1>2. Streams'
  BY <1>1, StreamsSame DEF RInv, kernel, clients
<1> QED
  BY <1>1, <1>2 DEF RInv, Consumed, Truthful, Idle, Handling, kernel, clients

-----------------------------------------------------------------------------
(* The requests: handle_read and handle_write.                                        *)

(* A handler that is done with what was read, and closes for no client that is there.    *)
LEMMA HandlerR ==
  ASSUME RInv, pc \in Handling, pc' \in {"flush", "reap"}, NEW k \in Conn,
         connections' = [connections EXCEPT ![cur] = k],
         k.in_end = conn.in_end, k.in_start = conn.in_end,
         UNCHANGED <<revents, cur, sock, to_srv, outbox>>,
         \A c \in Client : peer'[c] = peer[c] \/ (peer[c] = "fin" /\ peer'[c] = "pipe"),
         "CLOSED" \in k.state => peer[who] # "up"
  PROVE  Streams' /\ Consumed' /\ Truthful'
<1>1. /\ cur \in Fd /\ connections'[cur] = k /\ conn' = k
      /\ \A fd \in Fd : fd # cur => connections'[fd] = connections[fd]
      /\ sock' = sock /\ who' = who /\ who \in Client
  BY WhoFacts DEF RInv, IInv, TypeOK, conn, who
<1>2. \A fd \in Fd : connections'[fd].in_end = connections[fd].in_end
  BY <1>1 DEF conn
<1>3. Streams'
  BY <1>2, StreamsSame DEF RInv
<1>4. Consumed'
  BY <1>1 DEF RInv, Consumed
<1>5. \A fd \in Fd : sock[fd] # NoClient => sock[fd] \in Client
  BY DEF RInv, IInv, TypeOK
<1>6. \A fd \in Fd : revents[fd] # {} => sock[fd] # NoClient
  BY DEF RInv, IInv, Placed
<1>7. Truthful'
  <2>1. \A fd \in Fd : "err" \in revents'[fd] => peer'[sock'[fd]] \in {"reset", "pipe"}
    BY <1>5, <1>6 DEF RInv, Truthful
  <2>2. \A fd \in Fd :
          /\ "in" \in revents'[fd] /\ peer'[sock'[fd]] = "up" /\ Idle(fd)'
          => to_srv'[sock'[fd]] # <<>>
    <3>1. \A fd \in Fd : Idle(fd)' => Idle(fd)
      BY DEF Idle, Handling
    <3> QED
      BY <1>5, <1>6, <3>1 DEF RInv, Truthful
  <2> QED
    BY <1>1, <2>1, <2>2 DEF Truthful
<1> QED
  BY <1>3, <1>4, <1>7

(* What is read goes where the last request ended.                                     *)
LEMMA RecvR ==
  ASSUME RInv, Recv
  PROVE  Streams' /\ Consumed' /\ Truthful'
<1> PICK c \in Client : c = who
  BY WhoFacts DEF Recv, Handling, RInv
<1> PICK n \in Nat : n = Len(to_srv[c])
  BY ClientFacts DEF RInv, IInv
<1>1. /\ pc = "read" /\ pc' = "requests"
      /\ connections' = [connections EXCEPT ![cur].in_end = @ + n]
      /\ recv_buf' = [o \in Offset |->
                        IF o \in conn.in_start .. (conn.in_start + n - 1)
                        THEN to_srv[c][o - conn.in_start + 1] ELSE recv_buf[o]]
      /\ to_srv' = [to_srv EXCEPT ![c] = <<>>]
      /\ UNCHANGED <<revents, cur, send_buf, sock, backlog, to_cli, clients>>
  BY DEF Recv
<1>2. /\ cur \in Fd /\ sock[cur] = c /\ c # NoClient /\ conn.in_start = conn.in_end
      /\ Sends(c, conn.in_end) /\ "CLOSED" \notin conn.state
      /\ \A fd \in Fd : fd # cur => sock[fd] # c
  BY <1>1, WhoFacts, LoopAssumption
  DEF RInv, IInv, TableMatchesSockets, Streams, Consumed, Served, Handling, conn, who
<1> PICK e \in Nat : e = conn.in_end
  BY <1>2, ConnFacts DEF RInv, IInv, conn
<1>3. /\ conn'.in_end = e + n /\ conn'.in_start = e /\ conn'.state = conn.state
      /\ connections'[cur] = conn' /\ who' = c /\ sock' = sock /\ cur' = cur
      /\ \A fd \in Fd : fd # cur => connections'[fd] = connections[fd]
  BY <1>1, <1>2 DEF RInv, IInv, TypeOK, Conn, conn, who
<1>4. to_srv'[c] = <<>> /\ outbox' = outbox /\ \A d \in Client : d # c => to_srv'[d] = to_srv[d]
  BY <1>1 DEF RInv, IInv, TypeOK, clients
<1>5. Streams'
  <2>1. Sends(c, e + n)'
    <3>1. Even(e) /\ Even(n) /\ Even(Len(outbox[c])) /\ Stream(c, e + n, outbox[c])
      BY <1>2 DEF Sends
    <3>2. Stream(c, e + n, <<>>) /\ Len(<<>>) = 0 /\ (e + n) + 0 = e + n
      BY EmptyStream
    <3>3. Even(e + n) /\ Even(0)
      BY <3>1, EvenFacts
    <3> QED
      BY <1>4, <3>1, <3>2, <3>3 DEF Sends
  <2>2. ASSUME NEW fd \in Fd, sock[fd] # NoClient
        PROVE  Sends(sock[fd], connections[fd].in_end)'
    <3>1. CASE fd = cur
      BY <1>2, <1>3, <2>1, <3>1 DEF Sends
    <3>2. CASE fd # cur
      <4>1. /\ sock[fd] \in Client /\ sock[fd] # c /\ connections'[fd] = connections[fd]
            /\ Sends(sock[fd], connections[fd].in_end)
        BY <1>2, <1>3, <2>2, <3>2 DEF RInv, IInv, TypeOK, Streams
      <4> QED
        BY <1>3, <1>4, <4>1 DEF Sends
    <3> QED
      BY <3>1, <3>2
  <2>3. ASSUME NEW d \in Client, \A fd \in Fd : sock[fd] # d
        PROVE  Sends(d, 0)'
    <3>1. d # c /\ Sends(d, 0)
      BY <1>2, <2>3 DEF RInv, Streams
    <3> QED
      BY <1>4, <3>1 DEF Sends
  <2> QED
    BY <1>3, <2>2, <2>3 DEF Streams
<1>6. Consumed'
  <2>1. ASSUME NEW o \in Offset, e <= o, o < e + n
        PROVE  recv_buf'[o] = UnitOf(c, o)
    <3> o \in Nat
      BY OffsetFacts
    <3>1. o \in e .. (e + n - 1) /\ o - e + 1 \in 1 .. n /\ e + (o - e + 1) - 1 = o
      BY <2>1, PlaceOf
    <3>2. recv_buf'[o] = to_srv[c][o - e + 1]
      BY <1>1, <1>2, <3>1
    <3>3. to_srv[c][o - e + 1] = UnitOf(c, e + (o - e + 1) - 1)
      BY <1>2, <3>1 DEF Sends, Stream
    <3> QED
      BY <3>1, <3>2, <3>3
  <2>2. \A fd \in Fd : sock[fd] # NoClient /\ fd # cur =>
          connections'[fd].in_start = connections'[fd].in_end
    BY <1>1, <1>3 DEF RInv, Consumed
  <2> QED
    BY <1>1, <1>3, <2>1, <2>2 DEF Consumed
<1>7. Truthful'
  <2>1. ASSUME NEW fd \in Fd, "in" \in revents'[fd], peer'[sock'[fd]] = "up", Idle(fd)'
        PROVE  to_srv'[sock'[fd]] # <<>>
    <3>1. Idle(fd) /\ fd # cur /\ sock[fd] \in Client
      BY <1>1, <2>1 DEF Idle, Handling, RInv, IInv, TypeOK, Placed
    <3>2. to_srv[sock[fd]] # <<>>
      BY <1>1, <2>1, <3>1 DEF RInv, Truthful, clients
    <3> QED
      BY <1>1, <1>2, <1>4, <3>1, <3>2
  <2> QED
    BY <1>1, <1>2, <1>3, <2>1 DEF RInv, Truthful, clients
<1> QED
  BY <1>5, <1>6, <1>7

(* No client that is there is found to send nothing.                                   *)
LEMMA RecvNothingR ==
  ASSUME RInv, RecvNothing
  PROVE  Streams' /\ Consumed' /\ Truthful'
<1>1. /\ pc = "read" /\ pc' = "reap" /\ to_srv[who] = <<>>
      /\ SetState({"CLOSED"}) \/ SetState({"CLOSED", "ERR"})
      /\ UNCHANGED <<revents, cur, recv_buf, send_buf, kernel, clients>>
  BY AfterReadFacts DEF RecvNothing, RInv
<1> PICK st \in SUBSET {"OPEN", "CLOSED", "SENDING", "RECVING", "ERR"} : SetState(st)
  BY <1>1
<1>2. cur \in Fd /\ conn \in Conn /\ sock[cur] # NoClient
  BY <1>1, WhoFacts DEF Handling, RInv, who
<1> PICK k \in Conn : k = [conn EXCEPT !.state = st]
  BY <1>2 DEF Conn
<1>3. /\ k.in_end = conn.in_end /\ k.in_start = conn.in_start
      /\ connections' = [connections EXCEPT ![cur] = k]
  BY <1>2 DEF Conn, SetState, conn
<1>4. conn.in_start = conn.in_end
  BY <1>1, <1>2 DEF RInv, Consumed, conn
<1>5. peer[who] # "up"
  BY <1>1 DEF RInv, Truthful
<1> QED
  BY <1>1, <1>3, <1>4, <1>5, HandlerR DEF Handling, kernel, clients

(* What is left of what was read is nothing, or begins with a whole request: the next     *)
(* one of this client.                                                               *)
LEMMA RequestFacts ==
  ASSUME RInv, pc = "requests"
  PROVE  /\ ~ Refused
         /\ ~ Servable => conn.in_start = conn.in_end
         /\ Servable => /\ conn.in_start + 2 <= conn.in_end
                        /\ second = ReplyTo(who, conn.ot_end + 1)
<1>1. /\ cur \in Fd /\ InOrder(conn) /\ sock[cur] # NoClient /\ who \in Client
      /\ conn.in_start \in Nat /\ conn.in_end \in Nat /\ conn.ot_end \in Nat /\ conn.in_end \in Offset
  BY WhoFacts, ConnFacts DEF Handling, RInv, IInv, conn, who
<1> PICK s \in Nat, e \in Nat, t \in Nat :
      s = conn.in_start /\ e = conn.in_end /\ t = conn.ot_end
  BY <1>1
<1>2. s = 2 * t /\ s <= e
  BY <1>1 DEF InOrder
<1>3. \E q \in Nat : e = 2 * q
  <2>1. Even(e)
    BY <1>1 DEF RInv, Streams, Sends, conn
  <2> QED
    BY <2>1 DEF Even
<1>4. e = s \/ s + 2 <= e
  BY <1>2, <1>3
<1>5. CASE e = s
  <2>1. in_size = 0
    BY <1>5 DEF in_size
  <2> QED
    BY <1>5, <2>1 DEF Servable, Refused, Incomplete
<1>6. CASE s + 2 <= e
  <2>1. s \in Offset /\ s + 1 \in Offset /\ s < e /\ s + 1 < e
    BY <1>1, <1>6, OffsetDown
  <2>2. first = UnitOf(who, s) /\ second = UnitOf(who, s + 1)
    BY <2>1 DEF RInv, Consumed, first, second
  <2>3. first = Header /\ second = Body("rq", who, t + 1)
    BY <1>2, <2>2, UnitFacts
  <2>4. in_size # 0 /\ in_size # 1
    BY <1>6 DEF in_size
  <2>5. first.kind = "hd" /\ second.kind = "rq"
    BY <2>3 DEF Header, Body
  <2> QED
    BY <1>6, <2>3, <2>4, <2>5 DEF Servable, Refused, Incomplete, ReplyTo
<1> QED
  BY <1>4, <1>5, <1>6

(* The effect of serving a request.                                                  *)
LEMMA TryRequestEffect ==
  ASSUME IInv, TryRequest
  PROVE  /\ pc = "requests" /\ pc' = pc /\ Servable /\ sock' = sock /\ cur' = cur
         /\ who' = who /\ connections'[cur] = conn'
         /\ conn'.state = conn.state /\ conn'.in_start = conn.in_start + 2
         /\ conn'.in_end = conn.in_end /\ conn'.ot_start = conn.ot_start
         /\ conn'.ot_end = conn.ot_end + 1
         /\ \A fd \in Fd : fd # cur => connections'[fd] = connections[fd]
         /\ send_buf' = [send_buf EXCEPT ![conn.ot_end] = second]
         /\ UNCHANGED <<revents, recv_buf, kernel, clients>>
<1>1. /\ pc = "requests" /\ Servable
      /\ send_buf' = [send_buf EXCEPT ![conn.ot_end] = second]
      /\ connections' = [connections EXCEPT ![cur].in_start = @ + 2, ![cur].ot_end = @ + 1]
      /\ UNCHANGED <<revents, pc, cur, recv_buf, kernel, clients>>
  BY DEF TryRequest
<1>2. conn \in Conn /\ cur \in Fd /\ connections \in [Fd -> Conn]
  BY <1>1, WhoFacts DEF Handling, IInv, TypeOK
<1> PICK k : k = [conn EXCEPT !.in_start = @ + 2, !.ot_end = @ + 1]
  OBVIOUS
<1>3. /\ k.state = conn.state /\ k.in_start = conn.in_start + 2 /\ k.in_end = conn.in_end
      /\ k.ot_start = conn.ot_start /\ k.ot_end = conn.ot_end + 1
  BY <1>2 DEF Conn
<1>4. connections' = [connections EXCEPT ![cur] = k]
  BY <1>1 DEF conn
<1>5. conn' = k /\ connections'[cur] = k /\ who' = who
      /\ \A fd \in Fd : fd # cur => connections'[fd] = connections[fd]
  BY <1>1, <1>2, <1>4 DEF conn, who, kernel
<1> QED
  BY <1>1, <1>3, <1>5 DEF kernel

LEMMA TryRequestR ==
  ASSUME RInv, TryRequest
  PROVE  Streams' /\ Consumed' /\ Truthful'
<1>1. /\ pc = "requests" /\ pc' = pc /\ sock' = sock /\ cur' = cur /\ who' = who
      /\ connections'[cur] = conn' /\ conn'.state = conn.state
      /\ conn'.in_start = conn.in_start + 2 /\ conn'.in_end = conn.in_end
      /\ \A fd \in Fd : fd # cur => connections'[fd] = connections[fd]
      /\ UNCHANGED <<revents, recv_buf, kernel, clients>>
  BY TryRequestEffect DEF RInv
<1>2. Streams'
  BY <1>1, StreamsSame DEF RInv, kernel, clients, conn
<1>3. Consumed'
  <2>1. ASSUME NEW o \in Offset, conn.in_start + 2 <= o
        PROVE  conn.in_start <= o
    <3>1. o \in Nat /\ conn.in_start \in Nat
      BY <1>1, OffsetFacts, WhoFacts, ConnFacts DEF Handling, RInv, IInv, conn
    <3> QED
      BY <2>1, <3>1
  <2> QED
    BY <1>1, <2>1 DEF RInv, Consumed
<1>4. Truthful'
  BY <1>1 DEF RInv, Truthful, Idle, Handling, kernel, clients
<1> QED
  BY <1>2, <1>3, <1>4

LEMMA NoRequestR ==
  ASSUME RInv, NoRequest
  PROVE  Streams' /\ Consumed' /\ Truthful'
<1>1. /\ pc = "requests" /\ ~ Servable /\ pc' \in {"flush", "reap"}
      /\ UNCHANGED <<revents, cur, recv_buf, send_buf, kernel, clients>>
  BY AfterReadFacts DEF NoRequest, RInv
<1>2. /\ cur \in Fd /\ conn \in Conn /\ sock[cur] # NoClient /\ "CLOSED" \notin conn.state
      /\ ~ Refused /\ conn.in_start = conn.in_end
  BY <1>1, WhoFacts, RequestFacts DEF Handling, RInv, Served, who
<1> PICK st \in SUBSET {"OPEN", "CLOSED", "SENDING", "RECVING", "ERR"} :
      SetState(st) /\ "CLOSED" \notin st
  BY <1>2 DEF NoRequest, Unserved, Garbled, Conn
<1> PICK k \in Conn : k = [conn EXCEPT !.state = st]
  BY <1>2 DEF Conn
<1>3. /\ k.in_end = conn.in_end /\ k.in_start = conn.in_start /\ "CLOSED" \notin k.state
      /\ connections' = [connections EXCEPT ![cur] = k]
  BY <1>2 DEF Conn, SetState, conn
<1> QED
  BY <1>1, <1>2, <1>3, HandlerR DEF Handling, kernel, clients

(* The effect of a write: n replies, one at least when none was written before.          *)
LEMMA SendEffect ==
  ASSUME IInv, Send
  PROVE  \E n \in Nat, k \in Conn :
           /\ pc \in {"flush", "write"} /\ pc' = "reap" /\ peer[who] \notin {"reset", "pipe"}
           /\ n <= ot_size /\ n <= SockCap[who] - Len(to_cli[who])
           /\ n = ot_size \/ n = SockCap[who] - Len(to_cli[who])
           /\ connections' = [connections EXCEPT ![cur] = k]
           /\ k.in_start = conn.in_start /\ k.in_end = conn.in_end /\ k.ot_end = conn.ot_end
           /\ k.ot_start = conn.ot_start + n
           /\ k.state = {"RECVING"} \/ k.state = conn.state
           /\ IF peer[who] = "fin"
              THEN /\ peer' \in {peer, [peer EXCEPT ![who] = "pipe"]}
                   /\ UNCHANGED to_cli
              ELSE /\ to_cli' = [to_cli EXCEPT ![who] =
                         @ \o [i \in 1 .. n |-> send_buf[conn.ot_start + i - 1]]]
                   /\ UNCHANGED peer
           /\ UNCHANGED <<revents, cur, recv_buf, send_buf, sock, backlog, to_srv,
                          outbox, asked, got>>
<1>1. /\ pc \in {"flush", "write"} /\ pc' = "reap" /\ peer[who] \notin {"reset", "pipe"}
      /\ UNCHANGED <<revents, cur, recv_buf, send_buf, sock, backlog, to_srv, outbox, asked, got>>
  BY WritingFacts DEF Send
<1>2. /\ conn \in Conn /\ ot_size \in Nat /\ ot_size = conn.ot_end - conn.ot_start
      /\ conn.ot_start \in Nat /\ conn.ot_end \in Nat /\ conn.ot_end \in Offset
      /\ Len(to_cli[who]) \in Nat /\ Len(to_cli[who]) <= SockCap[who] /\ SockCap[who] \in Nat
  BY <1>1, WhoFacts, WritingFacts, ConnFacts DEF Send, Handling, IInv, conn, ot_size
<1>3. PICK room \in Nat : room = SockCap[who] - Len(to_cli[who])
  BY <1>2
<1>4. PICK n \in Nat : n = IF ot_size <= room THEN ot_size ELSE room
  BY <1>2
<1>5. n <= ot_size /\ n <= room /\ (n = ot_size \/ n = room)
  BY <1>2, <1>4
<1>6. conn.ot_start + n \in Offset
  <2>1. conn.ot_start + n <= conn.ot_end /\ conn.ot_start + n \in Nat
    BY <1>2, <1>5
  <2> QED
    BY <1>2, <2>1, OffsetDown
<1>7. PICK k \in Conn : k = Sent(n)
  BY <1>2, <1>6 DEF Sent, Conn
<1>8. /\ k.in_start = conn.in_start /\ k.in_end = conn.in_end /\ k.ot_end = conn.ot_end
      /\ k.ot_start = conn.ot_start + n
      /\ k.state = {"RECVING"} \/ k.state = conn.state
  BY <1>2, <1>7 DEF Sent, Conn
<1>9. /\ connections' = [connections EXCEPT ![cur] = k]
      /\ IF peer[who] = "fin"
         THEN /\ peer' \in {peer, [peer EXCEPT ![who] = "pipe"]}
              /\ UNCHANGED to_cli
         ELSE /\ to_cli' = [to_cli EXCEPT ![who] =
                    @ \o [i \in 1 .. n |-> send_buf[conn.ot_start + i - 1]]]
              /\ UNCHANGED peer
  BY <1>3, <1>4, <1>7 DEF Send
<1> QED
  BY <1>1, <1>3, <1>5, <1>8, <1>9

LEMMA SendR ==
  ASSUME RInv, Send
  PROVE  Streams' /\ Consumed' /\ Truthful'
<1>1. PICK k \in Conn :
        /\ pc \in {"flush", "write"} /\ pc' = "reap"
        /\ connections' = [connections EXCEPT ![cur] = k]
        /\ k.in_start = conn.in_start /\ k.in_end = conn.in_end
        /\ k.state = {"RECVING"} \/ k.state = conn.state
        /\ peer' \in {peer, [peer EXCEPT ![who] = "pipe"]} /\ (peer' # peer => peer[who] = "fin")
        /\ UNCHANGED <<revents, cur, sock, to_srv, outbox>>
  BY SendEffect DEF RInv
<1>2. cur \in Fd /\ sock[cur] # NoClient /\ who \in Client /\ conn.in_start = conn.in_end
  BY <1>1, WhoFacts DEF Handling, RInv, Consumed, who, conn
<1>3. \A c \in Client : peer'[c] = peer[c] \/ (peer[c] = "fin" /\ peer'[c] = "pipe")
  BY <1>1, <1>2 DEF RInv, IInv, TypeOK
<1>4. "CLOSED" \in k.state => peer[who] # "up"
  BY <1>1 DEF RInv, Truthful, Handling
<1> QED
  BY <1>1, <1>2, <1>3, <1>4, HandlerR DEF Handling

LEMMA SendFailsR ==
  ASSUME RInv, SendFails
  PROVE  Streams' /\ Consumed' /\ Truthful'
<1>1. /\ pc \in {"flush", "write"} /\ pc' = "reap" /\ peer[who] = "reset"
      /\ SetState({"CLOSED", "ERR"})
      /\ UNCHANGED <<revents, cur, recv_buf, send_buf, kernel, clients>>
  BY WritingFacts DEF SendFails, RInv
<1>2. cur \in Fd /\ conn \in Conn /\ sock[cur] # NoClient /\ conn.in_start = conn.in_end
  BY <1>1, WhoFacts DEF Handling, RInv, Consumed, who, conn
<1> PICK k \in Conn : k = [conn EXCEPT !.state = {"CLOSED", "ERR"}]
  BY <1>2 DEF Conn
<1>3. /\ k.in_end = conn.in_end /\ k.in_start = conn.in_start
      /\ connections' = [connections EXCEPT ![cur] = k]
  BY <1>1, <1>2 DEF Conn, SetState, conn
<1> QED
  BY <1>1, <1>2, <1>3, HandlerR DEF Handling, kernel, clients

(* A connection is closed for a client that left.                                       *)
LEMMA ClosedFacts ==
  ASSUME RInv, pc = "reap", MustClose
  PROVE  who \in Client /\ peer[who] \in {"fin", "reset", "pipe"}
<1>1. who \in Client /\ cur \in Fd /\ sock[cur] # NoClient /\ who = sock[cur]
  BY WhoFacts DEF RInv, Handling, who
<1>2. peer[who] \notin {"none", "gone"}
  BY <1>1 DEF RInv, IInv, Placed
<1>3. peer[who] # "up"
  BY <1>1 DEF RInv, Truthful, MustClose, Handling
<1> QED
  BY <1>1, <1>2, <1>3 DEF RInv, IInv, TypeOK

(* A connection that is closed and its entry in the table.                               *)
LEMMA ReapEffect ==
  ASSUME RInv, Reap
  PROVE  /\ pc = "reap" /\ pc' \in {"scan", "killed"} /\ who \in Client
         /\ revents'[cur] = {} /\ \A fd \in Fd : fd # cur => revents'[fd] = revents[fd]
         /\ UNCHANGED <<cur, recv_buf, send_buf, backlog, to_cli, asked, got>>
         /\ \/ /\ ~ MustClose /\ pc' = "scan"
               /\ UNCHANGED <<connections, sock, peer, to_srv, outbox>>
            \/ /\ MustClose /\ peer[who] \in {"fin", "reset", "pipe"}
               /\ sock'[cur] = NoClient
               /\ \A fd \in Fd : fd # cur =>
                    sock'[fd] = sock[fd] /\ connections'[fd] = connections[fd] /\ sock[fd] # who
               /\ peer' = [peer EXCEPT ![who] = "gone"]
               /\ to_srv'[who] = <<>> /\ outbox'[who] = <<>>
               /\ \A d \in Client : d # who =>
                    to_srv'[d] = to_srv[d] /\ outbox'[d] = outbox[d]
<1>1. /\ pc = "reap" /\ pc' \in {"scan", "killed"} /\ revents' = [revents EXCEPT ![cur] = {}]
      /\ UNCHANGED <<cur, recv_buf, send_buf, backlog, to_cli, asked, got>>
  BY DEF Reap
<1>2. /\ cur \in Fd /\ who \in Client /\ sock[cur] = who /\ sock[cur] # NoClient
      /\ revents \in [Fd -> SUBSET {"in", "out", "err"}]
      /\ sock \in [Fd -> Client \cup {NoClient}] /\ connections \in [Fd -> Conn]
      /\ to_srv \in [Client -> Seq(Unit)] /\ outbox \in [Client -> Seq(Unit)]
  BY <1>1, WhoFacts DEF Handling, RInv, IInv, TypeOK, who
<1>3. \A fd \in Fd : fd # cur => sock[fd] # who
  BY <1>2 DEF RInv, IInv, TableMatchesSockets
<1>4. CASE MustClose
  <2>1. /\ connections' = [connections EXCEPT ![cur] = NoConn]
        /\ sock' = [sock EXCEPT ![cur] = NoClient]
        /\ peer' = [peer EXCEPT ![who] = "gone"]
        /\ to_srv' = [to_srv EXCEPT ![who] = <<>>]
        /\ outbox' = [outbox EXCEPT ![who] = <<>>]
    BY <1>4 DEF Reap
  <2>2. peer[who] \in {"fin", "reset", "pipe"}
    BY <1>1, <1>4, ClosedFacts
  <2> QED
    BY <1>1, <1>2, <1>3, <1>4, <2>1, <2>2
<1>5. CASE ~ MustClose
  <2>1. pc' = "scan" /\ UNCHANGED <<connections, sock, peer, to_srv, outbox>>
    BY <1>5 DEF Reap
  <2> QED
    BY <1>1, <1>2, <1>5, <2>1
<1> QED
  BY <1>4, <1>5

LEMMA ReapR ==
  ASSUME RInv, Reap
  PROVE  Streams' /\ Consumed' /\ Truthful'
<1> PICK c \in Client : c = who
  BY ReapEffect
<1>1. /\ pc = "reap" /\ pc' \in {"scan", "killed"}
      /\ revents'[cur] = {} /\ \A fd \in Fd : fd # cur => revents'[fd] = revents[fd]
      /\ UNCHANGED <<cur, recv_buf>>
  BY ReapEffect
<1>2. CASE UNCHANGED <<connections, sock, peer, to_srv, outbox>>
  <2>1. Streams'
    BY <1>2, StreamsSame DEF RInv
  <2>2. Consumed'
    BY <1>1, <1>2 DEF RInv, Consumed
  <2>3. \A fd \in Fd : fd # cur => Idle(fd)
    BY <1>1 DEF Idle, Handling
  <2>4. Truthful'
    BY <1>1, <1>2, <2>3 DEF RInv, Truthful, Handling
  <2> QED
    BY <2>1, <2>2, <2>4
<1>3. ASSUME sock'[cur] = NoClient,
             \A fd \in Fd : fd # cur =>
               sock'[fd] = sock[fd] /\ connections'[fd] = connections[fd] /\ sock[fd] # c,
             peer' = [peer EXCEPT ![c] = "gone"],
             to_srv'[c] = <<>>, outbox'[c] = <<>>,
             \A d \in Client : d # c => to_srv'[d] = to_srv[d] /\ outbox'[d] = outbox[d]
      PROVE  Streams' /\ Consumed' /\ Truthful'
  <2>1. cur \in Fd /\ sock[cur] = c /\ \A fd \in Fd : sock[fd] # NoClient => sock[fd] \in Client
    BY DEF RInv, IInv, TypeOK, who
  <2>2. ASSUME NEW fd \in Fd, sock'[fd] # NoClient
        PROVE  Sends(sock[fd], connections[fd].in_end)'
    <3>1. /\ fd # cur /\ sock'[fd] = sock[fd] /\ connections'[fd] = connections[fd]
          /\ sock[fd] \in Client /\ sock[fd] # c
      BY <1>3, <2>1, <2>2
    <3>2. Sends(sock[fd], connections[fd].in_end)
      BY <2>2, <3>1 DEF RInv, Streams
    <3> QED
      BY <1>3, <3>1, <3>2 DEF Sends
  <2>3. Sends(c, 0)'
    <3>1. Stream(c, 0, <<>>) /\ Len(<<>>) = 0 /\ 0 + 0 = 0
      BY EmptyStream
    <3> QED
      BY <1>3, <3>1, EvenFacts DEF Sends
  <2>4. ASSUME NEW d \in Client, d # c, \A fd \in Fd : sock'[fd] # d
        PROVE  Sends(d, 0)'
    <3>1. \A fd \in Fd : sock[fd] # d
      BY <1>3, <2>1, <2>4
    <3>2. Sends(d, 0)
      BY <3>1 DEF RInv, Streams
    <3> QED
      BY <1>3, <2>4, <3>2 DEF Sends
  <2>5. Streams'
    BY <2>2, <2>3, <2>4 DEF Streams
  <2>6. Consumed'
    BY <1>1, <1>3 DEF RInv, Consumed
  <2>7. Truthful'
    <3>1. \A fd \in Fd : fd # cur => Idle(fd)
      BY <1>1 DEF Idle, Handling
    <3>2. ASSUME NEW fd \in Fd, revents'[fd] # {}
          PROVE  /\ fd # cur /\ sock'[fd] = sock[fd] /\ sock[fd] \in Client /\ sock[fd] # c
                 /\ revents'[fd] = revents[fd] /\ peer'[sock[fd]] = peer[sock[fd]]
                 /\ to_srv'[sock[fd]] = to_srv[sock[fd]]
      <4>1. fd # cur /\ revents[fd] # {}
        BY <1>1, <3>2
      <4>2. sock[fd] \in Client /\ sock[fd] # c
        BY <1>3, <2>1, <4>1 DEF RInv, IInv, Placed
      <4> QED
        BY <1>1, <1>3, <4>1, <4>2 DEF RInv, IInv, TypeOK
    <3>3. pc' \notin Handling
      BY <1>1 DEF Handling
    <3> QED
      BY <3>1, <3>2, <3>3 DEF RInv, Truthful, Handling
  <2> QED
    BY <2>5, <2>6, <2>7
<1>4. \/ UNCHANGED <<connections, sock, peer, to_srv, outbox>>
      \/ /\ sock'[cur] = NoClient
         /\ \A fd \in Fd : fd # cur =>
              sock'[fd] = sock[fd] /\ connections'[fd] = connections[fd] /\ sock[fd] # c
         /\ peer' = [peer EXCEPT ![c] = "gone"]
         /\ to_srv'[c] = <<>> /\ outbox'[c] = <<>>
         /\ \A d \in Client : d # c => to_srv'[d] = to_srv[d] /\ outbox'[d] = outbox[d]
  BY ReapEffect
<1> QED
  BY <1>2, <1>3, <1>4

-----------------------------------------------------------------------------
LEMMA InitR ==
  ASSUME Init
  PROVE  RInv
<1>1. IInv
  BY InitInv
<1>2. Streams
  <2>1. \A c \in Client : Stream(c, 0, <<>>) /\ Stream(c, 0 + 0, <<>>)
    BY EmptyStream
  <2>2. \A c \in Client : to_srv[c] = <<>> /\ outbox[c] = <<>> /\ Len(<<>>) = 0
    BY EmptyStream DEF Init
  <2>3. \A c \in Client : Sends(c, 0)
    BY <2>1, <2>2, EvenFacts DEF Sends
  <2> QED
    BY <2>3 DEF Init, Streams
<1>3. Consumed /\ Truthful
  BY DEF Init, Consumed, Truthful, Handling
<1> QED
  BY <1>1, <1>2, <1>3 DEF RInv

LEMMA NextR ==
  ASSUME RInv, WholeRequests, [Next]_vars
  PROVE  RInv'
<1>1. IInv'
  BY ServerInv, ClientInv, StutterInv DEF Next, RInv
<1>2. CASE ServerStep
  BY <1>1, <1>2, PollR, AcceptR, EndScanR, ServeR, RecvR, RecvNothingR, TryRequestR, NoRequestR,
     SendR, SendFailsR, SendKillsR, ReapR DEF ServerStep, RInv
<1>3. ASSUME NEW c \in Client,
             \/ Connect(c) \/ ReadReplies(c) \/ Leave(c)
             \/ \E kind \in Kinds : Ask(c, kind)
             \/ \E n \in Offset : Arrive(c, n)
      PROVE  RInv'
  BY <1>1, <1>3, ConnectR, ReadRepliesR, LeaveR, AskR, ArriveR DEF RInv
<1>4. CASE UNCHANGED vars
  <2>1. UNCHANGED <<server, sock, to_srv, outbox, peer>>
    BY <1>4 DEF vars, kernel, clients
  <2>2. Streams'
    BY <2>1, StreamsSame DEF RInv, server
  <2> QED
    BY <1>1, <2>1, <2>2, ClientRest DEF RInv
<1> QED
  BY <1>2, <1>3, <1>4 DEF Next

(* In every reachable state what is read or on its way are the requests of each client in    *)
(* order, whole ones, though all are read into one buffer.                               *)
THEOREM RequestInvariance ==
  ASSUME WholeRequests
  PROVE  Spec => []RInv
<1>1. Init => RInv
  BY InitR
<1>2. RInv /\ [Next]_vars => RInv'
  BY NextR
<1> QED
  BY <1>1, <1>2, PTL DEF Spec

(* When requests arrive whole, main_loop closes no connection whose client is there: the   *)
(* buffer that all connections read into mixes up nobody's requests.                    *)
THEOREM NeverRefusedHolds ==
  ASSUME WholeRequests
  PROVE  Spec => []NeverRefused
<1>1. RInv => NeverRefused
  BY ClosedFacts DEF NeverRefused
<1> QED
  BY <1>1, RequestInvariance, PTL

-----------------------------------------------------------------------------
(* The replies: what a step that leaves most alone leaves true.                           *)

LEMMA DeliveredSame ==
  ASSUME Delivered, UNCHANGED <<to_cli, got>>,
         \A c \in Client : peer[c] = "up" => peer'[c] = "up"
  PROVE  Delivered'
  BY DEF Delivered

LEMMA ClientRestS ==
  ASSUME Pending, FirstIsOut, UNCHANGED <<server, sock>>
  PROVE  Pending' /\ FirstIsOut'
  BY DEF Pending, FirstIsOut, Idle, server, conn

LEMMA LoopRestS ==
  ASSUME SInv, pc \in {"poll", "accept", "scan"},
         UNCHANGED <<connections, send_buf, sock, to_cli, clients>>,
         pc' \in {"poll", "accept", "scan"} \/ (cur' \in Fd /\ sock[cur'] # NoClient)
  PROVE  Delivered' /\ Pending' /\ FirstIsOut'
<1>1. Delivered' /\ Pending'
  BY DeliveredSame DEF SInv, Pending, clients
<1>2. \A fd \in Fd : sock[fd] # NoClient => Started(connections[fd])
  BY DEF SInv, FirstIsOut, Idle
<1>3. FirstIsOut'
  BY <1>2 DEF FirstIsOut, conn
<1> QED
  BY <1>1, <1>3

(* A handler that writes part of the replies, or none, and leaves nothing that could not  *)
(* wait.                                                                            *)
LEMMA HandlerS ==
  ASSUME SInv, pc \in Handling, pc' \in {"flush", "reap"}, NEW k \in Conn,
         connections' = [connections EXCEPT ![cur] = k],
         k.ot_end = conn.ot_end, conn.ot_start <= k.ot_start,
         pc' = "reap" => "CLOSED" \in k.state \/ Started(k),
         UNCHANGED <<cur, sock, send_buf>>
  PROVE  Pending' /\ FirstIsOut'
<1>1. /\ cur \in Fd /\ connections'[cur] = k /\ conn' = k
      /\ \A fd \in Fd : fd # cur => connections'[fd] = connections[fd]
  BY WhoFacts DEF SInv, RInv, IInv, TypeOK, conn
<1>2. /\ conn.ot_start \in Nat /\ k.ot_start \in Nat
      /\ \A o \in Offset : k.ot_start <= o => conn.ot_start <= o
  <2>1. conn.ot_start \in Nat /\ k.ot_start \in Nat
    BY <1>1, ConnFacts, OffsetFacts DEF SInv, RInv, IInv, conn, Conn
  <2>2. ASSUME NEW o \in Offset, k.ot_start <= o
        PROVE  conn.ot_start <= o
    <3>1. o \in Nat
      BY OffsetFacts
    <3> QED
      BY <2>1, <2>2, <3>1
  <2> QED
    BY <2>1, <2>2
<1>3. ASSUME NEW fd \in Fd, sock[fd] # NoClient, NEW o \in Offset,
             connections'[fd].ot_start <= o, o < connections'[fd].ot_end
      PROVE  send_buf[o] = ReplyTo(sock[fd], o + 1)
  <2>1. connections[fd].ot_start <= o /\ o < connections[fd].ot_end
    BY <1>1, <1>2, <1>3 DEF conn
  <2> QED
    BY <1>3, <2>1 DEF SInv, Pending
<1>4. Pending'
  BY <1>3 DEF Pending
<1>5. \A fd \in Fd : Idle(fd)' => fd # cur /\ Idle(fd)
  BY DEF Idle, Handling
<1>6. FirstIsOut'
  BY <1>1, <1>5 DEF SInv, FirstIsOut
<1> QED
  BY <1>4, <1>6

-----------------------------------------------------------------------------
(* The replies: the clients and the network.                                          *)

(* All that was sent to a client are the replies to its requests, in order.                *)
LEMMA AllReplies ==
  ASSUME SInv, NEW c \in Client, NEW i \in 1 .. Len(got[c] \o to_cli[c])
  PROVE  (got[c] \o to_cli[c])[i] = ReplyTo(c, i)
<1>0. got[c] \in Seq(Unit) /\ to_cli[c] \in Seq(Unit)
  BY DEF SInv, RInv, IInv, TypeOK
<1>1. PICK m \in Nat : m = Len(got[c])
  BY <1>0
<1>2. PICK n \in Nat : n = Len(to_cli[c])
  BY <1>0
<1>3. /\ i \in 1 .. m + n
      /\ (got[c] \o to_cli[c])[i] = IF i <= m THEN got[c][i] ELSE to_cli[c][i - m]
  <2> got[c] \in Seq(Unit) /\ to_cli[c] \in Seq(Unit)
    BY <1>0
  <2>1. Len(got[c] \o to_cli[c]) = m + n
    BY <1>1, <1>2, ConcatProperties
  <2>2. i \in 1 .. m + n
    BY <2>1
  <2>3. \A j \in 1 .. m + n :
          (got[c] \o to_cli[c])[j] = IF j <= m THEN got[c][j] ELSE to_cli[c][j - m]
    BY <1>1, <1>2, ConcatProperties
  <2> QED
    BY <2>2, <2>3
<1>4. CASE i <= m
  <2>1. i \in 1 .. Len(got[c])
    BY <1>1, <1>3, <1>4
  <2> QED
    BY <1>3, <1>4, <2>1 DEF SInv, Delivered
<1>5. CASE ~ (i <= m)
  <2>1. i - m \in 1 .. Len(to_cli[c])
    BY <1>2, <1>3, <1>5
  <2>2. to_cli[c][i - m] = ReplyTo(c, Len(got[c]) + (i - m))
    BY <2>1 DEF SInv, Delivered
  <2>3. m + (i - m) = i
    BY <1>3
  <2> QED
    BY <1>1, <1>3, <1>5, <2>2, <2>3
<1> QED
  BY <1>4, <1>5

LEMMA ReadRepliesS ==
  ASSUME SInv, NEW c \in Client, ReadReplies(c)
  PROVE  Delivered' /\ Pending' /\ FirstIsOut'
<1>1. /\ got' = [got EXCEPT ![c] = @ \o to_cli[c]]
      /\ to_cli' = [to_cli EXCEPT ![c] = <<>>]
      /\ UNCHANGED <<server, sock, peer>>
  BY DEF ReadReplies
<1>2. /\ got[c] \in Seq(Unit) /\ to_cli[c] \in Seq(Unit)
      /\ got'[c] = got[c] \o to_cli[c] /\ to_cli'[c] = <<>>
      /\ \A d \in Client : d # c => got'[d] = got[d] /\ to_cli'[d] = to_cli[d]
  BY <1>1 DEF SInv, RInv, IInv, TypeOK
<1>3. \A i \in 1 .. Len(got[c] \o to_cli[c]) : (got[c] \o to_cli[c])[i] = ReplyTo(c, i)
  BY AllReplies
<1>4. Delivered'
  <2>1. \A i \in 1 .. Len(<<>>) : FALSE
    OBVIOUS
  <2>2. \A d \in Client : peer'[d] # "up" => to_cli'[d] = <<>>
    BY <1>1, <1>2 DEF SInv, Delivered
  <2>3. \A d \in Client : \A i \in 1 .. Len(got'[d]) : got'[d][i] = ReplyTo(d, i)
    <3>1. \A i \in 1 .. Len(got'[c]) : got'[c][i] = ReplyTo(c, i)
      BY <1>2, <1>3
    <3>2. \A d \in Client : d # c => \A i \in 1 .. Len(got'[d]) : got'[d][i] = ReplyTo(d, i)
      BY <1>2 DEF SInv, Delivered
    <3> QED
      BY <3>1, <3>2
  <2>4. ASSUME NEW d \in Client, NEW i \in 1 .. Len(to_cli'[d])
        PROVE  to_cli'[d][i] = ReplyTo(d, Len(got'[d]) + i)
    BY <1>2, <2>1, <2>4 DEF SInv, Delivered
  <2> QED
    BY <2>2, <2>3, <2>4 DEF Delivered
<1> QED
  BY <1>1, <1>4, ClientRestS DEF SInv

LEMMA LeaveS ==
  ASSUME SInv, NEW c \in Client, Leave(c)
  PROVE  Delivered' /\ Pending' /\ FirstIsOut'
<1>1. /\ to_cli' = [to_cli EXCEPT ![c] = <<>>]
      /\ peer' = [peer EXCEPT ![c] = IF to_cli[c] = <<>> THEN "fin" ELSE "reset"]
      /\ UNCHANGED <<server, sock, got>>
  BY DEF Leave
<1>2. /\ to_cli'[c] = <<>>
      /\ \A d \in Client : d # c => to_cli'[d] = to_cli[d] /\ peer'[d] = peer[d]
  BY <1>1 DEF SInv, RInv, IInv, TypeOK
<1>3. Delivered'
  <2>1. \A i \in 1 .. Len(<<>>) : FALSE
    OBVIOUS
  <2> QED
    BY <1>1, <1>2, <2>1 DEF SInv, Delivered
<1> QED
  BY <1>1, <1>3, ClientRestS DEF SInv

LEMMA ClientS ==
  ASSUME SInv, NEW c \in Client,
         \/ Connect(c) \/ ReadReplies(c) \/ Leave(c)
         \/ \E kind \in Kinds : Ask(c, kind)
         \/ \E n \in Offset : Arrive(c, n)
  PROVE  Delivered' /\ Pending' /\ FirstIsOut'
<1>1. CASE Connect(c) \/ (\E kind \in Kinds : Ask(c, kind)) \/ (\E n \in Offset : Arrive(c, n))
  <2>1. /\ UNCHANGED <<server, sock, to_cli, got>>
        /\ peer' = peer \/ peer' = [peer EXCEPT ![c] = "up"]
    BY <1>1 DEF Connect, Ask, Arrive, kernel
  <2>2. \A d \in Client : peer[d] = "up" => peer'[d] = "up"
    BY <2>1 DEF SInv, RInv, IInv, TypeOK
  <2> QED
    BY <2>1, <2>2, DeliveredSame, ClientRestS DEF SInv
<1> QED
  BY <1>1, ReadRepliesS, LeaveS

-----------------------------------------------------------------------------
(* The replies: the server.                                                          *)

LEMMA LoopS ==
  ASSUME SInv, \/ Poll \/ EndScan \/ \E fd \in Fd : Serve(fd)
  PROVE  Delivered' /\ Pending' /\ FirstIsOut'
<1>1. CASE Poll \/ EndScan
  BY <1>1, LoopRestS DEF Poll, EndScan, kernel
<1>2. ASSUME NEW fd \in Fd, Serve(fd)
      PROVE  Delivered' /\ Pending' /\ FirstIsOut'
  <2>1. /\ pc = "scan" /\ fd \in Ready /\ cur' = fd
        /\ UNCHANGED <<connections, send_buf, sock, to_cli, clients>>
    BY <1>2 DEF Serve, kernel
  <2>2. sock[fd] # NoClient
    BY <2>1 DEF SInv, RInv, IInv, Placed, Ready
  <2> QED
    BY <2>1, <2>2, LoopRestS
<1> QED
  BY <1>1, <1>2

LEMMA AcceptS ==
  ASSUME SInv, Accept
  PROVE  Delivered' /\ Pending' /\ FirstIsOut'
<1>1. /\ pc = "accept" /\ pc' = "scan" /\ UNCHANGED <<cur, send_buf, to_cli, clients>>
  BY AcceptEffect DEF SInv, RInv
<1>2. CASE UNCHANGED <<connections, sock>>
  BY <1>1, <1>2, LoopRestS
<1>3. ASSUME NEW fd \in Fd,
             connections'[fd].ot_start = 0, connections'[fd].ot_end = 0,
             \A other \in Fd : other # fd =>
               sock'[other] = sock[other] /\ connections'[other] = connections[other]
      PROVE  Delivered' /\ Pending' /\ FirstIsOut'
  <2>1. Delivered'
    BY <1>1, DeliveredSame DEF SInv, clients
  <2>2. ASSUME NEW other \in Fd, sock'[other] # NoClient, NEW o \in Offset,
               connections'[other].ot_start <= o, o < connections'[other].ot_end
        PROVE  send_buf'[o] = ReplyTo(sock'[other], o + 1)
    <3>1. other # fd
      <4>1. o \in Nat
        BY OffsetFacts
      <4> QED
        BY <1>3, <2>2, <4>1
    <3> QED
      BY <1>1, <1>3, <2>2, <3>1 DEF SInv, Pending
  <2>3. Pending'
    BY <2>2 DEF Pending
  <2>4. FirstIsOut'
    BY <1>1, <1>3 DEF SInv, FirstIsOut, Idle, Started
  <2> QED
    BY <2>1, <2>3, <2>4
<1>4. \/ UNCHANGED <<connections, sock>>
      \/ \E fd \in Fd :
           /\ connections'[fd].ot_start = 0 /\ connections'[fd].ot_end = 0
           /\ \A other \in Fd : other # fd =>
                sock'[other] = sock[other] /\ connections'[other] = connections[other]
  BY AcceptEffect DEF SInv, RInv
<1> QED
  BY <1>2, <1>3, <1>4

LEMMA RecvS ==
  ASSUME SInv, Recv
  PROVE  Delivered' /\ Pending' /\ FirstIsOut'
<1>1. /\ pc = "read" /\ pc' = "requests"
      /\ \E n \in Nat : connections' = [connections EXCEPT ![cur].in_end = @ + n]
      /\ UNCHANGED <<cur, send_buf, sock, to_cli, clients>>
  <2>1. Len(to_srv[who]) \in Nat
    BY WhoFacts DEF Recv, Handling, SInv, RInv
  <2> QED
    BY <2>1 DEF Recv
<1>2. Delivered'
  BY <1>1, DeliveredSame DEF SInv, clients
<1>3. \A fd \in Fd : /\ connections'[fd].ot_start = connections[fd].ot_start
                     /\ connections'[fd].ot_end = connections[fd].ot_end
  BY <1>1 DEF SInv, RInv, IInv, TypeOK, Conn
<1>4. Pending'
  BY <1>1, <1>3 DEF SInv, Pending
<1>5. FirstIsOut'
  BY <1>1, <1>3 DEF SInv, FirstIsOut, Idle, Handling, Started
<1> QED
  BY <1>2, <1>4, <1>5

LEMMA SetStateS ==
  ASSUME SInv, pc \in Handling, pc' \in {"flush", "reap"},
         NEW st \in SUBSET {"OPEN", "CLOSED", "SENDING", "RECVING", "ERR"}, SetState(st),
         pc' = "reap" => "CLOSED" \in st \/ Started(conn),
         UNCHANGED <<cur, send_buf, sock, to_cli, clients>>
  PROVE  Delivered' /\ Pending' /\ FirstIsOut'
<1>1. conn \in Conn /\ cur \in Fd /\ conn.ot_start \in Nat
  BY WhoFacts, ConnFacts DEF SInv, RInv, IInv, conn
<1> PICK k \in Conn : k = [conn EXCEPT !.state = st]
  BY <1>1 DEF Conn
<1>2. k.state = st /\ k.ot_start = conn.ot_start /\ k.ot_end = conn.ot_end
  BY <1>1 DEF Conn
<1>3. connections' = [connections EXCEPT ![cur] = k]
  BY DEF SetState, conn
<1>4. conn.ot_start <= k.ot_start
  BY <1>1, <1>2
<1>5. pc' = "reap" => "CLOSED" \in k.state \/ Started(k)
  BY <1>2 DEF Started
<1>6. Delivered'
  BY DeliveredSame DEF SInv, clients
<1> QED
  BY <1>2, <1>3, <1>4, <1>5, <1>6, HandlerS

LEMMA NoReplyS ==
  ASSUME SInv, RecvNothing \/ NoRequest \/ SendFails
  PROVE  Delivered' /\ Pending' /\ FirstIsOut'
<1>1. CASE RecvNothing
  <2>1. /\ pc = "read" /\ pc' = "reap"
        /\ UNCHANGED <<cur, send_buf, sock, to_cli, clients>>
    BY <1>1, AfterReadFacts DEF RecvNothing, SInv, RInv, kernel
  <2>2. PICK st \in SUBSET {"OPEN", "CLOSED", "SENDING", "RECVING", "ERR"} :
          SetState(st) /\ "CLOSED" \in st
    BY <1>1 DEF RecvNothing
  <2> QED
    BY <2>1, <2>2, SetStateS DEF Handling
<1>2. CASE SendFails
  <2>1. /\ pc \in {"flush", "write"} /\ pc' = "reap" /\ SetState({"CLOSED", "ERR"})
        /\ UNCHANGED <<cur, send_buf, sock, to_cli, clients>>
    BY <1>2, WritingFacts DEF SendFails, SInv, RInv, kernel
  <2> QED
    BY <2>1, SetStateS DEF Handling
<1>3. CASE NoRequest
  <2>1. pc = "requests" /\ UNCHANGED <<cur, send_buf, sock, to_cli, clients>>
    BY <1>3 DEF NoRequest, kernel
  <2>2. conn \in Conn /\ InOrder(conn) /\ conn.ot_start \in Nat /\ conn.ot_end \in Nat
    BY <2>1, WhoFacts, ConnFacts DEF Handling, SInv, RInv, IInv, conn
  <2>3. PICK st \in SUBSET {"OPEN", "CLOSED", "SENDING", "RECVING", "ERR"} :
          SetState(st) /\ (pc' = "flush" \/ (pc' = "reap" /\ ~ (ot_size > 0)))
    BY <1>3, <2>1, <2>2, AfterReadFacts DEF NoRequest, Unserved, Conn, SInv, RInv
  <2>4. ~ (ot_size > 0) => Started(conn)
    BY <2>2 DEF ot_size, InOrder, Started
  <2> QED
    BY <2>1, <2>3, <2>4, SetStateS DEF Handling
<1> QED
  BY <1>1, <1>2, <1>3

LEMMA SendKillsS ==
  ASSUME SInv, SendKills
  PROVE  Delivered' /\ Pending' /\ FirstIsOut'
<1>1. pc' = "killed" /\ UNCHANGED <<connections, cur, send_buf, sock, to_cli, clients>>
  BY DEF SendKills, kernel
<1>2. Delivered'
  BY <1>1, DeliveredSame DEF SInv, clients
<1> QED
  BY <1>1, <1>2 DEF SInv, Pending, FirstIsOut, Idle, Handling

(* Nothing but requests is answered.                                                  *)
LEMMA AnsweredWereAsked ==
  ASSUME IInv, NEW fd \in Fd, sock[fd] # NoClient
  PROVE  /\ sock[fd] \in Client /\ MaxReq[sock[fd]] \in Nat
         /\ 2 * connections[fd].ot_end <= connections[fd].in_end
         /\ connections[fd].in_end <= 2 * asked[sock[fd]]
         /\ asked[sock[fd]] \in Nat /\ asked[sock[fd]] <= MaxReq[sock[fd]]
<1>1. /\ sock[fd] \in Client
      /\ asked[sock[fd]] \in Nat /\ asked[sock[fd]] <= MaxReq[sock[fd]]
  BY DEF IInv, TypeOK
<1> PICK c \in Client, e \in Nat, s \in Nat, t \in Nat, a \in Nat, w \in Nat :
      /\ c = sock[fd] /\ e = connections[fd].in_end /\ s = connections[fd].in_start
      /\ t = connections[fd].ot_end /\ a = asked[c] /\ w = Coming(c)
  BY <1>1, ConnFacts, ClientFacts DEF IInv
<1>2. s <= e /\ 2 * t = s
  BY DEF IInv, InOrder
<1>3. e + w <= 2 * a
  BY DEF IInv, Counted, Counts
<1>4. 2 * t <= e /\ e <= 2 * a
  BY <1>2, <1>3
<1> QED
  BY <1>1, <1>4, LoopAssumption

(* A reply is stored where no other connection has one that is not written: such a one    *)
(* lies beyond offset 0, and of two clients one asks only once.                         *)
LEMMA TryRequestS ==
  ASSUME SInv, OneAsksMore, TryRequest
  PROVE  Delivered' /\ Pending' /\ FirstIsOut'
<1>1. /\ pc = "requests" /\ pc' = pc /\ Servable /\ sock' = sock /\ cur' = cur
      /\ conn'.ot_start = conn.ot_start /\ conn'.ot_end = conn.ot_end + 1
      /\ connections'[cur] = conn'
      /\ \A fd \in Fd : fd # cur => connections'[fd] = connections[fd]
      /\ send_buf' = [send_buf EXCEPT ![conn.ot_end] = second]
      /\ UNCHANGED <<to_cli, clients>>
  BY TryRequestEffect DEF SInv, RInv, kernel
<1>2. /\ cur \in Fd /\ sock[cur] # NoClient /\ who = sock[cur] /\ conn = connections[cur]
      /\ conn.ot_start \in Nat /\ conn.ot_end \in Nat /\ conn.ot_end \in Offset
      /\ send_buf \in [Offset -> Unit]
  BY <1>1, WhoFacts, ConnFacts DEF Handling, SInv, RInv, IInv, TypeOK, who, conn
<1> PICK t \in Nat, s \in Nat : t = conn.ot_end /\ s = conn.ot_start
  BY <1>2
<1>3. /\ send_buf'[t] = ReplyTo(who, t + 1)
      /\ \A o \in Offset : o # t => send_buf'[o] = send_buf[o]
  BY <1>1, <1>2, RequestFacts DEF SInv
<1>4. ASSUME NEW fd \in Fd, fd # cur, sock[fd] # NoClient,
             connections[fd].ot_start <= t, t < connections[fd].ot_end
      PROVE  FALSE
  <2>1. PICK d \in Client, u \in Nat, v \in Nat :
          d = sock[fd] /\ u = connections[fd].ot_start /\ v = connections[fd].ot_end
    BY <1>4, ConnFacts DEF SInv, RInv, IInv, TypeOK
  <2>2. u = 0 => v = 0
    BY <1>1, <1>4, <2>1 DEF SInv, FirstIsOut, Idle, Handling, Started
  <2>3. 1 <= t /\ 2 <= v
    BY <1>4, <2>1, <2>2
  <2>4. MaxReq[d] \in Nat /\ 2 <= MaxReq[d]
    <3>1. PICK e \in Nat, a \in Nat, x \in Nat :
            e = connections[fd].in_end /\ a = asked[d] /\ x = MaxReq[d]
      BY <1>4, <2>1, AnsweredWereAsked, ConnFacts DEF SInv, RInv, IInv
    <3>2. 2 * v <= e /\ e <= 2 * a /\ a <= x
      BY <1>4, <2>1, <3>1, AnsweredWereAsked DEF SInv, RInv
    <3> QED
      BY <2>3, <3>1, <3>2
  <2>5. who \in Client /\ MaxReq[who] \in Nat /\ 2 <= MaxReq[who]
    <3>1. PICK c \in Client, e \in Nat, a \in Nat, x \in Nat :
            c = who /\ e = conn.in_end /\ a = asked[c] /\ x = MaxReq[c]
      BY <1>2, AnsweredWereAsked, ConnFacts DEF SInv, RInv, IInv
    <3>2. e <= 2 * a /\ a <= x
      BY <1>2, <3>1, AnsweredWereAsked DEF SInv, RInv
    <3>3. 2 * t + 2 <= e
      <4>1. PICK b \in Nat : b = conn.in_start
        BY <1>2, ConnFacts DEF SInv, RInv, IInv
      <4>2. b + 2 <= e
        BY <1>1, <3>1, <4>1, RequestFacts DEF SInv
      <4>3. 2 * t = b
        BY <1>2, <4>1 DEF SInv, RInv, IInv, InOrder
      <4> QED
        BY <4>2, <4>3
    <3> QED
      BY <2>3, <3>1, <3>2, <3>3
  <2>6. d = who
    <3>1. PICK c0 \in Client : \A c \in Client \ {c0} : MaxReq[c] <= 1
      BY DEF OneAsksMore
    <3>2. d = c0
      BY <2>4, <3>1
    <3>3. who = c0
      BY <2>5, <3>1
    <3> QED
      BY <3>2, <3>3
  <2> QED
    BY <1>2, <1>4, <2>1, <2>6 DEF SInv, RInv, IInv, TableMatchesSockets
<1>5. ASSUME NEW fd \in Fd, sock[fd] # NoClient, NEW o \in Offset,
             connections'[fd].ot_start <= o, o < connections'[fd].ot_end
      PROVE  send_buf'[o] = ReplyTo(sock[fd], o + 1)
  <2>1. o \in Nat
    BY OffsetFacts
  <2>2. CASE fd = cur /\ o = t
    BY <1>2, <1>3, <2>2
  <2>3. CASE fd = cur /\ o # t
    <3>1. conn.ot_start <= o /\ o < conn.ot_end
      <4>1. s <= o /\ o < t + 1
        BY <1>1, <1>5, <2>3
      <4>2. o < t
        BY <2>1, <2>3, <4>1
      <4> QED
        BY <4>1, <4>2
    <3> QED
      BY <1>2, <1>3, <2>3, <3>1 DEF SInv, Pending
  <2>4. CASE fd # cur
    <3>1. connections[fd].ot_start <= o /\ o < connections[fd].ot_end
      BY <1>1, <1>5, <2>4
    <3>2. o # t
      BY <1>4, <1>5, <2>4, <3>1
    <3> QED
      BY <1>3, <1>5, <3>1, <3>2 DEF SInv, Pending
  <2> QED
    BY <2>2, <2>3, <2>4
<1>6. Pending'
  BY <1>1, <1>5 DEF Pending
<1>7. FirstIsOut'
  BY <1>1 DEF SInv, FirstIsOut, Idle, Handling
<1>8. Delivered'
  BY <1>1, DeliveredSame DEF SInv, clients
<1> QED
  BY <1>6, <1>7, <1>8

(* What is written goes on where the replies written before ended, and the first write of *)
(* a connection finds room.                                                           *)
LEMMA SendS ==
  ASSUME SInv, Send
  PROVE  Delivered' /\ Pending' /\ FirstIsOut'
<1>1. PICK n \in Nat, k \in Conn :
        /\ pc \in {"flush", "write"} /\ pc' = "reap" /\ peer[who] \notin {"reset", "pipe"}
        /\ n <= ot_size /\ n <= SockCap[who] - Len(to_cli[who])
        /\ n = ot_size \/ n = SockCap[who] - Len(to_cli[who])
        /\ connections' = [connections EXCEPT ![cur] = k]
        /\ k.ot_end = conn.ot_end /\ k.ot_start = conn.ot_start + n
        /\ IF peer[who] = "fin"
           THEN /\ peer' \in {peer, [peer EXCEPT ![who] = "pipe"]}
                /\ UNCHANGED to_cli
           ELSE /\ to_cli' = [to_cli EXCEPT ![who] =
                      @ \o [i \in 1 .. n |-> send_buf[conn.ot_start + i - 1]]]
                /\ UNCHANGED peer
        /\ UNCHANGED <<cur, send_buf, sock, got>>
  BY SendEffect DEF SInv, RInv
<1>2. /\ cur \in Fd /\ sock[cur] # NoClient /\ who = sock[cur] /\ who \in Client
      /\ conn = connections[cur] /\ conn.ot_start < conn.ot_end /\ conn.ot_end \in Offset
      /\ conn.ot_start \in Nat /\ conn.ot_end \in Nat
      /\ Counts(who, conn.in_end, conn.ot_start) /\ SockCap[who] \in Nat \ {0}
  BY <1>1, WhoFacts, ConnFacts DEF Handling, Served, SInv, RInv, IInv, who, conn
<1> PICK c \in Client, s \in Nat, t \in Nat, cap \in Nat \ {0} :
      c = who /\ s = conn.ot_start /\ t = conn.ot_end /\ cap = SockCap[c]
  BY <1>2
<1>3. /\ to_cli[c] \in Seq(Unit) /\ got[c] \in Seq(Unit)
      /\ to_cli \in [Client -> Seq(Unit)] /\ send_buf \in [Offset -> Unit]
      /\ peer \in [Client -> {"none", "up", "fin", "reset", "pipe", "gone"}]
  BY DEF SInv, RInv, IInv, TypeOK
<1>0. PICK m \in Nat, g \in Nat : m = Len(to_cli[c]) /\ g = Len(got[c])
  BY <1>3
<1> n \in Nat /\ m \in Nat /\ g \in Nat
  BY <1>0, <1>1
<1>4. /\ n + s <= t /\ s < t
      /\ n + s = t \/ n + m = cap
  <2>1. ot_size = t - s /\ s < t
    BY <1>2 DEF ot_size
  <2>2. n <= ot_size /\ (n = ot_size \/ n = cap - m)
    BY <1>0, <1>1
  <2> QED
    BY <2>1, <2>2
<1>5. peer[c] = "up" \/ peer[c] = "fin"
  <2>1. peer[c] \notin {"none", "gone"}
    BY <1>2 DEF SInv, RInv, IInv, Placed
  <2> QED
    BY <1>1, <1>3, <2>1
<1>6. peer[c] = "up" => s = g + m
  BY <1>0, <1>2 DEF Counts, Taken
<1>7. peer[c] = "fin" => m = 0
  <2>1. peer[c] = "fin" => to_cli[c] = <<>>
    BY DEF SInv, Delivered
  <2> QED
    BY <1>0, <2>1, EmptySeq
<1>8. s + n # 0
  <2>1. s = 0 => m = 0
    BY <1>5, <1>6, <1>7
  <2> SUFFICES ASSUME s + n = 0 PROVE FALSE
    OBVIOUS
  <2>2. s = 0 /\ n = 0
    OBVIOUS
  <2>3. n + s # t
    BY <1>4, <2>2
  <2>4. cap = 0
    BY <1>4, <2>1, <2>2, <2>3
  <2> QED
    BY <2>4
<1>9. Started(k)
  BY <1>1, <1>8 DEF Started
<1>10. Pending' /\ FirstIsOut'
  <2>1. conn.ot_start <= k.ot_start
    BY <1>1
  <2> QED
    BY <1>1, <1>9, <2>1, HandlerS DEF Handling
<1>11. CASE peer[c] = "fin"
  <2>1. UNCHANGED <<to_cli, got>> /\ \A d \in Client : peer[d] = "up" => peer'[d] = "up"
    BY <1>1, <1>3, <1>11
  <2>2. Delivered'
    BY <2>1, DeliveredSame DEF SInv
  <2> QED
    BY <1>10, <2>2
<1>12. CASE peer[c] = "up"
  <2> DEFINE r == [i \in 1 .. n |-> send_buf[s + i - 1]]
  <2>1. ASSUME NEW i \in 1 .. n
        PROVE  /\ s + i - 1 \in Offset /\ send_buf[s + i - 1] \in Unit
               /\ send_buf[s + i - 1] = ReplyTo(c, s + i)
    <3> PICK o \in Nat : o = s + i - 1
      OBVIOUS
    <3>1. s <= o /\ o < t /\ o <= t
      BY <1>4
    <3>2. o \in Offset
      BY <1>2, <3>1, OffsetDown
    <3>3. send_buf[o] = ReplyTo(c, o + 1)
      <4>1. conn.ot_start <= o /\ o < conn.ot_end
        BY <3>1
      <4> QED
        BY <1>2, <3>2, <4>1 DEF SInv, Pending
    <3>4. o + 1 = s + i
      OBVIOUS
    <3> QED
      BY <1>3, <3>2, <3>3, <3>4
  <2>2. r \in Seq(Unit) /\ Len(r) = n /\ \A i \in 1 .. n : r[i] = ReplyTo(c, s + i)
    <3>1. r \in [1 .. n -> Unit] /\ \A i \in 1 .. n : r[i] = ReplyTo(c, s + i)
      BY <2>1
    <3> HIDE DEF r
    <3> QED
      BY <3>1
  <2> HIDE DEF r
  <2>3. /\ to_cli'[c] = to_cli[c] \o r /\ peer' = peer
        /\ \A d \in Client : d # c => to_cli'[d] = to_cli[d]
    <3>1. to_cli' = [to_cli EXCEPT ![c] = @ \o [i \in 1 .. n |-> send_buf[conn.ot_start + i - 1]]]
          /\ peer' = peer
      BY <1>1, <1>12
    <3> QED
      BY <1>3, <3>1 DEF r
  <2>4. ASSUME NEW i \in 1 .. Len(to_cli[c] \o r)
        PROVE  (to_cli[c] \o r)[i] = ReplyTo(c, g + i)
    <3> r \in Seq(Unit) /\ to_cli[c] \in Seq(Unit)
      BY <1>3, <2>2
    <3>1. PICK w \in Nat : w = Len(r)
      BY <2>2
    <3>2. Len(to_cli[c] \o r) = m + w
      BY <1>0, <3>1, ConcatProperties
    <3>3. \A j \in 1 .. m + w : (to_cli[c] \o r)[j] = IF j <= m THEN to_cli[c][j] ELSE r[j - m]
      BY <1>0, <3>1, ConcatProperties
    <3>4. w = n
      BY <2>2, <3>1
    <3>5. i \in 1 .. m + n /\ (to_cli[c] \o r)[i] = IF i <= m THEN to_cli[c][i] ELSE r[i - m]
      BY <3>2, <3>3, <3>4
    <3>6. CASE i <= m
      <4>1. i \in 1 .. Len(to_cli[c])
        BY <1>0, <3>5, <3>6
      <4> QED
        BY <1>0, <3>5, <3>6, <4>1 DEF SInv, Delivered
    <3>7. CASE ~ (i <= m)
      <4>1. i - m \in 1 .. n
        BY <3>5, <3>7
      <4>2. s + (i - m) = g + i
        <5>1. s = g + m /\ i \in Nat
          BY <1>6, <1>12, <3>5
        <5> QED
          BY <5>1
      <4> QED
        BY <2>2, <3>5, <3>7, <4>1, <4>2
    <3> QED
      BY <3>6, <3>7
  <2>5. \A d \in Client : peer'[d] # "up" => to_cli'[d] = <<>>
    BY <1>12, <2>3 DEF SInv, Delivered
  <2>6. \A d \in Client : \A i \in 1 .. Len(got'[d]) : got'[d][i] = ReplyTo(d, i)
    BY <1>1 DEF SInv, Delivered
  <2>7. ASSUME NEW d \in Client, NEW i \in 1 .. Len(to_cli'[d])
        PROVE  to_cli'[d][i] = ReplyTo(d, Len(got'[d]) + i)
    <3>1. got' = got
      BY <1>1
    <3>2. CASE d = c
      BY <1>0, <2>3, <2>4, <2>7, <3>1, <3>2
    <3>3. CASE d # c
      BY <2>3, <2>7, <3>1, <3>3 DEF SInv, Delivered
    <3> QED
      BY <3>2, <3>3
  <2>8. Delivered'
    BY <2>5, <2>6, <2>7 DEF Delivered
  <2> QED
    BY <1>10, <2>8
<1> QED
  BY <1>5, <1>11, <1>12

(* A connection that is closed had no reply on the way to its client.                     *)
LEMMA ReapS ==
  ASSUME SInv, Reap
  PROVE  Delivered' /\ Pending' /\ FirstIsOut'
<1>1. /\ pc = "reap" /\ pc' \in {"scan", "killed"} /\ who \in Client /\ cur \in Fd
      /\ UNCHANGED <<cur, send_buf, to_cli, got>>
  BY ReapEffect, WhoFacts DEF Handling, SInv, RInv
<1> PICK c \in Client : c = who
  BY <1>1
<1>2. CASE ~ MustClose /\ pc' = "scan" /\ UNCHANGED <<connections, sock, peer>>
  <2>1. Delivered' /\ Pending'
    BY <1>1, <1>2, DeliveredSame DEF SInv, Pending
  <2>2. \A fd \in Fd : sock[fd] # NoClient => Started(connections[fd])
    BY <1>1, <1>2 DEF SInv, FirstIsOut, Idle, Handling, MustClose, conn
  <2> QED
    BY <1>2, <2>1, <2>2 DEF FirstIsOut
<1>3. CASE /\ peer[c] \in {"fin", "reset", "pipe"}
           /\ sock'[cur] = NoClient
           /\ \A fd \in Fd : fd # cur =>
                sock'[fd] = sock[fd] /\ connections'[fd] = connections[fd]
           /\ peer' = [peer EXCEPT ![c] = "gone"]
  <2>1. \A d \in Client : peer[d] = "up" => peer'[d] = "up"
    BY <1>3 DEF SInv, RInv, IInv, TypeOK
  <2>2. Delivered'
    BY <1>1, <2>1, DeliveredSame DEF SInv
  <2>3. Pending'
    BY <1>1, <1>3 DEF SInv, Pending
  <2>4. FirstIsOut'
    BY <1>1, <1>3 DEF SInv, FirstIsOut, Idle, Handling
  <2> QED
    BY <2>2, <2>3, <2>4
<1>4. \/ ~ MustClose /\ pc' = "scan" /\ UNCHANGED <<connections, sock, peer>>
      \/ /\ peer[c] \in {"fin", "reset", "pipe"}
         /\ sock'[cur] = NoClient
         /\ \A fd \in Fd : fd # cur =>
              sock'[fd] = sock[fd] /\ connections'[fd] = connections[fd]
         /\ peer' = [peer EXCEPT ![c] = "gone"]
  BY ReapEffect DEF SInv
<1> QED
  BY <1>2, <1>3, <1>4

-----------------------------------------------------------------------------
LEMMA InitS ==
  ASSUME Init
  PROVE  SInv
<1>1. RInv
  BY InitR
<1>2. Delivered
  <2>1. \A i \in 1 .. Len(<<>>) : FALSE
    OBVIOUS
  <2> QED
    BY <2>1 DEF Init, Delivered
<1>3. Pending /\ FirstIsOut
  BY DEF Init, Pending, FirstIsOut
<1> QED
  BY <1>1, <1>2, <1>3 DEF SInv

LEMMA NextS ==
  ASSUME SInv, WholeRequests, OneAsksMore, [Next]_vars
  PROVE  SInv'
<1>1. RInv'
  BY NextR DEF SInv
<1>2. CASE ServerStep
  BY <1>1, <1>2, LoopS, AcceptS, RecvS, NoReplyS, TryRequestS, SendS, SendKillsS, ReapS
     DEF ServerStep, SInv
<1>3. ASSUME NEW c \in Client,
             \/ Connect(c) \/ ReadReplies(c) \/ Leave(c)
             \/ \E kind \in Kinds : Ask(c, kind)
             \/ \E n \in Offset : Arrive(c, n)
      PROVE  SInv'
  BY <1>1, <1>3, ClientS DEF SInv
<1>4. CASE UNCHANGED vars
  <2>1. UNCHANGED <<server, sock, to_cli, got, peer>>
    BY <1>4 DEF vars, kernel, clients
  <2> QED
    BY <1>1, <2>1, ClientRestS, DeliveredSame DEF SInv
<1> QED
  BY <1>2, <1>3, <1>4 DEF Next

(* Every reachable state satisfies the invariant about the replies, too: the ones that wait  *)
(* in the common send_buf lie apart.                                                   *)
THEOREM ReplyInvariance ==
  ASSUME WholeRequests, OneAsksMore
  PROVE  Spec => []SInv
<1>1. Init => SInv
  BY InitS
<1>2. SInv /\ [Next]_vars => SInv'
  BY NextS
<1> QED
  BY <1>1, <1>2, PTL DEF Spec

(* What every client reads are the replies to its own requests, in the order it asked,       *)
(* though all connections write to one buffer at offsets of their own (loop_shared shows   *)
(* what happens when two clients have replies that wait).                                *)
THEOREM RepliesInOrderHolds ==
  ASSUME WholeRequests, OneAsksMore
  PROVE  Spec => []RepliesInOrder
<1>1. ASSUME SInv, NEW c \in Client
      PROVE  LET replies == got[c] \o to_cli[c]
             IN  \A i \in DOMAIN replies :
                   /\ replies[i].from = c /\ replies[i].kind = "rq"
                   /\ \A j \in 1 .. (i - 1) : replies[j].k < replies[i].k
  <2>1. got[c] \o to_cli[c] \in Seq(Unit)
    BY <1>1 DEF SInv, RInv, IInv, TypeOK
  <2>2. PICK replies \in Seq(Unit) : replies = got[c] \o to_cli[c]
    BY <2>1
  <2>3. \A i \in 1 .. Len(replies) : replies[i] = ReplyTo(c, i)
    BY <1>1, <2>2, AllReplies
  <2>4. ASSUME NEW i \in DOMAIN replies
        PROVE  /\ replies[i].from = c /\ replies[i].kind = "rq"
               /\ \A j \in 1 .. (i - 1) : replies[j].k < replies[i].k
    <3>1. i \in 1 .. Len(replies) /\ \A j \in 1 .. (i - 1) : j \in 1 .. Len(replies) /\ j < i
      OBVIOUS
    <3>2. replies[i] = ReplyTo(c, i) /\ \A j \in 1 .. (i - 1) : replies[j] = ReplyTo(c, j)
      BY <2>3, <3>1
    <3>3. \A j \in Nat : /\ ReplyTo(c, j).k = j
                        /\ ReplyTo(c, j).from = c /\ ReplyTo(c, j).kind = "rq"
      BY DEF ReplyTo, Body
    <3>4. i \in Nat /\ \A j \in 1 .. (i - 1) : j \in Nat
      BY <3>1
    <3> HIDE DEF ReplyTo
    <3> QED
      BY <3>1, <3>2, <3>3, <3>4
  <2> QED
    BY <2>2, <2>4
<1>2. SInv => RepliesInOrder
  BY <1>1 DEF RepliesInOrder
<1> QED
  BY <1>2, ReplyInvariance, PTL

-----------------------------------------------------------------------------
(* The event loop implements Session.                                                *)

(* The descriptor that leads to a client is the one ServedOf chooses.                     *)
LEMMA ServedIs ==
  ASSUME IInv, NEW c \in Client, NEW fd \in Fd, sock[fd] = c
  PROVE  ServedOf(c) = connections[fd].ot_end
<1>1. \A other \in Fd : sock[other] = sock[fd] => other = fd
  BY LoopAssumption DEF IInv, TableMatchesSockets
<1>2. (CHOOSE other \in Fd : sock[other] = c) = fd
  BY <1>1
<1> QED
  BY <1>2 DEF ServedOf

LEMMA ServedIsNext ==
  ASSUME IInv', NEW c \in Client, NEW fd \in Fd, sock'[fd] = c
  PROVE  ServedOf(c)' = connections'[fd].ot_end
<1>1. \A other \in Fd : sock'[other] = sock'[fd] => other = fd
  BY LoopAssumption DEF IInv, TableMatchesSockets
<1>2. (CHOOSE other \in Fd : sock'[other] = c) = fd
  BY <1>1
<1> QED
  BY <1>2 DEF ServedOf

(* A step that changes nothing Session speaks of.                                     *)
LEMMA Unseen ==
  ASSUME UNCHANGED <<sock, asked, got>>,
         \A fd \in Fd : connections'[fd].ot_end = connections[fd].ot_end,
         \A c \in Client : Life(c)' = Life(c),
         pc' # "killed" <=> pc # "killed"
  PROVE  UNCHANGED Sessions!svars
<1>1. \A c \in Client : ServedOf(c)' = ServedOf(c)
  BY DEF ServedOf
<1> QED
  BY <1>1 DEF Sessions!svars

LEMMA ConnectSession ==
  ASSUME SInv, NEW c \in Client, Connect(c)
  PROVE  Sessions!Connect(c)
<1>1. /\ peer[c] = "none" /\ peer' = [peer EXCEPT ![c] = "up"]
      /\ UNCHANGED <<connections, pc, sock, asked, got>>
  BY DEF Connect, server
<1>2. \A d \in Client : Life(d)' = IF d = c THEN "up" ELSE Life(d)
  BY <1>1 DEF SInv, RInv, IInv, TypeOK, Life
<1>3. \A d \in Client : ServedOf(d)' = ServedOf(d)
  BY <1>1 DEF ServedOf
<1>4. Life(c) = "none"
  BY <1>1 DEF Life
<1> QED
  BY <1>1, <1>2, <1>3, <1>4 DEF Sessions!Connect

LEMMA AskSession ==
  ASSUME SInv, NEW c \in Client, NEW kind \in Kinds, Ask(c, kind)
  PROVE  Sessions!Ask(c)
<1>1. /\ peer[c] = "up" /\ asked' = [asked EXCEPT ![c] = @ + 1]
      /\ UNCHANGED <<connections, pc, sock, peer, got>>
  BY DEF Ask, server, kernel
<1>2. \A d \in Client : Life(d)' = Life(d) /\ ServedOf(d)' = ServedOf(d)
  BY <1>1 DEF Life, ServedOf
<1>3. Life(c) = "up"
  BY <1>1 DEF Life
<1> QED
  BY <1>1, <1>2, <1>3 DEF Sessions!Ask

LEMMA LeaveSession ==
  ASSUME SInv, NEW c \in Client, Leave(c)
  PROVE  Sessions!Leave(c)
<1>1. /\ peer[c] = "up" /\ peer' = [peer EXCEPT ![c] = IF to_cli[c] = <<>> THEN "fin" ELSE "reset"]
      /\ UNCHANGED <<connections, pc, sock, asked, got>>
  BY DEF Leave, server
<1>2. \A d \in Client : Life(d)' = IF d = c THEN "left" ELSE Life(d)
  BY <1>1 DEF SInv, RInv, IInv, TypeOK, Life
<1>3. \A d \in Client : ServedOf(d)' = ServedOf(d)
  BY <1>1 DEF ServedOf
<1>4. Life(c) = "up"
  BY <1>1 DEF Life
<1> QED
  BY <1>1, <1>2, <1>3, <1>4 DEF Sessions!Leave

(* What is read are the first replies, no more than were made.                           *)
LEMMA ReadSession ==
  ASSUME SInv, NEW c \in Client, ReadReplies(c)
  PROVE  \E n \in 0 .. ServedOf(c) : Sessions!Read(c, n)
<1>1. /\ to_cli[c] # <<>> /\ got' = [got EXCEPT ![c] = @ \o to_cli[c]]
      /\ UNCHANGED <<connections, pc, sock, peer, asked>>
  BY DEF ReadReplies, server
<1>2. /\ got[c] \in Seq(Unit) /\ to_cli[c] \in Seq(Unit) /\ got \in [Client -> Seq(Unit)]
      /\ peer[c] = "up"
  BY <1>1 DEF SInv, RInv, IInv, TypeOK, Delivered
<1>3. PICK g \in Nat, m \in Nat : g = Len(got[c]) /\ m = Len(to_cli[c])
  BY <1>2
<1>4. m # 0
  BY <1>1, <1>2, <1>3, EmptySeq
<1>5. PICK v \in Nat : v = ServedOf(c) /\ g + m <= v
  <2>1. PICK fd \in Fd : sock[fd] = c
    <3>1. Counts(c, 0, 0) => 0 = g + m
      BY <1>2, <1>3 DEF Counts, Taken
    <3>2. ~ Counts(c, 0, 0)
      BY <1>4, <3>1
    <3> QED
      BY <3>2 DEF SInv, RInv, IInv, Counted
  <2>2. connections[fd].ot_start = g + m
    <3>1. c # NoClient
      BY LoopAssumption
    <3> QED
      BY <1>2, <1>3, <2>1, <3>1 DEF SInv, RInv, IInv, Counted, Counts, Taken
  <2>3. ServedOf(c) = connections[fd].ot_end
    BY <2>1, ServedIs DEF SInv, RInv
  <2>4. connections[fd].ot_start <= connections[fd].ot_end /\ connections[fd].ot_end \in Nat
    BY ConnFacts DEF SInv, RInv, IInv, InOrder
  <2> QED
    BY <2>2, <2>3, <2>4
<1>6. got[c] \o to_cli[c] = [k \in 1 .. g + m |-> ReplyTo(c, k)]
  <2>1. got[c] \o to_cli[c] \in Seq(Unit) /\ Len(got[c] \o to_cli[c]) = g + m
    <3> got[c] \in Seq(Unit) /\ to_cli[c] \in Seq(Unit)
      BY <1>2
    <3> QED
      BY <1>3, ConcatProperties
  <2>2. PICK replies \in Seq(Unit) : replies = got[c] \o to_cli[c]
    BY <2>1
  <2>3. \A i \in 1 .. Len(replies) : replies[i] = ReplyTo(c, i)
    BY <2>2, AllReplies
  <2>4. Len(replies) = g + m
    BY <2>1, <2>2
  <2>5. replies = [k \in 1 .. g + m |-> ReplyTo(c, k)]
    BY <2>3, <2>4
  <2> QED
    BY <2>2, <2>5
<1>7. got' = [got EXCEPT ![c] = [k \in 1 .. g + m |-> ReplyTo(c, k)]]
  BY <1>1, <1>6
<1>8. \A d \in Client : Life(d)' = Life(d) /\ ServedOf(d)' = ServedOf(d)
  BY <1>1 DEF Life, ServedOf
<1>9. Life(c) = "up"
  BY <1>2 DEF Life
<1>10. g + m \in Len(got[c]) .. ServedOf(c) /\ g + m \in 0 .. ServedOf(c)
  <2>1. g + m \in g .. v /\ g + m \in 0 .. v
    BY <1>5
  <2>2. g = Len(got[c]) /\ v = ServedOf(c)
    BY <1>3, <1>5
  <2> QED
    BY <2>1, <2>2
<1>11. Sessions!Read(c, g + m)
  BY <1>1, <1>7, <1>8, <1>9, <1>10 DEF Sessions!Read
<1> QED
  BY <1>10, <1>11

(* The next request of the client is served.                                            *)
LEMMA ServeSession ==
  ASSUME SInv, IInv', TryRequest
  PROVE  \E c \in Client : Sessions!Serve(c)
<1>1. /\ pc = "requests" /\ pc' = pc /\ Servable /\ sock' = sock
      /\ conn'.ot_end = conn.ot_end + 1 /\ connections'[cur] = conn'
      /\ \A fd \in Fd : fd # cur => connections'[fd] = connections[fd]
      /\ UNCHANGED clients
  BY TryRequestEffect DEF SInv, RInv
<1>2. /\ cur \in Fd /\ who \in Client /\ sock[cur] = who /\ sock[cur] # NoClient
      /\ conn = connections[cur]
  BY <1>1, WhoFacts DEF Handling, SInv, RInv, who, conn
<1> PICK c \in Client, t \in Nat : c = who /\ t = conn.ot_end
  BY <1>2, ConnFacts DEF SInv, RInv, IInv
<1>3. ServedOf(c) = t /\ ServedOf(c)' = t + 1
  BY <1>1, <1>2, ServedIs, ServedIsNext DEF SInv, RInv
<1>4. ASSUME NEW d \in Client, d # c
      PROVE  ServedOf(d)' = ServedOf(d)
  <2>1. CASE \A fd \in Fd : sock[fd] # d
    BY <1>1, <2>1 DEF ServedOf
  <2>2. ASSUME NEW fd \in Fd, sock[fd] = d
        PROVE  ServedOf(d)' = ServedOf(d)
    BY <1>1, <1>2, <1>4, <2>2, ServedIs, ServedIsNext DEF SInv, RInv
  <2> QED
    BY <2>1, <2>2
<1>5. t < asked[c]
  <2>1. PICK e \in Nat, a \in Nat, b \in Nat :
          e = conn.in_end /\ a = asked[c] /\ b = conn.in_start
    BY <1>2, AnsweredWereAsked, ConnFacts DEF SInv, RInv, IInv
  <2>2. e <= 2 * a
    BY <1>2, <2>1, AnsweredWereAsked DEF SInv, RInv
  <2>3. b + 2 <= e
    BY <1>1, <2>1, RequestFacts DEF SInv
  <2>4. 2 * t = b
    BY <1>2, <2>1 DEF SInv, RInv, IInv, InOrder
  <2>5. t < a
    BY <2>2, <2>3, <2>4
  <2> QED
    BY <2>1, <2>5
<1>6. Life(c) \in {"up", "left"}
  BY <1>2 DEF SInv, RInv, IInv, Placed, TypeOK, Life
<1>7. \A d \in Client : Life(d)' = Life(d)
  BY <1>1 DEF Life, clients
<1>8. Sessions!Serve(c)
  BY <1>1, <1>3, <1>4, <1>5, <1>6, <1>7 DEF Sessions!Serve, clients
<1> QED
  BY <1>8

(* A connection is closed for a client that left, and what was served of it forgotten.      *)
LEMMA ReapSession ==
  ASSUME SInv, IInv', Reap
  PROVE  \/ UNCHANGED Sessions!svars
         \/ \E c \in Client : Sessions!Disconnect(c)
<1>1. /\ pc = "reap" /\ pc' \in {"scan", "killed"} /\ who \in Client /\ cur \in Fd
      /\ sock[cur] = who /\ UNCHANGED <<asked, got>>
  BY ReapEffect, WhoFacts DEF Handling, SInv, RInv, who
<1> PICK c \in Client : c = who
  BY <1>1
<1>2. CASE pc' = "scan" /\ UNCHANGED <<connections, sock, peer>>
  BY <1>1, <1>2, Unseen DEF Life
<1>3. CASE /\ peer[c] \in {"fin", "reset", "pipe"}
           /\ sock'[cur] = NoClient
           /\ \A fd \in Fd : fd # cur =>
                sock'[fd] = sock[fd] /\ connections'[fd] = connections[fd] /\ sock[fd] # c
           /\ peer' = [peer EXCEPT ![c] = "gone"]
  <2>1. \A d \in Client : Life(d)' = IF d = c THEN "gone" ELSE Life(d)
    BY <1>3 DEF SInv, RInv, IInv, TypeOK, Life
  <2>2. Life(c) = "left"
    BY <1>3 DEF Life
  <2>3. ServedOf(c)' = 0
    <3>1. \A fd \in Fd : sock'[fd] # c
      BY <1>3, LoopAssumption
    <3> QED
      BY <3>1 DEF ServedOf
  <2>4. ASSUME NEW d \in Client, d # c
        PROVE  ServedOf(d)' = ServedOf(d)
    <3>1. CASE \A fd \in Fd : sock[fd] # d
      <4>1. \A fd \in Fd : sock'[fd] # d
        BY <1>3, <3>1, LoopAssumption
      <4> QED
        BY <3>1, <4>1 DEF ServedOf
    <3>2. ASSUME NEW fd \in Fd, sock[fd] = d
          PROVE  ServedOf(d)' = ServedOf(d)
      <4>1. fd # cur
        BY <1>1, <2>4, <3>2
      <4> QED
        BY <1>3, <3>2, <4>1, ServedIs, ServedIsNext DEF SInv, RInv
    <3> QED
      BY <3>1, <3>2
  <2>5. Sessions!Disconnect(c)
    BY <1>1, <2>1, <2>2, <2>3, <2>4 DEF Sessions!Disconnect
  <2> QED
    BY <2>5
<1>4. \/ pc' = "scan" /\ UNCHANGED <<connections, sock, peer>>
      \/ /\ peer[c] \in {"fin", "reset", "pipe"}
         /\ sock'[cur] = NoClient
         /\ \A fd \in Fd : fd # cur =>
              sock'[fd] = sock[fd] /\ connections'[fd] = connections[fd] /\ sock[fd] # c
         /\ peer' = [peer EXCEPT ![c] = "gone"]
  BY ReapEffect DEF SInv
<1> QED
  BY <1>2, <1>3, <1>4

(* Of a client that is accepted nothing was served.                                     *)
LEMMA AcceptSession ==
  ASSUME SInv, IInv', Accept
  PROVE  UNCHANGED Sessions!svars
<1>1. pc = "accept" /\ pc' = "scan" /\ UNCHANGED clients
  BY AcceptEffect DEF SInv, RInv
<1>2. CASE UNCHANGED <<connections, sock>>
  BY <1>1, <1>2, Unseen DEF Life, clients
<1>3. ASSUME NEW fd \in Fd, NEW c \in Client,
             sock[fd] = NoClient, \A other \in Fd : sock[other] # c, sock'[fd] = c,
             connections'[fd].ot_end = 0,
             \A other \in Fd : other # fd =>
               sock'[other] = sock[other] /\ connections'[other] = connections[other]
      PROVE  UNCHANGED Sessions!svars
  <2>1. ServedOf(c) = 0 /\ ServedOf(c)' = 0
    BY <1>3, ServedIsNext DEF ServedOf
  <2>2. ASSUME NEW d \in Client, d # c
        PROVE  ServedOf(d)' = ServedOf(d)
    <3>1. CASE \A other \in Fd : sock[other] # d
      <4>1. \A other \in Fd : sock'[other] # d
        BY <1>3, <2>2, <3>1
      <4> QED
        BY <3>1, <4>1 DEF ServedOf
    <3>2. ASSUME NEW other \in Fd, sock[other] = d
          PROVE  ServedOf(d)' = ServedOf(d)
      <4>1. other # fd
        BY <1>3, <3>2, LoopAssumption
      <4> QED
        BY <1>3, <3>2, <4>1, ServedIs, ServedIsNext DEF SInv, RInv
    <3> QED
      BY <3>1, <3>2
  <2>3. \A d \in Client : ServedOf(d)' = ServedOf(d) /\ Life(d)' = Life(d)
    BY <1>1, <2>1, <2>2 DEF Life, clients
  <2> QED
    BY <1>1, <2>3 DEF Sessions!svars, clients
<1>4. \/ UNCHANGED <<connections, sock>>
      \/ \E fd \in Fd, c \in Client :
           /\ sock[fd] = NoClient /\ \A other \in Fd : sock[other] # c
           /\ sock'[fd] = c /\ connections'[fd].ot_end = 0
           /\ \A other \in Fd : other # fd =>
                sock'[other] = sock[other] /\ connections'[other] = connections[other]
  BY AcceptEffect DEF SInv, RInv
<1> QED
  BY <1>2, <1>3, <1>4

LEMMA UnseenServer ==
  ASSUME SInv,
         \/ Poll \/ EndScan \/ (\E fd \in Fd : Serve(fd))
         \/ Recv \/ RecvNothing \/ NoRequest \/ Send \/ SendFails
  PROVE  UNCHANGED Sessions!svars
<1>1. CASE Poll \/ EndScan \/ \E fd \in Fd : Serve(fd)
  <2>1. /\ pc # "killed" /\ pc' # "killed"
        /\ UNCHANGED <<connections, kernel, clients>>
    BY <1>1 DEF Poll, EndScan, Serve
  <2> QED
    BY <2>1, Unseen DEF kernel, clients, Life
<1>2. CASE Recv
  <2>1. /\ pc = "read" /\ pc' = "requests" /\ UNCHANGED <<sock, clients>>
        /\ connections' = [connections EXCEPT ![cur].in_end = @ + Len(to_srv[who])]
    BY <1>2 DEF Recv
  <2>2. \A fd \in Fd : connections'[fd].ot_end = connections[fd].ot_end
    BY <2>1 DEF SInv, RInv, IInv, TypeOK, Conn
  <2> QED
    BY <2>1, <2>2, Unseen DEF clients, Life
<1>3. CASE RecvNothing \/ NoRequest \/ SendFails
  <2>1. /\ pc \in {"read", "requests", "flush", "write"}
        /\ pc' \in {"flush", "write", "reap"} /\ UNCHANGED <<kernel, clients>>
        /\ \E st : SetState(st)
    BY <1>3 DEF RecvNothing, NoRequest, Unserved, SendFails, Writing, AfterRead, AfterWrite
  <2>2. \A fd \in Fd : connections'[fd].ot_end = connections[fd].ot_end
    BY <2>1 DEF SetState, SInv, RInv, IInv, TypeOK, Conn
  <2> QED
    BY <2>1, <2>2, Unseen DEF kernel, clients, Life
<1>4. CASE Send
  <2>1. PICK k \in Conn :
          /\ pc \in {"flush", "write"} /\ pc' = "reap"
          /\ connections' = [connections EXCEPT ![cur] = k] /\ k.ot_end = conn.ot_end
          /\ peer' = peer \/ (peer[who] = "fin" /\ peer' = [peer EXCEPT ![who] = "pipe"])
          /\ UNCHANGED <<sock, asked, got>>
    BY <1>4, SendEffect DEF SInv, RInv
  <2>2. \A fd \in Fd : connections'[fd].ot_end = connections[fd].ot_end
    BY <2>1 DEF conn, SInv, RInv, IInv, TypeOK
  <2>3. \A d \in Client : Life(d)' = Life(d)
    BY <2>1 DEF Life, SInv, RInv, IInv, TypeOK
  <2> QED
    BY <2>1, <2>2, <2>3, Unseen
<1> QED
  BY <1>1, <1>2, <1>3, <1>4

LEMMA NextSession ==
  ASSUME SInv, IInv', [Next]_vars
  PROVE  [Sessions!Next]_(Sessions!svars)
<1>1. CASE ServerStep
  <2>1. CASE SendKills
    <3>1. /\ pc # "killed" /\ pc' = "killed" /\ UNCHANGED <<connections, kernel, clients>>
      BY <2>1 DEF SendKills, Writing
    <3>2. \A d \in Client : ServedOf(d)' = ServedOf(d) /\ Life(d)' = Life(d)
      BY <3>1 DEF ServedOf, Life, kernel, clients
    <3>3. Sessions!Die
      BY <3>1, <3>2 DEF Sessions!Die, clients
    <3> QED
      BY <3>3 DEF Sessions!Next
  <2> QED
    BY <1>1, <2>1, UnseenServer, AcceptSession, ServeSession, ReapSession
       DEF ServerStep, Sessions!Next
<1>2. ASSUME NEW c \in Client,
             \/ Connect(c) \/ ReadReplies(c) \/ Leave(c)
             \/ \E kind \in Kinds : Ask(c, kind)
      PROVE  Sessions!Next
  <2>1. CASE ReadReplies(c)
    <3>1. PICK n \in 0 .. ServedOf(c) : Sessions!Read(c, n)
      BY <2>1, ReadSession
    <3> QED
      BY <3>1 DEF Sessions!Next
  <2> QED
    BY <1>2, <2>1, ConnectSession, LeaveSession, AskSession DEF Sessions!Next
<1>3. ASSUME NEW c \in Client, NEW n \in Offset, Arrive(c, n)
      PROVE  UNCHANGED Sessions!svars
  BY <1>3, Unseen DEF Arrive, server, Life
<1>4. CASE UNCHANGED vars
  BY <1>4, Unseen DEF vars, server, kernel, clients, Life
<1> QED
  BY <1>1, <1>2, <1>3, <1>4 DEF Next

LEMMA InitSession ==
  ASSUME Init
  PROVE  Sessions!Init
<1>1. \A c \in Client : Life(c) = "none" /\ ServedOf(c) = 0
  BY LoopAssumption DEF Init, Life, ServedOf
<1> QED
  BY <1>1 DEF Init, Sessions!Init

(* For any number of clients and descriptors, however the kernel and the clients act: every   *)
(* step is one of Session or changes nothing a client can tell.  No client is served twice,  *)
(* out of order, with the reply of another, for what it did not ask, or disconnected while   *)
(* it is there, if requests arrive whole and one client only has more than one to ask.      *)
THEOREM ImplementsSession ==
  ASSUME WholeRequests, OneAsksMore
  PROVE  Spec => SessionSpec
<1>1. Init => Sessions!Init
  BY InitSession
<1>2. SInv /\ SInv' /\ [Next]_vars => [Sessions!Next]_(Sessions!svars)
  BY NextSession DEF SInv, RInv
<1> QED
  BY <1>1, <1>2, ReplyInvariance, PTL DEF Spec, SessionSpec, Sessions!Spec
=============================================================================
