-------------------------------- MODULE Requests --------------------------------
(***************************************************************************)
(* The format of a request: how send_req (src/src/test/pl_client.cc) makes one of a     *)
(* list of strings, and how try_request and parse_req (src/src/io.cpp) take requests      *)
(* from the bytes of a connection.  A request is its length and its body, the body the    *)
(* number of its strings and every string after its own length.  EventLoop and KVStore     *)
(* take the outcome for granted: a served command, a wait, or a refusal.                *)
(***************************************************************************)
EXTENDS Naturals, Sequences, SequencesExt

CONSTANTS Base,     (* 256: a byte is 0 .. Base - 1                                 *)
          FieldLen, (* 4: the bytes of a uint32_t                                    *)
          MaxFrame, (* 20000: the longest body try_request waits for                   *)
          MaxStrs,  (* 20000: the most strings parse_req takes                        *)
          Refused,  (* -1                                                        *)
          Behind,   (* what recv_buf may hold behind a request                         *)
          Sent      (* what clients send: lists of commands, one after the other        *)

Byte == 0 .. (Base - 1)

-----------------------------------------------------------------------------
(* send_req.                                                                 *)

(* What the bytes of a uint32_t count for: the lowest comes first.                         *)
Weight[i \in 0 .. FieldLen] == IF i = 0 THEN 1 ELSE Base * Weight[i - 1]

Field(n) == [i \in 1 .. FieldLen |-> (n \div Weight[i - 1]) % Base]

EncodedStr(s) == Field(Len(s)) \o s

Strings(cmd) == FlattenSeq([i \in 1 .. Len(cmd) |-> EncodedStr(cmd[i])])

Body(cmd) == Field(Len(cmd)) \o Strings(cmd)

Frame(cmd) == Field(Len(Body(cmd))) \o Body(cmd)

Stream(cmds) == FlattenSeq([i \in 1 .. Len(cmds) |-> Frame(cmds[i])])

(* The commands within the limits of the server.  A body with a string in it holds two        *)
(* lengths beside the string.                                                       *)
Command ==
  {cmd \in BoundedSeq(BoundedSeq(Byte, MaxFrame - 2 * FieldLen), MaxStrs) :
     Len(Body(cmd)) <= MaxFrame}

(* The state of parse_req's loop.                                                   *)
Parsed == [at : Nat, out : Seq(Seq(Byte))]

(* Every length up to MaxFrame has its field.                                          *)
ASSUME FormatAssumption ==
  /\ Base \in Nat \ {0, 1} /\ FieldLen \in Nat \ {0} /\ MaxFrame \in Nat /\ MaxStrs \in Nat
  /\ MaxFrame < Weight[FieldLen]
  /\ Refused \notin Parsed /\ Refused \notin Seq(Seq(Byte))
  /\ Behind \subseteq Seq(Byte) /\ Sent \subseteq Seq(Command)

-----------------------------------------------------------------------------
(* Reading.  A position counts the bytes before it; what follows the bytes received is     *)
(* the rest of recv_buf.                                                         *)

ByteAt(buf, at) == IF at + 1 \in DOMAIN buf THEN buf[at + 1] ELSE 0

Number(buf, at) ==
  LET low[i \in 0 .. FieldLen] ==
        IF i = 0 THEN 0 ELSE low[i - 1] + ByteAt(buf, at + i - 1) * Weight[i - 1]
  IN  low[FieldLen]

(* One turn of parse_req's loop: the string whose length is at s.at.                    *)
NextStr(buf, s, end) ==
  LET data == s.at + FieldLen
      str_len == Number(buf, s.at)
  IN  IF end < data \/ end < data + str_len THEN Refused
      ELSE [at |-> data + str_len,
            out |-> Append(s.out, [i \in 1 .. str_len |-> ByteAt(buf, data + i - 1)])]

(* What the loop comes to: nstr turns, or fewer if it meets a string it refuses.           *)
Strs(buf, from, end, nstr) ==
  LET after[i \in 0 .. nstr] ==
        IF i = 0 THEN [at |-> from + FieldLen, out |-> <<>>]
        ELSE LET s == after[i - 1] IN IF s = Refused THEN Refused ELSE NextStr(buf, s, end)
  IN  after[nstr]

(* Wrong: bytes may follow the last string.                                         *)
parse_req_Trailing(buf, from, len) ==
  LET nstr == Number(buf, from)
      last == Strs(buf, from, from + len, nstr)
  IN  IF len < FieldLen \/ nstr > MaxStrs THEN Refused
      ELSE IF last = Refused THEN Refused ELSE last.out

(* parse_req on the len bytes from `from' on: the strings, or Refused.                   *)
parse_req(buf, from, len) ==
  LET nstr == Number(buf, from)
      last == Strs(buf, from, from + len, nstr)
  IN  IF len < FieldLen \/ nstr > MaxStrs THEN Refused
      ELSE IF last = Refused THEN Refused
      ELSE IF last.at # from + len THEN Refused ELSE last.out

(* Wrong: a length is enough to try.                                                *)
try_request_Eager(buf, c) ==
  LET in_size == Len(buf) - c.in_start
      len == Number(buf, c.in_start)
      cmd == parse_req(buf, c.in_start + FieldLen, len)
  IN  IF in_size < FieldLen THEN [c EXCEPT !.state = "wait"]
      ELSE IF len > MaxFrame \/ cmd = Refused THEN [c EXCEPT !.state = "closed"]
      ELSE [c EXCEPT !.in_start = @ + FieldLen + len, !.served = Append(@, cmd)]

(* try_request for a connection c that has consumed in_start bytes of buf: it waits for       *)
(* more, is closed, or serves the next command.                                     *)
try_request(buf, c) ==
  LET in_size == Len(buf) - c.in_start
      len == Number(buf, c.in_start)
      cmd == parse_req(buf, c.in_start + FieldLen, len)
  IN  IF in_size < FieldLen \/ (len <= MaxFrame /\ in_size < FieldLen + len)
      THEN [c EXCEPT !.state = "wait"]
      ELSE IF len > MaxFrame \/ cmd = Refused THEN [c EXCEPT !.state = "closed"]
      ELSE [c EXCEPT !.in_start = @ + FieldLen + len, !.served = Append(@, cmd)]

(* handle_read's loop: until there is nothing to serve.  Every command takes FieldLen bytes   *)
(* at least.                                                                   *)
Served(buf) ==
  LET turn[i \in 0 .. Len(buf) + 1] ==
        IF i = 0 THEN [in_start |-> 0, served |-> <<>>, state |-> "serving"]
        ELSE LET c == turn[i - 1] IN IF c.state = "serving" THEN try_request(buf, c) ELSE c
  IN  turn[Len(buf) + 1]

-----------------------------------------------------------------------------
(* parse_req takes exactly the bodies send_req makes, to what they were made of, whatever      *)
(* lies behind them in the buffer: no other bytes are a command, and nothing but the limits   *)
(* is refused.                                                                  *)
ParseInverts ==
  \A behind \in Behind :
    /\ \A body \in BoundedSeq(Byte, MaxFrame) :
         LET cmd == parse_req(body \o behind, 0, Len(body)) IN cmd # Refused => Body(cmd) = body
    /\ \A cmd \in Command : parse_req(Body(cmd) \o behind, 0, Len(Body(cmd))) = cmd

(* Wherever a stream of requests is cut, the commands that are complete have been served, in   *)
(* order, and the connection waits for the rest: no beginning of a request is refused, or     *)
(* taken for a request (io.cpp:251).                                                *)
ServesInOrder ==
  \A cmds \in Sent :
    LET stream == Stream(cmds)
    IN  \A n \in 0 .. Len(stream) :
          LET c == Served(SubSeq(stream, 1, n))
              complete == {i \in 0 .. Len(cmds) : Len(Stream(SubSeq(cmds, 1, i))) <= n}
          IN  /\ c.state = "wait"
              /\ \E last \in complete :
                   /\ \A i \in complete : i <= last
                   /\ c.served = SubSeq(cmds, 1, last)
=============================================================================
