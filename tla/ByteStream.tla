----------------------------- MODULE ByteStream -----------------------------
(***************************************************************************)
(* _fileobject of backports/ssl/core.py: how the bytes of a TLS connection *)
(* become the lines and the literals imaplib asks for.                     *)
(*                                                                         *)
(* The bytes the server sends are numbered.  _rbuf, and the local buffer   *)
(* of a call under way, always hold the bytes from start + 1 to recvd: the *)
(* buffer is moved to the call when it starts and what the call does not   *)
(* return is moved back.  A call that raises moves nothing back.           *)
(*                                                                         *)
(* External: the TLS connection, which gives any number of the next bytes,  *)
(* ends, or fails (_safe_ssl_call, recv).                         *)
(***************************************************************************)
EXTENDS Integers, Sequences

CONSTANTS
  Char,      \* bytes
  EOL,       \* the byte that ends a line
  NoAnswer,  \* no answer yet
  BufSize,   \* _rbufsize: the most a readline() asks of the connection
  MaxFails   \* bound: calls that fail

ASSUME BufSizeAssumption == BufSize \in Nat \ {0}

VARIABLES
  stream,   \* the bytes the server sends
  recvd,    \* how many were received
  start,    \* how many are not in the buffer any more
  op,       \* the call under way: [kind, size]
  answer,   \* the bytes the last call returned: [ok, from, to]
  asked,    \* the last call
  ended,    \* recv() returned nothing
  fails     \* calls that failed

streamVars == <<stream, recvd, start, op, answer, asked, ended, fails>>

NoOp == [kind |-> "none", size |-> 0]

\* readline(), readline(size), read(size) and read().
LineOp == [kind |-> "line", size |-> 0]
UpTo(n) == [kind |-> "upto", size |-> n]
SizeOp(n) == [kind |-> "size", size |-> n]
AllOp == [kind |-> "all", size |-> 0]

NoEnd == -1

IsEol(p) == stream[p] = EOL

\* Mutant: the last end of a line among the bytes.
LastEol(a, b) ==
  IF \E p \in (a + 1)..b : IsEol(p)
  THEN CHOOSE p \in (a + 1)..b : IsEol(p) /\ \A q \in (p + 1)..b : ~IsEol(q)
  ELSE NoEnd

\* The first end of a line among the bytes from a + 1 to b.
FirstEol(a, b) ==
  IF \E p \in (a + 1)..b : IsEol(p)
  THEN CHOOSE p \in (a + 1)..b : IsEol(p) /\ \A q \in (a + 1)..(p - 1) : ~IsEol(q)
  ELSE NoEnd

Least(a, b) == IF a < b THEN a ELSE b

\* Mutant: read(size) returns all the buffer holds.
EndOfAll(o, b) ==
  CASE o.kind = "line" -> FirstEol(start, b)
    [] o.kind = "upto" ->
         LET p == FirstEol(start, Least(b, start + o.size)) IN
         IF p # NoEnd THEN p
         ELSE IF b >= start + o.size THEN start + o.size ELSE NoEnd
    [] o.kind = "size" -> IF b >= start + o.size THEN b ELSE NoEnd
    [] OTHER -> NoEnd

\* Where the answer to a call ends when the buffer holds the bytes up to b,
\* or NoEnd if more is needed.
EndOf(o, b) ==
  CASE o.kind = "line" -> FirstEol(start, b)
    [] o.kind = "upto" ->
         LET p == FirstEol(start, Least(b, start + o.size)) IN
         IF p # NoEnd THEN p
         ELSE IF b >= start + o.size THEN start + o.size ELSE NoEnd
    [] o.kind = "size" -> IF b >= start + o.size THEN start + o.size ELSE NoEnd
    [] OTHER -> NoEnd

\* Mutant: what is left of the last piece is dropped.
KeepNone(e, b) == b

\* What was received and not returned is put back.
Keep(e, b) == e

Returns(o, e, b) ==
  /\ answer' = [ok |-> TRUE, from |-> start, to |-> e]
  /\ start' = Keep(e, b)
  /\ asked' = o /\ op' = NoOp

-----------------------------------------------------------------------------
\* A call of read() or readline(): the buffer may be enough.
Call(o) ==
  /\ op = NoOp
  /\ IF EndOf(o, recvd) # NoEnd
     THEN Returns(o, EndOf(o, recvd), recvd)
     ELSE /\ op' = o /\ answer' = NoAnswer
          /\ UNCHANGED <<start, asked>>
  /\ UNCHANGED <<stream, recvd, ended, fails>>

\* How much recv() is asked for.
Wanted == IF op.kind = "size" THEN start + op.size - recvd ELSE BufSize

\* A piece is received.  read() without a size takes a single one.
Recv ==
  /\ op # NoOp
  /\ \E n \in 1..Least(Wanted, Len(stream) - recvd) :
       /\ recvd' = recvd + n
       /\ IF op.kind = "all" THEN Returns(op, recvd + n, recvd + n)
          ELSE IF EndOf(op, recvd + n) # NoEnd
          THEN Returns(op, EndOf(op, recvd + n), recvd + n)
          ELSE UNCHANGED <<op, answer, asked, start>>
  /\ UNCHANGED <<stream, ended, fails>>

\* recv() returns nothing: the call returns what there is.
Ends ==
  /\ op # NoOp /\ recvd = Len(stream)
  /\ Returns(op, recvd, recvd)
  /\ ended' = TRUE
  /\ UNCHANGED <<stream, recvd, fails>>

\* recv() raises (_safe_ssl_call: a timeout, the end of the TLS session, an
\* error): the bytes the call held are gone.
Fail ==
  /\ op # NoOp /\ fails < MaxFails
  /\ fails' = fails + 1
  /\ answer' = [ok |-> FALSE, from |-> start, to |-> recvd]
  /\ start' = recvd
  /\ asked' = op /\ op' = NoOp
  /\ UNCHANGED <<stream, recvd, ended>>

\* What callers may ask for, and what they see.
Ops == [kind : {"line", "all"}, size : {0}] \cup [kind : {"upto", "size"}, size : Nat]

StreamInit ==
  /\ recvd = 0 /\ start = 0 /\ op = NoOp /\ answer = NoAnswer
  /\ asked = NoOp /\ ended = FALSE /\ fails = 0

\* Any calls, one after the other.
StreamNext == (\E o \in Ops : Call(o)) \/ Recv \/ Ends \/ Fail

StreamSpec ==
  /\ StreamInit /\ stream \in Seq(Char)
  /\ [][StreamNext]_streamVars

-----------------------------------------------------------------------------
StreamTypeOK ==
  /\ stream \in Seq(Char)
  /\ recvd \in 0..Len(stream) /\ start \in 0..recvd
  /\ op \in Ops \cup {NoOp} /\ asked \in Ops \cup {NoOp}
  /\ answer # NoAnswer =>
       answer \in [ok : BOOLEAN, from : 0..start, to : 0..start]

Returned(k) == answer # NoAnswer /\ answer.ok /\ asked.kind = k

\* readline() returns one line: its last byte, and no other, ends a line.  Only
\* the end of the stream gives less.
WholeLines ==
  Returned("line") =>
    /\ \A p \in (answer.from + 1)..(answer.to - 1) : stream[p] # EOL
    /\ answer.to = 0 \/ stream[answer.to] # EOL => answer.to = Len(stream)

\* read(size) returns exactly size bytes, readline(size) at most; only the end
\* of the stream gives less.
ExactReads ==
  /\ Returned("size") => \/ answer.to = answer.from + asked.size
                         \/ answer.to = Len(stream) /\ answer.to < answer.from + asked.size
  /\ Returned("upto") => answer.to <= answer.from + asked.size

\* Every answer ends where the call says, wherever the pieces that came ended.
Framed == WholeLines /\ ExactReads

\* What is returned was received, and nothing received is returned twice.
Pipe == INSTANCE BytePipe WITH length <- Len(stream), None <- NoAnswer,
                               taken <- start, answer <- answer

\* The calls are answered from one stream of bytes, in order (BytePipe).
StreamIsPipe == Pipe!Spec
=============================================================================
