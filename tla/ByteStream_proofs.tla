------------------------- MODULE ByteStream_proofs -------------------------
(***************************************************************************)
(* Whatever pieces the bytes come in: the calls of a _fileobject return    *)
(* whole lines and exact sizes, and the stream is handed out once and in   *)
(* order.                                                                  *)
(***************************************************************************)
EXTENDS ByteStream, WellFoundedInduction, TLAPS

\* A set of numbers has a least one.
LEMMA LeastOf ==
  ASSUME NEW T, T \subseteq Nat, T # {}
  PROVE  \E x \in T : \A y \in T : x <= y
<1>1. PICK x \in T : \A y \in T : ~ (<<y, x>> \in OpToRel(<, Nat))
  BY NatLessThanWellFounded, WFMin, Zenon
<1>2. \A y \in T : x <= y
  <2> TAKE y \in T
  <2>1. x \in Nat /\ y \in Nat
    OBVIOUS
  <2>2. ~ (y < x)
    BY <1>1, <2>1 DEF OpToRel
  <2> QED BY <2>1, <2>2
<1> QED BY <1>2

-----------------------------------------------------------------------------
\* While a call waits, the buffer is not enough for it.
Pending ==
  /\ op.kind = "line" => \A p \in (start + 1)..recvd : stream[p] # EOL
  /\ op.kind \in {"size", "upto"} => recvd < start + op.size

IInv == StreamTypeOK /\ Pending /\ WholeLines /\ ExactReads

\* FirstEol finds the first end of a line.
LEMMA FirstEolIs ==
  ASSUME NEW a \in Nat, NEW b \in Nat
  PROVE  \/ /\ FirstEol(a, b) = NoEnd
            /\ \A p \in (a + 1)..b : stream[p] # EOL
         \/ /\ FirstEol(a, b) \in (a + 1)..b
            /\ stream[FirstEol(a, b)] = EOL
            /\ \A p \in (a + 1)..(FirstEol(a, b) - 1) : stream[p] # EOL
<1> DEFINE T == {p \in (a + 1)..b : stream[p] = EOL}
<1>1. CASE T = {}
  BY <1>1 DEF FirstEol, IsEol
<1>2. CASE T # {}
  <2> HIDE DEF T
  <2>1. T \subseteq Nat
    BY DEF T
  <2>2. \E x \in T : \A y \in T : x <= y
    BY <1>2, <2>1, LeastOf
  <2>3. PICK x \in T : \A y \in T : x <= y
    BY <2>2
  <2>4. x \in (a + 1)..b /\ IsEol(x) /\ \A q \in (a + 1)..(x - 1) : ~IsEol(q)
    BY <2>3 DEF IsEol, T
  <2> QED BY <2>4 DEF FirstEol, IsEol
<1> QED BY <1>1, <1>2

\* What EndOf says of a buffer from start + 1 to b.
LEMMA EndOfIs ==
  ASSUME start \in Nat, NEW b \in Nat, start <= b, NEW o \in Ops
  PROVE  /\ EndOf(o, b) = NoEnd \/ EndOf(o, b) \in start..b
         /\ EndOf(o, b) = NoEnd =>
              /\ o.kind = "line" => \A p \in (start + 1)..b : stream[p] # EOL
              /\ o.kind \in {"size", "upto"} => b < start + o.size
         /\ EndOf(o, b) # NoEnd =>
              /\ o.kind # "all"
              /\ o.kind = "line" =>
                   /\ EndOf(o, b) > start /\ stream[EndOf(o, b)] = EOL
                   /\ \A p \in (start + 1)..(EndOf(o, b) - 1) : stream[p] # EOL
              /\ o.kind = "size" => EndOf(o, b) = start + o.size
              /\ o.kind = "upto" => EndOf(o, b) <= start + o.size
<1>1. CASE o.kind = "line"
  BY <1>1, FirstEolIs DEF EndOf, NoEnd
<1>2. CASE o.kind = "upto"
  <2>1. o.size \in Nat /\ Least(b, start + o.size) \in Nat
        /\ Least(b, start + o.size) <= b /\ Least(b, start + o.size) <= start + o.size
    BY <1>2 DEF Ops, Least
  <2>2. \/ FirstEol(start, Least(b, start + o.size)) = NoEnd
        \/ FirstEol(start, Least(b, start + o.size))
             \in (start + 1)..Least(b, start + o.size)
    BY <2>1, FirstEolIs
  <2> QED BY <1>2, <2>1, <2>2 DEF EndOf, NoEnd
<1>3. CASE o.kind = "size"
  BY <1>3 DEF EndOf, Ops, NoEnd
<1>4. CASE o.kind = "all"
  BY <1>4 DEF EndOf
<1> QED BY <1>1, <1>2, <1>3, <1>4 DEF Ops

-----------------------------------------------------------------------------
\* A call that returns what EndOf says leaves everything in order.
LEMMA ReturnStep ==
  ASSUME IInv, NEW o \in Ops, NEW e, NEW b \in recvd..Len(stream),
         recvd' = b, UNCHANGED stream, Returns(o, e, b),
         \/ e = EndOf(o, b) /\ e # NoEnd
         \/ /\ e = b
            /\ b = Len(stream) \/ o.kind = "all"
            /\ o.kind = "line" => \A p \in (start + 1)..b : stream[p] # EOL
            /\ o.kind \in {"size", "upto"} => b < start + o.size
  PROVE  IInv' /\ Pipe!Give
<1>1. /\ start \in Nat /\ recvd \in Nat /\ start <= recvd /\ Len(stream) \in Nat
      /\ b \in Nat /\ start <= b /\ b <= Len(stream)
  BY DEF IInv, StreamTypeOK
<1>2. e \in start..b
  BY <1>1, EndOfIs
<1>3. /\ answer' = [ok |-> TRUE, from |-> start, to |-> e] /\ start' = e
      /\ asked' = o /\ op' = NoOp /\ stream' = stream /\ recvd' = b
  BY DEF Returns, Keep
<1>4. /\ answer'.from = start /\ answer'.to = e /\ answer'.ok = TRUE
      /\ op'.kind = "none"
  BY <1>3 DEF NoOp
<1>5. StreamTypeOK'
  BY <1>1, <1>2, <1>3 DEF IInv, StreamTypeOK
<1>6. Pending'
  BY <1>4 DEF Pending
<1>7. WholeLines'
  <2> SUFFICES ASSUME o.kind = "line"
               PROVE  /\ \A p \in (start + 1)..(e - 1) : stream[p] # EOL
                      /\ e = 0 \/ stream[e] # EOL => e = Len(stream)
    BY <1>3, <1>4 DEF WholeLines, Returned
  <2>1. CASE e = EndOf(o, b) /\ e # NoEnd
    BY <2>1, <1>1, EndOfIs
  <2>2. CASE /\ e = b /\ b = Len(stream)
             /\ \A p \in (start + 1)..b : stream[p] # EOL
    BY <2>2, <1>1
  <2> QED BY <2>1, <2>2
<1>8. ExactReads'
  BY <1>1, <1>2, <1>3, <1>4, EndOfIs DEF ExactReads, Returned, Ops
<1>9. Pipe!Give
  <2>1. e \in start..Len(stream)
    BY <1>1, <1>2
  <2>2. start' = e /\ answer' = Pipe!Bytes(start, e)
    BY <1>3 DEF Pipe!Bytes
  <2> QED BY <2>1, <2>2, Zenon DEF Pipe!Give
<1> QED BY <1>5, <1>6, <1>7, <1>8, <1>9 DEF IInv

\* A call that keeps waiting, or starts to, changes nothing of what is handed out.
LEMMA WaitStep ==
  ASSUME IInv, NEW o \in Ops, NEW b \in recvd..Len(stream),
         recvd' = b, op' = o, EndOf(o, b) = NoEnd,
         UNCHANGED <<stream, start, asked>>, answer' \in {answer, NoAnswer}
  PROVE  IInv'
<1>1. /\ start \in Nat /\ recvd \in Nat /\ start <= recvd
      /\ b \in Nat /\ start <= b
  BY DEF IInv, StreamTypeOK
<1>2. StreamTypeOK'
  BY <1>1 DEF IInv, StreamTypeOK
<1>3. Pending'
  BY <1>1, EndOfIs DEF Pending
<1>4. WholeLines' /\ ExactReads'
  BY DEF IInv, WholeLines, ExactReads, Returned
<1> QED BY <1>2, <1>3, <1>4 DEF IInv

\* A step of the stream keeps the invariant, and is one of the pipe.
LEMMA StreamStep ==
  ASSUME IInv, [StreamNext]_streamVars
  PROVE  IInv' /\ [Pipe!Next]_<<Len(stream), start, answer>>
<1>1. ASSUME NEW o \in Ops, Call(o) PROVE IInv' /\ [Pipe!Next]_<<Len(stream), start, answer>>
  <2>1. recvd \in recvd..Len(stream) /\ recvd' = recvd /\ stream' = stream
    BY <1>1 DEF Call, IInv, StreamTypeOK
  <2>2. CASE EndOf(o, recvd) # NoEnd
    <3>1. Returns(o, EndOf(o, recvd), recvd)
      BY <1>1, <2>2 DEF Call
    <3> QED BY <2>1, <2>2, <3>1, ReturnStep DEF Pipe!Next
  <2>3. CASE EndOf(o, recvd) = NoEnd
    <3>1. op' = o /\ answer' = NoAnswer /\ start' = start /\ asked' = asked
      BY <1>1, <2>3 DEF Call
    <3> QED BY <2>1, <2>3, <3>1, WaitStep DEF Pipe!Next, Pipe!Ask
  <2> QED BY <2>2, <2>3
<1>2. ASSUME Recv PROVE IInv' /\ [Pipe!Next]_<<Len(stream), start, answer>>
  <2>1. op \in Ops
    BY <1>2 DEF Recv, IInv, StreamTypeOK
  <2>2. PICK n \in 1..Least(Wanted, Len(stream) - recvd) :
          /\ recvd' = recvd + n
          /\ IF op.kind = "all" THEN Returns(op, recvd + n, recvd + n)
             ELSE IF EndOf(op, recvd + n) # NoEnd
             THEN Returns(op, EndOf(op, recvd + n), recvd + n)
             ELSE UNCHANGED <<op, answer, asked, start>>
    BY <1>2 DEF Recv
  <2>3. recvd + n \in recvd..Len(stream) /\ stream' = stream
    <3>1. recvd \in Nat /\ Len(stream) \in Nat /\ start \in Nat /\ op.size \in Nat
      BY <2>1 DEF IInv, StreamTypeOK, Ops
    <3>2. Wanted \in Int
      BY <3>1, BufSizeAssumption DEF Wanted
    <3> QED BY <1>2, <3>1, <3>2 DEF Recv, Least
  <2>4. CASE op.kind = "all"
    BY <2>1, <2>2, <2>3, <2>4, ReturnStep DEF Pipe!Next
  <2>5. CASE op.kind # "all" /\ EndOf(op, recvd + n) # NoEnd
    BY <2>1, <2>2, <2>3, <2>5, ReturnStep DEF Pipe!Next
  <2>6. CASE op.kind # "all" /\ EndOf(op, recvd + n) = NoEnd
    BY <2>1, <2>2, <2>3, <2>6, WaitStep
  <2> QED BY <2>4, <2>5, <2>6
<1>3. ASSUME Ends PROVE IInv' /\ [Pipe!Next]_<<Len(stream), start, answer>>
  <2>1. op \in Ops /\ recvd \in recvd..Len(stream) /\ recvd = Len(stream)
        /\ recvd' = recvd /\ stream' = stream /\ Returns(op, recvd, recvd)
    BY <1>3 DEF Ends, IInv, StreamTypeOK
  <2>2. /\ op.kind = "line" => \A p \in (start + 1)..recvd : stream[p] # EOL
        /\ op.kind \in {"size", "upto"} => recvd < start + op.size
    BY DEF IInv, Pending
  <2> QED BY <2>1, <2>2, ReturnStep DEF Pipe!Next
<1>4. ASSUME Fail PROVE IInv' /\ [Pipe!Next]_<<Len(stream), start, answer>>
  <2>1. /\ answer' = [ok |-> FALSE, from |-> start, to |-> recvd] /\ start' = recvd
        /\ op' = NoOp /\ asked' = op /\ stream' = stream /\ recvd' = recvd
    BY <1>4 DEF Fail
  <2>2. recvd \in Nat /\ start \in Nat /\ start <= recvd /\ Len(stream) \in Nat
        /\ recvd <= Len(stream)
    BY DEF IInv, StreamTypeOK
  <2>3. StreamTypeOK'
    BY <2>1, <2>2 DEF IInv, StreamTypeOK
  <2>4. Pending'
    BY <2>1 DEF Pending, NoOp
  <2>5. WholeLines' /\ ExactReads'
    BY <2>1 DEF WholeLines, ExactReads, Returned
  <2>6. Pipe!Lose
    <3>1. recvd \in start..Len(stream)
      BY <2>2
    <3>2. start' = recvd /\ answer' = Pipe!Failed(start, recvd)
      BY <2>1 DEF Pipe!Failed
    <3> QED BY <3>1, <3>2, Zenon DEF Pipe!Lose
  <2> QED BY <2>1, <2>3, <2>4, <2>5, <2>6 DEF IInv, Pipe!Next
<1>5. ASSUME UNCHANGED streamVars PROVE IInv' /\ [Pipe!Next]_<<Len(stream), start, answer>>
  BY <1>5 DEF streamVars, IInv, StreamTypeOK, Pending, WholeLines, ExactReads, Returned
<1> QED BY <1>1, <1>2, <1>3, <1>4, <1>5 DEF StreamNext

LEMMA StreamStart ==
  ASSUME StreamInit, stream \in Seq(Char)
  PROVE  IInv /\ Pipe!Init
  BY DEF StreamInit, IInv, StreamTypeOK, Pending, WholeLines, ExactReads, Returned,
         NoOp, Pipe!Init

\* Whatever is asked for and however the bytes come in, readline() returns one
\* line, and a read of a size that many bytes, as long as there are as many.
THEOREM Framing == StreamSpec => []Framed
<1>1. StreamInit /\ stream \in Seq(Char) => IInv
  BY StreamStart
<1>2. IInv /\ [StreamNext]_streamVars => IInv'
  BY StreamStep
<1>3. IInv => Framed
  BY DEF IInv, Framed
<1> QED BY <1>1, <1>2, <1>3, PTL DEF StreamSpec

\* A _fileobject is a pipe: each byte is handed out once and in order, or lost
\* by a call that fails.
THEOREM StreamRefinesPipe == StreamSpec => StreamIsPipe
<1>1. StreamInit /\ stream \in Seq(Char) => IInv /\ Pipe!Init
  BY StreamStart
<1>2. IInv /\ [StreamNext]_streamVars => IInv' /\ [Pipe!Next]_<<Len(stream), start, answer>>
  BY StreamStep
<1> QED BY <1>1, <1>2, PTL DEF StreamSpec, StreamIsPipe, Pipe!Spec
=============================================================================
