--------------------------- MODULE ImapResponses ---------------------------
(***************************************************************************)
(* A response on its way from the server's bytes to the caller's values:   *)
(* imaplib reads lines and literals from the _fileobject (ByteStream) and  *)
(* makes records of them, the response parser makes values of the records  *)
(* (ResponseParser).                                                       *)
(*                                                                         *)
(* A job is a response the server sends: [kind, sent, cut, means], its     *)
(* bytes, whether the connection is cut before the last of them, and what  *)
(* they mean; that of a LIST response says too whether the name of the     *)
(* folder is an atom.  External: imaplib's _get_response and _get_line.            *)
(***************************************************************************)
EXTENDS ByteStream, ResponseParser

CONSTANTS
  Jobs,    \* responses
  RawOps,  \* calls another user of a _fileobject makes
  MaxRaw   \* bound: how many of them

VARIABLES
  job,      \* the response
  phase,    \* "ask": imaplib asks, "wait": it waits, "done" or "failed"
  want,     \* what it asks for
  records,  \* the records of the response
  raws      \* calls of the other user

vars == <<streamVars, job, phase, want, records, raws>>

Received == SubSeq(stream, answer.from + 1, answer.to)

-----------------------------------------------------------------------------
\* imaplib asks for a line or for a literal.
Ask ==
  /\ phase = "ask" /\ op = NoOp
  /\ Call(want)
  /\ phase' = "wait"
  /\ UNCHANGED <<job, want, records, raws>>

\* A line that ends in the size of a literal: where the size begins, or 0.
Marker(t) ==
  IF \E k \in 1..Len(t) : /\ t[k] = "{" /\ t[Len(t)] = "}" /\ k + 1 < Len(t)
                          /\ \A j \in (k + 1)..(Len(t) - 1) : t[j] \in Digits
  THEN CHOOSE k \in 1..Len(t) :
         t[k] = "{" /\ \A j \in (k + 1)..(Len(t) - 1) : t[j] \in Digits
  ELSE 0

\* _get_line: nothing, or a line without its end, breaks the connection off.
BadLine == Received = <<>> \/ Received[Len(Received)] # EOL

\* _get_response: the line, and the literal it announces.  The literal is
\* filed under the line whatever its size.
Line == SubSeq(Received, 1, Len(Received) - 1)

TakeLine ==
  IF BadLine
  THEN phase' = "failed" /\ UNCHANGED <<want, records>>
  ELSE /\ records' = Append(records, [text |-> Line, lit |-> NoLit])
       /\ IF Marker(Line) = 0
          THEN phase' = "done" /\ UNCHANGED want
          ELSE /\ phase' = "ask"
               /\ want' = SizeOp(SizeOf(SubSeq(Line, Marker(Line), Len(Line))))

TakeLiteral ==
  /\ records' = [records EXCEPT ![Len(records)].lit = Received]
  /\ want' = LineOp /\ phase' = "ask"

\* The answer comes.  A call that raised is not made again: the client starts
\* over with another response.
Take ==
  /\ phase = "wait" /\ op = NoOp
  /\ IF answer.ok
     THEN IF asked.kind = "line" THEN TakeLine ELSE TakeLiteral
     ELSE records' = <<>> /\ want' = LineOp /\ phase' = "ask"
  /\ UNCHANGED <<streamVars, job, raws>>

\* Another user of a _fileobject.
Raw ==
  /\ job.kind = "raw" /\ raws < MaxRaw
  /\ \E o \in RawOps : Call(o)
  /\ raws' = raws + 1
  /\ UNCHANGED <<job, phase, want, records>>

Init ==
  /\ job \in Jobs
  /\ stream \in {job.sent} \cup
                (IF job.cut THEN {SubSeq(job.sent, 1, n) : n \in 0..(Len(job.sent) - 1)}
                 ELSE {})
  /\ phase = IF job.kind = "raw" THEN "done" ELSE "ask"
  /\ want = LineOp /\ records = <<>> /\ raws = 0
  /\ StreamInit

Next ==
  \/ Ask \/ Take \/ Raw
  \/ /\ Recv \/ Ends \/ Fail
     /\ UNCHANGED <<job, phase, want, records, raws>>

Spec == Init /\ [][Next]_vars

-----------------------------------------------------------------------------
\* The variables have their types, and the calls their place.
TypeOK ==
  /\ job \in Jobs /\ StreamTypeOK
  /\ phase \in {"ask", "wait", "done", "failed"}
  /\ phase = "ask" => op = NoOp
  /\ want.kind \in {"line", "size"} /\ raws \in 0..MaxRaw

\* What the caller of IMAPClient gets.
Result ==
  CASE job.kind = "items"  -> [parsed |-> ParseResponse(records)]
    [] job.kind = "fetch"  -> ParseFetch(records)
    [] job.kind = "search" -> ParseMessageList(records)
    [] job.kind = "list"   -> [folders |-> ProcFolderList(ParseResponse(records))]

\* What is lost of the name of a folder: an atom of digits is taken for a
\* number and loses the zeros in front, the atom NIL is taken for nothing.
Named(name) ==
  CASE job.atom /\ IsDigits(name) -> Text(IntOf(name).number)
    [] job.atom /\ name = <<"N">> -> Nil
    [] OTHER                      -> Text(name)

\* What should come of the response.
Expected ==
  IF job.kind = "list"
  THEN [folders |-> [k \in 1..Len(job.means) |->
                       <<job.means[k][1], job.means[k][2], Named(job.means[k][3])>>]]
  ELSE job.means

\* However the bytes come in, a response is what the server meant, when no
\* call failed on the way: quotes, escapes, literals with any bytes in them,
\* nested lists, messages that come twice, folder names, of which only those
\* that look like a number or like NIL are not what was sent.  A response that
\* was cut short is never taken for one.
ResultIsSent ==
  phase = "done" /\ job.kind # "raw" /\ fails = 0 =>
    stream = job.sent /\ Result = Expected
=============================================================================
