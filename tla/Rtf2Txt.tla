------------------------------ MODULE Rtf2Txt ------------------------------
(***************************************************************************)
(* striprtf of rtf2txt.py: the text of an RTF document, token by token as  *)
(* the regular expression cuts it.  Groups nest; a group that is marked is *)
(* not part of the text; a \u character is followed by \uc characters for  *)
(* readers that do not know it, which are skipped.                         *)
(*                                                                         *)
(* The text is kept as the positions of the tokens that are written.       *)
(* Python 2 keeps it as bytes and Unicode pieces: a byte beyond ASCII      *)
(* cannot be joined with Unicode, nor be printed alone.                    *)
(***************************************************************************)
EXTENDS Integers, Sequences, FiniteSets

CONSTANTS
  Tokens,    \* the tokens documents are made of: [t, given, arg]
  MaxTokens, \* bound: tokens of a document
  MaxChar    \* the largest character unichr makes: sys.maxunicode

VARIABLES
  doc,        \* the tokens read
  stack,      \* the states of the groups around: <<ucskip, ignorable>>
  ignorable,  \* whether this group, and all inside it, is
  ucskip,     \* characters that follow a \u character
  curskip,    \* characters left to skip
  out,        \* what is written
  failed      \* an exception ended the run

rtfVars == <<doc, stack, ignorable, ucskip, curskip, out, failed>>

TokenTypes == {"open", "close", "star", "symbol", "dest", "special", "uc", "u",
               "word", "hex", "char", "raw", "eol"}

\* A control word is given a number or not.
ASSUME TokensAssumption ==
  Tokens \subseteq [t : TokenTypes, given : BOOLEAN, arg : Int]

\* Python was built with characters of 16 or of 32 bits.
ASSUME MaxCharAssumption == MaxChar \in {65535, 1114111}

Here == Len(doc) + 1
Write(shown) == out' = IF shown THEN Append(out, Here) ELSE out

Fails == /\ failed' = TRUE
         /\ UNCHANGED <<stack, ignorable, ucskip, curskip, out>>

-----------------------------------------------------------------------------
\* Mutant: only the mark of the group is restored.
PoppedMark == <<ucskip, stack[Len(stack)][2]>>

\* Mutant: only the number of characters to skip is restored.
PoppedSkip == <<stack[Len(stack)][1], ignorable>>

\* ucskip,ignorable = stack.pop()
Popped == stack[Len(stack)]

\* { and }.  A group that was never opened cannot be closed.
Brace(tok) ==
  \/ /\ tok.t = "open"
     /\ stack' = Append(stack, <<ucskip, ignorable>>)
     /\ curskip' = 0
     /\ UNCHANGED <<ignorable, ucskip, out, failed>>
  \/ /\ tok.t = "close" /\ stack # <<>>
     /\ ucskip' = Popped[1] /\ ignorable' = Popped[2]
     /\ stack' = SubSeq(stack, 1, Len(stack) - 1)
     /\ curskip' = 0
     /\ UNCHANGED <<out, failed>>
  \/ tok.t = "close" /\ stack = <<>> /\ Fails

\* \* and the other control symbols.
Symbol(tok) ==
  /\ tok.t \in {"star", "symbol"}
  /\ curskip' = 0
  /\ ignorable' = (ignorable \/ tok.t = "star")
  /\ Write(tok.t = "symbol" /\ ~ignorable)
  /\ UNCHANGED <<stack, ucskip, failed>>

\* The numbers of characters: negative ones count from 0x10000 down.
InRange(n) == IF n < 0 THEN n + 65536 >= 0 ELSE n <= MaxChar

\* Mutant: any number stands for a character.
UsableAny(tok) == tok.given

\* int(arg), and unichr or chr of a \u.
Usable(tok) == tok.given /\ (tok.t = "u" => InRange(tok.arg))

\* Control words.  \uc and \u need their number, unless nothing is written.
Word(tok) ==
  \/ /\ tok.t \in {"dest", "special", "word"}
     /\ curskip' = 0
     /\ ignorable' = (ignorable \/ tok.t = "dest")
     /\ Write(tok.t = "special" /\ ~ignorable)
     /\ UNCHANGED <<stack, ucskip, failed>>
  \/ /\ tok.t \in {"uc", "u"} /\ ignorable
     /\ curskip' = 0
     /\ UNCHANGED <<stack, ignorable, ucskip, out, failed>>
  \/ /\ tok.t = "uc" /\ ~ignorable /\ Usable(tok)
     /\ ucskip' = tok.arg /\ curskip' = 0
     /\ UNCHANGED <<stack, ignorable, out, failed>>
  \/ /\ tok.t = "u" /\ ~ignorable /\ Usable(tok)
     /\ curskip' = ucskip
     /\ Write(TRUE)
     /\ UNCHANGED <<stack, ignorable, ucskip, failed>>
  \/ tok.t \in {"uc", "u"} /\ ~ignorable /\ ~Usable(tok) /\ Fails

\* \'xx and plain characters.  An end of line is none.  A raw byte beyond ASCII
\* in the text makes join or print fail in the end, whatever follows it.
Character(tok) ==
  \/ /\ tok.t \in {"hex", "char", "raw"}
     /\ tok.t = "raw" => curskip > 0 \/ ignorable
     /\ curskip' = IF curskip > 0 THEN curskip - 1 ELSE curskip
     /\ Write(curskip <= 0 /\ ~ignorable)
     /\ UNCHANGED <<stack, ignorable, ucskip, failed>>
  \/ tok.t = "raw" /\ curskip <= 0 /\ ~ignorable /\ Fails
  \/ /\ tok.t = "eol"
     /\ UNCHANGED <<stack, ignorable, ucskip, curskip, out, failed>>

\* The next token of the document.
NextToken ==
  /\ ~failed /\ Len(doc) < MaxTokens
  /\ \E tok \in Tokens :
       /\ doc' = Append(doc, tok)
       /\ Brace(tok) \/ Symbol(tok) \/ Word(tok) \/ Character(tok)

RtfInit ==
  /\ doc = <<>> /\ stack = <<>> /\ ignorable = FALSE /\ ucskip = 1
  /\ curskip = 0 /\ out = <<>> /\ failed = FALSE

RtfSpec == RtfInit /\ [][NextToken]_rtfVars

-----------------------------------------------------------------------------
RtfTypeOK ==
  /\ doc \in Seq(Tokens)
  /\ stack \in Seq(Int \X BOOLEAN)
  /\ ignorable \in BOOLEAN /\ ucskip \in Int /\ curskip \in Int
  /\ out \in Seq(1..Len(doc)) /\ failed \in BOOLEAN

-----------------------------------------------------------------------------
\* The text of a document, said of the document as a whole.

Count(t, k) == Cardinality({j \in 1..k : doc[j].t = t})
Depth(k) == Count("open", k) - Count("close", k)

\* What stands at j holds at k: the group it is in is still open there.
Holds(j, k) == j < k /\ \A i \in j..k : Depth(i) >= Depth(j)
Hidden(k) == \E j \in 1..(k - 1) : doc[j].t \in {"star", "dest"} /\ Holds(j, k)

\* The number of characters a \u at k is followed by.
Ucs(k) == {j \in 1..(k - 1) : doc[j].t = "uc" /\ ~Hidden(j) /\ Holds(j, k)}
UcAt(k) == IF Ucs(k) = {} THEN 1
           ELSE doc[CHOOSE j \in Ucs(k) : \A i \in Ucs(k) : i <= j].arg

IsChar(k) == doc[k].t \in {"hex", "char", "raw"}
Skipped(k) ==
  /\ IsChar(k)
  /\ \E j \in 1..(k - 1) :
       /\ doc[j].t = "u" /\ ~Hidden(j)
       /\ \A i \in (j + 1)..(k - 1) : IsChar(i) \/ doc[i].t = "eol"
       /\ Cardinality({i \in (j + 1)..k : IsChar(i)}) <= UcAt(j)

Shown(k) == /\ doc[k].t \in {"symbol", "special", "u", "hex", "char", "raw"}
            /\ ~Hidden(k) /\ ~Skipped(k)

\* What is written is, in order, what stands in no marked group and follows no
\* \u character as a substitute for it.
TextIsShown ==
  ~failed => /\ {out[k] : k \in 1..Len(out)} = {k \in 1..Len(doc) : Shown(k)}
             /\ \A k \in 1..(Len(out) - 1) : out[k] < out[k + 1]

\* A document fails for an unmatched brace, for a \u or \uc that should have had
\* a number, for a \u with the number of no character, or for a byte beyond ASCII
\* that would be shown, and for nothing else.
FailsForCause ==
  failed <=> \E k \in 1..Len(doc) :
               \/ Depth(k) < 0
               \/ doc[k].t \in {"uc", "u"} /\ ~doc[k].given /\ ~Hidden(k)
               \/ doc[k].t = "u" /\ doc[k].given /\ ~InRange(doc[k].arg) /\ ~Hidden(k)
               \/ doc[k].t = "raw" /\ Shown(k)

\* A document gives its text, or fails for a cause of its own.
RtfConverted == RtfTypeOK /\ TextIsShown /\ FailsForCause
=============================================================================
