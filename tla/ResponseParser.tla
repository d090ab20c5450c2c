--------------------------- MODULE ResponseParser ---------------------------
(***************************************************************************)
(* From the records imaplib makes of a response to the values IMAPClient   *)
(* returns: the Lexer of response_lexer.py, gen_parsed_response, atom,     *)
(* parse_tuple, parse_message_list and parse_fetch_response of             *)
(* response_parser.py, BodyData.create of response_types.py.               *)
(*                                                                         *)
(* A text is a sequence of characters, one for each class the code tells   *)
(* apart: a letter, the digits "0" and "1", and the characters it names.   *)
(* A number is its numeral.  A record is [text, lit]: a line, and the      *)
(* literal that follows it.                                                *)
(***************************************************************************)
EXTENDS Integers, Sequences, SequencesExt, FiniteSetsExt

CONSTANT NoLit  \* a record without a literal

White == {" ", "\n"}
Special == {"(", ")", "%", "[", "\""}
Digits == {"0", "1"}

\* Values: what a parsed item is.
Text(t) == [text |-> t]
Number(t) == [number |-> t]
Nil == [nil |-> TRUE]
Tuple(items) == [items |-> items]
Parts(bodies) == [parts |-> bodies]
ParseError == [error |-> TRUE]

Is(v, type) == type \in DOMAIN v

-----------------------------------------------------------------------------
\* The lexer.  s: [mode, tok, toks, ok]; the modes are the loops of
\* read_token_stream ("white", "word") and read_until ("quote" with its
\* escapes, "square").
Lexing == [mode |-> "white", tok |-> <<>>, toks |-> <<>>, ok |-> TRUE]

In(s, mode, c) == [s EXCEPT !.mode = mode, !.tok = Append(@, c)]
Yield(s, t) == [s EXCEPT !.mode = "white", !.tok = <<>>, !.toks = Append(@, t)]
YieldWord(s) == IF s.tok = <<>> THEN s ELSE Yield(s, s.tok)

WordChar(s, c) ==
  CASE c = "[" -> In(s, "square", c)
    [] c \in White -> Yield(s, s.tok)
    [] c = "\"" -> IF s.tok = <<>> THEN In(s, "quote", c)
                   ELSE [s EXCEPT !.ok = FALSE]
    [] c \in Special \ {"[", "\""} -> Yield(YieldWord(s), <<c>>)
    [] OTHER -> In(s, "word", c)

\* Mutant: the character after a backslash is taken with the backslash.
EscapedRaw(s, c) == In(In(s, "quote", "\\"), "quote", c)

\* read_until, after a backslash: only a backslash and the end are escaped.
Escaped(s, c) ==
  IF c \in {"\\", "\""} THEN In(s, "quote", c)
  ELSE In(In(s, "quote", "\\"), "quote", c)

LexChar(s, c) ==
  CASE s.mode = "white" -> IF c \in White THEN s ELSE WordChar(s, c)
    [] s.mode = "word" -> WordChar(s, c)
    [] s.mode = "square" -> In(s, IF c = "]" THEN "word" ELSE "square", c)
    [] s.mode = "quote" /\ c = "\\" -> [s EXCEPT !.mode = "escape"]
    [] s.mode = "quote" /\ c = "\"" -> Yield(s, Append(s.tok, c))
    [] s.mode = "quote" /\ c \notin {"\\", "\""} -> In(s, "quote", c)
    [] s.mode = "escape" -> Escaped(s, c)

\* The tokens of a record, each with the literal of the record.
Tokens(r) ==
  LET s == FoldLeft(LexChar, Lexing, r.text)
      e == IF s.mode = "word" THEN YieldWord(s) ELSE s
  IN [ok |-> e.ok /\ s.mode \in {"white", "word"},
      toks |-> [k \in 1..Len(e.toks) |-> [text |-> e.toks[k], lit |-> r.lit]]]

-----------------------------------------------------------------------------
\* atom, for anything but a parenthesis.  A literal must have the size the
\* line before it says; here a size n is a run of n + 1 digits.
IsDigits(t) == t # <<>> /\ \A k \in 1..Len(t) : t[k] \in Digits

\* int(): a number has no zeros in front.
IntOf(t) ==
  LET first == Min({k \in 1..Len(t) : t[k] # "0"} \cup {Len(t)})
  IN  Number(SubSeq(t, first, Len(t)))

Quoted(t) == Len(t) >= 2 /\ t[1] = "\"" /\ t[Len(t)] = "\""
SizeOf(t) == Len(t) - 3
Atom(tok) ==
  LET t == tok.text IN
  CASE t = <<"N">> -> Nil
    [] t[1] = "{" -> IF tok.lit # NoLit /\ Len(tok.lit) = SizeOf(t)
                     THEN Text(tok.lit) ELSE ParseError
    [] Quoted(t) -> Text(SubSeq(t, 2, Len(t) - 1))
    [] IsDigits(t) -> IntOf(t)
    [] OTHER -> Text(t)

\* gen_parsed_response and parse_tuple.  open: the tuples that are not closed,
\* the outermost first, the first one the response itself.
Put(open, v) == [open EXCEPT ![Len(open)] = Append(@, v)]

\* Mutant: a closed tuple is added to what is around it item by item.
CloseFlat(open) ==
  LET n == Len(open) IN
  SubSeq(open, 1, n - 2) \o <<open[n - 1] \o open[n]>>

\* A tuple is complete.
Close(open) ==
  LET n == Len(open) IN
  Put(SubSeq(open, 1, n - 1), Tuple(open[n]))

\* A closing parenthesis outside a tuple is an item like another.
ParseToken(s, tok) ==
  CASE tok.text = <<"(">> -> [s EXCEPT !.open = Append(@, <<>>)]
    [] tok.text = <<")">> /\ Len(s.open) > 1 -> [s EXCEPT !.open = Close(@)]
    [] tok.text = <<")">> /\ Len(s.open) = 1 ->
         [s EXCEPT !.open = Put(@, Text(tok.text))]
    [] OTHER -> LET v == Atom(tok) IN
                IF v = ParseError THEN [s EXCEPT !.ok = FALSE]
                ELSE [s EXCEPT !.open = Put(@, v)]

\* parse_response: the items, or a single ParseError.
ParseResponse(records) ==
  LET lexed == [k \in 1..Len(records) |-> Tokens(records[k])]
      toks == FlattenSeq([k \in 1..Len(records) |-> lexed[k].toks])
      s == FoldLeft(ParseToken, [open |-> <<<<>>>>, ok |-> TRUE], toks)
  IN IF (\A k \in 1..Len(records) : lexed[k].ok) /\ s.ok /\ Len(s.open) = 1
     THEN s.open[1]
     ELSE <<ParseError>>

-----------------------------------------------------------------------------
\* parse_fetch_response: message numbers, each with the tuple of its items; a
\* message that comes again is merged, a later item over an earlier one.  The
\* UID, if there is one, is the key (uid_is_key).
Key(v) == IF Is(v, "text") THEN v.text ELSE <<>>
Pairs(items) == [k \in 1..(Len(items) \div 2) |->
                   <<Key(items[2 * k - 1]), items[2 * k]>>]

HasUid(ps) == \E k \in 1..Len(ps) : ps[k][1] = <<"U">>
Uid(ps) == LET k == CHOOSE k \in 1..Len(ps) :
                      /\ ps[k][1] = <<"U">>
                      /\ \A j \in (k + 1)..Len(ps) : ps[j][1] # <<"U">>
           IN ps[k][2].number

\* Mutant: what is known of a message is forgotten when it comes again.
MergeNew(f, key, data) ==
  [k \in DOMAIN f \cup {key} |-> IF k = key THEN data ELSE f[k]]

Merge(f, key, data) ==
  [k \in DOMAIN f \cup {key} |->
     IF k # key THEN f[k]
     ELSE LET old == IF k \in DOMAIN f THEN f[k] ELSE <<>> IN
          [w \in DOMAIN old \cup DOMAIN data |->
             IF w \in DOMAIN data THEN data[w] ELSE old[w]]]

\* Mutant: the parts end before the last one.
BodyPartsLess(items) ==
  Min({k \in 1..Len(items) : Is(items[k], "text")} \cup {Len(items)}) - 2

\* The parts are what comes before the first text, if there is one.
BodyParts(items) ==
  Min({k \in 1..Len(items) : Is(items[k], "text")} \cup {Len(items)}) - 1

\* BodyData.create: the parts a multipart body starts with are nested, of
\* which they are bodies themselves.
RECURSIVE Body(_)
Body(v) ==
  IF ~Is(v, "items") \/ v.items = <<>> \/ ~Is(v.items[1], "items") THEN v
  ELSE LET n == BodyParts(v.items) IN
       Tuple(<<Parts([k \in 1..n |-> Body(v.items[k])])>>
             \o SubSeq(v.items, n + 1, Len(v.items)))

MessageData(seq, ps) ==
  [w \in {<<"S">>} \cup {ps[k][1] : k \in {k \in 1..Len(ps) : ps[k][1] # <<"U">>}} |->
     IF w = <<"S">> THEN seq
     ELSE LET k == CHOOSE k \in 1..Len(ps) :
                     ps[k][1] = w /\ \A j \in (k + 1)..Len(ps) : ps[j][1] # w
          IN IF w = <<"B">> THEN Body(ps[k][2]) ELSE ps[k][2]]

\* The messages, or a ParseError.
FetchItem(r, p) ==
  IF ~Is(p[1], "number") \/ ~Is(p[2], "items") \/ Len(p[2].items) % 2 = 1
  THEN [r EXCEPT !.ok = FALSE]
  ELSE LET ps == Pairs(p[2].items)
           key == IF HasUid(ps) THEN Uid(ps) ELSE p[1].number
       IN [r EXCEPT !.msgs = Merge(@, key, MessageData(p[1], ps))]

ParseFetch(records) ==
  LET items == ParseResponse(records)
      n == Len(items) \div 2
      r == FoldLeft(FetchItem, [ok |-> TRUE, msgs |-> <<>>],
                    [k \in 1..n |-> <<items[2 * k - 1], items[2 * k]>>])
  IN [r EXCEPT !.ok = @ /\ Len(items) % 2 = 0]

\* parse_message_list: the numbers of a SEARCH response, and its MODSEQ.
ParseMessageList(records) ==
  LET items == ParseResponse(records)
      mods == SelectSeq(items, LAMBDA v : /\ Is(v, "items") /\ Len(v.items) = 2
                                          /\ v.items[1] = Text(<<"M">>))
  IN [ok |-> /\ Len(records) = 1
             /\ records[1].text = <<>> \/ records[1].text[1] \in Digits,
      ids |-> SelectSeq(items, LAMBDA v : Is(v, "number")),
      modseq |-> IF mods = <<>> THEN Nil ELSE mods[Len(mods)].items[2]]

-----------------------------------------------------------------------------
\* Folder names: encode and decode of imap_utf7.py.  "x" stands for a
\* character that is not printable ASCII; a run of them becomes one base64
\* text, each character an "X" (modified_utf7: no slash, no dash).
Shifted(t) == [k \in 1..Len(t) |-> "X"]
Unshifted(t) == [k \in 1..Len(t) |-> "x"]

\* extend_result_if_chars_buffered.
Flush(r) == IF r.in = <<>> THEN r
            ELSE [out |-> r.out \o <<"&">> \o Shifted(r.in) \o <<"-">>, in |-> <<>>]

EncodeChar(r, c) ==
  CASE c = "x" -> [r EXCEPT !.in = Append(@, c)]
    [] c = "&" -> [Flush(r) EXCEPT !.out = @ \o <<"&", "-">>]
    [] OTHER   -> [Flush(r) EXCEPT !.out = Append(@, c)]

EncodeUtf7(name) ==
  Flush(FoldLeft(EncodeChar, [out |-> <<>>, in |-> <<>>], name)).out

\* Mutant: an ampersand is an ampersand.
DecodeCharPlain(r, c) ==
  CASE c = "&" /\ r.in = <<>> -> [r EXCEPT !.in = <<c>>]
    [] c = "-" /\ r.in # <<>> -> [out |-> r.out \o Unshifted(Tail(r.in)), in |-> <<>>]
    [] c # "-" /\ r.in # <<>> -> [r EXCEPT !.in = Append(@, c)]
    [] c # "&" /\ r.in = <<>> -> [r EXCEPT !.out = Append(@, c)]

\* Outside the base64 text the bytes of a name are printable ASCII.
DecodeChar(r, c) ==
  CASE c = "&" /\ r.in = <<>> -> [r EXCEPT !.in = <<c>>]
    [] c = "-" /\ r.in # <<>> ->
         [out |-> r.out \o (IF Len(r.in) = 1 THEN <<"&">> ELSE Unshifted(Tail(r.in))),
          in |-> <<>>]
    [] c # "-" /\ r.in # <<>> -> [r EXCEPT !.in = Append(@, c)]
    [] c # "&" /\ r.in = <<>> -> [r EXCEPT !.out = Append(@, c)]

DecodeUtf7(t) ==
  LET r == FoldLeft(DecodeChar, [out |-> <<>>, in |-> <<>>], t) IN
  IF r.in = <<>> THEN r.out ELSE r.out \o Unshifted(Tail(r.in))

\* Mutant: the quotes of the text are left alone.
QuoteOnly(t) == <<"\"">> \o t \o <<"\"">>

\* _quote of imapclient.py.
Escape(t) == FlattenSeq([k \in 1..Len(t) |->
               IF t[k] \in {"\\", "\""} THEN <<"\\", t[k]>> ELSE <<t[k]>>])
Quote(t) == <<"\"">> \o Escape(t) \o <<"\"">>

\* _normalise_folder, and what _proc_folder_list makes of a name: a number is
\* written again as text_type() writes it, None stays.
NormaliseFolder(name) == Quote(EncodeUtf7(name))

\* Mutant: what was parsed as a number stays one.
FolderNameNumber(v) ==
  IF Is(v, "text") THEN Text(DecodeUtf7(v.text)) ELSE v

FolderName(v) ==
  CASE Is(v, "number") -> Text(v.number)
    [] Is(v, "text")   -> Text(DecodeUtf7(v.text))
    [] OTHER           -> v

\* _proc_folder_list: flags, delimiter, name, three by three.
ProcFolderList(items) ==
  [k \in 1..(Len(items) \div 3) |->
     <<items[3 * k - 2], items[3 * k - 1], FolderName(items[3 * k])>>]
=============================================================================
