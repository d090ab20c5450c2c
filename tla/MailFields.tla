----------------------------- MODULE MailFields -----------------------------
(***************************************************************************)
(* What eml_parser.py and msg_parser.py both make of the fields of a mail: *)
(* authors and addresses of an address list, text without tags and line    *)
(* ends.                                                                   *)
(*                                                                         *)
(* A text is a sequence of characters: letters, the characters the code    *)
(* names, "\n" for what remove_eol replaces, "u" for a character beyond    *)
(* ASCII (in a string of bytes, its bytes in UTF-8) and "x" for a byte     *)
(* beyond ASCII that is no UTF-8.                                          *)
(***************************************************************************)
EXTENDS Integers, Sequences, SequencesExt, FiniteSetsExt

CONSTANT Characters \* what a text is made of

\* The code writes these characters; "?" and "w" are what only decode_utf7 makes.
ASSUME CharactersAssumption ==
  /\ {" ", "r", ",", "<", ">"} \subseteq Characters
  /\ Characters \cap {"?", "w"} = {}

Text == Seq(Characters)
Unicode == Seq(Characters \ {"x"})

\* A string of Python 2 is [uni, s]: of Unicode, or of bytes.
Bytes(s) == [uni |-> FALSE, s |-> s]
IsString(v) == v \in [uni : BOOLEAN, s : Text] /\ (v.uni => v.s \in Unicode)
Foreign(v) == \E k \in 1..Len(v.s) : v.s[k] \in {"u", "x"}

\* Strings of two kinds are joined when the bytes are ASCII.
Mixed(a, b) == a.uni # b.uni /\ Foreign(IF a.uni THEN b ELSE a)

White == {" ", "\n"}
Solid(t) ==
  FlattenSeq([k \in 1..Len(t) |-> IF t[k] \in White THEN <<>> ELSE <<t[k]>>])

\* t.strip(cs)
StripOf(t, cs) ==
  LET ks == {k \in 1..Len(t) : t[k] \notin cs}
  IN IF ks = {} THEN <<>> ELSE SubSeq(t, Min(ks), Max(ks))
Strip(t) == StripOf(t, White)

\* t.split(","), c being the next character.
SplitNext(ps, c) ==
  IF c = "," THEN Append(ps, <<>>)
  ELSE [ps EXCEPT ![Len(ps)] = Append(ps[Len(ps)], c)]
Split(t) ==
  LET ps[i \in 0..Len(t)] ==
        IF i = 0 THEN <<<<>>>> ELSE SplitNext(ps[i - 1], t[i])
  IN  ps[Len(t)]

\* " ".join(ts)
Join(ts) == FlattenSeq([i \in 1..Len(ts) |->
                          IF i = 1 THEN ts[i] ELSE <<" ">> \o ts[i]])

\* The place of the first "<", counted from 0; -1 without one.
FindLess(t) == Min({k \in 1..Len(t) : t[k] = "<"} \cup {Len(t) + 1}) - 1
HasAuthor(t) == 0 < FindLess(t) /\ FindLess(t) < Len(t)

\* Mutant: an address that is not stripped of its brackets when it stands alone.
AddressBare(t) ==
  IF HasAuthor(t)
  THEN StripOf(StripOf(Strip(SubSeq(t, FindLess(t) + 1, Len(t))), {"<"}), {">"})
  ELSE Strip(t)

\* extract_author_mail.  The character before the "<" is dropped.
Author(t) == IF HasAuthor(t) THEN Strip(SubSeq(t, 1, FindLess(t) - 1)) ELSE <<>>
Address(t) ==
  StripOf(StripOf(Strip(IF HasAuthor(t) THEN SubSeq(t, FindLess(t) + 1, Len(t))
                        ELSE t), {"<"}), {">"})

\* format_mail
FormatMail(t) ==
  LET entries == Split(t)
  IN [authors |-> Strip(Join([i \in 1..Len(entries) |-> Author(entries[i])])),
      mails |-> Strip(Join([i \in 1..Len(entries) |-> Address(entries[i])]))]

\* TAG_RE: the end of the tag at i, or 0.  A tag is not empty.
TagEnd(t, i) ==
  LET ends == {j \in (i + 1)..Len(t) : t[j] = ">"}
  IN IF t[i] = "<" /\ ends # {} /\ Min(ends) > i + 1 THEN Min(ends) ELSE 0

\* remove_tags
RemoveTags(t) ==
  LET from[i \in 1..(Len(t) + 1)] ==
        IF i > Len(t) THEN <<>>
        ELSE IF TagEnd(t, i) > 0 THEN <<" ">> \o from[TagEnd(t, i) + 1]
        ELSE <<t[i]>> \o from[i + 1]
  IN from[1]

\* remove_eol
RemoveEol(t) == [k \in 1..Len(t) |-> IF t[k] = "\n" THEN " " ELSE t[k]]

-----------------------------------------------------------------------------
\* The same, said of the text as a whole.

\* k is in a tag: between a "<" before it and the first ">" behind.
InTag(t, k) ==
  \E i \in 1..k, j \in k..Len(t) :
    /\ t[i] = "<" /\ t[j] = ">" /\ j > i + 1
    /\ \A l \in i..(j - 1) : t[l] # ">"
Untagged(t) == Solid([k \in 1..Len(t) |-> IF InTag(t, k) THEN " " ELSE t[k]])

\* An entry of an address list as mail programs write it: an address alone or in
\* brackets, perhaps behind a name; neither holds what separates them.
IsEntry(e) ==
  /\ \A k \in 1..Len(e.name) : e.name[k] \notin {",", "<"}
  /\ e.name # <<>> => {e.name[1], e.name[Len(e.name)]} \cap White = {}
  /\ e.mail # <<>>
  /\ \A k \in 1..Len(e.mail) : e.mail[k] \notin {",", "<", ">"} \cup White
  /\ e.alone => e.name = <<>>
Entries(S) ==
  {e \in [name : Seq(S), mail : Seq(S), alone : BOOLEAN] : IsEntry(e)}
Written(e) == IF e.alone THEN e.mail
              ELSE (IF e.name = <<>> THEN <<>> ELSE Append(e.name, " "))
                   \o <<"<">> \o e.mail \o <<">">>
List(es, sep) == FlattenSeq([i \in 1..Len(es) |-> IF i = 1 THEN Written(es[1])
                                                  ELSE sep \o Written(es[i])])
\* t is the address list es.
IsList(t, es) == \E sep \in {<<",">>, <<",", " ">>} : t = List(es, sep)

\* An address list says what it should: each entry a name and an address, the
\* name perhaps empty.
Says(f, entries) ==
  /\ Solid(f.authors) = FlattenSeq([i \in 1..Len(entries) |-> Solid(entries[i].name)])
  /\ f.mails = Join([i \in 1..Len(entries) |-> entries[i].mail])
=============================================================================
