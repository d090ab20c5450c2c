----------------------------- MODULE EmlParser -----------------------------
(***************************************************************************)
(* extract of eml_parser.py: the searchable text of a mail in MIME format. *)
(*                                                                         *)
(* A mail is [part, date, from, to, cc, subject, broken, dot, ascii, fs].  *)
(* part is the tree of its parts: a function from paths to leaves, inner   *)
(* parts being the prefixes of a path.  A leaf is [name, type, ctname,     *)
(* data], name being a string of Unicode when it was sent as RFC 2231      *)
(* says, of bytes otherwise.  subject is the list of its pieces, broken    *)
(* says that one is no base64.  dot and ascii say whether the key (the     *)
(* file name of the mail) has a dot and is ASCII up to its second one, fs  *)
(* is how the locale encodes file names.  External: the email package,     *)
(* which made the parts.                                                   *)
(***************************************************************************)
EXTENDS MailFields

CONSTANTS
  Mails,   \* mails, each [mail, from, to] with the addresses it means
  NoName   \* no file name

\* Mutant: the parts end with one that is a multipart itself.
PartsTop(m, p) == Cardinality({q[Len(p) + 1] : q \in {q \in DOMAIN m.part :
                     Len(q) = Len(p) + 1 /\ SubSeq(q, 1, Len(p)) = p}})

\* The numbers of the parts of the multipart p; how many there are.
Numbers(m, p) == {q[Len(p) + 1] : q \in {q \in DOMAIN m.part :
                    Len(q) > Len(p) /\ SubSeq(q, 1, Len(p)) = p}}
Parts(m, p) == Cardinality(Numbers(m, p))

\* The parts of a mail, the inner ones too.
Places(m) ==
  {<<>>} \cup UNION {{SubSeq(q, 1, k) : k \in 1..Len(q)} : q \in DOMAIN m.part}

\* Parts are numbered from 1 without a gap; a leaf has no parts.  Parts are nested
\* no deeper than Python's recursion goes, and no name holds a NUL.
IsMime(m) ==
  /\ IsFiniteSet(DOMAIN m.part) /\ DOMAIN m.part \subseteq Seq(Nat)
  /\ \A p, q \in DOMAIN m.part : Len(p) < Len(q) => SubSeq(q, 1, Len(p)) # p
  /\ \A p \in Places(m) \ DOMAIN m.part : Numbers(m, p) = 1..Cardinality(Numbers(m, p))
  /\ \A p \in DOMAIN m.part :
       /\ m.part[p].name = NoName \/ IsString(m.part[p].name)
       /\ m.part[p].type \in {"plain", "html", "other"}
       /\ m.part[p].ctname \in Text \cup {NoName} /\ m.part[p].data \in Text
  /\ {m.from, m.to, m.cc} \subseteq Text /\ m.subject \in Seq(Text)
  /\ {m.broken, m.dot, m.ascii} \subseteq BOOLEAN /\ m.fs \in {"ascii", "utf8"}

ASSUME NoNameAssumption == NoName \notin Text /\ ~IsString(NoName)

\* The addresses a mail means are in its header, where white space may surround
\* a list.
ASSUME MailsAssumption ==
  \A x \in Mails :
    /\ IsMime(x.mail) /\ {x.from, x.to} \subseteq Seq(Entries(Characters))
    /\ IsList(Strip(x.mail.from), x.from)
    /\ \E k \in 0..Len(x.to) :
         /\ IsList(Strip(x.mail.to), SubSeq(x.to, 1, k))
         /\ IsList(Strip(x.mail.cc), SubSeq(x.to, k + 1, Len(x.to)))

VARIABLES
  eml,     \* the mail
  emlOut,  \* what extract returned: <<>> or <<fields>>
  emlFailed

emlVars == <<eml, emlOut, emlFailed>>

\* What pullout returns; ok says that it returns.
Pulled(text, html, files, ok) ==
  [text |-> text, html |-> html, files |-> files, ok |-> ok]

-----------------------------------------------------------------------------
\* Mutant: a part that is inline text is text even when it is a file.
AttachedNone(leaf) == FALSE

\* pullout of a leaf.  A file is named by its disposition or, when its type is
\* not a text's, by its content type.
Attached(leaf) == leaf.name # NoName
NamedByType(leaf) == leaf.type = "other" /\ leaf.ctname # NoName

\* construct_name and file_exists: the first two pieces of the key and the name
\* make a file name, which the locale can encode.
FileOk(m, name) ==
  m.dot /\ (name.uni => m.ascii /\ (Foreign(name) => m.fs = "utf8"))
File(m, name) == Pulled(<<>>, <<>>, <<name>>, FileOk(m, name))

PullLeaf(m, leaf) ==
  CASE Attached(leaf) -> File(m, leaf.name)
    [] ~Attached(leaf) /\ leaf.type = "plain" -> Pulled(leaf.data, <<>>, <<>>, TRUE)
    [] ~Attached(leaf) /\ leaf.type = "html" -> Pulled(<<>>, leaf.data, <<>>, TRUE)
    [] ~Attached(leaf) /\ NamedByType(leaf) -> File(m, Bytes(leaf.ctname))
    [] OTHER -> Pulled(<<>>, <<>>, <<>>, TRUE)

\* What the parts of a multipart give, one after the other.
Gathered(fs) ==
  LET All(w) == FlattenSeq([y \in 1..Len(fs) |-> fs[y][w]])
  IN  Pulled(All("text"), All("html"), All("files"), \A y \in 1..Len(fs) : fs[y].ok)

\* pullout
Pullout(m) ==
  LET pull[p \in Places(m)] ==
        IF p \in DOMAIN m.part THEN PullLeaf(m, m.part[p])
        ELSE Gathered([y \in 1..Parts(m, p) |-> pull[Append(p, y)]])
  IN  pull[<<>>]

\* Mutant: the last encoded word of a subject is taken.
SubjectLast(m) == IF m.subject = <<>> THEN <<>> ELSE m.subject[Len(m.subject)]

\* caption and extract.  The names are joined with each other and with the text,
\* which is of bytes; json.dumps takes no byte that is not UTF-8.
ToLine(m) == IF Strip(m.cc) = <<>> THEN Strip(m.to)
             ELSE Strip(m.to) \o <<",">> \o Strip(m.cc)
Subject(m) == IF m.subject = <<>> THEN <<>> ELSE m.subject[1]

PlainBody(p) ==
  RemoveEol(RemoveTags(Strip(p.text)) \o <<" ">> \o RemoveTags(Strip(p.html)))
FilesOf(p) == [i \in 1..Len(p.files) |-> p.files[i].s]

EmlFields(m) ==
  LET p == Pullout(m)
  IN [from |-> FormatMail(Strip(m.from)), to |-> FormatMail(ToLine(m)),
      subject |-> Subject(m),
      body |-> IF p.files = <<>> THEN PlainBody(p)
               ELSE PlainBody(p) \o <<" ">> \o Join(FilesOf(p))]

\* Mutant: the strings of a body are joined whatever they are.
JoinsAll(p) == TRUE

Joins(p) ==
  \A a, b \in {Bytes(PlainBody(p))} \cup ToSet(p.files) : ~Mixed(a, b)

Dumpable(f) == \A t \in {f.from.authors, f.from.mails, f.to.authors, f.to.mails,
                         f.subject, f.body} : ~Contains(t, "x")

Extract ==
  /\ emlOut = <<>> /\ ~emlFailed
  /\ LET m == eml.mail IN
     IF /\ m.date # "bad" /\ ~m.broken
        /\ Pullout(m).ok /\ Joins(Pullout(m)) /\ Dumpable(EmlFields(m))
     THEN emlOut' = <<EmlFields(m)>> /\ UNCHANGED emlFailed
     ELSE emlFailed' = TRUE /\ UNCHANGED emlOut
  /\ UNCHANGED eml

EmlInit == eml \in Mails /\ emlOut = <<>> /\ emlFailed = FALSE

EmlSpec == EmlInit /\ [][Extract]_emlVars

-----------------------------------------------------------------------------
EmlTypeOK == /\ emlFailed \in BOOLEAN
             /\ \/ emlOut = <<>>
                \/ DOMAIN emlOut[1] = {"from", "to", "subject", "body"}

\* The leaves as they stand in the mail, wherever they are nested.
Before(p, q) ==
  \/ Len(p) < Len(q) /\ SubSeq(q, 1, Len(p)) = p
  \/ \E k \in 1..Min({Len(p), Len(q)}) :
       p[k] < q[k] /\ SubSeq(p, 1, k - 1) = SubSeq(q, 1, k - 1)
Leaves(m) ==
  LET ps == DOMAIN m.part
  IN [i \in 1..Cardinality(ps) |->
        m.part[CHOOSE p \in ps : Cardinality({q \in ps : Before(q, p)}) = i - 1]]

Named(leaf) == leaf.name # NoName \/ (leaf.type = "other" /\ leaf.ctname # NoName)
Data(leaves, type) ==
  FlattenSeq([i \in 1..Len(leaves) |->
    IF ~Named(leaves[i]) /\ leaves[i].type = type THEN leaves[i].data ELSE <<>>])
Names(leaves) ==
  FlattenSeq([i \in 1..Len(leaves) |->
    CASE ~Named(leaves[i]) -> <<>>
      [] Named(leaves[i]) /\ leaves[i].name # NoName -> Solid(leaves[i].name.s)
      [] OTHER -> Solid(leaves[i].ctname)])

MeantText(m) == Untagged(Data(Leaves(m), "plain")) \o Untagged(Data(Leaves(m), "html"))
MeantBody(m) == MeantText(m) \o Names(Leaves(m))
FirstPiece(m) == IF m.subject = <<>> THEN <<>> ELSE m.subject[1]

\* The body is the text of every plain part outside its tags, then that of
\* every HTML part, then the names of all files, in the order of the parts; the
\* sender and the recipients are the addresses the mail names.  Of the subject
\* only the first piece is left: what follows it in another encoding is lost.
EmlKept ==
  \A i \in 1..Len(emlOut) :
    /\ Solid(emlOut[i].body) = MeantBody(eml.mail)
    /\ Says(emlOut[i].from, eml.from) /\ Says(emlOut[i].to, eml.to)
    /\ emlOut[i].subject = FirstPiece(eml.mail)

\* The string that names a file; the strings of a mail's body.
NameOf(leaf) == IF leaf.name # NoName THEN leaf.name ELSE Bytes(leaf.ctname)
BodyStrings(m) ==
  {Bytes(MeantText(m))} \cup {NameOf(leaf) : leaf \in {m.part[p] : p \in
                                  {p \in DOMAIN m.part : Named(m.part[p])}}}

\* A file whose name cannot be made: the mail's own name has no dot; or the name
\* is Unicode and the mail's own name, or the locale, has no place for it.
Unnameable(m, name) ==
  ~m.dot \/ (name.uni /\ (~m.ascii \/ (m.fs = "ascii" /\ Contains(name.s, "u"))))

\* A mail fails for a date that is none, a broken word in the subject, a file
\* whose name cannot be made, a Unicode file name beside text or a name of bytes
\* beyond ASCII, or a byte of another encoding where it would be seen, and for
\* no other reason; then no field of it is returned.
EmlFailsForCause ==
  emlFailed \/ emlOut # <<>> =>
    (emlFailed <=>
       LET m == eml.mail IN
       \/ m.date = "bad" \/ m.broken
       \/ \E p \in DOMAIN m.part :
            Named(m.part[p]) /\ Unnameable(m, NameOf(m.part[p]))
       \/ \E a, b \in BodyStrings(m) : a.uni /\ ~b.uni /\ Foreign(b)
       \/ \E t \in {m.from, m.to, m.cc, FirstPiece(m), MeantBody(m)} : Contains(t, "x"))

\* A mail gives its text and its addresses, or fails for a cause of its own.
EmlConverted == EmlTypeOK /\ EmlKept /\ EmlFailsForCause
=============================================================================
