----------------------------- MODULE MsgParser -----------------------------
(***************************************************************************)
(* Message of msg_parser.py: a mail in Outlook's format.  Its fields are   *)
(* read from the streams of an OLE file when they are asked for; header,   *)
(* sender, to, cc and attachments are kept once they were read.  save      *)
(* makes the searchable text of them, as extract does of a MIME mail.      *)
(*                                                                         *)
(* A mail is a record of strings, each [ascii, unicode], either of which   *)
(* may be missing, with [has, broken, from, to, cc, date] for its header,  *)
(* dirs, the directory of each of its streams in listdir's order, and      *)
(* attach, the two file names in each directory of an attachment.          *)
(***************************************************************************)
EXTENDS MailFields

CONSTANTS
  Messages,  \* mails, each [mail, from, to] with the addresses it means
  Missing,   \* no stream
  Damaged    \* a Unicode stream that is no UTF-16

\* A stream of text is a text, or none; a Unicode one may be damaged.
Stream == [ascii : Text \cup {Missing}, unicode : Unicode \cup {Missing, Damaged}]

IsMail(m) ==
  /\ {m.subject, m.body, m.name, m.email, m.displayTo, m.displayCc} \subseteq Stream
  /\ \A w \in {"from", "to", "cc"} : m.header[w] \in Text \cup {Missing}
  /\ \A d \in DOMAIN m.attach : {m.attach[d].long, m.attach[d].short} \subseteq Stream
  /\ m.dirs \in Seq(STRING) /\ DOMAIN m.attach \subseteq ToSet(m.dirs)

ASSUME MissingAssumption ==
  /\ Missing # Damaged /\ Missing \notin Text /\ Damaged \notin Text
  /\ Damaged \notin Seq(Characters \cup {"w"})

\* What a stream says.
Chosen(st) == IF st.unicode # Missing THEN st.unicode ELSE st.ascii
FromHeader(m, w) == m.header.has /\ m.header[w] # Missing

\* t is the address list es, if it can be read; a mail means from and to.
Lists(t, es) ==
  \/ t = Damaged
  \/ t = Missing /\ es = <<>>
  \/ IsList(t, es)
MeansFrom(m, es) ==
  LET name == Chosen(m.name) email == Chosen(m.email) IN
  CASE FromHeader(m, "from") -> Lists(m.header["from"], es)
    [] ~FromHeader(m, "from") /\ Damaged \in {name, email} -> TRUE
    [] ~FromHeader(m, "from") /\ name = Missing -> Lists(email, es)
    [] ~FromHeader(m, "from") /\ email = Missing -> Lists(name, es)
    [] OTHER -> /\ Len(es) = 1 /\ ~es[1].alone /\ es[1].name # <<>>
                /\ es[1].name = name /\ es[1].mail = email
MeansTo(m, es) ==
  \E k \in 0..Len(es) :
    /\ Lists(IF FromHeader(m, "to") THEN m.header["to"] ELSE Chosen(m.displayTo),
             SubSeq(es, 1, k))
    /\ Lists(IF FromHeader(m, "cc") THEN m.header["cc"] ELSE Chosen(m.displayCc),
             SubSeq(es, k + 1, Len(es)))

ASSUME MessagesAssumption ==
  \A x \in Messages :
    /\ IsMail(x.mail) /\ {x.from, x.to} \subseteq Seq(Entries(Characters))
    /\ MeansFrom(x.mail, x.from) /\ MeansTo(x.mail, x.to)

VARIABLES
  msg,    \* the mail
  cache,  \* the fields that were read, by name
  got,    \* the last field a caller got: [prop, val]
  msgOut, \* what save printed: <<>> or <<fields>>
  ended   \* an exception ended the script

msgVars == <<msg, cache, got, msgOut, ended>>

\* Values: a string; None; the error an access raises.
None == Bytes(Missing)
Error == Bytes(Damaged)
IsNone(v) == v.s = Missing

-----------------------------------------------------------------------------
\* Mutant: bytes are preferred.
StringBytes(st) ==
  IF st.ascii = Missing THEN [uni |-> st.unicode # Missing, s |-> st.unicode]
  ELSE Bytes(st.ascii)

\* _getStringStream: Unicode is preferred, and decoded in any case.
StringStream(st) ==
  IF st.unicode = Damaged THEN Error
  ELSE IF st.unicode # Missing THEN [uni |-> TRUE, s |-> st.unicode]
  ELSE Bytes(st.ascii)

\* header: None, or what EmailParser makes of it.  It takes no Unicode text
\* that is not ASCII.
Header(m) == IF m.header.broken THEN [m.header EXCEPT !.has = FALSE] ELSE m.header
HeaderField(h, w) == IF h.has THEN Bytes(h[w]) ELSE None

\* The fields of last resort of sender, to and cc.
SenderFields(m) ==
  LET text == StringStream(m.name) email == StringStream(m.email) IN
  CASE text = Error \/ email = Error -> Error
    [] text # Error /\ email # Error /\ IsNone(text) -> email
    [] text # Error /\ ~IsNone(text) /\ IsNone(email) -> text
    [] OTHER -> IF Mixed(text, email) THEN Error
                ELSE [uni |-> text.uni \/ email.uni,
                      s |-> text.s \o <<" ", "<">> \o email.s \o <<">">>]

\* Attachment.__init__ and save, with "r" for a name that is made up.
Name(a) ==
  LET long == StringStream(a.long) short == StringStream(a.short) IN
  CASE long = Error \/ short = Error -> Error
    [] OTHER -> IF ~IsNone(long) THEN long
                ELSE IF ~IsNone(short) THEN short ELSE Bytes(<<"r">>)

\* Mutant: a directory is an attachment for each of its streams.
DirsAll(m) == SelectSeq(m.dirs, LAMBDA d : d \in DOMAIN m.attach)

\* attachments: the directories of attachments, each once.
Dirs(m) ==
  LET ds[i \in 0..Len(m.dirs)] ==
        IF i = 0 THEN <<>>
        ELSE IF m.dirs[i] \in DOMAIN m.attach /\ ~Contains(ds[i - 1], m.dirs[i])
        THEN Append(ds[i - 1], m.dirs[i]) ELSE ds[i - 1]
  IN  ds[Len(m.dirs)]
Attachments(m) == [i \in 1..Len(Dirs(m)) |-> Name(m.attach[Dirs(m)[i]])]

-----------------------------------------------------------------------------
\* Reading a field: r is [val, cache, ok], what the caller gets and what the
\* Message keeps.

\* Mutant: cc is kept where to is.
SlotShared(w) == IF w = "cc" THEN "to" ELSE w

\* The name a field is kept under.
Slot(w) == w

Keep(c, w, v) == IF Slot(w) \in DOMAIN c THEN c
                 ELSE [k \in DOMAIN c \cup {Slot(w)} |-> IF k = Slot(w) THEN v ELSE c[k]]
Found(c, v) == [val |-> v, cache |-> c, ok |-> v # Error]

\* A header that cannot be parsed is not kept.
HeaderKept(m, c) == IF m.header.broken THEN c ELSE Keep(c, "header", Header(m))

ReadHeader(m, c) ==
  IF "header" \in DOMAIN c THEN [val |-> c["header"], cache |-> c, ok |-> TRUE]
  ELSE [val |-> Header(m), ok |-> ~m.header.broken, cache |-> HeaderKept(m, c)]

HeaderOf(w) == CASE w = "sender" -> "from" [] OTHER -> w
Fallback(m, w) == CASE w = "sender" -> SenderFields(m)
                    [] w = "to" -> StringStream(m.displayTo)
                    [] w = "cc" -> StringStream(m.displayCc)

\* sender, to and cc: what is kept, else the header, else other fields.
ReadAddress(m, c, w) ==
  IF Slot(w) \in DOMAIN c THEN Found(c, c[Slot(w)])
  ELSE LET h == ReadHeader(m, c)
           own == HeaderField(h.val, HeaderOf(w))
           v == IF IsNone(own) THEN Fallback(m, w) ELSE own
       IN IF ~h.ok \/ v = Error THEN Found(h.cache, Error)
          ELSE Found(Keep(h.cache, w, v), v)

ReadDate(m, c) ==
  LET h == ReadHeader(m, c)
  IN [val |-> IF h.val.has THEN h.val.date ELSE "none", cache |-> h.cache, ok |-> h.ok]

\* The list is kept before it is filled.
ReadAttachments(m, c) ==
  IF "attachments" \in DOMAIN c THEN [val |-> c["attachments"], cache |-> c, ok |-> TRUE]
  ELSE LET names == Attachments(m)
           bad == {i \in 1..Len(names) : names[i] = Error}
       IN [val |-> names, ok |-> bad = {},
           cache |-> Keep(c, "attachments",
                          IF bad = {} THEN names ELSE SubSeq(names, 1, Min(bad) - 1))]

Read(m, c, w) ==
  CASE w = "date" -> ReadDate(m, c)
    [] w \in {"sender", "to", "cc"} -> ReadAddress(m, c, w)
    [] w = "attachments" -> ReadAttachments(m, c)
    [] w = "subject" -> Found(c, StringStream(m.subject))
    [] w = "body" -> Found(c, StringStream(m.body))

Props == {"date", "subject", "sender", "to", "cc", "body", "attachments"}

\* A caller reads a field.
Get(w) ==
  /\ ~ended /\ msgOut = <<>>
  /\ LET r == Read(msg.mail, cache, w) IN
     /\ got' = [prop |-> w, val |-> r.val]
     /\ cache' = r.cache
     /\ ended' = ~r.ok
  /\ UNCHANGED <<msg, msgOut>>

-----------------------------------------------------------------------------
\* Mutant: the bytes of a body are taken for UTF-8.
LatinNone(c) == c

\* The character decode_utf7 makes of a byte beyond ASCII: that of Latin-1.
Latin(c) == IF c \in {"u", "x"} THEN "w" ELSE c

\* decode_utf7 of a body of bytes: what stands between an & and the next - is
\* taken for base64, of which something ("?") or an error comes.
Shifted(t, k) == \E i \in 1..k : t[i] = "&" /\ \A j \in i..(k - 1) : t[j] # "-"
DecodeChar(t, k) ==
  CASE ~Shifted(t, k) -> <<Latin(t[k])>>
    [] Shifted(t, k) /\ (k = 1 \/ ~Shifted(t, k - 1) \/ t[k - 1] = "-") ->
         <<IF k < Len(t) /\ t[k + 1] = "-" THEN "&" ELSE "?">>
    [] OTHER -> <<>>
DecodeUtf7(t) == FlattenSeq([k \in 1..Len(t) |-> DecodeChar(t, k)])

BodyTexts(v) ==
  IF v.uni THEN {v.s}
  ELSE {DecodeUtf7(v.s)}
       \cup {t \in {Damaged} : Contains(DecodeUtf7(v.s), "?")}

\* save reads the fields in this order, and stops at the first error.
Order == <<"date", "subject", "attachments", "sender", "cc", "to", "body">>
ReadNext(m, acc, w) ==
  IF ~acc.ok THEN acc
  ELSE LET r == Read(m, acc.cache, w)
       IN [ok |-> r.ok, cache |-> r.cache,
           val |-> [k \in DOMAIN acc.val \cup {w} |->
                      IF k = w THEN r.val ELSE acc.val[k]]]
ReadAll(m) ==
  LET acc[i \in 0..Len(Order)] ==
        IF i = 0 THEN [ok |-> TRUE, cache |-> cache, val |-> <<>>]
        ELSE ReadNext(m, acc[i - 1], Order[i])
  IN  acc[Len(Order)]

\* xstr: str takes no Unicode text that is not ASCII.
Xstr(v) == IF IsNone(v) THEN <<>> ELSE v.s
StrTakes(v) == ~v.uni \/ ~Foreign(v)

\* Mutant: cc is what there is if to is there.
RecipientsFirst(val) == IF Xstr(val["to"]) = <<>> THEN Xstr(val["cc"]) ELSE Xstr(val["to"])

Recipients(val) ==
  LET cc == Strip(Xstr(val["cc"]))
  IN IF cc = <<>> THEN Xstr(val["to"]) ELSE Xstr(val["to"]) \o <<",", " ">> \o cc

MsgFields(val, text) ==
  LET names == [i \in 1..Len(val["attachments"]) |-> val["attachments"][i].s]
  IN [from |-> FormatMail(Xstr(val["sender"])), to |-> FormatMail(Recipients(val)),
      subject |-> Xstr(val["subject"]),
      body |-> RemoveEol(RemoveTags(text) \o <<" ">> \o Join(names))]

\* Every conversion of save succeeds, and json.dumps: no byte that is not UTF-8
\* is left, and none beyond ASCII is joined with the body, which is Unicode.
Converts(val, text, f) ==
  /\ val["date"] = "good" /\ ~IsNone(val["body"]) /\ text # Damaged
  /\ \A w \in {"sender", "cc", "to", "subject"} : StrTakes(val[w])
  /\ \A i \in 1..Len(val["attachments"]) :
       val["attachments"][i].uni \/ ~Foreign(val["attachments"][i])
  /\ \A t \in {f.from.authors, f.from.mails, f.to.authors, f.to.mails, f.subject} :
       ~Contains(t, "x")

\* save, the only call of the script: an exception goes to the main loop.
Save ==
  /\ ~ended /\ msgOut = <<>>
  /\ LET r == ReadAll(msg.mail) IN
     /\ cache' = r.cache
     /\ \/ ~r.ok /\ ended' = TRUE /\ UNCHANGED msgOut
        \/ /\ r.ok
           /\ \E text \in BodyTexts(r.val["body"]) :
                LET f == MsgFields(r.val, text) IN
                IF Converts(r.val, text, f)
                THEN msgOut' = <<f>> /\ UNCHANGED ended
                ELSE ended' = TRUE /\ UNCHANGED msgOut
  /\ UNCHANGED <<msg, got>>

MsgInit == /\ msg \in Messages /\ cache = <<>> /\ got = [prop |-> "none", val |-> None]
           /\ msgOut = <<>> /\ ended = FALSE

MsgNext == Save \/ \E w \in Props : Get(w)

MsgSpec == MsgInit /\ [][MsgNext]_msgVars

-----------------------------------------------------------------------------
MsgTypeOK ==
  /\ ended \in BOOLEAN /\ got.prop \in Props \cup {"none"}
  /\ DOMAIN cache \subseteq {"header", "sender", "to", "cc", "attachments"}
  /\ DOMAIN cache \subseteq {"attachments"} \/ "header" \in DOMAIN cache
  /\ Len(msgOut) <= 1

\* What is kept is what the file says: in whatever order the fields are read, a
\* caller gets what it would get as the first one.
MsgFresh ==
  got.prop # "none" /\ ~ended => got.val = Read(msg.mail, <<>>, got.prop).val

\* The strings of a mail that save shows or takes apart.
Strings(m) ==
  {Chosen(m.subject)}
  \cup (IF FromHeader(m, "from") THEN {m.header["from"]} ELSE {Chosen(m.name), Chosen(m.email)})
  \cup {IF FromHeader(m, "to") THEN m.header["to"] ELSE Chosen(m.displayTo),
        IF FromHeader(m, "cc") THEN m.header["cc"] ELSE Chosen(m.displayCc)}

FileName(a) == IF Chosen(a.long) # Missing THEN Chosen(a.long)
               ELSE IF Chosen(a.short) # Missing THEN Chosen(a.short) ELSE <<"r">>
ByteName(a) == IF Chosen(a.long) # Missing THEN a.long.unicode = Missing
               ELSE a.short.unicode = Missing
FileDirs(m) ==
  LET First(i) == /\ m.dirs[i] \in DOMAIN m.attach
                  /\ \A j \in 1..(i - 1) : m.dirs[j] # m.dirs[i]
  IN FlattenSeq([i \in 1..Len(m.dirs) |->
                   IF First(i) THEN <<m.dirs[i]>> ELSE <<>>])

\* A body of bytes with an & is read as a folder name of IMAP.
Ambiguous(m) == m.body.unicode = Missing /\ Contains(m.body.ascii, "&")

\* A body of bytes is read as Latin-1: it is the text of the mail if it is ASCII
\* or Latin-1, and never if it is UTF-8 beyond ASCII.
AsLatin(t) == [k \in 1..Len(t) |-> IF t[k] \in {"u", "x"} THEN "w" ELSE t[k]]
BodyText(m) == IF m.body.unicode # Missing THEN m.body.unicode ELSE AsLatin(m.body.ascii)

\* The subject is that of the mail; the body is the text of the mail outside its
\* tags, read as Latin-1 if it is of bytes, then the name of every attachment,
\* each once.
TextKept ==
  msgOut # <<>> =>
    LET m == msg.mail f == msgOut[1] dirs == FileDirs(m) IN
    /\ ~Ambiguous(m) =>
         Solid(f.body) = Untagged(BodyText(m))
                         \o FlattenSeq([i \in 1..Len(dirs) |->
                                          Solid(FileName(m.attach[dirs[i]]))])
    /\ f.subject = IF Chosen(m.subject) = Missing THEN <<>> ELSE Chosen(m.subject)

\* The sender and the recipients are those the mail means.
AddressesKept ==
  msgOut # <<>> =>
    Says(msgOut[1].from, msg.from) /\ Says(msgOut[1].to, msg.to)

\* The streams that make one field of a mail.
Joined(m) ==
  {{m.subject}}
  \cup (IF FromHeader(m, "from") THEN {} ELSE {{m.name, m.email}})
  \cup (IF FromHeader(m, "to") THEN {} ELSE {{m.displayTo}})
  \cup (IF FromHeader(m, "cc") THEN {} ELSE {{m.displayCc}})
\* They make a string of Unicode beyond ASCII.
InUnicode(sts) ==
  /\ \E st \in sts : st.unicode # Missing
  /\ \E st \in sts : Chosen(st) # Missing /\ Contains(Chosen(st), "u")

\* A mail is refused for what the script cannot convert, and for nothing else: a
\* header that is none or has no date, a missing body, a subject or an address in
\* Unicode beyond ASCII or in bytes that are no UTF-8, a file name in bytes
\* beyond ASCII, a damaged text.
Refused(m) ==
  \/ m.header.broken \/ ~m.header.has \/ m.header.date # "good"
  \/ Chosen(m.body) \in {Missing, Damaged}
  \/ \E t \in Strings(m) \ {Missing} : t = Damaged \/ Contains(t, "x")
  \/ \E sts \in Joined(m) : InUnicode(sts)
  \/ \E d \in DOMAIN m.attach :
       LET a == m.attach[d] IN
       \/ Damaged \in {a.long.unicode, a.short.unicode}
       \/ ByteName(a) /\ Foreign(Bytes(FileName(a)))

RefusedForCause == ended => Refused(msg.mail) \/ Ambiguous(msg.mail)
NoneSavedRefused == msgOut # <<>> => ~Refused(msg.mail)

\* A mail gives its text and its addresses, or is refused for a cause of its own.
MsgConverted ==
  MsgTypeOK /\ TextKept /\ AddressesKept
  /\ RefusedForCause /\ NoneSavedRefused
=============================================================================
