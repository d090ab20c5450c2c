----------------------------- MODULE MCMailText -----------------------------
(* One document, given to the script for its format.                        *)
EXTENDS Rtf2Txt, EmlParser, MsgParser

VARIABLE script

vars == <<rtfVars, emlVars, msgVars, script>>

-----------------------------------------------------------------------------
(* RTF *)
Tok(t) == [t |-> t, given |-> FALSE, arg |-> 0]
Num(t, n) == [t |-> t, given |-> TRUE, arg |-> n]
MCTokens == {Tok("open"), Tok("close"), Tok("star"), Tok("char"), Tok("eol"),
             Tok("raw"), Tok("u"), Tok("word"), Num("u", -65536), Num("u", -65537),
             Num("u", MaxChar + 1), Num("uc", -1), Num("uc", 0), Num("uc", 2)}

MCCharacters == {"a", "b", "c", "d", "e", "f", "g", "h", "i", "k", "l", "m", "n",
                 "o", "p", "r", "s", "u", "x", " ", ",", "<", ">", "&", "-", "\n"}

(* Address lists, as mail programs write them. *)
Entry(name, mail, alone) == [name |-> name, mail |-> mail, alone |-> alone]
Anna == Entry(<<"a", " ", "b">>, <<"m">>, FALSE)
Bare == Entry(<<>>, <<"n">>, TRUE)
Angle == Entry(<<>>, <<"p">>, FALSE)
Strange == Entry(<<"x", "c">>, <<"o">>, FALSE)
Latinist == Entry(<<"u">>, <<"c">>, FALSE)

(* MIME *)
Leaf(name, type, ctname, data) ==
  [name |-> name, type |-> type, ctname |-> ctname, data |-> data]
Inline(type, data) == Leaf(NoName, type, NoName, data)
OfUnicode(s) == [uni |-> TRUE, s |-> s]
MCLeaves == {Inline("plain", <<"a", "<", ">", "b", "\n">>),
             Inline("plain", <<"x", "<", "c">>),
             Inline("html", <<"<", "x", "<", ">", " ", "d">>),
             Inline("html", <<"e", ">", "f">>),
             Inline("html", <<"<", "u", ">", "u">>),
             Leaf(Bytes(<<"g", "h">>), "plain", NoName, <<"i">>),
             Leaf(OfUnicode(<<"g">>), "other", NoName, <<"l">>),
             Leaf(OfUnicode(<<"h", "u">>), "html", NoName, <<"l">>),
             Leaf(NoName, "other", <<"k">>, <<"l">>),
             Leaf(NoName, "other", <<"k", "u">>, <<"l">>),
             Inline("other", <<"n">>)}
Trees == {{<<>>}, {<<1>>, <<2>>}, {<<1, 1>>, <<1, 2>>, <<2>>}, {<<1>>, <<2, 1, 1>>}}

Eml(part, date, from, to, cc, subject, broken, dot, ascii, fs) ==
  [mail |-> [part |-> part, date |-> date, from |-> <<" ">> \o List(from, <<>>) \o <<"\n">>,
             to |-> List(to, <<",">>), cc |-> List(cc, <<",", " ">>),
             subject |-> subject, broken |-> broken,
             dot |-> dot, ascii |-> ascii, fs |-> fs],
   from |-> from, to |-> to \o cc]

OneLeaf == [{<<>>} -> MCLeaves]
MCMails ==
  {Eml(part, "good", <<Anna>>, <<Bare, Anna>>, <<Anna>>, <<<<"s">>>>, FALSE, TRUE, TRUE, "utf8") :
     part \in UNION {[t -> MCLeaves] : t \in Trees}}
  \cup {Eml(part, date, from, to, cc, subject, FALSE, dot, TRUE, "ascii") :
          part \in OneLeaf, date \in {"none", "good", "bad"},
          from \in {<<Angle>>, <<Strange>>}, to \in {<<>>, <<Anna>>, <<Bare, Anna, Angle>>},
          cc \in {<<>>, <<Bare, Bare>>}, dot \in BOOLEAN,
          subject \in {<<>>, <<<<"s">>, <<"x">>>>, <<<<"x">>, <<"s">>>>}}
  \cup {Eml(part, "good", <<Angle>>, <<Latinist>>, <<>>, <<<<"u">>>>, broken, TRUE, ascii, fs) :
          part \in [{<<1>>, <<2>>} -> MCLeaves], broken \in BOOLEAN, ascii \in BOOLEAN,
          fs \in {"ascii", "utf8"}}

(* Outlook *)
MCMissing == <<"missing">>
MCDamaged == <<"damaged">>
Str(a, u) == [ascii |-> a, unicode |-> u]
NoStr == Str(MCMissing, MCMissing)
Ascii(a) == Str(a, MCMissing)
Uni(u) == Str(MCMissing, u)

HeadOf(has, broken, from, to, cc, date) ==
  [has |-> has, broken |-> broken, from |-> from, to |-> to, cc |-> cc, date |-> date]
NoHead == HeadOf(FALSE, FALSE, MCMissing, MCMissing, MCMissing, "none")

Outlook(head, name, displayTo, displayCc, subject, body, dirs, attach) ==
  [header |-> head, name |-> name, email |-> Uni(<<"m">>),
   displayTo |-> displayTo, displayCc |-> displayCc, subject |-> subject,
   body |-> body, dirs |-> dirs, attach |-> attach]

Msg(head, from, to, cc, displayTo, displayCc, subject, body, dirs, attach) ==
  [mail |-> Outlook([head EXCEPT !.from = IF from = <<>> THEN MCMissing ELSE List(from, <<>>),
                                 !.to = IF to = <<>> THEN MCMissing ELSE List(to, <<",">>),
                                 !.cc = IF cc = <<>> THEN MCMissing ELSE List(cc, <<",">>)],
                    Ascii(<<"a", " ", "b">>),
                    Uni(List(displayTo, <<",">>)), Ascii(List(displayCc, <<",">>)),
                    subject, body, dirs, attach),
   from |-> IF head.has /\ from # <<>> THEN from ELSE <<Anna>>,
   to |-> (IF head.has /\ to # <<>> THEN to ELSE displayTo)
          \o (IF head.has /\ cc # <<>> THEN cc ELSE displayCc)]

Good == HeadOf(TRUE, FALSE, <<>>, <<>>, <<>>, "good")
Files(a1, a2) == [d \in {"d1", "d2"} |-> IF d = "d1" THEN a1 ELSE a2]
TwoNames(long, short) == [long |-> long, short |-> short]

(* A mail whose sender is in streams of its own, of bytes or of Unicode. *)
Sent(name, to) ==
  [mail |-> Outlook(HeadOf(TRUE, FALSE, MCMissing, MCMissing, MCMissing, "good"), name, Uni(List(to, <<",">>)), Ascii(List(to, <<",">>)),
                    Ascii(<<"u">>), Ascii(<<"u">>), <<"d0">>, <<>>),
   from |-> <<Entry(Chosen(name), <<"m">>, FALSE)>>, to |-> to \o to]

MCBodies == {NoStr, Ascii(<<"a", "<", "b", ">", "c">>), Uni(<<"u", "\n", "b">>),
             Ascii(<<"u", "<", "x", ">", "x">>),
             Str(<<"a">>, <<"b">>), Ascii(<<"a", "&", "-", "&", "b", "-", "c">>),
             Str(<<"a">>, MCDamaged)}
MCNames == {TwoNames(Ascii(<<"l">>), Ascii(<<"s">>)), TwoNames(NoStr, Uni(<<"u">>)),
            TwoNames(Uni(MCDamaged), Ascii(<<"s">>)), TwoNames(NoStr, NoStr),
            TwoNames(Str(<<"x">>, <<"l">>), NoStr), TwoNames(Ascii(<<"x">>), NoStr),
            TwoNames(Ascii(<<"u">>), NoStr)}

MCMessages ==
  {Msg(head, <<>>, <<Bare>>, <<>>, <<Anna>>, <<Bare>>, subject, body, <<"d0">>, <<>>) :
     head \in {Good, NoHead, [Good EXCEPT !.date = "bad"], [Good EXCEPT !.date = "none"],
               [NoHead EXCEPT !.broken = TRUE]},
     subject \in {NoStr, Ascii(<<"s">>), Ascii(<<"u">>), Ascii(<<"x">>), Uni(<<"u">>),
                  Str(<<"x">>, <<"s">>)},
     body \in MCBodies}
  \cup {Msg(Good, from, to, cc, <<Anna, Bare>>, <<Bare>>, Ascii(<<"s">>), Uni(<<"b">>),
            <<"d1", "d1", "d0">>, [d \in {"d1"} |-> TwoNames(Ascii(<<"l">>), NoStr)]) :
          from \in {<<>>, <<Bare>>, <<Strange>>, <<Latinist>>},
          to \in {<<>>, <<Angle, Anna>>, <<Strange>>},
          cc \in {<<>>, <<Anna>>, <<Bare, Bare>>}}
  \cup {Sent(name, to) : name \in {Ascii(<<"a">>), Ascii(<<"u">>), Uni(<<"u">>)},
                         to \in {<<>>, <<Bare>>, <<Latinist>>}}
  \cup {Msg(Good, <<Anna>>, <<Bare>>, <<>>, <<>>, <<>>, Ascii(<<"s">>), Ascii(<<"b">>),
            <<"d1", "d0", "d2", "d1">>, Files(a1, a2)) : a1 \in MCNames, a2 \in MCNames}

-----------------------------------------------------------------------------
NoMail == CHOOSE m \in MCMails : TRUE
NoMessage == CHOOSE m \in MCMessages : TRUE

RtfIdle == RtfInit
EmlIdle == eml = NoMail /\ emlOut = <<>> /\ emlFailed = FALSE
MsgIdle == /\ msg = NoMessage /\ cache = <<>> /\ got = [prop |-> "none", val |-> None]
           /\ msgOut = <<>> /\ ended = FALSE

Init == \/ script = "rtf2txt" /\ RtfInit /\ EmlIdle /\ MsgIdle
        \/ script = "eml_parser" /\ RtfIdle /\ EmlInit /\ MsgIdle
        \/ script = "msg_parser" /\ RtfIdle /\ EmlIdle /\ MsgInit

Next == \/ script = "rtf2txt" /\ NextToken /\ UNCHANGED <<emlVars, msgVars, script>>
        \/ script = "eml_parser" /\ Extract /\ UNCHANGED <<rtfVars, msgVars, script>>
        \/ script = "msg_parser" /\ MsgNext /\ UNCHANGED <<rtfVars, emlVars, script>>

Spec == Init /\ [][Next]_vars
=============================================================================
