-------------------------- MODULE MCImapResponses --------------------------
(* The server's side: every way it may write a few small values down.       *)
EXTENDS ImapResponses

MCEol == "\n"

Ones(n) == [k \in 1..n |-> "1"]

W(chars, v) == [chars |-> chars, val |-> v]

Literal(t) == <<"{">> \o Ones(Len(t) + 1) \o <<"}", EOL>> \o t

Plain(t) == t # <<>> /\ t # <<"N">> /\ t[1] # "{"
            /\ \A k \in 1..Len(t) : t[k] \notin White \cup Special \cup Digits \cup {"\\"}

\* A text is sent as an atom, quoted or as a literal.
Ways(t) ==
  (IF Contains(t, EOL) THEN {} ELSE {W(Quote(t), Text(t))})
  \cup {W(Literal(t), Text(t))}
  \cup (IF Plain(t) THEN {W(t, Text(t))} ELSE {})

Texts == {<<>>, <<"a">>, <<"\"">>, <<"\\", "a">>, <<"a", "\\">>, <<")">>,
          <<" ", "(">>, <<EOL, "a">>, <<"{", "1", "}">>, <<"1">>, <<"0", "1">>, <<"N">>}

Simple == (UNION {Ways(t) : t \in Texts})
          \cup {W(<<"N">>, Nil), W(<<"1", "1">>, Number(<<"1", "1">>)),
                W(<<"0", "1">>, Number(<<"1">>)), W(<<"0", "0">>, Number(<<"0">>)),
                W(<<"1", "0">>, Number(<<"1", "0">>)),
                W(<<"a", "[", " ", "(", "]">>, Text(<<"a", "[", " ", "(", "]">>))}

Few == {W(<<"1">>, Number(<<"1">>)), W(Quote(<<"\\">>), Text(<<"\\">>)),
        W(Literal(<<")", EOL>>), Text(<<")", EOL>>)), W(<<"(", ")">>, Tuple(<<>>))}

Par(x) == W(<<"(">> \o x.chars \o <<")">>, Tuple(<<x.val>>))
Par2(x, y) == W(<<"(">> \o x.chars \o <<" ">> \o y.chars \o <<")">>,
                Tuple(<<x.val, y.val>>))

Items == Simple \cup {Par(x) : x \in Simple}
         \cup {Par2(x, y) : x \in Simple, y \in Few}
         \cup {Par2(Par(x), y) : x \in Few, y \in Few}
         \cup {Par(Par(x)) : x \in Few}

Job(kind, chars, cut, means) ==
  [kind |-> kind, sent |-> Append(chars, EOL), cut |-> cut, means |-> means]

Msgs(f) == [ok |-> TRUE, msgs |-> f]

\* FETCH: a message that comes twice, by number and by UID; a body of parts.
A == <<"a">>
B == <<"B">>
S == <<"S">>
n1 == Number(<<"1">>)
n11 == Number(<<"1", "1">>)
Fetches == {
  Job("fetch", <<"1", " ", "(", "a", " ", "N", ")", "1", " ", "(", "b", " ", "1", ")">>,
      FALSE, Msgs(<<"1">> :> (S :> n1 @@ A :> Nil @@ <<"b">> :> n1))),
  Job("fetch", <<"1", " ", "(", "a", " ", "N", ")", "1", " ", "(", "a", " ", "1", ")">>,
      FALSE, Msgs(<<"1">> :> (S :> n1 @@ A :> n1))),
  Job("fetch", <<"1", " ", "(", "U", " ", "1", "1", " ", "a", " ", "{", "1", "1", "}",
                 EOL, ")", ")">>,
      TRUE, Msgs(<<"1", "1">> :> (S :> n1 @@ A :> Text(<<")">>)))),
  Job("fetch", <<"1", " ", "(", "B", " ", "(", "(", "a", ")", "(", "b", ")", "c", " ", "1", ")", ")">>,
      FALSE, Msgs(<<"1">> :> (S :> n1 @@ B :>
        Tuple(<<Parts(<<Tuple(<<Text(A)>>), Tuple(<<Text(<<"b">>)>>)>>),
                Text(<<"c">>), n1>>)))) }

Searches == {
  Job("search", <<"1", " ", "1", "1">>, FALSE,
      [ok |-> TRUE, ids |-> <<n1, n11>>, modseq |-> Nil]),
  Job("search", <<"1", " ", "(", "M", " ", "1", ")">>, FALSE,
      [ok |-> TRUE, ids |-> <<n1>>, modseq |-> n1]) }

\* LIST: the name as the client gave it when it made the folder.
NameChars == {"a", "&", "-", "x", "\\", "\"", " "}
Numerals == {<<"1">>, <<"0">>, <<"0", "1">>, <<"1", "0">>, <<"0", "0">>}
Names == UNION {[1..n -> NameChars] : n \in 1..2}
         \cup Numerals \cup {<<"N">>, <<"&", "-", "x">>, <<"x", "&", "x">>, <<"x", "a", "-">>}
Listed(name, chars, atom, cut) ==
  Job("list", <<"(", ")", " ">> \o Quote(<<"/">>) \o <<" ">> \o chars, cut,
      <<<<Tuple(<<>>), Text(<<"/">>), name>>>>) @@ [atom |-> atom]
Lists == {Listed(n, NormaliseFolder(n), FALSE, FALSE) : n \in Names}
         \cup {Listed(n, Literal(EncodeUtf7(n)), FALSE, TRUE) :
                 n \in {<<"x">>, <<"&">>, <<"0", "1">>}}
         \cup {Listed(n, EncodeUtf7(n), TRUE, FALSE) :
                 n \in Numerals \cup {<<"N">>, <<"a">>, <<"x">>, <<"&">>, <<"a", "1">>}}

Raws == {[kind |-> "raw", sent |-> t, cut |-> FALSE, means |-> [none |-> TRUE]] :
           t \in {<<"a", "b", EOL, "c", EOL, EOL, "d">>}}

MCJobs == {Job("items", x.chars, FALSE, [parsed |-> <<x.val>>]) : x \in Items}
          \cup {Job("items", x.chars, TRUE, [parsed |-> <<x.val>>]) : x \in Few}
          \cup Fetches \cup Searches \cup Lists \cup Raws

MCChar == UNION {ToSet(j.sent) : j \in MCJobs}

MCRawOps == {LineOp, UpTo(2), UpTo(3), SizeOp(2), AllOp}
=============================================================================
