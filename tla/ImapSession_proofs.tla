------------------------ MODULE ImapSession_proofs ------------------------
(***************************************************************************)
(* For any clients, commands, updates and timeouts:                        *)
(*  - a literal is sent on the invitation for it, unless a call that       *)
(*    waited for one had failed (OnlyInvited, from IInv);                  *)
(*  - a search or fetch returns the server's answer to itself, a fetch     *)
(*    the message as it was then (AnswersOwn, FetchesFresh, from Order,    *)
(*    Matching and Answered);                                              *)
(*  - the capabilities reported are those of the session or the ones told  *)
(*    with the answer to STARTTLS (CapsOfSession, from CapsKnown);         *)
(*  - idling loses nothing the server told (IdleLosesNothing, from Once,   *)
(*    NotYet, Invite, Listens, Hears and Heeds);                           *)
(*  - for any configurations, certificates and tokens, secrets are sent    *)
(*    over no weaker channel than the configuration asks for, and a client *)
(*    that is not handed out leaves no connection behind but, of an ssl    *)
(*    one, the socket of a broken connection (Confidential and             *)
(*    NothingLeftOpen, from ConnInv).                                      *)
(* Lines and requests are values of any kind: only their order counts, and *)
(* of a line its kind, type, tag and value.                                *)
(***************************************************************************)
EXTENDS ImapSession, SequenceTheorems, WellFoundedInduction, TLAPS

IsSeq(s) == \E S : s \in Seq(S)

Cont(k) == k \in 1..Len(wire) /\ wire[k].kind = "continuation"
Asks(k) == k \in 1..Len(reqs) /\ reqs[k].op \in {"idle", "text"}
Waits == call.mode \in {"idle", "invite"}

\* Of one call at a time there is a request or an invitation on its way, never
\* both, and the call waits for it.
OneInvitation ==
  /\ \A k \in Nat : Cont(k) =>
       /\ Waits /\ wire[k].tag = call.tag
       /\ \A j \in Nat : Cont(j) => j = k
       /\ \A j \in Nat : ~Asks(j)
  /\ \A k \in Nat : Asks(k) =>
       /\ Waits /\ reqs[k].tag = call.tag
       /\ \A j \in Nat : Asks(j) => j = k

IInv ==
  /\ IsSeq(wire) /\ IsSeq(reqs)
  /\ ~forsaken => OneInvitation /\ ~uninvited

-----------------------------------------------------------------------------
(* Sequences, whatever is in them.                                         *)

\* A sequence with one more at its end.
LEMMA AppendIs ==
  ASSUME NEW s, NEW x, IsSeq(s)
  PROVE  /\ IsSeq(Append(s, x))
         /\ Len(Append(s, x)) = Len(s) + 1 /\ Len(s) \in Nat
         /\ Append(s, x)[Len(s) + 1] = x
         /\ \A k \in 1..Len(s) : Append(s, x)[k] = s[k]
<1>1. PICK S : s \in Seq(S)
  BY DEF IsSeq
<1>2. s \in Seq(S \cup {x}) /\ x \in S \cup {x}
  BY <1>1
<1>3. Append(s, x) \in Seq(S \cup {x})
  BY <1>2
<1> QED BY <1>2, <1>3 DEF IsSeq

\* A sequence without its first.
LEMMA TailIs ==
  ASSUME NEW s, IsSeq(s), s # <<>>
  PROVE  /\ IsSeq(Tail(s)) /\ Head(s) = s[1]
         /\ Len(s) \in Nat \ {0} /\ Len(Tail(s)) = Len(s) - 1
         /\ \A k \in 1..(Len(s) - 1) : Tail(s)[k] = s[k + 1]
<1>1. PICK S : s \in Seq(S)
  BY DEF IsSeq
<1>2. Tail(s) \in Seq(S)
  BY <1>1
<1> QED BY <1>1, <1>2 DEF IsSeq

\* One sequence after the other.
LEMMA ConcatIs ==
  ASSUME NEW s, NEW t, IsSeq(s), IsSeq(t)
  PROVE  /\ IsSeq(s \o t) /\ Len(s) \in Nat /\ Len(t) \in Nat
         /\ Len(s \o t) = Len(s) + Len(t)
         /\ \A k \in 1..Len(s) : (s \o t)[k] = s[k]
         /\ \A k \in 1..Len(t) : (s \o t)[Len(s) + k] = t[k]
<1>1. PICK S : s \in Seq(S)
  BY DEF IsSeq
<1>2. PICK T : t \in Seq(T)
  BY DEF IsSeq
<1>3. s \in Seq(S \cup T) /\ t \in Seq(S \cup T)
  BY <1>1, <1>2
<1>4. s \o t \in Seq(S \cup T)
  BY <1>3
<1> QED BY <1>3, <1>4 DEF IsSeq

\* A sequence without its first n.
LEMMA RestIs ==
  ASSUME NEW s, NEW n \in 1..Len(s), IsSeq(s)
  PROVE  LET r == SubSeq(s, n + 1, Len(s)) IN
         /\ IsSeq(r) /\ Len(s) \in Nat /\ Len(r) = Len(s) - n
         /\ \A k \in 1..Len(r) : r[k] = s[n + k]
<1>1. PICK S : s \in Seq(S)
  BY DEF IsSeq
<1>2. SubSeq(s, n + 1, Len(s)) \in Seq(S)
  BY <1>1
<1> QED BY <1>1, <1>2 DEF IsSeq

\* The sequences of none and of one.
LEMMA ShortIs ==
  ASSUME NEW x
  PROVE  IsSeq(<<>>) /\ Len(<<>>) = 0 /\ IsSeq(<<x>>) /\ Len(<<x>>) = 1 /\ <<x>>[1] = x
<1>1. <<>> \in Seq({x}) /\ <<x>> \in Seq({x})
  OBVIOUS
<1> QED BY <1>1 DEF IsSeq

-----------------------------------------------------------------------------
(* Recursive functions on the numbers up to a length, and the lines of     *)
(* some types.                                                             *)

\* A set of numbers that holds 0 and the successor of each of its members.
LEMMA Induct ==
  ASSUME NEW P, 0 \in P, \A n \in Nat : n \in P => n + 1 \in P
  PROVE  Nat \subseteq P
<1> SUFFICES ASSUME NEW m \in Nat, m \notin P PROVE FALSE
  OBVIOUS
<1> DEFINE S == Nat \ P
           R == OpToRel(<, Nat)
<1>1. PICK x \in S : \A y \in S : <<y, x>> \notin R
  <2>1. IsWellFoundedOn(R, Nat)
    BY NatLessThanWellFounded
  <2>2. S \subseteq Nat /\ m \in S
    OBVIOUS
  <2> HIDE DEF R, S
  <2> QED BY <2>1, <2>2, WFMin, Zenon
<1>2. \A y \in S : ~ (y < x)
  BY <1>1, Zenon DEF OpToRel
<1>3. x \in Nat /\ x # 0 /\ x - 1 \in Nat
  OBVIOUS
<1>4. x - 1 \in P
  BY <1>2, <1>3
<1> QED BY <1>3, <1>4

\* f starts with z and goes on with what G puts on top.
Recurs(f, N, z, G) == f[0] = z /\ \A k \in 1..N : f[k] = G[k][f[k - 1]]

\* A recursive function on 0..N is there: what is put on top of its value at
\* k - 1 is its value at k.
LEMMA RecursionExists ==
  ASSUME NEW N \in Nat, NEW V, NEW z \in V, NEW G \in [1..N -> [V -> V]]
  PROVE  \E f \in [0..N -> V] : Recurs(f, N, z, G)
<1> DEFINE F(n) == {f \in [0..n -> V] :
                      \A k \in 0..n : f[k] = IF k = 0 THEN z ELSE G[k][f[k - 1]]}
           P == {n \in Nat : n <= N => F(n) # {}}
<1>1. 0 \in P
  <2> DEFINE f == [k \in 0..0 |-> z]
  <2>1. f \in F(0)
    OBVIOUS
  <2> QED BY <2>1
<1>2. ASSUME NEW n \in Nat, n \in P, n + 1 <= N
      PROVE  F(n + 1) # {}
  <2>1. PICK f \in [0..n -> V] :
               \A k \in 0..n : f[k] = IF k = 0 THEN z ELSE G[k][f[k - 1]]
    BY <1>2
  <2> DEFINE g == [k \in 0..(n + 1) |-> IF k <= n THEN f[k] ELSE G[n + 1][f[n]]]
  <2>2. n + 1 \in 1..N /\ f[n] \in V /\ G[n + 1] \in [V -> V]
    BY <1>2
  <2>3. g \in [0..(n + 1) -> V]
    BY <2>2
  <2>4. ASSUME NEW k \in 0..(n + 1)
        PROVE  g[k] = IF k = 0 THEN z ELSE G[k][g[k - 1]]
    <3>1. CASE k = 0
      BY <2>1, <3>1
    <3>2. CASE k \in 1..n
      <4>1. k - 1 \in 0..(n + 1) /\ k - 1 <= n /\ k \in 0..n
        BY <3>2
      <4>2. g[k] = f[k] /\ g[k - 1] = f[k - 1]
        BY <3>2, <4>1
      <4>3. f[k] = G[k][f[k - 1]]
        BY <2>1, <3>2, <4>1
      <4> QED BY <3>2, <4>2, <4>3
    <3>3. CASE k = n + 1
      BY <3>3
    <3> QED BY <3>1, <3>2, <3>3
  <2> HIDE DEF g
  <2>5. g \in F(n + 1)
    BY <2>3, <2>4
  <2> QED BY <2>5
<1>3. N \in P
  <2>1. \A n \in Nat : n \in P => n + 1 \in P
    BY <1>2, SMTT(60)
  <2> HIDE DEF P
  <2> QED BY <1>1, <2>1, Induct
<1>4. PICK f \in [0..N -> V] :
             \A k \in 0..N : f[k] = IF k = 0 THEN z ELSE G[k][f[k - 1]]
  BY <1>3
<1>5. 0 \in 0..N /\ \A k \in 1..N : k # 0 /\ k \in 0..N
  OBVIOUS
<1> QED BY <1>4, <1>5 DEF Recurs

\* Kept is what a function of the number of lines looked at ends with.
LEMMA KeptRec ==
  ASSUME NEW S, NEW lines \in Seq(S), NEW types
  PROVE  \E of : /\ of[0] = <<>>
                 /\ \A k \in 1..Len(lines) :
                      of[k] = IF lines[k].typ \in types
                              THEN Append(of[k - 1], lines[k]) ELSE of[k - 1]
                 /\ Kept(lines, types) = of[Len(lines)]
<1> DEFINE N == Len(lines)
           V == Seq(S)
           G == [k \in 1..N |-> [s \in V |-> IF lines[k].typ \in types
                                             THEN Append(s, lines[k]) ELSE s]]
           step(f) == [k \in 0..N |->
                         IF k = 0 THEN <<>>
                         ELSE IF lines[k].typ \in types
                         THEN Append(f[k - 1], lines[k])
                         ELSE f[k - 1]]
           Of == CHOOSE f : f = step(f)
<1>1. N \in Nat /\ <<>> \in V /\ \A k \in 1..N : lines[k] \in S
  OBVIOUS
<1>2. G \in [1..N -> [V -> V]]
  BY <1>1
<1>3. \A k \in 1..N, s \in V :
        G[k][s] = IF lines[k].typ \in types THEN Append(s, lines[k]) ELSE s
  OBVIOUS
<1>4. Kept(lines, types) = Of[N]
  BY DEF Kept
<1> HIDE DEF N, V, G
<1>5. PICK f \in [0..N -> V] :
        /\ f[0] = <<>>
        /\ \A k \in 1..N : f[k] = G[k][f[k - 1]] /\ f[k - 1] \in V
  <2> DEFINE z == <<>>
  <2>1. z \in V
    BY <1>1
  <2> HIDE DEF z
  <2>2. PICK f \in [0..N -> V] : Recurs(f, N, z, G)
    BY <1>1, <1>2, <2>1, RecursionExists
  <2>3. \A k \in 1..N : k - 1 \in 0..N
    BY <1>1
  <2>4. f[0] = z /\ \A k \in 1..N : f[k] = G[k][f[k - 1]] /\ f[k - 1] \in V
    BY <2>2, <2>3 DEF Recurs
  <2> QED BY <2>4 DEF z
<1>6. f = step(f)
  <2>1. ASSUME NEW k \in 0..N
        PROVE  f[k] = step(f)[k]
    <3>1. CASE k = 0
      BY <1>5, <3>1
    <3>2. CASE k # 0
      <4>1. k \in 1..N
        BY <1>1, <3>2
      <4>2. f[k - 1] \in V /\ f[k] = G[k][f[k - 1]]
        BY <1>5, <4>1
      <4> QED BY <1>3, <3>2, <4>1, <4>2
    <3> QED BY <3>1, <3>2
  <2>2. step(f) = [k \in 0..N |-> step(f)[k]]
    OBVIOUS
  <2>3. f = [k \in 0..N |-> f[k]]
    BY <1>5
  <2> HIDE DEF step
  <2> QED BY <2>1, <2>2, <2>3
<1>7. Of = step(Of)
  <2> HIDE DEF step
  <2> QED BY <1>6
<1> HIDE DEF Of
<1>8. Of[0] = <<>> /\ \A k \in 1..N : Of[k] = IF lines[k].typ \in types
                                 THEN Append(Of[k - 1], lines[k]) ELSE Of[k - 1]
  <2>1. ASSUME NEW k \in 0..N PROVE Of[k] = step(Of)[k]
    BY <1>7
  <2>2. 0 \in 0..N /\ \A k \in 1..N : k \in 0..N /\ k # 0
    BY <1>1
  <2> QED BY <2>1, <2>2
<1> QED BY <1>4, <1>8 DEF N

\* The lines Kept keeps are lines, of the types it keeps; the last line is the
\* last one it keeps, if it is of such a type.
LEMMA KeptIs ==
  ASSUME NEW lines, IsSeq(lines), NEW types
  PROVE  LET kept == Kept(lines, types) IN
         /\ IsSeq(kept) /\ Len(kept) \in Nat /\ Len(lines) \in Nat
         /\ \A j \in 1..Len(kept) : \E k \in 1..Len(lines) :
              kept[j] = lines[k] /\ lines[k].typ \in types
         /\ lines # <<>> /\ lines[Len(lines)].typ \in types =>
              kept # <<>> /\ kept[Len(kept)] = lines[Len(lines)]
<1>1. PICK S : lines \in Seq(S)
  BY DEF IsSeq
<1> DEFINE N == Len(lines)
<1>2. N \in Nat /\ \A k \in 1..N : lines[k] \in S
  BY <1>1
<1>3. PICK of : /\ of[0] = <<>>
                /\ \A k \in 1..N :
                     of[k] = IF lines[k].typ \in types
                             THEN Append(of[k - 1], lines[k]) ELSE of[k - 1]
                /\ Kept(lines, types) = of[N]
  BY <1>1, KeptRec
<1> DEFINE Good(s) == /\ s \in Seq(S)
                      /\ \A j \in 1..Len(s) : \E k \in 1..N :
                           s[j] = lines[k] /\ lines[k].typ \in types
           P == {n \in Nat : n <= N => Good(of[n])}
<1>4. \A n \in 0..N : Good(of[n])
  <2>1. 0 \in P
    <3>1. <<>> \in Seq(S) /\ 1..Len(<<>>) = {}
      OBVIOUS
    <3>2. Good(<<>>)
      BY <3>1
    <3> HIDE DEF Good, N
    <3> QED BY <1>3, <3>2
  <2>2. ASSUME NEW n \in Nat, n \in P
        PROVE  n + 1 \in P
    <3> SUFFICES ASSUME n + 1 <= N PROVE Good(of[n + 1])
      <4> HIDE DEF Good, N
      <4> QED OBVIOUS
    <3> DEFINE s == of[n]
               x == lines[n + 1]
    <3>0. Good(s)
      <4> HIDE DEF Good
      <4> QED BY <1>2, <2>2
    <3>1. n + 1 \in 1..N /\ x \in S /\ (n + 1) - 1 = n
      BY <1>2
    <3>2. of[n + 1] = IF x.typ \in types THEN Append(s, x) ELSE s
      BY <1>3, <3>1
    <3> HIDE DEF s, x, N
    <3>3. CASE x.typ \in types
      <4>1. Append(s, x) \in Seq(S) /\ Len(Append(s, x)) = Len(s) + 1 /\ Len(s) \in Nat
        BY <3>0, <3>1
      <4>2. ASSUME NEW j \in 1..Len(Append(s, x))
            PROVE  \E k \in 1..N : Append(s, x)[j] = lines[k] /\ lines[k].typ \in types
        <5>1. CASE j \in 1..Len(s)
          <6>1. Append(s, x)[j] = s[j]
            BY <3>0, <3>1, <5>1
          <6> QED BY <3>0, <5>1, <6>1
        <5>2. CASE j = Len(s) + 1
          <6>1. Append(s, x)[j] = lines[n + 1]
            BY <3>0, <3>1, <5>2 DEF x
          <6> QED BY <3>1, <3>3, <6>1 DEF x
        <5> QED BY <4>1, <5>1, <5>2
      <4> QED BY <3>2, <3>3, <4>1, <4>2
    <3>4. CASE x.typ \notin types
      BY <3>0, <3>2, <3>4
    <3> QED BY <3>3, <3>4
  <2> HIDE DEF P
  <2>3. Nat \subseteq P
    BY <2>1, <2>2, Induct
  <2>4. \A n \in 0..N : n \in P
    BY <1>2, <2>3
  <2> QED BY <1>2, <2>4 DEF P
<1>5. Good(of[N]) /\ (N # 0 => Good(of[N - 1]))
  <2>1. N \in 0..N /\ (N # 0 => N - 1 \in 0..N)
    BY <1>2
  <2> HIDE DEF Good, N
  <2> QED BY <1>4, <2>1
<1>6. ASSUME lines # <<>>, lines[N].typ \in types
      PROVE  of[N] # <<>> /\ of[N][Len(of[N])] = lines[N]
  <2>1. N \in 1..N /\ N # 0
    BY <1>1, <1>6
  <2>2. of[N] = Append(of[N - 1], lines[N])
    BY <1>3, <1>6, <2>1
  <2>3. of[N - 1] \in Seq(S) /\ lines[N] \in S
    BY <1>2, <1>5, <2>1
  <2> HIDE DEF N
  <2> QED BY <2>2, <2>3
<1>7. IsSeq(of[N])
  BY <1>5 DEF IsSeq
<1>8. Len(of[N]) \in Nat
  BY <1>5
<1> QED BY <1>2, <1>3, <1>5, <1>6, <1>7, <1>8

-----------------------------------------------------------------------------
(* The steps.                                                              *)

\* A client that waits for nothing has nothing on its way.
LEMMA Quiet ==
  ASSUME IInv, ~forsaken, ~Waits
  PROVE  ~uninvited /\ \A k \in Nat : ~Cont(k) /\ ~Asks(k)
BY DEF IInv, OneInvitation

\* A command, idle or idle_done that is sent while no call is under way.
LEMMA SentInv ==
  ASSUME IInv, call = NoCall, NEW r, reqs' = Append(reqs, r),
         call'.tag = r.tag, r.op \in {"idle", "text"} => Waits',
         UNCHANGED <<wire, forsaken, uninvited>>
  PROVE  IInv'
<1>1. IsSeq(reqs') /\ IsSeq(wire')
  BY AppendIs DEF IInv
<1>2. ASSUME ~forsaken
      PROVE  OneInvitation' /\ ~uninvited'
  <2>1. ~uninvited /\ \A k \in Nat : ~Cont(k) /\ ~Asks(k)
    BY <1>2, Quiet DEF NoCall, Waits
  <2>2. \A k \in Nat : ~Cont(k)'
    BY <2>1 DEF Cont
  <2>3. \A k \in Nat : Asks(k)' => /\ k = Len(reqs) + 1 /\ reqs'[k] = r
                                  /\ r.op \in {"idle", "text"}
    BY <2>1, AppendIs DEF IInv, Asks
  <2> QED BY <2>1, <2>2, <2>3 DEF OneInvitation
<1> QED BY <1>1, <1>2 DEF IInv

\* A command is sent.
LEMMA CommandInv == ASSUME IInv, NEW o \in Kinds, Command(o) PROVE IInv'
<1> DEFINE r == [op |-> o, tag |-> tag + 1]
<1>1. /\ call = NoCall /\ reqs' = Append(reqs, r)
      /\ call' = [op |-> o, tag |-> tag + 1, mode |-> Modes[o], got |-> <<>>]
      /\ UNCHANGED <<wire, forsaken, uninvited>>
  BY DEF Command, CanCall, Issue
<1>2. call'.tag = r.tag
  BY <1>1
<1>3. r.op \in {"idle", "text"} => Waits'
  BY <1>1 DEF Kinds, Modes, Waits
<1> QED BY <1>1, <1>2, <1>3, SentInv

\* idle() is sent.
LEMMA IdleInv == ASSUME IInv, Idle PROVE IInv'
<1> DEFINE r == [op |-> "idle", tag |-> tag + 1]
<1>1. /\ call = NoCall /\ reqs' = Append(reqs, r)
      /\ call' = [op |-> "idle", tag |-> tag + 1, mode |-> Modes["idle"], got |-> <<>>]
      /\ UNCHANGED <<wire, forsaken, uninvited>>
  BY DEF Idle, CanCall, Issue
<1>2. call'.tag = r.tag /\ Waits'
  BY <1>1 DEF Modes, Waits
<1> QED BY <1>1, <1>2, SentInv

\* DONE asks for no invitation.
LEMMA IdleDoneInv == ASSUME IInv, IdleDone PROVE IInv'
<1> DEFINE r == [op |-> "done", tag |-> idleTag]
<1>1. /\ call = NoCall /\ reqs' = Append(reqs, r) /\ call'.tag = r.tag
      /\ UNCHANGED <<wire, forsaken, uninvited>>
  BY DEF IdleDone
<1>2. r.op \notin {"idle", "text"}
  OBVIOUS
<1> QED BY <1>1, <1>2, SentInv

\* A line is taken off the wire, and nothing is asked.
LEMMA LineReadInv ==
  ASSUME IInv, wire # <<>>, wire' = Tail(wire),
         ~forsaken' => /\ ~forsaken /\ (uninvited' => uninvited)
                       /\ \/ UNCHANGED call
                          \/ ~Waits \/ Cont(1),
         \/ UNCHANGED reqs
         \/ \E x : reqs' = Append(reqs, x) /\ x.op = "literal"
  PROVE  IInv'
<1>1. /\ IsSeq(wire') /\ Len(wire) \in Nat \ {0} /\ Len(wire') = Len(wire) - 1
      /\ \A k \in 1..(Len(wire) - 1) : wire'[k] = wire[k + 1]
  BY TailIs DEF IInv
<1>2. IsSeq(reqs') /\ \A k \in Nat : Asks(k)' => Asks(k) /\ reqs'[k] = reqs[k]
  <2>1. CASE UNCHANGED reqs
    BY <2>1 DEF IInv, Asks
  <2>2. CASE \E x : reqs' = Append(reqs, x) /\ x.op = "literal"
    BY <2>2, AppendIs DEF IInv, Asks
  <2> QED BY <2>1, <2>2
<1>3. \A k \in Nat : Cont(k)' => /\ k + 1 \in Nat /\ k + 1 # 1
                                /\ Cont(k + 1) /\ wire'[k] = wire[k + 1]
  BY <1>1 DEF Cont
<1>4. ASSUME ~forsaken'
      PROVE  OneInvitation' /\ ~uninvited'
  <2>1. ~forsaken /\ ~uninvited' /\ OneInvitation
    BY <1>4 DEF IInv
  <2>2. CASE UNCHANGED call
    <3>1. ASSUME NEW k \in Nat, Cont(k)'
          PROVE  /\ Waits /\ wire'[k].tag = call.tag
                 /\ \A j \in Nat : Cont(j)' => j = k
                 /\ \A j \in Nat : ~Asks(j)'
      <4>1. k + 1 \in Nat /\ Cont(k + 1) /\ wire'[k] = wire[k + 1]
        BY <1>3, <3>1
      <4>2. /\ Waits /\ wire[k + 1].tag = call.tag
            /\ \A j \in Nat : Cont(j) => j = k + 1
            /\ \A j \in Nat : ~Asks(j)
        BY <2>1, <4>1 DEF OneInvitation
      <4>3. \A j \in Nat : Cont(j)' => j = k
        BY <1>3, <4>2
      <4> QED BY <4>1, <4>2, <4>3, <1>2
    <3>2. ASSUME NEW k \in Nat, Asks(k)'
          PROVE  /\ Waits /\ reqs'[k].tag = call.tag
                 /\ \A j \in Nat : Asks(j)' => j = k
      BY <2>1, <3>2, <1>2 DEF OneInvitation
    <3> QED BY <2>1, <2>2, <3>1, <3>2 DEF OneInvitation, Waits
  <2>3. CASE ~Waits \/ Cont(1)
    <3>1. \A k \in Nat : (Cont(k) => k = 1) /\ ~Asks(k)
      BY <2>1, <2>3 DEF OneInvitation
    <3> QED BY <2>1, <3>1, <1>2, <1>3 DEF OneInvitation
  <2> QED BY <1>4, <2>2, <2>3
<1> QED BY <1>1, <1>2, <1>4 DEF IInv

\* The client reads a line.
LEMMA ReadInv == ASSUME IInv, Read PROVE IInv'
<1> DEFINE l == Head(wire)
<1>1. /\ wire # <<>> /\ wire' = Tail(wire)
      /\ forsaken' = (forsaken \/ Forsakes)
      /\ ReadComplete(l) \/ ReadInvite(l) \/ ReadConsume(l) \/ ReadIdle(l)
  BY DEF Read
<1>2. /\ l.kind = "continuation" => Cont(1)
      /\ l = wire[1]
  BY <1>1, TailIs DEF IInv, Cont
<1>3. Fails => call' = NoCall /\ ~result'.ok
  BY DEF Fails, Ends
<1>4. CASE ReadComplete(l) \/ ReadConsume(l)
  <2>1. ~Waits /\ UNCHANGED <<reqs, uninvited>>
    BY <1>4 DEF ReadComplete, ReadConsume, Waits
  <2> QED BY <2>1, <1>1, LineReadInv
<1>5. CASE ReadIdle(l)
  <2>1. /\ call.mode = "idle" /\ UNCHANGED <<reqs, uninvited>>
        /\ l.kind = "continuation" \/ Fails
    BY <1>5 DEF ReadIdle
  <2>2. Cont(1) \/ forsaken'
    BY <2>1, <1>1, <1>2, <1>3 DEF Forsakes
  <2> QED BY <2>1, <2>2, <1>1, LineReadInv
<1>6. CASE ReadInvite(l)
  <2>1. call.mode = "invite"
    BY <1>6 DEF ReadInvite
  <2>2. CASE Fails /\ UNCHANGED <<reqs, uninvited>>
    BY <2>1, <2>2, <1>1, <1>3, LineReadInv DEF Forsakes
  <2>3. CASE /\ l.kind = "continuation"
             /\ reqs' = Append(reqs, [op |-> "literal", tag |-> call.tag])
             /\ uninvited' = (uninvited \/ l.tag # call.tag)
    <3>1. ~forsaken' => (uninvited' => uninvited)
      <4> SUFFICES ASSUME ~forsaken' PROVE l.tag = call.tag
        BY <2>3 DEF IInv
      <4>1. OneInvitation /\ Cont(1)
        BY <1>1, <1>2, <2>3 DEF IInv
      <4> QED BY <4>1, <1>2 DEF OneInvitation
    <3>2. \E x : reqs' = Append(reqs, x) /\ x.op = "literal"
      BY <2>3
    <3>3. Cont(1) /\ (~forsaken' => ~forsaken)
      BY <2>3, <1>1, <1>2
    <3> QED BY <3>1, <3>2, <3>3, <1>1, LineReadInv
  <2>4. CASE UNCHANGED <<call, reqs, uninvited>>
    BY <2>4, <1>1, LineReadInv
  <2> QED BY <1>6, <2>2, <2>3, <2>4 DEF ReadInvite, Invited
<1> QED BY <1>1, <1>4, <1>5, <1>6

\* idle_check() takes lines off the wire.
LEMMA IdleCheckInv == ASSUME IInv, IdleCheck PROVE IInv'
<1>1. PICK n \in 1..Len(wire) : wire' = SubSeq(wire, n + 1, Len(wire))
  BY DEF IdleCheck
<1>2. call = NoCall /\ UNCHANGED <<call, reqs, forsaken, uninvited>>
  BY DEF IdleCheck
<1>3. /\ IsSeq(wire') /\ Len(wire) \in Nat /\ Len(wire') = Len(wire) - n
      /\ \A k \in 1..Len(wire') : wire'[k] = wire[n + k]
  BY <1>1, RestIs DEF IInv
<1>4. ASSUME ~forsaken
      PROVE  OneInvitation' /\ ~uninvited'
  <2>1. ~uninvited /\ \A k \in Nat : ~Cont(k) /\ ~Asks(k)
    BY <1>2, <1>4, Quiet DEF NoCall, Waits
  <2>2. \A k \in Nat : ~Cont(k)' /\ ~Asks(k)'
    BY <1>2, <1>3, <2>1, SMTT(60) DEF Cont, Asks
  <2> QED BY <1>2, <2>1, <2>2 DEF OneInvitation
<1> QED BY <1>2, <1>3, <1>4 DEF IInv

\* A call is given up.
LEMMA TimeoutInv == ASSUME IInv, Timeout PROVE IInv'
<1>1. /\ call' = NoCall /\ ~result'.ok /\ forsaken' = (forsaken \/ Forsakes)
      /\ UNCHANGED <<wire, reqs, uninvited>>
  BY DEF Timeout, Fails, Ends
<1>2. ~forsaken' => ~forsaken /\ ~Waits
  BY <1>1 DEF Forsakes, Waits
<1>3. ASSUME ~forsaken'
      PROVE  OneInvitation' /\ ~uninvited'
  <2>1. ~uninvited /\ \A k \in Nat : ~Cont(k) /\ ~Asks(k)
    BY <1>2, <1>3, Quiet
  <2> QED BY <1>1, <2>1 DEF OneInvitation, Cont, Asks
<1> QED BY <1>1, <1>3 DEF IInv

\* The server says lines that are no invitations.
LEMMA SaidIs ==
  ASSUME NEW lines, IsSeq(lines), Say(lines), IsSeq(wire),
         \A k \in 1..Len(lines) : lines[k].kind # "continuation"
  PROVE  /\ IsSeq(wire')
         /\ \A k \in Nat : Cont(k)' => Cont(k) /\ wire'[k] = wire[k]
<1>1. /\ IsSeq(wire') /\ Len(wire) \in Nat /\ Len(lines) \in Nat
      /\ Len(wire') = Len(wire) + Len(lines)
      /\ \A k \in 1..Len(wire) : wire'[k] = wire[k]
      /\ \A k \in 1..Len(lines) : wire'[Len(wire) + k] = lines[k]
  BY ConcatIs DEF Say
<1>2. ASSUME NEW k \in Nat, Cont(k)'
      PROVE  k \in 1..Len(wire)
  <2> SUFFICES ASSUME k > Len(wire) PROVE FALSE
    BY <1>1, <1>2 DEF Cont
  <2>1. k - Len(wire) \in 1..Len(lines) /\ wire'[k] = lines[k - Len(wire)]
    BY <1>1, <1>2 DEF Cont
  <2> QED BY <1>2, <2>1 DEF Cont
<1> QED BY <1>1, <1>2 DEF Cont

\* A notice is no invitation.
LEMMA UpdateInv == ASSUME IInv, Update PROVE IInv'
<1> DEFINE l == Untagged("fetch", 0, data + 1)
<1>1. Say(<<l>>) /\ UNCHANGED <<call, reqs, forsaken, uninvited>>
  BY DEF Update, client
<1>2. IsSeq(<<l>>) /\ \A k \in 1..Len(<<l>>) : <<l>>[k].kind # "continuation"
  BY ShortIs DEF Untagged, Line
<1>3. IsSeq(wire') /\ \A k \in Nat : Cont(k)' => Cont(k) /\ wire'[k] = wire[k]
  BY <1>1, <1>2, SaidIs DEF IInv
<1> QED BY <1>1, <1>3 DEF IInv, OneInvitation, Waits, Cont, Asks

\* What the server answers is no invitation.
LEMMA AnswersAre ==
  ASSUME NEW r
  PROVE  /\ IsSeq(Answers(r))
         /\ \A k \in 1..Len(Answers(r)) : Answers(r)[k].kind # "continuation"
<1>1. Answers(r) = <<>> \/ \E typ, t, v : Answers(r) = <<Untagged(typ, t, v)>>
  BY DEF Answers
<1>2. CASE Answers(r) = <<>>
  <2>1. IsSeq(Answers(r)) /\ Len(Answers(r)) = 0
    BY <1>2, ShortIs
  <2>2. 1..Len(Answers(r)) = {}
    BY <2>1
  <2> QED BY <2>1, <2>2
<1>3. CASE \E typ, t, v : Answers(r) = <<Untagged(typ, t, v)>>
  <2>1. PICK typ, t, v : Answers(r) = <<Untagged(typ, t, v)>>
    BY <1>3
  <2>2. Untagged(typ, t, v).kind = "untagged"
    BY DEF Untagged, Line
  <2> QED BY <2>1, <2>2, ShortIs
<1> QED BY <1>1, <1>2, <1>3

\* A completion is no invitation.
LEMMA CompletesIs ==
  ASSUME NEW t, NEW ok
  PROVE  /\ IsSeq(<<Completes(t, ok)>>)
         /\ \A k \in 1..Len(<<Completes(t, ok)>>) :
              <<Completes(t, ok)>>[k].kind # "continuation"
<1>1. Completes(t, ok).kind = "tagged"
  BY DEF Completes, Line
<1> QED BY <1>1, ShortIs

\* Neither is an answer with its completion.
LEMMA AnswerCompletes ==
  ASSUME NEW r, NEW t, NEW ok
  PROVE  LET lines == Answers(r) \o <<Completes(t, ok)>> IN
         /\ IsSeq(lines)
         /\ \A k \in 1..Len(lines) : lines[k].kind # "continuation"
<1> DEFINE a == Answers(r)
           c == <<Completes(t, ok)>>
<1> HIDE DEF a, c
<1>1. /\ IsSeq(a) /\ \A k \in 1..Len(a) : a[k].kind # "continuation"
      /\ IsSeq(c) /\ \A k \in 1..Len(c) : c[k].kind # "continuation"
  BY AnswersAre, CompletesIs DEF a, c
<1>2. /\ IsSeq(a \o c) /\ Len(a) \in Nat /\ Len(c) \in Nat
      /\ Len(a \o c) = Len(a) + Len(c)
      /\ \A k \in 1..Len(a) : (a \o c)[k] = a[k]
      /\ \A k \in 1..Len(c) : (a \o c)[Len(a) + k] = c[k]
  BY <1>1, ConcatIs
<1>3. ASSUME NEW k \in 1..Len(a \o c)
      PROVE  (a \o c)[k].kind # "continuation"
  <2>1. CASE k \in 1..Len(a)
    BY <1>1, <1>2, <2>1
  <2>2. CASE k \notin 1..Len(a)
    <3>1. k - Len(a) \in 1..Len(c) /\ Len(a) + (k - Len(a)) = k
      BY <1>2, <2>2
    <3> QED BY <1>1, <1>2, <3>1
  <2> QED BY <2>1, <2>2
<1> QED BY <1>2, <1>3 DEF a, c

\* A request is read and not invited.
LEMMA ServedInv ==
  ASSUME IInv, reqs # <<>>, reqs' = Tail(reqs), IsSeq(wire'),
         \A k \in Nat : Cont(k)' => Cont(k) /\ wire'[k] = wire[k],
         UNCHANGED <<call, forsaken, uninvited>>
  PROVE  IInv'
<1>1. IsSeq(reqs') /\ \A k \in Nat : Asks(k)' =>
        k + 1 \in Nat /\ Asks(k + 1) /\ reqs'[k] = reqs[k + 1]
  BY TailIs DEF IInv, Asks
<1>2. ASSUME ~forsaken
      PROVE  OneInvitation'
  <2>0. OneInvitation
    BY <1>2 DEF IInv
  <2>1. ASSUME NEW k \in Nat, Cont(k)'
        PROVE  /\ Waits /\ wire'[k].tag = call.tag
               /\ \A j \in Nat : Cont(j)' => j = k
               /\ \A j \in Nat : ~Asks(j)'
    BY <2>0, <2>1, <1>1 DEF OneInvitation
  <2>2. ASSUME NEW k \in Nat, Asks(k)'
        PROVE  /\ Waits /\ reqs'[k].tag = call.tag
               /\ \A j \in Nat : Asks(j)' => j = k
    <3>1. k + 1 \in Nat /\ Asks(k + 1) /\ reqs'[k] = reqs[k + 1]
      BY <1>1, <2>2
    <3>2. /\ Waits /\ reqs[k + 1].tag = call.tag
          /\ \A j \in Nat : Asks(j) => j = k + 1
      BY <2>0, <3>1 DEF OneInvitation
    <3>3. \A j \in Nat : Asks(j)' => j = k
      BY <1>1, <3>2
    <3> QED BY <3>1, <3>2, <3>3
  <2> QED BY <2>1, <2>2 DEF OneInvitation, Waits
<1> QED BY <1>1, <1>2 DEF IInv

\* A request is read and invited: the only one that could be.
LEMMA InvitedInv ==
  ASSUME IInv, reqs # <<>>, reqs' = Tail(reqs),
         Head(reqs).op \in {"idle", "text"},
         wire' = Append(wire, Invites(Head(reqs).tag)),
         UNCHANGED <<call, forsaken, uninvited>>
  PROVE  IInv'
<1>1. /\ IsSeq(reqs') /\ Asks(1) /\ Head(reqs) = reqs[1]
      /\ \A k \in Nat : Asks(k)' => k # 0 /\ k + 1 \in Nat /\ Asks(k + 1)
  BY TailIs DEF IInv, Asks
<1>2. /\ IsSeq(wire') /\ Len(wire) \in Nat /\ Len(wire') = Len(wire) + 1
      /\ wire'[Len(wire) + 1] = Invites(reqs[1].tag)
      /\ \A k \in 1..Len(wire) : wire'[k] = wire[k]
  BY <1>1, AppendIs DEF IInv
<1>3. ASSUME ~forsaken
      PROVE  OneInvitation'
  <2>1. /\ Waits /\ reqs[1].tag = call.tag
        /\ \A j \in Nat : Asks(j) => j = 1
        /\ \A j \in Nat : ~Cont(j)
    BY <1>1, <1>3 DEF IInv, OneInvitation
  <2>2. \A k \in Nat : ~Asks(k)'
    BY <1>1, <2>1
  <2>3. \A k \in Nat : Cont(k)' => k = Len(wire) + 1
    BY <1>2, <2>1 DEF Cont
  <2>4. Invites(reqs[1].tag).tag = reqs[1].tag
    BY DEF Invites, Line
  <2> QED BY <1>2, <2>1, <2>2, <2>3, <2>4 DEF OneInvitation, Waits
<1> QED BY <1>1, <1>2, <1>3 DEF IInv

\* The server reads a request.
LEMMA ServeInv == ASSUME IInv, Serve PROVE IInv'
<1> DEFINE r == Head(reqs)
           Quietly == IsSeq(wire') /\ \A k \in Nat :
                        Cont(k)' => Cont(k) /\ wire'[k] = wire[k]
           Answered == \/ UNCHANGED wire
                       \/ \E t, ok : Say(<<Completes(t, ok)>>)
                       \/ \E q, t, ok : Say(Answers(q) \o <<Completes(t, ok)>>)
<1>1. /\ reqs # <<>> /\ reqs' = Tail(reqs)
      /\ UNCHANGED <<call, forsaken, uninvited>>
  BY DEF Serve, client
<1>2. Answered \/ (r.op \in {"idle", "text"} /\ Say(<<Invites(r.tag)>>))
  <2>1. CASE srv.op = "idle"
    BY <2>1 DEF Serve
  <2>2. CASE srv.op = "text"
    BY <2>2 DEF Serve
  <2>3. CASE srv.op = "none" /\ r.op \in {"idle", "text"}
    BY <2>3 DEF Serve
  <2>4. CASE srv.op = "none" /\ r.op \in {"done", "literal"}
    BY <2>4 DEF Serve
  <2>5. CASE /\ srv.op \notin {"idle", "text"}
             /\ srv.op = "none" => r.op \notin {"idle", "text", "done", "literal"}
    BY <2>5 DEF Serve
  <2> QED BY <2>1, <2>2, <2>3, <2>4, <2>5
<1>3. ASSUME Answered
      PROVE  Quietly
  <2>1. CASE UNCHANGED wire
    BY <2>1 DEF IInv, Cont
  <2>2. CASE \E t, ok : Say(<<Completes(t, ok)>>)
    BY <2>2, CompletesIs, SaidIs DEF IInv
  <2>3. CASE \E q, t, ok : Say(Answers(q) \o <<Completes(t, ok)>>)
    BY <2>3, AnswerCompletes, SaidIs DEF IInv
  <2> QED BY <1>3, <2>1, <2>2, <2>3
<1>4. CASE Answered
  BY <1>1, <1>3, <1>4, ServedInv
<1>5. CASE r.op \in {"idle", "text"} /\ Say(<<Invites(r.tag)>>)
  <2>1. wire' = Append(wire, Invites(r.tag))
    <3>1. PICK S : wire \in Seq(S)
      BY DEF IInv, IsSeq
    <3> QED BY <1>5, <3>1 DEF Say
  <2> QED BY <1>1, <1>5, <2>1, InvitedInv
<1> QED BY <1>2, <1>4, <1>5

-----------------------------------------------------------------------------
\* A session starts with nothing on its way.
LEMMA FreshInv == ASSUME SessInit PROVE IInv
<1>1. IsSeq(wire) /\ IsSeq(reqs) /\ Len(wire) = 0 /\ Len(reqs) = 0
  BY ShortIs DEF SessInit
<1>2. \A k \in Nat : ~Cont(k) /\ ~Asks(k)
  BY <1>1 DEF Cont, Asks
<1> QED BY <1>1, <1>2 DEF SessInit, IInv, OneInvitation

\* So does that of a new client.
LEMMA NewClientInv == ASSUME NewClient PROVE IInv'
<1>1. IsSeq(wire') /\ IsSeq(reqs') /\ Len(wire') = 0 /\ Len(reqs') = 0
  BY ShortIs DEF NewClient
<1>2. \A k \in Nat : ~Cont(k)' /\ ~Asks(k)'
  BY <1>1 DEF Cont, Asks
<1> QED BY <1>1, <1>2 DEF NewClient, IInv, OneInvitation

\* Every step.
LEMMA NextInv == ASSUME IInv, [Next]_vars PROVE IInv'
<1>1. CASE UNCHANGED sessVars
  BY <1>1 DEF sessVars, IInv, OneInvitation, Waits, Cont, Asks
<1>2. CASE Capabilities
  BY <1>2 DEF Capabilities, IInv, OneInvitation, Waits, Cont, Asks
<1>3. CASE Next /\ ~Capabilities /\ sessVars' # sessVars
  BY <1>3, NewClientInv, CommandInv, IdleInv, IdleDoneInv, IdleCheckInv, ReadInv,
     TimeoutInv, ServeInv, UpdateInv DEF Next
<1> QED BY <1>1, <1>2, <1>3 DEF vars

\* Whatever lines the server sends in between, however calls end and whenever the
\* message changes: the words of a search are sent as a literal only when the
\* server has asked for them (_send_literal, idle).
THEOREM OnlyInvited == Spec => []LiteralInvited
<1>1. Init => IInv
  BY FreshInv DEF Init
<1>2. IInv /\ [Next]_vars => IInv'
  BY NextInv
<1>3. IInv => LiteralInvited
  BY DEF IInv, LiteralInvited
<1> QED BY <1>1, <1>2, <1>3, PTL DEF Spec

-----------------------------------------------------------------------------
(* The books of the client and the server, and the forms of a read.        *)

\* The books are in order: what each variable holds.
Typed ==
  /\ tag \in Nat /\ tagged \in [1..tag -> {"none", "OK", "NO"}]
  /\ IsSeq(wire) /\ IsSeq(reqs) /\ IsSeq(untagged) /\ IsSeq(seen)
  /\ IsSeq(told) /\ IsSeq(call.got)
  /\ idling \in BOOLEAN
  /\ call = [op |-> call.op, tag |-> call.tag, mode |-> call.mode, got |-> call.got]

\* The call under way has the last tag, and so has the idle() the client is in;
\* its completion has not been read.
Current ==
  /\ call.op = "none" => call = NoCall
  /\ call.op # "none" => call.tag = tag /\ tag # 0 /\ tagged[tag] = "none"
  /\ call.mode = "complete" =>
       call.op \in {"search", "fetch", "select", "capability", "text", "logout"}
  /\ call.mode = "invite" => call.op = "text"
  /\ call.mode = "consume" => call.op \in {"noop", "done"}
  /\ call.mode = "idle" => call.op = "idle"
  /\ call.op \notin {"noop", "done"} => call.got = <<>>
  /\ call.op = "idle" => idleTag = tag /\ ~idling
  /\ call.op = "done" => idling
  /\ idling => /\ idleTag = tag /\ tag # 0 /\ tagged[tag] = "none"
               /\ call.op \in {"none", "done"}

\* The server works off the tags in their order; what it completes has one.
Tags ==
  /\ \A k \in 1..Len(reqs) : /\ reqs[k].tag \in 1..tag
                             /\ \A j \in 1..k : reqs[j].tag <= reqs[k].tag
  /\ srv.op \in {"none", "idle", "text"}
  /\ srv.op # "none" => /\ srv.tag \in 1..tag
                        /\ \A k \in 1..Len(reqs) : srv.tag <= reqs[k].tag
  /\ \A k \in 1..Len(wire) : wire[k].kind = "tagged" =>
       wire[k].tag \in 1..tag /\ wire[k].typ \in {"OK", "NO"}

Order == Typed /\ Current /\ Tags

-----------------------------------------------------------------------------
\* Completion of the call under way.
Own(l) == l.kind = "tagged" /\ l.tag = tag

\* The call under way ends with the completion that has its tag.
LEMMA OwnEnds ==
  ASSUME Order, call.op # "none", NEW k \in 1..Len(wire)
  PROVE  (Filed(wire[k])[call.tag] # "none") <=> Own(wire[k])
<1> DEFINE l == wire[k]
<1>1. /\ call.tag = tag /\ tag \in 1..tag /\ tagged[tag] = "none"
      /\ tagged \in [1..tag -> {"none", "OK", "NO"}]
      /\ l.kind = "tagged" => l.tag \in 1..tag /\ l.typ \in {"OK", "NO"}
  BY DEF Order, Typed, Current, Tags
<1> HIDE DEF l
<1>2. CASE l.kind = "tagged"
  <2>1. l.typ # "none"
    BY <1>1, <1>2
  <2>2. Filed(l)[tag] = IF tag = l.tag THEN l.typ ELSE tagged[tag]
    BY <1>1, <1>2 DEF Filed
  <2>3. (Filed(l)[tag] # "none") <=> (l.tag = tag)
    BY <1>1, <2>1, <2>2
  <2> QED BY <1>1, <1>2, <2>3 DEF Own, l
<1>3. CASE l.kind # "tagged"
  BY <1>1, <1>3 DEF Filed, Own, l
<1> QED BY <1>2, <1>3

\* What comes of a line that is read.
Keeps(l) == /\ call.mode \in {"complete", "invite"} /\ ~Own(l)
            /\ UNCHANGED <<call, result, idling, reqs, seen>>
            /\ untagged' = Queued(l)
SendsText(l) == /\ call.mode = "invite" /\ l.kind = "continuation"
                /\ reqs' = Append(reqs, [op |-> "literal", tag |-> call.tag])
                /\ call' = [call EXCEPT !.mode = "complete"]
                /\ UNCHANGED <<result, idling, seen>>
                /\ untagged' = Queued(l)
Collects(l) == /\ call.mode = "consume" /\ l.kind = "untagged"
               /\ call' = [call EXCEPT !.got = Append(call.got, l)]
               /\ UNCHANGED <<result, idling, seen, reqs>>
               /\ untagged' = Queued(l)
StartsIdle(l) == /\ call.mode = "idle" /\ l.kind = "continuation"
                 /\ call' = NoCall /\ idling' = TRUE /\ seen' = <<>>
                 /\ result' = [NoResult EXCEPT !.op = "idle", !.of = call.tag]
                 /\ UNCHANGED reqs /\ untagged' = Queued(l)
StopsIdle(l) == /\ call.op = "done" /\ call.mode = "consume" /\ Own(l) /\ l.typ = "OK"
                /\ call' = NoCall /\ idling' = FALSE /\ seen' = seen \o call.got
                /\ result'.op = "done"
                /\ UNCHANGED reqs /\ untagged' = Queued(l)
Stops(l) == /\ call' = NoCall /\ idling' = FALSE /\ UNCHANGED reqs
            /\ seen' = seen \/ seen' = seen \o call.got
            /\ result'.op = call.op /\ ~(result'.op = "done" /\ result'.ok)

\* However a line is read, one of these comes of it.
LEMMA ReadForms ==
  ASSUME Order, Read
  PROVE  /\ wire # <<>> /\ wire' = Tail(wire) /\ 1 \in 1..Len(wire)
         /\ call.op # "none" /\ tagged' = Filed(wire[1])
         /\ UNCHANGED <<tag, idleTag, data, srv, told>>
         /\ \/ Keeps(wire[1]) \/ SendsText(wire[1]) \/ Collects(wire[1])
            \/ StartsIdle(wire[1]) \/ StopsIdle(wire[1]) \/ Stops(wire[1])
<1> DEFINE l == wire[1]
<1>1. /\ wire # <<>> /\ wire' = Tail(wire) /\ call # NoCall /\ tagged' = Filed(Head(wire))
      /\ \/ ReadComplete(Head(wire)) \/ ReadInvite(Head(wire))
         \/ ReadConsume(Head(wire)) \/ ReadIdle(Head(wire))
      /\ UNCHANGED <<tag, idleTag, data, srv, told>>
  BY DEF Read, server
<1>2. Head(wire) = l /\ 1 \in 1..Len(wire)
  BY <1>1, TailIs DEF Order, Typed
<1>3. call.op # "none" /\ call.tag = tag
  BY <1>1 DEF Order, Current
<1>4. (Filed(l)[call.tag] # "none") <=> Own(l)
  BY <1>2, <1>3, OwnEnds
<1>5. ASSUME NEW op, NEW ok, NEW of, NEW val, NEW asked,
             Ends(op, ok, of, val, asked), op = call.op
      PROVE  /\ call' = NoCall /\ idling' = FALSE
             /\ result'.op = call.op /\ result'.ok = ok
  BY <1>3, <1>5 DEF Ends, Order, Current
<1>6. ASSUME Fails
      PROVE  /\ call' = NoCall /\ idling' = FALSE
             /\ result'.op = call.op /\ ~result'.ok
  BY <1>5, <1>6 DEF Fails
<1> HIDE DEF l
<1>7. CASE ReadComplete(l)
  <2>1. call.mode = "complete" /\ UNCHANGED <<reqs, seen>>
    BY <1>7 DEF ReadComplete
  <2>2. CASE Own(l)
    <3>1. Complete(l.typ, l.val, Queued(l))
      BY <1>4, <1>7, <2>2 DEF ReadComplete
    <3>2. call.op \in {"search", "fetch", "select", "capability", "text", "logout"}
      BY <2>1 DEF Order, Current
    <3>3. l.typ \in {"OK", "NO"}
      BY <1>2, <2>2 DEF Own, Order, Tags, l
    <3>4. \E ok, of, val, asked : Ends(call.op, ok, of, val, asked)
      <4>0. Fails => \E ok, of, val, asked : Ends(call.op, ok, of, val, asked)
        BY Zenon DEF Fails
      <4>1. CASE call.op = "logout"
        BY <3>1, <4>1 DEF Complete
      <4>2. CASE call.op # "logout" /\ l.typ = "NO"
        BY <3>1, <4>0, <4>2 DEF Complete
      <4>3. CASE call.op \in {"search", "text"} /\ l.typ = "OK"
        BY <3>1, <4>0, <4>3 DEF Complete
      <4>4. CASE call.op = "fetch" /\ l.typ = "OK"
        BY <3>1, <4>0, <4>4 DEF Complete
      <4>5. CASE call.op = "capability" /\ l.typ = "OK"
        BY <3>1, <4>0, <4>5 DEF Complete
      <4>6. CASE call.op = "select" /\ l.typ = "OK"
        BY <3>1, <4>6 DEF Complete
      <4> QED BY <3>2, <3>3, <4>1, <4>2, <4>3, <4>4, <4>5, <4>6
    <3>5. call' = NoCall /\ idling' = FALSE /\ result'.op = call.op
      BY <1>5, <3>4
    <3> QED BY <1>1, <1>2, <1>3, <2>1, <3>2, <3>5 DEF Stops, l
  <2>3. CASE ~Own(l)
    <3>1. untagged' = Queued(l) /\ UNCHANGED <<call, result, idling>>
      BY <1>4, <1>7, <2>3 DEF ReadComplete
    <3> QED BY <1>1, <1>2, <1>3, <2>1, <2>3, <3>1 DEF Keeps, l
  <2> QED BY <2>2, <2>3
<1>8. CASE ReadInvite(l)
  <2>1. call.mode = "invite" /\ UNCHANGED seen /\ untagged' = Queued(l)
    BY <1>8 DEF ReadInvite
  <2>2. CASE Own(l)
    BY <1>1, <1>2, <1>3, <1>4, <1>6, <1>8, <2>1, <2>2 DEF ReadInvite, Stops, l
  <2>3. CASE ~Own(l) /\ l.kind = "continuation"
    BY <1>1, <1>2, <1>3, <1>4, <1>8, <2>1, <2>3 DEF ReadInvite, Invited, SendsText, l
  <2>4. CASE ~Own(l) /\ l.kind # "continuation"
    BY <1>1, <1>2, <1>3, <1>4, <1>8, <2>1, <2>4 DEF ReadInvite, Invited, Keeps, l
  <2> QED BY <2>2, <2>3, <2>4
<1>9. CASE ReadConsume(l)
  <2>1. call.mode = "consume" /\ UNCHANGED reqs /\ untagged' = Queued(l)
    BY <1>9 DEF ReadConsume
  <2>2. CASE Own(l)
    <3>1. /\ Ends(call.op, l.typ = "OK", call.tag, call.got, 0)
          /\ seen' = IF call.op = "done" THEN seen \o call.got ELSE seen
      BY <1>4, <1>9, <2>2 DEF ReadConsume
    <3>2. /\ call' = NoCall /\ idling' = FALSE /\ result'.op = call.op
          /\ result'.ok = (l.typ = "OK")
      BY <1>5, <3>1
    <3>3. CASE call.op = "done" /\ l.typ = "OK"
      BY <1>1, <1>2, <1>3, <2>1, <2>2, <3>1, <3>2, <3>3 DEF StopsIdle, l
    <3>4. CASE ~(call.op = "done" /\ l.typ = "OK")
      BY <1>1, <1>2, <1>3, <2>1, <3>1, <3>2, <3>4 DEF Stops, l
    <3> QED BY <3>3, <3>4
  <2>3. CASE ~Own(l) /\ l.kind = "untagged"
    BY <1>1, <1>2, <1>3, <1>4, <1>9, <2>1, <2>3 DEF ReadConsume, Consumed, Collects, l
  <2>4. CASE ~Own(l) /\ l.kind # "untagged"
    BY <1>1, <1>2, <1>3, <1>4, <1>6, <1>9, <2>1, <2>4 DEF ReadConsume, Stops, l
  <2> QED BY <2>2, <2>3, <2>4
<1>10. CASE ReadIdle(l)
  <2>1. CASE l.kind = "continuation"
    BY <1>1, <1>2, <1>3, <1>10, <2>1 DEF ReadIdle, StartsIdle, l
  <2>2. CASE l.kind # "continuation"
    BY <1>1, <1>2, <1>3, <1>6, <1>10, <2>2 DEF ReadIdle, Stops, l
  <2> QED BY <2>1, <2>2
<1> QED BY <1>1, <1>2, <1>7, <1>8, <1>9, <1>10

-----------------------------------------------------------------------------
(* The forms of a served request, and the wire after it.                   *)

\* What the server does with a request.
Ignores(r) == UNCHANGED <<wire, srv, told>>
Finishes(r) == /\ \/ /\ srv.op = "idle" /\ r.op = "done"
                     /\ wire' = Append(wire, Completes(srv.tag, TRUE))
                  \/ /\ srv.op \in {"idle", "text"} /\ r.op # IF srv.op = "idle" THEN "done" ELSE "literal"
                     /\ wire' = Append(wire, Completes(srv.tag, FALSE))
               /\ srv' = NoServe /\ UNCHANGED told
TakesText(r) == /\ srv.op = "text" /\ r.op = "literal"
                /\ wire' = wire \o (Answers(r) \o <<Completes(srv.tag, TRUE)>>)
                /\ srv' = NoServe /\ UNCHANGED told
InvitesTo(r) == /\ srv.op = "none" /\ r.op \in {"idle", "text"}
            /\ wire' = Append(wire, Invites(r.tag)) /\ srv' = r
            /\ told' = IF r.op = "idle" THEN <<>> ELSE told
Refuses(r) == /\ srv.op = "none" /\ wire' = Append(wire, Completes(r.tag, FALSE))
              /\ UNCHANGED <<srv, told>>
Grants(r) == /\ srv.op = "none" /\ r.op \notin {"idle", "text", "done", "literal"}
             /\ wire' = wire \o (Answers(r) \o <<Completes(r.tag, TRUE)>>)
             /\ UNCHANGED <<srv, told>>

\* The server says one line.
LEMMA SayOne == ASSUME IsSeq(wire), NEW x, Say(<<x>>) PROVE wire' = Append(wire, x)
<1>1. PICK S : wire \in Seq(S)
  BY DEF IsSeq
<1> QED BY <1>1 DEF Say

\* However a request is served, it is done in one of these ways.
LEMMA ServeForms ==
  ASSUME Order, Serve
  PROVE  /\ reqs # <<>> /\ reqs' = Tail(reqs) /\ 1 \in 1..Len(reqs)
         /\ UNCHANGED <<connVars, client, data>>
         /\ \/ Ignores(reqs[1]) \/ Finishes(reqs[1]) \/ TakesText(reqs[1])
            \/ InvitesTo(reqs[1]) \/ Refuses(reqs[1]) \/ Grants(reqs[1])
<1> DEFINE r == Head(reqs)
<1>1. /\ reqs # <<>> /\ reqs' = Tail(reqs) /\ UNCHANGED <<connVars, client, data>>
  BY DEF Serve
<1>2. r = reqs[1] /\ 1 \in 1..Len(reqs) /\ IsSeq(wire) /\ srv.op \in {"none", "idle", "text"}
  BY <1>1, TailIs DEF Order, Typed, Tags
<1>3. CASE srv.op = "idle"
  <2>1. /\ Say(<<Completes(srv.tag, r.op = "done")>>)
        /\ srv' = NoServe /\ UNCHANGED told
    BY <1>3 DEF Serve
  <2>2. wire' = Append(wire, Completes(srv.tag, r.op = "done"))
    BY <1>2, <2>1, SayOne, Zenon
  <2>3. Finishes(r)
    <3>1. CASE r.op = "done"
      <4>1. Completes(srv.tag, r.op = "done") = Completes(srv.tag, TRUE)
        BY <3>1 DEF Completes
      <4>2. wire' = Append(wire, Completes(srv.tag, TRUE))
        BY <2>2, <4>1
      <4> QED BY <1>3, <2>1, <3>1, <4>2 DEF Finishes
    <3>2. CASE r.op # "done"
      <4>1. Completes(srv.tag, r.op = "done") = Completes(srv.tag, FALSE)
        BY <3>2 DEF Completes
      <4>2. wire' = Append(wire, Completes(srv.tag, FALSE))
        BY <2>2, <4>1
      <4> QED BY <1>3, <2>1, <3>2, <4>2 DEF Finishes
    <3> QED BY <3>1, <3>2
  <2> QED BY <1>1, <1>2, <2>3
<1>4. CASE srv.op = "text"
  <2>1. CASE r.op = "literal"
    BY <1>1, <1>2, <1>4, <2>1 DEF Serve, TakesText, Say
  <2>2. CASE r.op # "literal"
    <3>1. Say(<<Completes(srv.tag, FALSE)>>) /\ srv' = NoServe /\ UNCHANGED told
      BY <1>4, <2>2 DEF Serve
    <3>2. Finishes(r)
      BY <1>2, <1>4, <2>2, <3>1, SayOne DEF Finishes
    <3> QED BY <1>1, <1>2, <3>2
  <2> QED BY <2>1, <2>2
<1>5. CASE srv.op = "none" /\ r.op \in {"idle", "text"}
  <2>1. \/ /\ Say(<<Invites(r.tag)>>) /\ srv' = r
           /\ told' = IF r.op = "idle" THEN <<>> ELSE told
        \/ Say(<<Completes(r.tag, FALSE)>>) /\ UNCHANGED <<srv, told>>
    BY <1>5 DEF Serve
  <2>2. InvitesTo(r) \/ Refuses(r)
    BY <1>2, <1>5, <2>1, SayOne DEF InvitesTo, Refuses
  <2> QED BY <1>1, <1>2, <2>2
<1>6. CASE srv.op = "none" /\ r.op \in {"done", "literal"}
  BY <1>1, <1>2, <1>6 DEF Serve, Ignores
<1>7. CASE srv.op = "none" /\ r.op \notin {"idle", "text", "done", "literal"}
  <2>1. /\ \/ Say(Answers(r) \o <<Completes(r.tag, TRUE)>>)
           \/ Say(<<Completes(r.tag, FALSE)>>)
        /\ UNCHANGED <<srv, told>>
    BY <1>7 DEF Serve
  <2>2. Grants(r) \/ Refuses(r)
    BY <1>2, <1>7, <2>1, SayOne DEF Grants, Refuses, Say
  <2> QED BY <1>1, <1>2, <2>2
<1> QED BY <1>2, <1>3, <1>4, <1>5, <1>6, <1>7

-----------------------------------------------------------------------------
\* The wire goes on with n lines.
Grows(n) == /\ IsSeq(wire') /\ Len(wire) \in Nat /\ Len(wire') = Len(wire) + n
            /\ \A k \in 1..Len(wire) : wire'[k] = wire[k]

\* The fields of a completion.
LEMMA CompletionIs ==
  ASSUME NEW t
  PROVE  /\ Completes(t, TRUE).kind = "tagged" /\ Completes(t, TRUE).typ = "OK"
         /\ Completes(t, TRUE).tag = t /\ Completes(t, TRUE).val = data
         /\ Completes(t, FALSE).kind = "tagged" /\ Completes(t, FALSE).typ = "NO"
         /\ Completes(t, FALSE).tag = t /\ Completes(t, FALSE).val = data
BY DEF Completes, Line

\* The sequences of one and of two.
LEMMA PairIs ==
  ASSUME NEW a, NEW c
  PROVE  /\ IsSeq(<<a, c>>) /\ Len(<<a, c>>) = 2 /\ <<a, c>>[1] = a /\ <<a, c>>[2] = c
         /\ <<a>> \o <<c>> = <<a, c>> /\ <<>> \o <<c>> = <<c>>
<1>1. <<a, c>> \in Seq({a, c}) /\ <<a>> \in Seq({a, c}) /\ <<c>> \in Seq({a, c})
  OBVIOUS
<1>2. /\ Len(<<a, c>>) = 2 /\ <<a, c>>[1] = a /\ <<a, c>>[2] = c
      /\ IsSeq(<<a, c>>)
  BY <1>1 DEF IsSeq
<1>3. <<>> \o <<c>> = <<c>>
  BY <1>1, ConcatEmptySeq
<1>4. <<a>> \o <<c>> = <<a, c>>
  <2> DEFINE s == <<a>>
             t == <<c>>
             u == <<a, c>>
  <2>1. /\ s \in Seq({a, c}) /\ t \in Seq({a, c}) /\ u \in Seq({a, c})
        /\ Len(s) = 1 /\ Len(t) = 1 /\ Len(u) = 2
        /\ s[1] = a /\ t[1] = c /\ u[1] = a /\ u[2] = c
    BY <1>1
  <2> HIDE DEF s, t, u
  <2>2. s \o t \in Seq({a, c}) /\ Len(s \o t) = 2 /\ (s \o t)[1] = a /\ (s \o t)[2] = c
    <3>1. s \o t \in Seq({a, c})
      BY <2>1, ConcatProperties
    <3>2. IsSeq(s) /\ IsSeq(t)
      BY <2>1 DEF IsSeq
    <3>3. /\ Len(s \o t) = Len(s) + Len(t)
          /\ \A k \in 1..Len(s) : (s \o t)[k] = s[k]
          /\ \A k \in 1..Len(t) : (s \o t)[Len(s) + k] = t[k]
      BY <3>2, ConcatIs
    <3>4. Len(s \o t) = 2
      BY <2>1, <3>3
    <3>5. (s \o t)[1] = s[1] /\ (s \o t)[2] = t[1]
      <4>1. 1 \in 1..1 /\ 1 + 1 = 2
        OBVIOUS
      <4> QED BY <2>1, <3>3, <4>1
    <3> QED BY <2>1, <3>1, <3>4, <3>5
  <2>3. \A k \in 1..2 : (s \o t)[k] = u[k]
    BY <2>1, <2>2
  <2>4. s \o t = u
    BY <2>1, <2>2, <2>3, SeqEqual
  <2> QED BY <2>4 DEF s, t, u
<1> QED BY <1>2, <1>3, <1>4

\* A line of an answer to a request r.
AnswerTo(l, r) ==
  /\ l.kind = "untagged" /\ l.tag = r.tag
  /\ r.op \in {"search", "literal"} => l.typ = "search" /\ l.val = data
  /\ r.op = "fetch" => l.typ = "fetch" /\ l.val = data
  /\ l.typ = "capability" => l.val = CapsOf(channel, TRUE)

\* The answer to a request is one line, or none to one that asks for nothing.
LEMMA AnswerIs ==
  ASSUME NEW r
  PROVE  \/ Answers(r) = <<>> /\ r.op \notin {"search", "literal", "fetch"}
         \/ \E a : Answers(r) = <<a>> /\ AnswerTo(a, r)
<1> USE DEF AnswerTo, Untagged, Line
<1>1. CASE r.op \in {"search", "literal"}
  <2>1. Answers(r) = <<Untagged("search", r.tag, data)>>
    BY <1>1 DEF Answers
  <2>2. AnswerTo(Untagged("search", r.tag, data), r)
    BY <1>1
  <2> QED BY <2>1, <2>2, Zenon
<1>2. CASE r.op = "fetch"
  <2>1. Answers(r) = <<Untagged("fetch", r.tag, data)>>
    BY <1>2 DEF Answers
  <2>2. AnswerTo(Untagged("fetch", r.tag, data), r)
    BY <1>2
  <2> QED BY <2>1, <2>2, Zenon
<1>3. CASE r.op = "select"
  <2>1. Answers(r) = <<Untagged("exists", r.tag, data)>>
    BY <1>3 DEF Answers
  <2>2. AnswerTo(Untagged("exists", r.tag, data), r)
    BY <1>3
  <2> QED BY <2>1, <2>2, Zenon
<1>4. CASE r.op = "capability"
  <2>1. Answers(r) = <<Untagged("capability", r.tag, CapsOf(channel, TRUE))>>
    BY <1>4 DEF Answers
  <2>2. AnswerTo(Untagged("capability", r.tag, CapsOf(channel, TRUE)), r)
    BY <1>4
  <2> QED BY <2>1, <2>2, Zenon
<1>5. CASE r.op = "logout"
  <2>1. Answers(r) = <<Untagged("bye", r.tag, 0)>>
    BY <1>5 DEF Answers
  <2>2. AnswerTo(Untagged("bye", r.tag, 0), r)
    BY <1>5
  <2> QED BY <2>1, <2>2, Zenon
<1>6. CASE r.op \notin {"search", "literal", "fetch", "select", "capability", "logout"}
  BY <1>6 DEF Answers
<1> QED BY <1>1, <1>2, <1>3, <1>4, <1>5, <1>6

\* An answer is a line of the right type before the completion.
LEMMA Answering ==
  ASSUME IsSeq(wire), NEW r, NEW c, wire' = wire \o (Answers(r) \o <<c>>)
  PROVE  \/ /\ Grows(1) /\ wire'[Len(wire) + 1] = c
            /\ r.op \notin {"search", "literal", "fetch"}
         \/ /\ Grows(2) /\ wire'[Len(wire) + 2] = c
            /\ AnswerTo(wire'[Len(wire) + 1], r)
<1>1. CASE Answers(r) = <<>> /\ r.op \notin {"search", "literal", "fetch"}
  <2>1. wire' = wire \o <<c>>
    BY <1>1, PairIs
  <2>2. IsSeq(<<c>>) /\ Len(<<c>>) = 1 /\ <<c>>[1] = c
    BY ShortIs
  <2> DEFINE t == <<c>>
  <2> HIDE DEF t
  <2>3. wire' = wire \o t /\ IsSeq(t) /\ Len(t) = 1 /\ t[1] = c
    BY <2>1, <2>2 DEF t
  <2>4. /\ IsSeq(wire \o t) /\ Len(wire) \in Nat /\ Len(wire \o t) = Len(wire) + 1
        /\ \A k \in 1..Len(wire) : (wire \o t)[k] = wire[k]
        /\ (wire \o t)[Len(wire) + 1] = t[1]
    <3>1. 1 \in 1..Len(t) /\ IsSeq(wire) /\ IsSeq(t)
      BY <2>3
    <3>2. /\ IsSeq(wire \o t) /\ Len(wire) \in Nat
          /\ Len(wire \o t) = Len(wire) + Len(t)
          /\ \A k \in 1..Len(wire) : (wire \o t)[k] = wire[k]
          /\ \A k \in 1..Len(t) : (wire \o t)[Len(wire) + k] = t[k]
      BY <3>1, ConcatIs, SMTT(60)
    <3>3. (wire \o t)[Len(wire) + 1] = t[1]
      BY <3>1, <3>2, Zenon
    <3>4. Len(wire \o t) = Len(wire) + 1
      BY <2>3, <3>2, Zenon
    <3> QED BY <3>2, <3>3, <3>4, Zenon
  <2> QED BY <1>1, <2>3, <2>4 DEF Grows
<1>2. ASSUME NEW a, Answers(r) = <<a>>, AnswerTo(a, r)
      PROVE  Grows(2) /\ wire'[Len(wire) + 2] = c /\ AnswerTo(wire'[Len(wire) + 1], r)
  <2>1. wire' = wire \o <<a, c>>
    BY <1>2, PairIs
  <2>2. PICK S : wire \in Seq(S)
    BY DEF IsSeq
  <2>3. PICK T, t : /\ t = <<a, c>> /\ wire \in Seq(T) /\ t \in Seq(T)
                    /\ Len(t) = 2 /\ t[1] = a /\ t[2] = c
    <3> DEFINE T == S \cup {a, c}
               t == <<a, c>>
    <3>1. t = <<a, c>> /\ wire \in Seq(T) /\ t \in Seq(T) /\ Len(t) = 2 /\ t[1] = a /\ t[2] = c
      BY <2>2
    <3> QED BY <3>1, Zenon
  <2>4. wire \o t \in Seq(T) /\ Len(wire \o t) = Len(wire) + 2 /\ Len(wire) \in Nat
    BY <2>3
  <2>5. /\ \A k \in 1..Len(wire) : (wire \o t)[k] = wire[k]
        /\ (wire \o t)[Len(wire) + 1] = a /\ (wire \o t)[Len(wire) + 2] = c
    BY <2>3
  <2>6. wire' = wire \o t
    BY <2>1, <2>3
  <2> QED BY <1>2, <2>4, <2>5, <2>6 DEF Grows, IsSeq
<1> QED BY <1>1, <1>2, AnswerIs

\* The wire with one more line.
LEMMA Adding ==
  ASSUME IsSeq(wire), NEW x, wire' = Append(wire, x)
  PROVE  Grows(1) /\ wire'[Len(wire) + 1] = x
BY AppendIs DEF Grows

\* A line that is new on the wire after the request r.
NewLine(l, r) ==
  \/ /\ l.kind = "untagged"
     /\ l.typ = "capability" => l.val = CapsOf(channel, TRUE)
  \/ l.kind = "continuation" /\ l.typ = "+"
  \/ /\ l.kind = "tagged" /\ l.typ \in {"OK", "NO"} /\ l.val = data
     /\ l.tag = r.tag \/ (srv.op # "none" /\ l.tag = srv.tag)

\* However a request is served, what is new on the wire is a completion, with
\* the answer before it, or an invitation.
LEMMA ServedWire ==
  ASSUME Order, Serve
  PROVE  /\ IsSeq(wire') /\ Len(wire) \in Nat /\ Len(wire') \in Nat
         /\ Len(wire) <= Len(wire')
         /\ \A k \in 1..Len(wire) : wire'[k] = wire[k]
         /\ \A k \in 1..Len(wire') : k > Len(wire) => NewLine(wire'[k], reqs[1])
<1>0. PICK r : r = reqs[1]
  OBVIOUS
<1>1. IsSeq(wire)
  BY DEF Order, Typed
<1>2. ASSUME NEW c, wire' = wire \o (Answers(r) \o <<c>>), NewLine(c, r)
      PROVE  /\ IsSeq(wire') /\ Len(wire) \in Nat /\ Len(wire') \in Nat
             /\ Len(wire) <= Len(wire')
             /\ \A k \in 1..Len(wire) : wire'[k] = wire[k]
             /\ \A k \in 1..Len(wire') : k > Len(wire) => NewLine(wire'[k], r)
  <2>1. CASE Grows(1) /\ wire'[Len(wire) + 1] = c
    <3>1. \A k \in 1..Len(wire') : k > Len(wire) => k = Len(wire) + 1
      BY <2>1 DEF Grows
    <3> QED BY <1>2, <2>1, <3>1 DEF Grows
  <2>2. CASE Grows(2) /\ wire'[Len(wire) + 2] = c /\ AnswerTo(wire'[Len(wire) + 1], r)
    <3>1. \A k \in 1..Len(wire') : k > Len(wire) => k = Len(wire) + 1 \/ k = Len(wire) + 2
      BY <2>2 DEF Grows
    <3>2. NewLine(wire'[Len(wire) + 1], r)
      BY <2>2 DEF AnswerTo, NewLine
    <3> QED BY <1>2, <2>2, <3>1, <3>2 DEF Grows
  <2> QED BY <1>1, <1>2, <2>1, <2>2, Answering
<1>3. ASSUME NEW x, wire' = Append(wire, x), NewLine(x, r)
      PROVE  /\ IsSeq(wire') /\ Len(wire) \in Nat /\ Len(wire') \in Nat
             /\ Len(wire) <= Len(wire')
             /\ \A k \in 1..Len(wire) : wire'[k] = wire[k]
             /\ \A k \in 1..Len(wire') : k > Len(wire) => NewLine(wire'[k], r)
  <2>1. Grows(1) /\ wire'[Len(wire) + 1] = x
    BY <1>1, <1>3, Adding
  <2>2. \A k \in 1..Len(wire') : k > Len(wire) => k = Len(wire) + 1
    BY <2>1 DEF Grows
  <2> QED BY <1>3, <2>1, <2>2 DEF Grows
<1>4. /\ NewLine(Completes(r.tag, TRUE), r) /\ NewLine(Completes(r.tag, FALSE), r)
      /\ srv.op # "none" => /\ NewLine(Completes(srv.tag, TRUE), r)
                            /\ NewLine(Completes(srv.tag, FALSE), r)
  <2>1. ASSUME NEW x, x.kind = "tagged", x.typ \in {"OK", "NO"}, x.val = data,
               x.tag = r.tag \/ (srv.op # "none" /\ x.tag = srv.tag)
        PROVE  NewLine(x, r)
    BY <2>1 DEF NewLine
  <2>2. NewLine(Completes(r.tag, TRUE), r)
    <3>1. PICK x : x = Completes(r.tag, TRUE)
      OBVIOUS
    <3>2. x.kind = "tagged" /\ x.typ \in {"OK", "NO"} /\ x.val = data /\ x.tag = r.tag
      BY <3>1, CompletionIs
    <3> QED BY <2>1, <3>1, <3>2
  <2>3. NewLine(Completes(r.tag, FALSE), r)
    <3>1. PICK x : x = Completes(r.tag, FALSE)
      OBVIOUS
    <3>2. x.kind = "tagged" /\ x.typ \in {"OK", "NO"} /\ x.val = data /\ x.tag = r.tag
      BY <3>1, CompletionIs
    <3> QED BY <2>1, <3>1, <3>2
  <2>4. srv.op # "none" => NewLine(Completes(srv.tag, TRUE), r)
    <3>1. PICK x : x = Completes(srv.tag, TRUE)
      OBVIOUS
    <3>2. x.kind = "tagged" /\ x.typ \in {"OK", "NO"} /\ x.val = data /\ x.tag = srv.tag
      BY <3>1, CompletionIs
    <3> QED BY <2>1, <3>1, <3>2
  <2>5. srv.op # "none" => NewLine(Completes(srv.tag, FALSE), r)
    <3>1. PICK x : x = Completes(srv.tag, FALSE)
      OBVIOUS
    <3>2. x.kind = "tagged" /\ x.typ \in {"OK", "NO"} /\ x.val = data /\ x.tag = srv.tag
      BY <3>1, CompletionIs
    <3> QED BY <2>1, <3>1, <3>2
  <2> QED BY <2>2, <2>3, <2>4, <2>5
<1>5. NewLine(Invites(r.tag), r)
  BY DEF Invites, Line, NewLine
<1>6. CASE Ignores(r)
  <2>1. wire' = wire /\ Len(wire) \in Nat
    BY <1>1, <1>6, ConcatIs DEF Ignores
  <2> QED BY <1>0, <1>1, <2>1
<1>7. CASE Finishes(r)
  <2>1. srv.op # "none"
    BY <1>7 DEF Finishes
  <2>2. \E x : wire' = Append(wire, x) /\ NewLine(x, r)
    BY <1>4, <1>7, <2>1, Zenon DEF Finishes
  <2> QED BY <1>0, <1>3, <2>2
<1>8. CASE TakesText(r)
  BY <1>0, <1>2, <1>4, <1>8 DEF TakesText
<1>9. CASE InvitesTo(r)
  BY <1>0, <1>3, <1>5, <1>9 DEF InvitesTo
<1>10. CASE Refuses(r)
  BY <1>0, <1>3, <1>4, <1>10 DEF Refuses
<1>11. CASE Grants(r)
  BY <1>0, <1>2, <1>4, <1>11 DEF Grants
<1> QED BY <1>6, <1>7, <1>8, <1>9, <1>10, <1>11, ServeForms, <1>0

-----------------------------------------------------------------------------
(* The untagged responses after a read.                                    *)

\* What is queued was there, or is the line read.
LEMMA QueuedIs ==
  ASSUME IsSeq(untagged), NEW l
  PROVE  /\ IsSeq(Queued(l)) /\ Len(Queued(l)) \in Nat
         /\ \A k \in 1..Len(Queued(l)) :
              \/ l.kind = "untagged" /\ Queued(l)[k] = l
              \/ k \in 1..Len(untagged) /\ Queued(l)[k] = untagged[k]
<1>1. Len(untagged) \in Nat
  BY ConcatIs
<1>2. CASE l.kind = "untagged"
  <2>1. Queued(l) = Append(untagged, l)
    BY <1>2 DEF Queued
  <2> QED BY <1>1, <1>2, <2>1, AppendIs
<1>3. CASE l.kind # "untagged"
  BY <1>1, <1>3 DEF Queued
<1> QED BY <1>2, <1>3

\* A line of untagged responses is one that was there, or the one read.
LEMMA ReadUntagged ==
  ASSUME Order, Read
  PROVE  /\ IsSeq(untagged')
         /\ \A k \in 1..Len(untagged') :
              \/ untagged'[k] = wire[1]
              \/ \E j \in 1..Len(untagged) : untagged'[k] = untagged[j]
<1> DEFINE l == Head(wire)
           q == Queued(l)
           From(s) == /\ IsSeq(s)
                      /\ \A k \in 1..Len(s) :
                           \/ s[k] = wire[1]
                           \/ \E j \in 1..Len(untagged) : s[k] = untagged[j]
<1>1. /\ wire # <<>>
      /\ ReadComplete(l) \/ ReadInvite(l) \/ ReadConsume(l) \/ ReadIdle(l)
  BY DEF Read
<1>2. l = wire[1] /\ IsSeq(untagged)
  BY <1>1, TailIs DEF Order, Typed
<1>3. From(q)
  BY <1>2, QueuedIs
<1>4. ASSUME NEW types
      PROVE  From(Kept(q, types))
  <2>1. PICK s : s = q
    OBVIOUS
  <2>2. /\ IsSeq(Kept(s, types))
        /\ \A j \in 1..Len(Kept(s, types)) : \E k \in 1..Len(s) :
              Kept(s, types)[j] = s[k]
    BY <1>3, <2>1, KeptIs
  <2>3. From(s)
    BY <1>3, <2>1
  <2> QED BY <2>1, <2>2, <2>3
<1>5. untagged' = q \/ \E types : untagged' = Kept(q, types)
  <2> HIDE DEF q, l
  <2>1. CASE ReadInvite(l) \/ ReadConsume(l) \/ ReadIdle(l)
    BY <2>1 DEF ReadInvite, ReadConsume, ReadIdle, q
  <2>2. CASE ReadComplete(l)
    <3>1. untagged' = q \/ Complete(l.typ, l.val, q)
      BY <2>2 DEF ReadComplete, q
    <3>2. call.mode = "complete"
      BY <2>2 DEF ReadComplete
    <3>3. call.op \in {"search", "fetch", "select", "capability", "text", "logout"}
      BY <3>2 DEF Order, Current
    <3>4. CASE Complete(l.typ, l.val, q)
      <4>0. CASE Own(l)
        <5>0. l.typ \in {"OK", "NO"}
          <6>1. 1 \in 1..Len(wire)
            BY <1>1, TailIs DEF Order, Typed
          <6> QED BY <1>2, <4>0, <6>1 DEF Own, Order, Tags, l
        <5>1. CASE call.op = "logout"
          BY <3>4, <5>1 DEF Complete
        <5>2. CASE call.op # "logout" /\ l.typ = "NO"
          BY <3>4, <5>2 DEF Complete
        <5>3. CASE call.op \in {"search", "text"} /\ l.typ = "OK"
          BY <3>4, <5>3, Zenon DEF Complete, WithoutType
        <5>4. CASE call.op = "fetch" /\ l.typ = "OK"
          BY <3>4, <5>4, Zenon DEF Complete, WithoutType
        <5>5. CASE call.op = "capability" /\ l.typ = "OK"
          BY <3>4, <5>5, Zenon DEF Complete, WithoutType
        <5>6. CASE call.op = "select" /\ l.typ = "OK"
          BY <3>4, <5>6 DEF Complete
        <5> QED BY <3>3, <5>0, <5>1, <5>2, <5>3, <5>4, <5>5, <5>6
      <4>1. CASE ~Own(l)
        <5>1. 1 \in 1..Len(wire) /\ call.op # "none"
          BY <1>1, <3>3, TailIs DEF Order, Typed
        <5>2. ~(Filed(l)[call.tag] # "none")
          BY <1>2, <4>1, <5>1, OwnEnds
        <5> QED BY <2>2, <5>2 DEF ReadComplete, q
      <4> QED BY <4>0, <4>1
    <3> QED BY <3>1, <3>4
  <2> QED BY <1>1, <2>1, <2>2
<1> HIDE DEF From, q
<1>6. From(untagged')
  BY <1>3, <1>4, <1>5
<1> QED BY <1>6 DEF From

-----------------------------------------------------------------------------
(* Reads and served requests keep the books in order.                      *)

\* A line read, whatever comes of it.
LEMMA ReadOrder == ASSUME Order, Read PROVE Order'
<1> DEFINE l == wire[1]
<1>1. /\ wire # <<>> /\ wire' = Tail(wire) /\ 1 \in 1..Len(wire)
      /\ call.op # "none" /\ tagged' = Filed(l)
      /\ UNCHANGED <<tag, idleTag, data, srv, told>>
      /\ \/ Keeps(l) \/ SendsText(l) \/ Collects(l)
         \/ StartsIdle(l) \/ StopsIdle(l) \/ Stops(l)
  BY ReadForms
<1>2. /\ tag \in Nat /\ tagged \in [1..tag -> {"none", "OK", "NO"}]
      /\ IsSeq(wire) /\ IsSeq(reqs) /\ IsSeq(untagged) /\ IsSeq(seen)
      /\ IsSeq(told) /\ IsSeq(call.got) /\ idling \in BOOLEAN
      /\ call = [op |-> call.op, tag |-> call.tag, mode |-> call.mode, got |-> call.got]
  BY DEF Order, Typed
<1>3. call.tag = tag /\ tag \in 1..tag
  BY <1>1, <1>2 DEF Order, Current
<1>4. /\ IsSeq(wire') /\ Len(wire') = Len(wire) - 1 /\ Len(wire) \in Nat
      /\ \A k \in 1..Len(wire') : k + 1 \in 1..Len(wire) /\ wire'[k] = wire[k + 1]
  BY <1>1, <1>2, TailIs
<1>5. tagged' \in [1..tag -> {"none", "OK", "NO"}]
  <2>1. l.kind = "tagged" => l.tag \in 1..tag /\ l.typ \in {"OK", "NO"}
    BY <1>1 DEF Order, Tags
  <2> QED BY <1>1, <1>2, <2>1 DEF Filed
<1>6. ~Own(l) => tagged'[tag] = "none"
  BY <1>1, <1>3, OwnEnds
<1>7. IsSeq(untagged')
  BY ReadUntagged
<1>8. Tags'
  <2>1. \A k \in 1..Len(wire') : wire'[k].kind = "tagged" =>
          wire'[k].tag \in 1..tag /\ wire'[k].typ \in {"OK", "NO"}
    BY <1>4 DEF Order, Tags
  <2>2. /\ \A k \in 1..Len(reqs') : /\ reqs'[k].tag \in 1..tag
                                    /\ \A j \in 1..k : reqs'[j].tag <= reqs'[k].tag
        /\ srv.op # "none" => \A k \in 1..Len(reqs') : srv.tag <= reqs'[k].tag
    <3>1. CASE UNCHANGED reqs
      BY <3>1 DEF Order, Tags
    <3>2. CASE reqs' = Append(reqs, [op |-> "literal", tag |-> call.tag])
      <4>1. PICK r : r.tag = tag /\ reqs' = Append(reqs, r)
        BY <1>3, <3>2
      <4>2. /\ IsSeq(reqs') /\ Len(reqs') = Len(reqs) + 1 /\ Len(reqs) \in Nat
            /\ reqs'[Len(reqs) + 1] = r
            /\ \A k \in 1..Len(reqs) : reqs'[k] = reqs[k]
        BY <1>2, <4>1, AppendIs
      <4>3. /\ \A k \in 1..Len(reqs) : /\ reqs[k].tag \in 1..tag
                                       /\ \A j \in 1..k : reqs[j].tag <= reqs[k].tag
            /\ srv.op # "none" => /\ srv.tag \in 1..tag
                                  /\ \A k \in 1..Len(reqs) : srv.tag <= reqs[k].tag
        BY DEF Order, Tags
      <4>4. ASSUME NEW k \in 1..Len(reqs')
            PROVE  /\ reqs'[k].tag \in 1..tag
                   /\ \A j \in 1..k : reqs'[j].tag <= reqs'[k].tag
                   /\ srv.op # "none" => srv.tag <= reqs'[k].tag
        <5>1. CASE k \in 1..Len(reqs)
          BY <4>2, <4>3, <5>1
        <5>2. CASE k = Len(reqs) + 1
          <6>1. reqs'[k].tag = tag
            BY <4>1, <4>2, <5>2
          <6>2. \A j \in 1..k : reqs'[j].tag \in 1..tag
            BY <1>3, <4>1, <4>2, <4>3, <5>2
          <6> QED BY <1>2, <1>3, <4>3, <6>1, <6>2
        <5> QED BY <4>2, <5>1, <5>2
      <4> QED BY <4>4
    <3> QED BY <1>1, <3>1, <3>2 DEF Keeps, SendsText, Collects, StartsIdle, StopsIdle, Stops
  <2>3. srv' = srv /\ tag' = tag /\ srv.op \in {"none", "idle", "text"}
        /\ (srv.op # "none" => srv.tag \in 1..tag)
    BY <1>1 DEF Order, Tags
  <2> QED BY <2>1, <2>2, <2>3 DEF Tags
<1> HIDE DEF l
<1>9. IsSeq(reqs')
  <2>1. CASE SendsText(l)
    BY <1>2, <2>1, AppendIs DEF SendsText
  <2>2. CASE ~SendsText(l)
    <3>1. UNCHANGED reqs
      BY <1>1, <2>2 DEF Keeps, Collects, StartsIdle, StopsIdle, Stops
    <3> QED BY <1>2, <3>1
  <2> QED BY <2>1, <2>2
<1>10. IsSeq(seen')
  <2>0. IsSeq(seen \o call.got)
    BY <1>2, ConcatIs
  <2>1. CASE StartsIdle(l)
    BY <2>1, ShortIs DEF StartsIdle
  <2>2. CASE Stops(l)
    <3>1. CASE seen' = seen
      BY <1>2, <3>1
    <3>2. CASE seen' = seen \o call.got
      BY <2>0, <3>2
    <3> QED BY <2>2, <3>1, <3>2 DEF Stops
  <2>3. CASE StopsIdle(l)
    <3>1. seen' = seen \o call.got
      BY <2>3 DEF StopsIdle
    <3> QED BY <1>2, <3>1, ConcatIs
  <2>4. CASE Keeps(l) \/ SendsText(l) \/ Collects(l)
    BY <1>2, <2>4 DEF Keeps, SendsText, Collects
  <2> QED BY <1>1, <2>1, <2>2, <2>3, <2>4
<1>11. IsSeq(call'.got) /\ idling' \in BOOLEAN
       /\ call' = [op |-> call'.op, tag |-> call'.tag, mode |-> call'.mode, got |-> call'.got]
  <2>1. CASE call' = NoCall /\ idling' \in BOOLEAN
    <3>1. call'.got = <<>>
      BY <2>1 DEF NoCall
    <3> QED BY <2>1, <3>1, ShortIs DEF NoCall
  <2>2. CASE Keeps(l)
    BY <1>2, <2>2 DEF Keeps
  <2>3. CASE SendsText(l)
    BY <1>2, <2>3 DEF SendsText
  <2>4. CASE Collects(l)
    <3>1. IsSeq(Append(call.got, l))
      BY <1>2, AppendIs
    <3>2. call' = [op |-> call.op, tag |-> call.tag, mode |-> call.mode, got |-> Append(call.got, l)]
      BY <1>2, <2>4 DEF Collects
    <3>3. idling' = idling
      BY <2>4 DEF Collects
    <3> QED BY <1>2, <3>1, <3>2, <3>3
  <2> QED BY <1>1, <2>1, <2>2, <2>3, <2>4 DEF StartsIdle, StopsIdle, Stops
<1>12. Typed'
  BY <1>1, <1>2, <1>4, <1>5, <1>7, <1>9, <1>10, <1>11 DEF Typed
<1>13. Current'
  <2>1. CASE Keeps(l)
    BY <1>1, <1>6, <2>1 DEF Keeps, Order, Current
  <2>2. CASE SendsText(l)
    <3>1. call' = [op |-> call.op, tag |-> call.tag, mode |-> "complete", got |-> call.got]
          /\ call.op = "text" /\ ~Own(l) /\ UNCHANGED idling
      BY <1>2, <2>2 DEF SendsText, Own, Order, Current
    <3> QED BY <1>1, <1>6, <3>1 DEF Order, Current
  <2>3. CASE Collects(l)
    <3>1. call' = [op |-> call.op, tag |-> call.tag, mode |-> call.mode, got |-> Append(call.got, l)]
          /\ call.op \in {"noop", "done"} /\ ~Own(l) /\ UNCHANGED idling
      BY <1>2, <2>3 DEF Collects, Own, Order, Current
    <3> QED BY <1>1, <1>6, <3>1 DEF Order, Current
  <2>4. CASE StartsIdle(l)
    <3>1. call.op = "idle" /\ call' = NoCall /\ idling' = TRUE /\ ~Own(l) /\ idleTag = tag
      BY <2>4 DEF StartsIdle, Own, Order, Current
    <3> QED BY <1>1, <1>3, <1>6, <3>1 DEF Current, NoCall
  <2>5. CASE call' = NoCall /\ idling' = FALSE
    BY <2>5 DEF Current, NoCall
  <2> QED BY <1>1, <2>1, <2>2, <2>3, <2>4, <2>5 DEF StopsIdle, Stops
<1> QED BY <1>8, <1>12, <1>13 DEF Order

\* A request served, in whichever way.
LEMMA ServeOrder == ASSUME Order, Serve PROVE Order'
<1>1. /\ reqs # <<>> /\ reqs' = Tail(reqs) /\ 1 \in 1..Len(reqs)
      /\ UNCHANGED <<call, tag, tagged, untagged, idleTag, idling, seen>>
      /\ \/ Ignores(reqs[1]) \/ Finishes(reqs[1]) \/ TakesText(reqs[1])
         \/ InvitesTo(reqs[1]) \/ Refuses(reqs[1]) \/ Grants(reqs[1])
  BY ServeForms DEF client
<1>2. Typed
  BY DEF Order
<1>3. /\ IsSeq(reqs') /\ Len(reqs) \in Nat /\ Len(reqs') = Len(reqs) - 1
      /\ \A k \in 1..Len(reqs') : k + 1 \in 1..Len(reqs) /\ reqs'[k] = reqs[k + 1]
  BY <1>1, <1>2, TailIs DEF Typed
<1>4. /\ IsSeq(wire') /\ Len(wire) \in Nat /\ Len(wire') \in Nat
      /\ Len(wire) <= Len(wire')
      /\ \A k \in 1..Len(wire) : wire'[k] = wire[k]
      /\ \A k \in 1..Len(wire') : k > Len(wire) => NewLine(wire'[k], reqs[1])
  BY ServedWire
<1>5. /\ \A k \in 1..Len(reqs) : /\ reqs[k].tag \in 1..tag
                                 /\ \A j \in 1..k : reqs[j].tag <= reqs[k].tag
      /\ srv.op \in {"none", "idle", "text"}
      /\ srv.op # "none" => /\ srv.tag \in 1..tag
                            /\ \A k \in 1..Len(reqs) : srv.tag <= reqs[k].tag
      /\ \A k \in 1..Len(wire) : wire[k].kind = "tagged" =>
           wire[k].tag \in 1..tag /\ wire[k].typ \in {"OK", "NO"}
  BY DEF Order, Tags
<1>6. IsSeq(told')
  <2>1. told' = told \/ told' = <<>>
    BY <1>1 DEF Ignores, Finishes, TakesText, InvitesTo, Refuses, Grants
  <2> QED BY <1>2, <2>1, ShortIs DEF Typed
<1>7. Typed'
  BY <1>1, <1>2, <1>3, <1>4, <1>6 DEF Typed
<1>8. Current'
  BY <1>1 DEF Order, Current
<1>9. ASSUME NEW k \in 1..Len(wire'), wire'[k].kind = "tagged"
      PROVE  wire'[k].tag \in 1..tag /\ wire'[k].typ \in {"OK", "NO"}
  <2>1. CASE k \in 1..Len(wire)
    BY <1>4, <1>5, <1>9, <2>1
  <2>2. CASE k > Len(wire)
    BY <1>1, <1>4, <1>5, <1>9, <2>2 DEF NewLine
  <2> QED BY <1>4, <2>1, <2>2
<1>10. \A k \in 1..Len(reqs') : /\ reqs'[k].tag \in 1..tag
                                /\ \A j \in 1..k : reqs'[j].tag <= reqs'[k].tag
  <2>1. ASSUME NEW k \in 1..Len(reqs'), NEW j \in 1..k
        PROVE  reqs'[j].tag <= reqs'[k].tag
    <3>1. j \in 1..Len(reqs') /\ j + 1 \in 1..(k + 1)
      BY <1>3
    <3> QED BY <1>3, <1>5, <3>1
  <2> QED BY <1>3, <1>5, <2>1
<1>11. srv' = srv \/ srv' = NoServe \/ (srv' = reqs[1] /\ reqs[1].op \in {"idle", "text"})
  BY <1>1 DEF Ignores, Finishes, TakesText, InvitesTo, Refuses, Grants
<1>12. \A k \in 1..Len(reqs') : reqs[1].tag <= reqs'[k].tag
  <2>1. ASSUME NEW k \in 1..Len(reqs')
        PROVE  reqs[1].tag <= reqs'[k].tag
    <3>1. 1 \in 1..(k + 1) /\ k + 1 \in 1..Len(reqs) /\ reqs'[k] = reqs[k + 1]
      BY <1>3
    <3> QED BY <1>5, <3>1
  <2> QED BY <2>1
<1>13. Tags'
  <2>1. CASE srv' = srv
    BY <1>1, <1>3, <1>5, <1>9, <1>10, <2>1 DEF Tags
  <2>2. CASE srv' = NoServe
    BY <1>1, <1>9, <1>10, <2>2 DEF Tags, NoServe
  <2>3. CASE srv' = reqs[1] /\ reqs[1].op \in {"idle", "text"}
    BY <1>1, <1>5, <1>9, <1>10, <1>12, <2>3 DEF Tags
  <2> QED BY <1>11, <2>1, <2>2, <2>3
<1> QED BY <1>7, <1>8, <1>13 DEF Order

-----------------------------------------------------------------------------
(* Calls, checks, notices: every step keeps the books in order.            *)

\* A call is made: a request goes out with a tag of its own.
Calls(op) ==
  /\ call = NoCall /\ ~idling /\ op \in Kinds \cup {"idle"}
  /\ tag' = tag + 1
  /\ call' = [op |-> op, tag |-> tag + 1, mode |-> Modes[op], got |-> <<>>]
  /\ reqs' = Append(reqs, [op |-> op, tag |-> tag + 1])
  /\ tagged' = [t \in 1..(tag + 1) |-> IF t <= tag THEN tagged[t] ELSE "none"]
  /\ op = "idle" => idleTag' = tag + 1
  /\ untagged' = untagged \/ untagged' = <<>>
  /\ UNCHANGED <<wire, idling, seen, result, srv, told, data>>

\* A command is a call.
LEMMA CommandCalls == ASSUME NEW op \in Kinds, Command(op) PROVE Calls(op)
<1>1. op # "idle" /\ op \in Kinds \cup {"idle"}
  BY DEF Kinds
<1>2. untagged' = untagged \/ untagged' = <<>>
  BY DEF Command
<1> QED BY <1>1, <1>2 DEF Command, CanCall, Issue, Calls, server

\* idle() is a call.
LEMMA IdleCalls == ASSUME Idle PROVE Calls("idle")
BY DEF Idle, CanCall, Issue, Calls, server

\* The mode of a call fits what is called.
LEMMA ModeFits ==
  ASSUME NEW op \in Kinds \cup {"idle"}
  PROVE  /\ Modes[op] = "complete" =>
              op \in {"search", "fetch", "select", "capability", "text", "logout"}
         /\ Modes[op] = "invite" => op = "text"
         /\ Modes[op] = "consume" => op \in {"noop", "done"}
         /\ Modes[op] = "idle" => op = "idle"
         /\ op # "none" /\ op # "done"
BY DEF Modes, Kinds

\* A call takes the next tag.
LEMMA CallsOrder == ASSUME Order, NEW op, Calls(op) PROVE Order'
<1>1. /\ call = NoCall /\ ~idling /\ op \in Kinds \cup {"idle"}
      /\ tag' = tag + 1
      /\ call' = [op |-> op, tag |-> tag + 1, mode |-> Modes[op], got |-> <<>>]
      /\ tagged' = [t \in 1..(tag + 1) |-> IF t <= tag THEN tagged[t] ELSE "none"]
      /\ op = "idle" => idleTag' = tag + 1
      /\ UNCHANGED <<wire, idling, seen, srv, told>>
  BY DEF Calls
<1>2. /\ tag \in Nat /\ tagged \in [1..tag -> {"none", "OK", "NO"}]
      /\ IsSeq(wire) /\ IsSeq(reqs) /\ IsSeq(untagged) /\ IsSeq(seen)
      /\ IsSeq(told) /\ idling \in BOOLEAN
  BY DEF Order, Typed
<1>3. PICK r : r.tag = tag + 1 /\ reqs' = Append(reqs, r)
  BY DEF Calls
<1>4. /\ IsSeq(reqs') /\ Len(reqs') = Len(reqs) + 1 /\ Len(reqs) \in Nat
      /\ reqs'[Len(reqs) + 1] = r
      /\ \A k \in 1..Len(reqs) : reqs'[k] = reqs[k]
  BY <1>2, <1>3, AppendIs
<1>5. tagged' \in [1..(tag + 1) -> {"none", "OK", "NO"}] /\ tagged'[tag + 1] = "none"
  BY <1>1, <1>2
<1>6. IsSeq(untagged') /\ IsSeq(<<>>)
  BY <1>2, ShortIs DEF Calls
<1>7. Typed'
  <2>1. call'.op = op /\ call'.tag = tag + 1 /\ call'.mode = Modes[op] /\ call'.got = <<>>
    BY <1>1
  <2> QED BY <1>1, <1>2, <1>4, <1>5, <1>6, <2>1 DEF Typed
<1>8. Current'
  <2>1. call'.op = op /\ call'.tag = tag + 1 /\ call'.mode = Modes[op] /\ call'.got = <<>>
    BY <1>1
  <2>2. tag + 1 # 0
    BY <1>2
  <2> QED BY <1>1, <1>5, <2>1, <2>2, ModeFits DEF Current
<1>9. Tags'
  <2>1. /\ \A k \in 1..Len(reqs) : /\ reqs[k].tag \in 1..tag
                                   /\ \A j \in 1..k : reqs[j].tag <= reqs[k].tag
        /\ srv.op \in {"none", "idle", "text"}
        /\ srv.op # "none" => /\ srv.tag \in 1..tag
                              /\ \A k \in 1..Len(reqs) : srv.tag <= reqs[k].tag
        /\ \A k \in 1..Len(wire) : wire[k].kind = "tagged" =>
             wire[k].tag \in 1..tag /\ wire[k].typ \in {"OK", "NO"}
    BY DEF Order, Tags
  <2>2. ASSUME NEW k \in 1..Len(reqs')
        PROVE  /\ reqs'[k].tag \in 1..tag'
               /\ \A j \in 1..k : reqs'[j].tag <= reqs'[k].tag
               /\ srv.op # "none" => srv.tag <= reqs'[k].tag
    <3>1. CASE k \in 1..Len(reqs)
      <4>1. \A j \in 1..k : j \in 1..Len(reqs) /\ reqs'[j] = reqs[j]
        BY <1>2, <1>4, <3>1
      <4>2. reqs'[k] = reqs[k] /\ reqs[k].tag \in 1..tag
        BY <1>4, <2>1, <3>1
      <4>3. \A j \in 1..k : reqs'[j].tag <= reqs'[k].tag
        BY <2>1, <3>1, <4>1, <4>2
      <4>4. reqs'[k].tag \in 1..tag'
        BY <1>1, <1>2, <4>2
      <4>5. srv.op # "none" => srv.tag <= reqs'[k].tag
        BY <2>1, <3>1, <4>2
      <4> QED BY <4>3, <4>4, <4>5
    <3>2. CASE k = Len(reqs) + 1
      <4>1. reqs'[k].tag = tag + 1
        BY <1>3, <1>4, <3>2
      <4>2. ASSUME NEW j \in 1..k PROVE reqs'[j].tag \in 1..(tag + 1)
        <5>1. CASE j \in 1..Len(reqs)
          BY <1>2, <1>4, <2>1, <5>1
        <5>2. CASE j = Len(reqs) + 1
          BY <1>2, <3>2, <4>1, <5>2
        <5> QED BY <1>4, <3>2, <5>1, <5>2
      <4> QED BY <1>1, <1>2, <2>1, <4>1, <4>2
    <3> QED BY <1>4, <3>1, <3>2
  <2>3. srv.op # "none" => srv.tag \in 1..(tag + 1)
    BY <1>2, <2>1
  <2>4. \A k \in 1..Len(wire) : wire[k].kind = "tagged" =>
             wire[k].tag \in 1..(tag + 1) /\ wire[k].typ \in {"OK", "NO"}
    BY <1>2, <2>1
  <2> QED BY <1>1, <2>1, <2>2, <2>3, <2>4 DEF Tags
<1> QED BY <1>7, <1>8, <1>9 DEF Order

\* idle_done(): a request with the tag of idle().
LEMMA DoneOrder == ASSUME Order, IdleDone PROVE Order'
<1>1. /\ call = NoCall /\ idling
      /\ call' = [op |-> "done", tag |-> idleTag, mode |-> "consume", got |-> <<>>]
      /\ UNCHANGED <<tag, wire, tagged, untagged, idleTag, idling, seen, srv, told>>
  BY DEF IdleDone, server
<1>2. idleTag = tag /\ tag # 0 /\ tagged[tag] = "none"
  BY <1>1 DEF Order, Current
<1>3. PICK r : r.tag = tag /\ reqs' = Append(reqs, r)
  BY <1>2 DEF IdleDone
<1>4. Typed
  BY DEF Order
<1>5. /\ IsSeq(reqs') /\ Len(reqs') = Len(reqs) + 1 /\ Len(reqs) \in Nat
      /\ reqs'[Len(reqs) + 1] = r
      /\ \A k \in 1..Len(reqs) : reqs'[k] = reqs[k]
  BY <1>3, <1>4, AppendIs DEF Typed
<1>6. IsSeq(<<>>)
  BY ShortIs
<1>7. call'.op = "done" /\ call'.tag = tag /\ call'.mode = "consume" /\ call'.got = <<>>
  BY <1>1, <1>2
<1>8. Typed'
  BY <1>1, <1>4, <1>5, <1>6, <1>7 DEF Typed
<1>9. Current'
  BY <1>1, <1>2, <1>7 DEF Current
<1>10. Tags'
  <2>1. /\ \A k \in 1..Len(reqs) : /\ reqs[k].tag \in 1..tag
                                   /\ \A j \in 1..k : reqs[j].tag <= reqs[k].tag
        /\ srv.op \in {"none", "idle", "text"}
        /\ srv.op # "none" => /\ srv.tag \in 1..tag
                              /\ \A k \in 1..Len(reqs) : srv.tag <= reqs[k].tag
        /\ \A k \in 1..Len(wire) : wire[k].kind = "tagged" =>
             wire[k].tag \in 1..tag /\ wire[k].typ \in {"OK", "NO"}
    BY DEF Order, Tags
  <2>2. ASSUME NEW k \in 1..Len(reqs')
        PROVE  /\ reqs'[k].tag \in 1..tag
               /\ \A j \in 1..k : reqs'[j].tag <= reqs'[k].tag
               /\ srv.op # "none" => srv.tag <= reqs'[k].tag
    <3>1. CASE k \in 1..Len(reqs)
      <4>1. \A j \in 1..k : j \in 1..Len(reqs) /\ reqs'[j] = reqs[j]
        BY <1>5, <3>1
      <4> QED BY <1>5, <2>1, <3>1, <4>1
    <3>2. CASE k = Len(reqs) + 1
      <4>1. reqs'[k].tag = tag /\ tag \in 1..tag
        BY <1>2, <1>3, <1>4, <1>5, <3>2 DEF Typed
      <4>2. ASSUME NEW j \in 1..k PROVE reqs'[j].tag \in 1..tag
        <5>1. CASE j \in 1..Len(reqs)
          BY <1>5, <2>1, <5>1
        <5>2. CASE j = Len(reqs) + 1
          BY <3>2, <4>1, <5>2
        <5> QED BY <1>5, <3>2, <5>1, <5>2
      <4> QED BY <2>1, <4>1, <4>2
    <3> QED BY <1>5, <3>1, <3>2
  <2> QED BY <1>1, <2>1, <2>2 DEF Tags
<1> QED BY <1>8, <1>9, <1>10 DEF Order

\* The lines of a prefix and the rest.
LEMMA FirstIs ==
  ASSUME NEW s, NEW n \in 0..Len(s), IsSeq(s)
  PROVE  LET p == SubSeq(s, 1, n) IN
         /\ IsSeq(p) /\ Len(p) = n /\ Len(s) \in Nat
         /\ \A k \in 1..n : p[k] = s[k]
<1>1. PICK S : s \in Seq(S)
  BY DEF IsSeq
<1>2. SubSeq(s, 1, n) \in Seq(S)
  BY <1>1
<1> QED BY <1>1, <1>2 DEF IsSeq

\* What idle_check() comes to.
LEMMA CheckForms ==
  ASSUME Order, IdleCheck
  PROVE  /\ call = NoCall /\ idling /\ result'.op = "check"
         /\ UNCHANGED <<call, tag, reqs, tagged, untagged, idleTag, data, srv, told>>
         /\ \E n \in 1..Len(wire) :
              /\ wire' = SubSeq(wire, n + 1, Len(wire))
              /\ \/ /\ seen' = seen \o SubSeq(wire, 1, n) /\ idling' = TRUE
                    /\ \A k \in 1..n : wire[k].kind = "untagged"
                 \/ UNCHANGED seen /\ idling' = FALSE
<1>1. PICK n \in 1..Len(wire) :
        LET lines == SubSeq(wire, 1, n) IN
         IF \A k \in 1..n : lines[k].kind = "untagged"
         THEN /\ wire' = SubSeq(wire, n + 1, Len(wire))
              /\ seen' = seen \o lines
              /\ result' = [NoResult EXCEPT !.op = "check", !.val = lines]
         ELSE /\ \A k \in 1..(n - 1) : lines[k].kind = "untagged"
              /\ wire' = SubSeq(wire, n + 1, Len(wire))
              /\ seen' = seen
              /\ result' = [NoResult EXCEPT !.op = "check", !.ok = FALSE]
  BY DEF IdleCheck
<1>2. /\ call = NoCall /\ idling /\ idling' = result'.ok
      /\ UNCHANGED <<call, tag, reqs, tagged, untagged, idleTag, data, srv, told>>
  BY DEF IdleCheck, server
<1>3. \A k \in 1..n : SubSeq(wire, 1, n)[k] = wire[k]
  <2>1. n \in 0..Len(wire) /\ IsSeq(wire)
    BY DEF Order, Typed
  <2> QED BY <2>1, FirstIs
<1>4. CASE \A k \in 1..n : SubSeq(wire, 1, n)[k].kind = "untagged"
  <2>1. /\ wire' = SubSeq(wire, n + 1, Len(wire)) /\ seen' = seen \o SubSeq(wire, 1, n)
        /\ result' = [NoResult EXCEPT !.op = "check", !.val = SubSeq(wire, 1, n)]
    BY <1>1, <1>4
  <2>2. result'.op = "check" /\ result'.ok = TRUE
    BY <2>1 DEF NoResult
  <2>3. \A k \in 1..n : wire[k].kind = "untagged"
    BY <1>3, <1>4
  <2> QED BY <1>2, <2>1, <2>2, <2>3
<1>5. CASE ~(\A k \in 1..n : SubSeq(wire, 1, n)[k].kind = "untagged")
  <2>1. /\ wire' = SubSeq(wire, n + 1, Len(wire)) /\ seen' = seen
        /\ result' = [NoResult EXCEPT !.op = "check", !.ok = FALSE]
    BY <1>1, <1>5
  <2>2. result'.op = "check" /\ result'.ok = FALSE
    BY <2>1 DEF NoResult
  <2> QED BY <1>2, <2>1, <2>2
<1> QED BY <1>4, <1>5

\* idle_check() takes lines off the wire only.
LEMMA CheckOrder == ASSUME Order, IdleCheck PROVE Order'
<1>1. /\ call = NoCall /\ idling
      /\ UNCHANGED <<call, tag, reqs, tagged, untagged, idleTag, srv, told>>
      /\ idling' \in BOOLEAN
  BY CheckForms
<1>2. PICK n \in 1..Len(wire) :
        /\ wire' = SubSeq(wire, n + 1, Len(wire))
        /\ seen' = seen \/ seen' = seen \o SubSeq(wire, 1, n)
  BY CheckForms
<1>3. Typed
  BY DEF Order
<1>4. /\ IsSeq(wire') /\ Len(wire) \in Nat /\ Len(wire') = Len(wire) - n
      /\ \A k \in 1..Len(wire') : wire'[k] = wire[n + k]
  BY <1>2, <1>3, RestIs DEF Typed
<1>5. IsSeq(seen')
  <2>1. n \in 0..Len(wire) /\ IsSeq(wire) /\ IsSeq(seen)
    BY <1>3 DEF Typed
  <2>2. IsSeq(SubSeq(wire, 1, n))
    BY <2>1, FirstIs
  <2> QED BY <1>2, <2>1, <2>2, ConcatIs
<1>6. \A k \in 1..Len(wire') : wire'[k].kind = "tagged" =>
        wire'[k].tag \in 1..tag /\ wire'[k].typ \in {"OK", "NO"}
  <2>1. \A k \in 1..Len(wire') : n + k \in 1..Len(wire)
    BY <1>4
  <2> QED BY <1>4, <2>1 DEF Order, Tags
<1>7. Typed'
  BY <1>1, <1>3, <1>4, <1>5 DEF Typed
<1>8. Current'
  <2>1. Current
    BY DEF Order
  <2>2. call.op = "none" /\ call.got = <<>> /\ call.mode = "none"
    BY <1>1 DEF NoCall
  <2> QED BY <1>1, <2>1, <2>2 DEF Current
<1>9. Tags'
  BY <1>1, <1>6 DEF Order, Tags
<1> QED BY <1>7, <1>8, <1>9 DEF Order

\* A call that is given up is no longer under way.
LEMMA TimeoutOrder == ASSUME Order, Timeout PROVE Order'
<1>1. /\ call' = NoCall /\ idling' = FALSE
      /\ UNCHANGED <<tag, reqs, wire, tagged, untagged, idleTag, seen, srv, told>>
  BY DEF Timeout, Fails, Ends, server, Order, Current
<1>2. call'.got = <<>> /\ IsSeq(<<>>)
  BY <1>1, ShortIs DEF NoCall
<1>3. Typed'
  BY <1>1, <1>2 DEF Order, Typed, NoCall
<1> QED BY <1>1, <1>3 DEF Order, Current, Tags, NoCall

\* A notice goes out.
LEMMA UpdateForms ==
  ASSUME Order, Update
  PROVE  \E l : /\ l.kind = "untagged" /\ l.typ = "fetch"
                /\ wire' = Append(wire, l) /\ Grows(1) /\ wire'[Len(wire) + 1] = l
                /\ told' = IF srv.op = "idle" THEN Append(told, l) ELSE told
                /\ UNCHANGED <<connVars, client, reqs, srv>>
<1> DEFINE l == Untagged("fetch", 0, data + 1)
<1>1. /\ Say(<<l>>) /\ told' = IF srv.op = "idle" THEN Append(told, l) ELSE told
      /\ UNCHANGED <<connVars, client, reqs, srv>>
  BY DEF Update
<1>2. l.kind = "untagged" /\ l.typ = "fetch"
  BY DEF Untagged, Line
<1> HIDE DEF l
<1>3. IsSeq(wire)
  BY DEF Order, Typed
<1>4. wire' = Append(wire, l)
  BY <1>1, <1>3, SayOne
<1>5. Grows(1) /\ wire'[Len(wire) + 1] = l
  BY <1>3, <1>4, Adding
<1> QED BY <1>1, <1>2, <1>4, <1>5

\* A notice has no tag.
LEMMA UpdateOrder == ASSUME Order, Update PROVE Order'
<1>1. PICK l : /\ l.kind = "untagged"
               /\ Grows(1) /\ wire'[Len(wire) + 1] = l
               /\ told' = IF srv.op = "idle" THEN Append(told, l) ELSE told
               /\ UNCHANGED <<client, reqs, srv>>
  BY UpdateForms
<1>2. UNCHANGED <<call, tag, reqs, tagged, untagged, idleTag, idling, seen, srv>>
  BY <1>1 DEF client
<1>3. IsSeq(told')
  BY <1>1, AppendIs DEF Order, Typed
<1>4. Typed' /\ Current'
  BY <1>1, <1>2, <1>3 DEF Order, Typed, Current, Grows
<1>5. \A k \in 1..Len(wire') : wire'[k].kind = "tagged" =>
        wire'[k].tag \in 1..tag /\ wire'[k].typ \in {"OK", "NO"}
  <2>1. \A k \in 1..Len(wire') : k \in 1..Len(wire) \/ k = Len(wire) + 1
    BY <1>1 DEF Grows
  <2> QED BY <1>1, <2>1 DEF Grows, Order, Tags
<1> QED BY <1>2, <1>4, <1>5 DEF Order, Tags

\* A session starts with nothing.
Fresh == /\ call = NoCall /\ tag = 0 /\ reqs = <<>> /\ wire = <<>> /\ tagged = <<>>
         /\ untagged = <<>> /\ idling = FALSE /\ seen = <<>> /\ result = NoResult
         /\ srv = NoServe /\ told = <<>>

\* The books of a session that starts.
LEMMA FreshOrder == Fresh => Order
<1> SUFFICES ASSUME Fresh PROVE Order
  OBVIOUS
<1>1. call.got = <<>> /\ IsSeq(<<>>) /\ Len(<<>>) = 0 /\ 1..0 = {}
  <2>1. call.got = <<>>
    BY DEF Fresh, NoCall
  <2>2. 1..0 = {}
    OBVIOUS
  <2> QED BY <2>1, <2>2, ShortIs
<1>2. Typed
  <2>1. tagged \in [1..tag -> {"none", "OK", "NO"}]
    <3>1. <<>> \in [1..0 -> {"none", "OK", "NO"}]
      OBVIOUS
    <3> QED BY <3>1 DEF Fresh
  <2> QED BY <1>1, <2>1 DEF Fresh, Typed, NoCall
<1>3. Current
  BY DEF Fresh, Current, NoCall
<1>4. Tags
  <2>1. Len(wire) = 0 /\ Len(reqs) = 0
    BY <1>1 DEF Fresh
  <2>2. 1..Len(wire) = {} /\ 1..Len(reqs) = {}
    BY <1>1, <2>1
  <2> QED BY <2>2 DEF Fresh, Tags, NoServe
<1> QED BY <1>2, <1>3, <1>4 DEF Order

\* The books stay in order.
LEMMA NextOrder == ASSUME Order, [Next]_vars PROVE Order'
<1>1. CASE UNCHANGED sessVars
  BY <1>1 DEF sessVars, Order, Typed, Current, Tags
<1>2. CASE Capabilities
  BY <1>2 DEF Capabilities, server, Order, Typed, Current, Tags
<1>3. CASE NewClient
  <2>1. Fresh'
    BY <1>3 DEF NewClient, Fresh
  <2> QED BY <2>1, FreshOrder, PTL
<1>4. CASE \E op \in Kinds : Command(op)
  BY <1>4, CommandCalls, CallsOrder
<1>5. CASE Idle
  BY <1>5, IdleCalls, CallsOrder
<1>6. CASE IdleDone \/ IdleCheck \/ Timeout \/ Update \/ Serve \/ Read
  BY <1>6, DoneOrder, CheckOrder, TimeoutOrder, UpdateOrder, ServeOrder, ReadOrder
<1> QED BY <1>1, <1>2, <1>3, <1>4, <1>5, <1>6 DEF Next, vars

-----------------------------------------------------------------------------
(* What is under way with the last tag is what the client is in.           *)

\* What a request with the last tag, or the command with it that the server is
\* in, can be.
Asked == IF idling THEN IF call.op = "done" THEN {"done", "idle"} ELSE {"idle"}
         ELSE IF call.op = "text" THEN {"text", "literal"} ELSE {call.op}

\* What is under way with the last tag is what the client is in.
Matching ==
  (call.op # "none" \/ idling) =>
    /\ \A k \in 1..Len(reqs) : reqs[k].tag = tag => reqs[k].op \in Asked
    /\ srv.op # "none" /\ srv.tag = tag => srv.op \in Asked

\* Nothing else has the tag of a new call.
LEMMA CallsMatching == ASSUME Order, NEW op, Calls(op) PROVE Matching'
<1>1. /\ tag \in Nat /\ tag' = tag + 1 /\ ~idling' /\ call'.op = op /\ srv' = srv
      /\ op \in Kinds \cup {"idle"}
  BY DEF Calls, Order, Typed
<1>2. PICK r : r.tag = tag + 1 /\ r.op = op /\ reqs' = Append(reqs, r)
  BY DEF Calls
<1>3. /\ Len(reqs') = Len(reqs) + 1 /\ Len(reqs) \in Nat /\ reqs'[Len(reqs) + 1] = r
      /\ \A k \in 1..Len(reqs) : reqs'[k] = reqs[k]
  BY <1>2, AppendIs DEF Order, Typed
<1>4. op \in Asked'
  BY <1>1 DEF Asked
<1>5. ASSUME NEW k \in 1..Len(reqs'), reqs'[k].tag = tag'
      PROVE  reqs'[k].op \in Asked'
  <2>1. CASE k \in 1..Len(reqs)
    <3>1. reqs'[k].tag \in 1..tag
      BY <1>3, <2>1 DEF Order, Tags
    <3> QED BY <1>1, <1>5, <3>1
  <2>2. CASE k = Len(reqs) + 1
    BY <1>2, <1>3, <1>4, <2>2
  <2> QED BY <1>3, <2>1, <2>2
<1>6. srv.op # "none" => srv.tag # tag'
  BY <1>1 DEF Order, Tags
<1> QED BY <1>1, <1>5, <1>6 DEF Matching

\* DONE goes with the tag of idle().
LEMMA DoneMatching == ASSUME Order, Matching, IdleDone PROVE Matching'
<1>1. /\ call = NoCall /\ idling /\ idling' /\ call'.op = "done" /\ UNCHANGED <<tag, srv>>
  BY DEF IdleDone, server
<1>2. PICK r : r.op = "done" /\ reqs' = Append(reqs, r)
  BY DEF IdleDone
<1>3. /\ Len(reqs') = Len(reqs) + 1 /\ Len(reqs) \in Nat /\ reqs'[Len(reqs) + 1] = r
      /\ \A k \in 1..Len(reqs) : reqs'[k] = reqs[k]
  BY <1>2, AppendIs DEF Order, Typed
<1>4. Asked = {"idle"} /\ Asked' = {"done", "idle"}
  BY <1>1 DEF Asked, NoCall
<1>5. ASSUME NEW k \in 1..Len(reqs'), reqs'[k].tag = tag'
      PROVE  reqs'[k].op \in Asked'
  <2>1. CASE k \in 1..Len(reqs)
    BY <1>1, <1>3, <1>4, <1>5, <2>1 DEF Matching
  <2>2. CASE k = Len(reqs) + 1
    BY <1>2, <1>3, <1>4, <2>2
  <2> QED BY <1>3, <2>1, <2>2
<1> QED BY <1>1, <1>4, <1>5 DEF Matching

\* A call goes on, or ends.
LEMMA ReadMatching == ASSUME Order, Matching, Read PROVE Matching'
<1> DEFINE l == wire[1]
<1>1. /\ call.op # "none" /\ UNCHANGED <<tag, srv>>
      /\ \/ Keeps(l) \/ SendsText(l) \/ Collects(l)
         \/ StartsIdle(l) \/ StopsIdle(l) \/ Stops(l)
  BY ReadForms
<1> HIDE DEF l
<1>2. /\ \A k \in 1..Len(reqs) : reqs[k].tag = tag => reqs[k].op \in Asked
      /\ srv.op # "none" /\ srv.tag = tag => srv.op \in Asked
  BY <1>1 DEF Matching
<1>3. call = [op |-> call.op, tag |-> call.tag, mode |-> call.mode, got |-> call.got]
  BY DEF Order, Typed
<1>4. CASE Keeps(l)
  BY <1>1, <1>2, <1>4 DEF Keeps, Matching, Asked
<1>5. CASE SendsText(l)
  <2>1. call'.op = call.op /\ call.op = "text" /\ ~idling /\ ~idling'
    BY <1>3, <1>5 DEF SendsText, Order, Current
  <2>2. Asked' = {"text", "literal"} /\ Asked = Asked'
    BY <2>1 DEF Asked
  <2>3. PICK r : r.op = "literal" /\ reqs' = Append(reqs, r)
    BY <1>5 DEF SendsText
  <2>4. /\ Len(reqs') = Len(reqs) + 1 /\ Len(reqs) \in Nat /\ reqs'[Len(reqs) + 1] = r
        /\ \A k \in 1..Len(reqs) : reqs'[k] = reqs[k]
    BY <2>3, AppendIs DEF Order, Typed
  <2>5. ASSUME NEW k \in 1..Len(reqs'), reqs'[k].tag = tag'
        PROVE  reqs'[k].op \in Asked'
    <3>1. CASE k \in 1..Len(reqs)
      BY <1>1, <1>2, <2>2, <2>4, <2>5, <3>1
    <3>2. CASE k = Len(reqs) + 1
      BY <2>2, <2>3, <2>4, <3>2
    <3> QED BY <2>4, <3>1, <3>2
  <2> QED BY <1>1, <1>2, <2>2, <2>5 DEF Matching
<1>6. CASE Collects(l)
  <2>1. call'.op = call.op /\ idling' = idling /\ reqs' = reqs
    BY <1>3, <1>6 DEF Collects
  <2>2. Asked' = Asked
    BY <2>1 DEF Asked
  <2> QED BY <1>1, <1>2, <2>1, <2>2 DEF Matching
<1>7. CASE StartsIdle(l)
  <2>1. /\ call.op = "idle" /\ ~idling /\ call'.op = "none" /\ idling' = TRUE
        /\ reqs' = reqs
    BY <1>1, <1>7 DEF StartsIdle, NoCall, Order, Current
  <2>2. Asked' = Asked
    BY <2>1 DEF Asked
  <2> QED BY <1>1, <1>2, <2>1, <2>2 DEF Matching
<1>8. CASE StopsIdle(l) \/ Stops(l)
  <2>1. call'.op = "none" /\ ~idling'
    BY <1>8 DEF StopsIdle, Stops, NoCall
  <2> QED BY <2>1 DEF Matching
<1> QED BY <1>1, <1>4, <1>5, <1>6, <1>7, <1>8

\* What the server turns to was requested.
LEMMA ServeMatching == ASSUME Order, Matching, Serve PROVE Matching'
<1>1. /\ reqs # <<>> /\ reqs' = Tail(reqs) /\ 1 \in 1..Len(reqs)
      /\ UNCHANGED <<call, tag, idling>>
      /\ \/ Ignores(reqs[1]) \/ Finishes(reqs[1]) \/ TakesText(reqs[1])
         \/ InvitesTo(reqs[1]) \/ Refuses(reqs[1]) \/ Grants(reqs[1])
  BY ServeForms DEF client
<1>2. /\ \A k \in 1..Len(reqs') : k + 1 \in 1..Len(reqs) /\ reqs'[k] = reqs[k + 1]
  BY <1>1, TailIs DEF Order, Typed
<1>3. srv' = srv \/ srv' = NoServe \/ srv' = reqs[1]
  BY <1>1 DEF Ignores, Finishes, TakesText, InvitesTo, Refuses, Grants
<1>4. Asked' = Asked
  BY <1>1 DEF Asked
<1> QED BY <1>1, <1>2, <1>3, <1>4 DEF Matching, NoServe

\* Every step.
LEMMA NextMatching == ASSUME Order, Matching, [Next]_vars PROVE Matching'
<1>1. CASE UNCHANGED sessVars
  BY <1>1 DEF sessVars, Matching, Asked
<1>2. CASE Capabilities
  BY <1>2 DEF Capabilities, server, Matching, Asked
<1>3. CASE NewClient
  BY <1>3 DEF NewClient, Matching, NoCall
<1>4. CASE \E op \in Kinds : Command(op)
  BY <1>4, CommandCalls, CallsMatching
<1>5. CASE Idle
  BY <1>5, IdleCalls, CallsMatching
<1>6. CASE IdleCheck
  <2>1. UNCHANGED <<call, tag, reqs, srv>> /\ call.op = "none" /\ idling
    BY <1>6, CheckForms DEF NoCall
  <2>2. idling' => idling' = TRUE
    BY <1>6, NextOrder DEF Order, Typed, Next
  <2> QED BY <2>1, <2>2 DEF Matching, Asked
<1>7. CASE Timeout
  <2>1. call'.op = "none" /\ ~idling'
    BY <1>7 DEF Timeout, Fails, Ends, NoCall, Order, Current
  <2> QED BY <2>1 DEF Matching
<1>8. CASE Update
  BY <1>8 DEF Update, client, Matching, Asked
<1>9. CASE IdleDone \/ Serve \/ Read
  BY <1>9, DoneMatching, ServeMatching, ReadMatching
<1> QED BY <1>1, <1>2, <1>3, <1>4, <1>5, <1>6, <1>7, <1>8, <1>9 DEF Next, vars

-----------------------------------------------------------------------------
(* Right before its completion comes the answer to a search or fetch.      *)

\* The server's answer to the search or fetch under way, as it was at v.
IsAnswer(l, v) ==
  /\ l.kind = "untagged" /\ l.tag = tag /\ l.val = v
  /\ l.typ = IF call.op = "fetch" THEN "fetch" ELSE "search"

\* Success of the call under way.
Succeeds(l) == Own(l) /\ l.typ = "OK"

\* Right before the completion of a search or fetch comes the answer to it.
Answered ==
  call.op \in {"search", "text", "fetch"} =>
    \A k \in 1..Len(wire) : Succeeds(wire[k]) =>
      IF k = 1 THEN untagged # <<>> /\ IsAnswer(untagged[Len(untagged)], wire[k].val)
      ELSE IsAnswer(wire[k - 1], wire[k].val)

\* Nothing on the wire completes a new call.
LEMMA CallsAnswered == ASSUME Order, NEW op, Calls(op) PROVE Answered'
<1>1. tag \in Nat /\ tag' = tag + 1 /\ wire' = wire
  BY DEF Calls, Order, Typed
<1>2. \A k \in 1..Len(wire) : ~Succeeds(wire[k])'
  <2>1. ASSUME NEW k \in 1..Len(wire), wire[k].kind = "tagged"
        PROVE  wire[k].tag # tag + 1
    BY <1>1, <2>1 DEF Order, Tags
  <2> QED BY <1>1, <2>1 DEF Succeeds, Own
<1> QED BY <1>1, <1>2 DEF Answered, Succeeds, Own

\* An answer is read before its completion.
LEMMA ReadAnswered == ASSUME Order, Answered, Read PROVE Answered'
<1>0. PICK l : l = wire[1]
  OBVIOUS
<1>1. /\ wire # <<>> /\ wire' = Tail(wire) /\ tag' = tag
      /\ \/ Keeps(l) \/ SendsText(l) \/ Collects(l)
         \/ StartsIdle(l) \/ StopsIdle(l) \/ Stops(l)
  BY <1>0, ReadForms
<1>2. CASE Collects(l) \/ StartsIdle(l) \/ StopsIdle(l) \/ Stops(l)
  <2>1. call'.op \notin {"search", "text", "fetch"}
    <3>1. CASE Collects(l)
      BY <3>1 DEF Collects, Order, Typed, Current
    <3>2. CASE StartsIdle(l) \/ StopsIdle(l) \/ Stops(l)
      BY <3>2 DEF StartsIdle, StopsIdle, Stops, NoCall
    <3> QED BY <1>2, <3>1, <3>2
  <2> QED BY <2>1 DEF Answered
<1>3. CASE Keeps(l) \/ SendsText(l)
  <2>1. call'.op = call.op /\ untagged' = Queued(l)
    BY <1>3 DEF Keeps, SendsText, Order, Typed
  <2>2. SUFFICES ASSUME call.op \in {"search", "text", "fetch"},
                        NEW k \in 1..Len(wire'), Succeeds(wire'[k])
                 PROVE  IF k = 1 THEN untagged' # <<>> /\ IsAnswer(untagged'[Len(untagged')], wire'[k].val)
                        ELSE IsAnswer(wire'[k - 1], wire'[k].val)
    BY <1>1, <2>1 DEF Answered, IsAnswer, Succeeds, Own
  <2>3. /\ Len(wire') = Len(wire) - 1 /\ Len(wire) \in Nat
        /\ \A j \in 1..Len(wire') : wire'[j] = wire[j + 1]
    BY <1>1, TailIs DEF Order, Typed
  <2>4. k + 1 \in 1..Len(wire) /\ k + 1 # 1 /\ (k + 1) - 1 = k /\ wire'[k] = wire[k + 1]
    BY <2>3
  <2>5. IsAnswer(wire[k], wire[k + 1].val)
    BY <2>2, <2>4 DEF Answered
  <2>6. CASE k = 1
    <3>1. l.kind = "untagged"
      BY <1>0, <2>5, <2>6 DEF IsAnswer
    <3>2. untagged' = Append(untagged, l)
      BY <2>1, <3>1 DEF Queued
    <3>3. untagged' # <<>> /\ untagged'[Len(untagged')] = l
      <4>1. PICK S : untagged \in Seq(S)
        BY DEF Order, Typed, IsSeq
      <4>2. untagged \in Seq(S \cup {l})
        BY <4>1
      <4> QED BY <3>2, <4>2
    <3> QED BY <1>0, <2>4, <2>5, <2>6, <3>3
  <2>7. CASE k # 1
    <3>1. k - 1 \in 1..Len(wire') /\ (k - 1) + 1 = k
      BY <2>3, <2>7
    <3>2. wire'[k - 1] = wire[k]
      BY <2>3, <3>1
    <3> QED BY <2>4, <2>5, <2>7, <3>2
  <2> QED BY <2>6, <2>7
<1> QED BY <1>1, <1>2, <1>3

\* What a search or fetch under way is completed with: its answer before it.
LEMMA ServedAnswer ==
  ASSUME Order, Matching, Serve, call.op \in {"search", "text", "fetch"},
         NEW k \in 1..Len(wire'), k \notin 1..Len(wire), Succeeds(wire'[k])
  PROVE  k # 1 /\ IsAnswer(wire'[k - 1], wire'[k].val)
<1>0. PICK r : r = reqs[1]
  OBVIOUS
<1>1. /\ 1 \in 1..Len(reqs)
      /\ \/ Ignores(r) \/ Finishes(r) \/ TakesText(r)
         \/ InvitesTo(r) \/ Refuses(r) \/ Grants(r)
  BY <1>0, ServeForms
<1>2. /\ r.tag \in 1..tag /\ tag \in Nat /\ IsSeq(wire) /\ Len(wire) \in Nat
      /\ srv.op # "none" => srv.tag \in 1..tag /\ srv.tag <= r.tag
  BY <1>0, <1>1, ConcatIs DEF Order, Typed, Tags
<1>3. /\ ~idling
      /\ Asked = IF call.op = "text" THEN {"text", "literal"} ELSE {call.op}
      /\ r.tag = tag => r.op \in Asked
      /\ srv.op # "none" /\ srv.tag = tag => srv.op \in Asked
  <2>1. ~idling
    BY DEF Order, Current
  <2> QED BY <1>0, <1>1, <2>1 DEF Asked, Matching
<1>4. ASSUME NEW c, wire' = wire \o (Answers(r) \o <<c>>), c.val = data,
             r.op \in {"search", "literal", "fetch"},
             r.tag = tag, r.op = "fetch" <=> call.op = "fetch"
      PROVE  k # 1 /\ IsAnswer(wire'[k - 1], wire'[k].val)
  <2>1. /\ Grows(2) /\ wire'[Len(wire) + 2] = c
        /\ AnswerTo(wire'[Len(wire) + 1], r)
    BY <1>2, <1>4, Answering
  <2>2. ~Succeeds(wire'[Len(wire) + 1])
    BY <2>1 DEF AnswerTo, Succeeds, Own
  <2>3. k \in {Len(wire) + 1, Len(wire) + 2}
    BY <2>1 DEF Grows
  <2>4. k = Len(wire) + 2
    BY <2>2, <2>3
  <2>5. k # 1 /\ k - 1 = Len(wire) + 1 /\ wire'[k].val = data
    BY <1>2, <1>4, <2>1, <2>4
  <2> QED BY <1>4, <2>1, <2>5 DEF AnswerTo, IsAnswer
<1>5. ASSUME NEW x, wire' = Append(wire, x)
      PROVE  Succeeds(x)
  <2>1. Grows(1) /\ wire'[Len(wire) + 1] = x
    BY <1>2, <1>5, Adding
  <2>2. k = Len(wire) + 1
    BY <2>1 DEF Grows
  <2> QED BY <2>1, <2>2
<1>6. CASE Ignores(r)
  BY <1>6 DEF Ignores
<1>7. CASE Finishes(r)
  <2>1. CASE srv.op = "idle" /\ wire' = Append(wire, Completes(srv.tag, TRUE))
    <3>0. Own(Completes(srv.tag, TRUE))
      BY <1>5, <2>1 DEF Succeeds
    <3>1. srv.tag = tag
      BY <3>0, CompletionIs DEF Own
    <3> QED BY <1>3, <2>1, <3>1
  <2>2. CASE wire' = Append(wire, Completes(srv.tag, FALSE))
    <3>1. Completes(srv.tag, FALSE).typ = "OK"
      BY <1>5, <2>2 DEF Succeeds
    <3> QED BY <3>1, CompletionIs
  <2> QED BY <1>7, <2>1, <2>2 DEF Finishes
<1>8. CASE Refuses(r)
  <2>1. Completes(r.tag, FALSE).typ = "OK"
    BY <1>5, <1>8 DEF Succeeds, Refuses
  <2> QED BY <2>1, CompletionIs
<1>9. CASE InvitesTo(r)
  <2>1. Own(Invites(r.tag))
    BY <1>5, <1>9 DEF Succeeds, InvitesTo
  <2> QED BY <2>1 DEF Own, Invites, Line
<1>10. ASSUME NEW c, wire' = wire \o (Answers(r) \o <<c>>)
       PROVE  wire'[k] = c
  <2>1. CASE Grows(1) /\ wire'[Len(wire) + 1] = c
    <3>1. k = Len(wire) + 1
      BY <2>1 DEF Grows
    <3> QED BY <2>1, <3>1
  <2>2. CASE Grows(2) /\ wire'[Len(wire) + 2] = c /\ AnswerTo(wire'[Len(wire) + 1], r)
    <3>1. k \in {Len(wire) + 1, Len(wire) + 2}
      BY <2>2 DEF Grows
    <3>2. k # Len(wire) + 1
      BY <2>2 DEF AnswerTo, Succeeds, Own
    <3> QED BY <2>2, <3>1, <3>2
  <2> QED BY <1>2, <1>10, <2>1, <2>2, Answering
<1>11. CASE TakesText(r)
  <2>1. /\ srv.op = "text" /\ r.op = "literal"
        /\ wire' = wire \o (Answers(r) \o <<Completes(srv.tag, TRUE)>>)
    BY <1>11 DEF TakesText
  <2>2. srv.tag = tag
    <3>1. wire'[k] = Completes(srv.tag, TRUE)
      BY <1>10, <2>1
    <3>2. Own(Completes(srv.tag, TRUE))
      BY <3>1 DEF Succeeds
    <3> QED BY <3>2, CompletionIs DEF Own
  <2>3. call.op = "text" /\ r.tag = tag
    BY <1>2, <1>3, <2>1, <2>2
  <2>4. Completes(srv.tag, TRUE).val = data
    BY CompletionIs
  <2> QED BY <1>4, <2>1, <2>3, <2>4
<1>12. CASE Grants(r)
  <2>1. /\ r.op \notin {"idle", "text", "done", "literal"}
        /\ wire' = wire \o (Answers(r) \o <<Completes(r.tag, TRUE)>>)
    BY <1>12 DEF Grants
  <2>2. r.tag = tag
    <3>1. wire'[k] = Completes(r.tag, TRUE)
      BY <1>10, <2>1
    <3>2. Own(Completes(r.tag, TRUE))
      BY <3>1 DEF Succeeds
    <3> QED BY <3>2, CompletionIs DEF Own
  <2>3. call.op # "text" /\ r.op = call.op
    BY <1>3, <2>1, <2>2
  <2>4. Completes(r.tag, TRUE).val = data
    BY CompletionIs
  <2>5. r.op \in {"search", "fetch"}
    BY <2>3
  <2> QED BY <1>4, <2>1, <2>2, <2>3, <2>4, <2>5
<1> QED BY <1>1, <1>6, <1>7, <1>8, <1>9, <1>11, <1>12

\* The server completes with the answer before it.
LEMMA ServeAnswered == ASSUME Order, Matching, Answered, Serve PROVE Answered'
<1>1. UNCHANGED <<call, tag, untagged>>
  BY ServeForms DEF client
<1>2. SUFFICES ASSUME call.op \in {"search", "text", "fetch"},
                      NEW k \in 1..Len(wire'), Succeeds(wire'[k])
               PROVE  IF k = 1 THEN untagged # <<>> /\ IsAnswer(untagged[Len(untagged)], wire'[k].val)
                      ELSE IsAnswer(wire'[k - 1], wire'[k].val)
  BY <1>1 DEF Answered, IsAnswer, Succeeds, Own
<1>3. CASE k \in 1..Len(wire)
  <2>1. wire'[k] = wire[k] /\ Len(wire) \in Nat
    BY <1>3, ServedWire
  <2>2. k # 1 => k - 1 \in 1..Len(wire)
    BY <1>3, <2>1
  <2>3. k # 1 => wire'[k - 1] = wire[k - 1]
    BY <2>2, ServedWire
  <2> QED BY <1>2, <1>3, <2>1, <2>3 DEF Answered
<1>4. CASE k \notin 1..Len(wire)
  BY <1>2, <1>4, ServedAnswer
<1> QED BY <1>3, <1>4

\* A notice comes after what is on the wire.
LEMMA UpdateAnswered == ASSUME Order, Answered, Update PROVE Answered'
<1>1. PICK l : /\ l.kind = "untagged"
               /\ Grows(1) /\ wire'[Len(wire) + 1] = l
               /\ UNCHANGED client
  BY UpdateForms
<1>2. UNCHANGED <<call, tag, untagged>>
  BY <1>1 DEF client
<1>3. SUFFICES ASSUME call.op \in {"search", "text", "fetch"},
                      NEW k \in 1..Len(wire'), Succeeds(wire'[k])
               PROVE  IF k = 1 THEN untagged # <<>> /\ IsAnswer(untagged[Len(untagged)], wire'[k].val)
                      ELSE IsAnswer(wire'[k - 1], wire'[k].val)
  BY <1>2 DEF Answered, IsAnswer, Succeeds, Own
<1>4. k # Len(wire) + 1
  BY <1>1, <1>3 DEF Succeeds, Own
<1>5. k \in 1..Len(wire) /\ wire'[k] = wire[k]
  BY <1>1, <1>4 DEF Grows
<1>6. k # 1 => k - 1 \in 1..Len(wire) /\ wire'[k - 1] = wire[k - 1]
  BY <1>1, <1>5 DEF Grows
<1> QED BY <1>3, <1>5, <1>6 DEF Answered

\* Every step.
LEMMA NextAnswered == ASSUME Order, Matching, Answered, [Next]_vars PROVE Answered'
<1>1. CASE UNCHANGED sessVars
  BY <1>1 DEF sessVars, Answered, IsAnswer, Succeeds, Own
<1>2. CASE Capabilities
  BY <1>2 DEF Capabilities, Answered, IsAnswer, Succeeds, Own
<1>3. CASE NewClient \/ Timeout
  <2>1. call' = NoCall
    BY <1>3 DEF NewClient, Timeout, Fails, Ends
  <2> QED BY <2>1 DEF Answered, NoCall
<1>4. CASE \E op \in Kinds : Command(op)
  BY <1>4, CommandCalls, CallsAnswered
<1>5. CASE Idle
  BY <1>5, IdleCalls, CallsAnswered
<1>6. CASE IdleDone \/ IdleCheck
  <2>1. call'.op \notin {"search", "text", "fetch"}
    <3>1. CASE IdleDone
      BY <3>1 DEF IdleDone
    <3>2. CASE IdleCheck
      <4>1. call' = call /\ call = NoCall
        BY <3>2, CheckForms
      <4> QED BY <4>1 DEF NoCall
    <3> QED BY <1>6, <3>1, <3>2
  <2> QED BY <2>1 DEF Answered
<1>7. CASE Update \/ Serve \/ Read
  BY <1>7, UpdateAnswered, ServeAnswered, ReadAnswered
<1> QED BY <1>1, <1>2, <1>3, <1>4, <1>5, <1>6, <1>7 DEF Next, vars

-----------------------------------------------------------------------------
(* The results of searches and fetches.                                    *)

\* The results that are taken from the untagged responses.
Took(typ) ==
  /\ Succeeds(wire[1]) /\ result'.op = call.op /\ result'.of = tag
  /\ OfType(untagged, typ) # <<>>
TookSearch == /\ call.op \in {"search", "text"} /\ Took("search")
              /\ Len(OfType(untagged, "search")) = 1
              /\ result'.val = OfType(untagged, "search")
TookFetch == /\ call.op = "fetch" /\ Took("fetch")
             /\ result'.val = Merged(OfType(untagged, "fetch"))
             /\ result'.asked = wire[1].val
TookCaps == /\ call.op = "capability" /\ Took("capability")
            /\ result'.val = OfType(untagged, "capability")[1].val

\* The result of a call that ends.
LEMMA EndsWith ==
  ASSUME NEW op, NEW ok, NEW of, NEW val, NEW asked, Ends(op, ok, of, val, asked)
  PROVE  /\ call' = NoCall /\ result'.op = op /\ result'.ok = ok /\ result'.of = of
         /\ result'.val = val /\ result'.asked = asked
BY DEF Ends

\* The result of a call that fails.
LEMMA FailsWith ==
  ASSUME Fails
  PROVE  call' = NoCall /\ result'.op = call.op /\ result'.ok = FALSE
BY EndsWith DEF Fails

\* What a line read makes of the result.
LEMMA ReadResult ==
  ASSUME Order, Read
  PROVE  \/ UNCHANGED result
         \/ result'.ok = FALSE
         \/ result'.op \in {"idle", "noop", "done", "logout", "select"}
         \/ TookSearch \/ TookFetch \/ TookCaps
<1>0. PICK l : l = wire[1]
  OBVIOUS
<1>1. /\ wire # <<>> /\ call # NoCall
      /\ \/ ReadComplete(Head(wire)) \/ ReadInvite(Head(wire))
         \/ ReadConsume(Head(wire)) \/ ReadIdle(Head(wire))
  BY DEF Read
<1>2. Head(wire) = l /\ 1 \in 1..Len(wire)
  BY <1>0, <1>1, TailIs DEF Order, Typed
<1>3. call.op # "none" /\ call.tag = tag
  BY <1>1 DEF Order, Current
<1>4. CASE ReadInvite(l)
  BY <1>4, FailsWith DEF ReadInvite
<1>5. CASE ReadIdle(l)
  <2>1. CASE l.kind = "continuation"
    <3>1. result' = [NoResult EXCEPT !.op = "idle", !.of = call.tag]
      BY <1>5, <2>1 DEF ReadIdle
    <3>2. result'.op = "idle"
      BY <3>1 DEF NoResult
    <3> QED BY <3>2
  <2>2. CASE l.kind # "continuation"
    BY <1>5, <2>2, FailsWith DEF ReadIdle
  <2> QED BY <2>1, <2>2
<1>6. CASE ReadConsume(l)
  <2>1. call.op \in {"noop", "done"}
    BY <1>6 DEF ReadConsume, Order, Current
  <2>2. \/ Ends(call.op, l.typ = "OK", call.tag, call.got, 0)
        \/ UNCHANGED result \/ Fails
    BY <1>6 DEF ReadConsume
  <2>3. CASE Ends(call.op, l.typ = "OK", call.tag, call.got, 0)
    <3>1. result'.op = call.op
      BY <2>3, EndsWith, Zenon
    <3> QED BY <2>1, <3>1
  <2> QED BY <2>2, <2>3, FailsWith
<1>7. CASE ReadComplete(l)
  <2>1. (Filed(l)[call.tag] # "none") <=> Own(l)
    BY <1>0, <1>2, <1>3, OwnEnds
  <2>2. CASE ~Own(l)
    BY <1>7, <2>1, <2>2 DEF ReadComplete
  <2>3. CASE Own(l)
    <3>1. Complete(l.typ, l.val, untagged)
      BY <1>7, <2>1, <2>3 DEF ReadComplete, Queued, Own
    <3>2. /\ call.op \in {"search", "fetch", "select", "capability", "text", "logout"}
          /\ l.typ \in {"OK", "NO"}
      <4>1. call.mode = "complete"
        BY <1>7 DEF ReadComplete
      <4> QED BY <1>0, <1>2, <2>3, <4>1 DEF Own, Order, Current, Tags
    <3>3. CASE call.op = "logout"
      <4>1. Ends("logout", l.typ = "OK", call.tag, <<>>, 0)
        BY <3>1, <3>3 DEF Complete
      <4>2. result'.op = "logout"
        BY <4>1, EndsWith, Zenon
      <4> QED BY <4>2
    <3>4. CASE call.op # "logout" /\ l.typ = "NO"
      <4>1. Fails
        BY <3>1, <3>4 DEF Complete
      <4> QED BY <4>1, FailsWith
    <3>5. CASE call.op \in {"search", "text"} /\ l.typ = "OK"
      <4> DEFINE mine == OfType(untagged, "search")
      <4>1. IF OneList(mine) THEN Ends(call.op, TRUE, call.tag, mine, 0) ELSE Fails
        BY <3>1, <3>5 DEF Complete
      <4> HIDE DEF mine
      <4>2. CASE OneList(mine)
        <5>1. Len(mine) = 1 /\ mine # <<>>
          BY <4>2, ShortIs DEF OneList
        <5>2. result'.op = call.op /\ result'.of = call.tag /\ result'.val = mine
          BY <4>1, <4>2, EndsWith, Zenon
        <5> QED BY <1>0, <1>3, <2>3, <3>5, <5>1, <5>2
                DEF TookSearch, Took, Succeeds, mine
      <4> QED BY <4>1, <4>2, FailsWith
    <3>6. CASE call.op = "fetch" /\ l.typ = "OK"
      <4> DEFINE mine == OfType(untagged, "fetch")
      <4>0. mine = OfType(untagged, IF call.op = "text" THEN "search" ELSE call.op)
        BY <3>6
      <4> HIDE DEF mine
      <4>1. /\ mine = <<>> => Fails
            /\ mine # <<>> => Ends("fetch", TRUE, call.tag, Merged(mine), l.val)
        BY <3>1, <3>6, <4>0 DEF Complete
      <4>2. CASE mine # <<>>
        <5>0. Ends("fetch", TRUE, call.tag, Merged(mine), l.val)
          BY <4>1, <4>2
        <5>1. /\ result'.op = "fetch" /\ result'.of = call.tag
              /\ result'.val = Merged(mine) /\ result'.asked = l.val
          BY <5>0 DEF Ends
        <5> QED BY <1>0, <1>3, <2>3, <3>6, <4>2, <5>1
                DEF TookFetch, Took, Succeeds, mine
      <4> QED BY <4>1, <4>2, FailsWith
    <3>7. CASE call.op = "capability" /\ l.typ = "OK"
      <4> DEFINE mine == OfType(untagged, "capability")
      <4>0. mine = OfType(untagged, IF call.op = "text" THEN "search" ELSE call.op)
        BY <3>7
      <4> HIDE DEF mine
      <4>1. /\ mine = <<>> => Fails
            /\ mine # <<>> => Ends("capability", TRUE, call.tag, mine[1].val, 0)
        BY <3>1, <3>7, <4>0 DEF Complete
      <4>2. CASE mine # <<>>
        <5>0. Ends("capability", TRUE, call.tag, mine[1].val, 0)
          BY <4>1, <4>2
        <5>1. /\ result'.op = "capability" /\ result'.of = call.tag
              /\ result'.val = mine[1].val
          BY <5>0 DEF Ends
        <5> QED BY <1>0, <1>3, <2>3, <3>7, <4>2, <5>1
                DEF TookCaps, Took, Succeeds, mine
      <4> QED BY <4>1, <4>2, FailsWith
    <3>8. CASE call.op = "select" /\ l.typ = "OK"
      <4>1. Ends("select", TRUE, call.tag, OfType(untagged, "exists"), 0)
        BY <3>1, <3>8 DEF Complete
      <4>2. result'.op = "select"
        BY <4>1, EndsWith, Zenon
      <4> QED BY <4>2
    <3> QED BY <3>2, <3>3, <3>4, <3>5, <3>6, <3>7, <3>8
  <2> QED BY <2>2, <2>3
<1> QED BY <1>1, <1>2, <1>4, <1>5, <1>6, <1>7

\* What the other steps make of the result.
LEMMA OtherResult ==
  ASSUME Order, [Next]_vars, ~Read
  PROVE  \/ UNCHANGED result
         \/ result'.ok = FALSE
         \/ result'.op \in {"none", "check"}
         \/ Capabilities
<1>1. CASE UNCHANGED sessVars
  BY <1>1 DEF sessVars
<1>2. CASE NewClient
  BY <1>2 DEF NewClient, NoResult
<1>3. CASE \E op \in Kinds : Command(op)
  BY <1>3 DEF Command
<1>4. CASE Idle \/ IdleDone
  BY <1>4 DEF Idle, IdleDone
<1>5. CASE IdleCheck
  BY <1>5, CheckForms
<1>6. CASE Timeout
  BY <1>6, FailsWith DEF Timeout
<1>7. CASE Serve \/ Update
  BY <1>7 DEF Serve, Update, client
<1> QED BY <1>1, <1>2, <1>3, <1>4, <1>5, <1>6, <1>7 DEF Next, vars

\* What capabilities() returns without a question.
LEMMA CapabilitiesResult ==
  ASSUME Capabilities
  PROVE  result'.op = "capability" /\ result'.val = KnownCaps
<1>1. result' = [NoResult EXCEPT !.op = "capability", !.val = KnownCaps]
  BY DEF Capabilities
<1> QED BY <1>1 DEF NoResult

\* A successful search or fetch has the answer to it last.
LEMMA LastIsAnswer ==
  ASSUME Order, Answered, call.op \in {"search", "text", "fetch"}, wire # <<>>,
         Succeeds(wire[1]),
         NEW typ, typ = IF call.op = "fetch" THEN "fetch" ELSE "search"
  PROVE  LET mine == OfType(untagged, typ) IN
         mine # <<>> /\ IsAnswer(mine[Len(mine)], wire[1].val)
<1>1. 1 \in 1..Len(wire) /\ IsSeq(untagged)
  BY TailIs DEF Order, Typed
<1>2. untagged # <<>> /\ IsAnswer(untagged[Len(untagged)], wire[1].val)
  BY <1>1 DEF Answered
<1>3. untagged[Len(untagged)].typ \in {typ}
  BY <1>2 DEF IsAnswer
<1>4. LET mine == Kept(untagged, {typ}) IN
      mine # <<>> /\ mine[Len(mine)] = untagged[Len(untagged)]
  BY <1>1, <1>2, <1>3, KeptIs
<1> QED BY <1>2, <1>4 DEF OfType

\* Only the end of a search makes a result of one.
LEMMA NextOwn ==
  ASSUME Order, Answered, OwnAnswer, [Next]_vars PROVE OwnAnswer'
<1>1. CASE UNCHANGED result \/ result'.ok = FALSE
           \/ result'.op \notin {"search", "text"}
  BY <1>1 DEF OwnAnswer
<1>2. CASE Read /\ TookSearch
  <2>1. wire # <<>> /\ Succeeds(wire[1]) /\ call.op \in {"search", "text"}
    BY <1>2 DEF Read, TookSearch, Took
  <2>2. PICK mine : mine = OfType(untagged, "search")
    OBVIOUS
  <2>3. IsAnswer(mine[Len(mine)], wire[1].val)
    BY <2>1, <2>2, LastIsAnswer
  <2>4. Len(mine) = 1 /\ result'.val = mine /\ result'.of = tag
    BY <1>2, <2>2 DEF TookSearch, Took
  <2>5. \A k \in 1..Len(mine) : mine[k].tag = tag
    BY <2>3, <2>4 DEF IsAnswer
  <2> QED BY <2>4, <2>5 DEF OwnAnswer
<1>3. CASE Read /\ (TookFetch \/ TookCaps)
  BY <1>1, <1>3 DEF TookFetch, TookCaps, Took
<1>4. CASE Capabilities
  BY <1>1, <1>4, CapabilitiesResult
<1> QED BY <1>1, <1>2, <1>3, <1>4, ReadResult, OtherResult

\* Only the end of a fetch makes a result of one.
LEMMA NextFresh ==
  ASSUME Order, Answered, FetchFresh, [Next]_vars PROVE FetchFresh'
<1>1. CASE UNCHANGED result \/ result'.ok = FALSE \/ result'.op # "fetch"
  BY <1>1 DEF FetchFresh
<1>2. CASE Read /\ TookFetch
  <2>1. wire # <<>> /\ Succeeds(wire[1]) /\ call.op = "fetch"
    BY <1>2 DEF Read, TookFetch, Took
  <2>2. PICK mine : mine = OfType(untagged, "fetch")
    OBVIOUS
  <2>3. IsAnswer(mine[Len(mine)], wire[1].val)
    BY <2>1, <2>2, LastIsAnswer
  <2>4. result'.val = Merged(mine) /\ result'.asked = wire[1].val
    BY <1>2, <2>2 DEF TookFetch
  <2> QED BY <2>3, <2>4 DEF FetchFresh, IsAnswer, Merged
<1>3. CASE Read /\ (TookSearch \/ TookCaps)
  BY <1>1, <1>3 DEF TookSearch, TookCaps, Took
<1>4. CASE Capabilities
  BY <1>1, <1>4, CapabilitiesResult
<1> QED BY <1>1, <1>2, <1>3, <1>4, ReadResult, OtherResult

-----------------------------------------------------------------------------
\* A session that starts has its books in order.
LEMMA Starts == Init => Order /\ Matching /\ Answered
<1> SUFFICES ASSUME Init PROVE Order /\ Matching /\ Answered
  OBVIOUS
<1>1. Fresh
  BY DEF Init, SessInit, Fresh
<1>2. Order
  BY <1>1, FreshOrder
<1> QED BY <1>1, <1>2 DEF Fresh, Matching, Answered, NoCall

\* They always are.
LEMMA Books == Spec => [](Order /\ Matching /\ Answered)
<1>1. Order /\ Matching /\ Answered /\ [Next]_vars => (Order /\ Matching /\ Answered)'
  BY NextOrder, NextMatching, NextAnswered
<1> QED BY <1>1, Starts, PTL DEF Spec

\* However late the answers to searches that were given up come in, and whatever
\* the server sends in between: a search returns the answer to itself
\* (_raw_command_untagged, parse_message_list).
THEOREM AnswersOwn == Spec => []OwnAnswer
<1>1. Init => OwnAnswer
  BY DEF Init, SessInit, OwnAnswer, NoResult
<1>2. Order /\ Answered /\ OwnAnswer /\ [Next]_vars => OwnAnswer'
  BY NextOwn
<1> QED BY <1>1, <1>2, Books, PTL DEF Spec

\* Whenever the message changes and however many responses about it pile up: a
\* fetch returns it as it was when the server answered (_untagged_response,
\* parse_fetch_response).
THEOREM FetchesFresh == Spec => []FetchFresh
<1>1. Init => FetchFresh
  BY DEF Init, SessInit, FetchFresh, NoResult
<1>2. Order /\ Answered /\ FetchFresh /\ [Next]_vars => FetchFresh'
  BY NextFresh
<1> QED BY <1>1, <1>2, Books, PTL DEF Spec

-----------------------------------------------------------------------------
(* The capabilities a client knows.                                        *)

\* The capabilities among some lines are those of the session.
CapLines(q) == \A k \in 1..Len(q) :
                 q[k].typ = "capability" => q[k].val = CapsOf(channel, TRUE)

\* What a client may come to know: the capabilities of the session, and those
\* that were told with the answer to STARTTLS.
Knowable == {NoCaps, CapsOf(channel, TRUE), early}

\* Before it is handed out, a client knows at most the latter.
CapsKnown ==
  /\ CapLines(wire) /\ CapLines(untagged)
  /\ state = "AUTH" => cached \in Knowable
  /\ offered \in Knowable
  /\ at \notin {"ready", "none", "failed"} =>
       /\ wire = <<>> /\ untagged = <<>> /\ result.op # "capability"
       /\ offered = early
  /\ cached # NoCaps => at \in {"ready", "none"}
  /\ CapsAfterLogin

\* No lines tell of capabilities.
LEMMA NoCapLines == CapLines(<<>>)
<1>1. Len(<<>>) = 0
  BY ShortIs
<1>2. 1..0 = {}
  OBVIOUS
<1> QED BY <1>1, <1>2 DEF CapLines

\* The first capabilities of the untagged responses.
LEMMA CameIs ==
  ASSUME Order, CapsKnown, OfType(untagged, "capability") # <<>>
  PROVE  OfType(untagged, "capability")[1].val = CapsOf(channel, TRUE)
<1>0. PICK came : came = Kept(untagged, {"capability"})
  OBVIOUS
<1>1. came # <<>> /\ OfType(untagged, "capability") = came
  BY <1>0 DEF OfType
<1>2. /\ IsSeq(came)
      /\ \A j \in 1..Len(came) : \E k \in 1..Len(untagged) :
           came[j] = untagged[k] /\ untagged[k].typ \in {"capability"}
  BY <1>0, KeptIs DEF Order, Typed
<1>3. 1 \in 1..Len(came)
  BY <1>1, <1>2, TailIs
<1>4. PICK k \in 1..Len(untagged) :
        came[1] = untagged[k] /\ untagged[k].typ \in {"capability"}
  BY <1>2, <1>3
<1> QED BY <1>1, <1>4 DEF CapsKnown, CapLines

\* What a logged in client knows without asking.
LEMMA KnownIs ==
  ASSUME Order, CapsKnown, state = "AUTH", KnownCaps # NoCaps
  PROVE  KnownCaps \in {CapsOf(channel, TRUE), early}
<1>1. CASE cached # NoCaps
  BY <1>1 DEF KnownCaps, CapsKnown, Knowable
<1>2. CASE cached = NoCaps /\ offered # NoCaps
  BY <1>2 DEF KnownCaps, CapsKnown, Knowable
<1>3. CASE cached = NoCaps /\ offered = NoCaps
  <2>1. OfType(untagged, "capability") # <<>>
    BY <1>3 DEF KnownCaps
  <2> QED BY <1>3, <2>1, CameIs DEF KnownCaps
<1> QED BY <1>1, <1>2, <1>3

\* A client is set up: its session has not begun.
LEMMA ConnectingCaps ==
  ASSUME CapsKnown, Connecting, UNCHANGED sessVars PROVE CapsKnown'
<1>1. /\ at \in {"connect", "wrap", "greeting", "starttls", "upgrade", "auth", "token"}
      /\ \/ Connect \/ Wrap \/ Greeting \/ Starttls \/ Upgrade \/ GetToken \/ Login
  BY DEF Connecting, Connect, Wrap, Greeting, Starttls, Upgrade, GetToken, Login
<1>2. /\ wire = <<>> /\ untagged = <<>> /\ result.op # "capability"
      /\ cached = NoCaps /\ offered = early
  BY <1>1 DEF CapsKnown
<1>3. wire' = <<>> /\ untagged' = <<>> /\ result'.op # "capability"
  BY <1>2 DEF sessVars
<1>4. CapLines(wire)' /\ CapLines(untagged)'
  <2>1. \A k \in {} : FALSE
    OBVIOUS
  <2>2. Len(wire') = 0 /\ Len(untagged') = 0
    BY <1>3, ShortIs
  <2>3. 1..0 = {}
    OBVIOUS
  <2> QED BY <2>2, <2>3 DEF CapLines
<1>5. cached' = NoCaps
  BY <1>1, <1>2 DEF Connect, Wrap, Greeting, Starttls, Upgrade, GetToken, Login
<1>6. offered' \in {early', CapsOf(channel', TRUE)}
  BY <1>1, <1>2 DEF Connect, Wrap, Greeting, Starttls, Upgrade, GetToken, Login, Answer
<1>7. at' \notin {"ready", "none", "failed"} => offered' = early'
  BY <1>1, <1>2 DEF Connect, Wrap, Greeting, Starttls, Upgrade, GetToken, Login, Answer
<1> QED BY <1>3, <1>4, <1>5, <1>6, <1>7 DEF CapsKnown, CapsAfterLogin, Knowable

\* A step of a session that leaves the books of the connection alone, and whose
\* lines and result are in order.
LEMMA SessionCaps ==
  ASSUME CapsKnown, at = "ready", at' \in {"ready", "none"},
         UNCHANGED <<channel, state, early>>,
         CapLines(wire)', CapLines(untagged)',
         offered' \in Knowable, state = "AUTH" => cached' \in Knowable,
         CapsAfterLogin'
  PROVE  CapsKnown'
BY DEF CapsKnown, Knowable

\* The result stays, or is no capabilities.
LEMMA SameCaps ==
  ASSUME CapsKnown, UNCHANGED <<channel, state, early>>,
         UNCHANGED result \/ result'.ok = FALSE \/ result'.op # "capability"
  PROVE  CapsAfterLogin'
BY DEF CapsKnown, CapsAfterLogin

\* Whatever line is read.
LEMMA ReadCaps == ASSUME Order, CapsKnown, Read PROVE CapsKnown'
<1>1. /\ wire # <<>> /\ wire' = Tail(wire) /\ at = "ready" /\ at' \in {"ready", "none"}
      /\ UNCHANGED <<channel, state, offered, early>>
      /\ cached' = IF call.op = "capability" /\ call' = NoCall /\ result'.ok
                   THEN result'.val ELSE cached
  BY DEF Read
<1>2. CapLines(wire)'
  <2>1. /\ Len(wire') = Len(wire) - 1 /\ Len(wire) \in Nat
        /\ \A k \in 1..Len(wire') : wire'[k] = wire[k + 1]
    BY <1>1, TailIs DEF Order, Typed
  <2>2. \A k \in 1..Len(wire') : k + 1 \in 1..Len(wire)
    BY <2>1
  <2> QED BY <1>1, <2>1, <2>2 DEF CapsKnown, CapLines
<1>3. CapLines(untagged)'
  <2>1. 1 \in 1..Len(wire)
    BY <1>1, TailIs DEF Order, Typed
  <2> QED BY <1>1, <2>1, ReadUntagged DEF CapsKnown, CapLines
<1>4. CASE UNCHANGED result \/ result'.ok = FALSE \/ result'.op # "capability"
  <2>1. CapsAfterLogin'
    BY <1>1, <1>4, SameCaps
  <2>2. CASE call.op = "capability" /\ call' = NoCall /\ result'.ok
    <3>1. result'.op = "capability"
      <4>1. PICK l : \/ Keeps(l) \/ SendsText(l) \/ Collects(l)
                     \/ StartsIdle(l) \/ StopsIdle(l) \/ Stops(l)
        BY ReadForms, Zenon
      <4>2. call.mode = "complete" \/ Stops(l)
        BY <2>2, <4>1 DEF Keeps, SendsText, Collects, StartsIdle, StopsIdle, Order, Current, NoCall
      <4>3. ~ (call.op = "none")
        BY <2>2
      <4>4. Stops(l)
        BY <2>2, <4>1, <4>2, <4>3 DEF Keeps, SendsText, Collects, StartsIdle, StopsIdle,
           NoCall
      <4> QED BY <2>2, <4>4 DEF Stops
    <3>2. result' = result
      BY <1>4, <2>2, <3>1
    <3>3. state = "AUTH" => cached' \in Knowable
      BY <1>1, <2>2, <3>1, <3>2 DEF CapsKnown, CapsAfterLogin, Knowable
    <3> QED BY <1>1, <1>2, <1>3, <2>1, <3>3, SessionCaps DEF CapsKnown
  <2>3. CASE ~(call.op = "capability" /\ call' = NoCall /\ result'.ok)
    BY <1>1, <1>2, <1>3, <2>1, <2>3, SessionCaps DEF CapsKnown
  <2> QED BY <2>2, <2>3
<1>5. CASE TookCaps
  <2>1. result'.val = CapsOf(channel, TRUE)
    BY <1>5, CameIs DEF TookCaps, Took
  <2>2. CapsAfterLogin'
    BY <1>1, <2>1 DEF CapsAfterLogin
  <2>3. state = "AUTH" => cached' \in Knowable
    BY <1>1, <2>1 DEF CapsKnown, Knowable
  <2> QED BY <1>1, <1>2, <1>3, <2>2, <2>3, SessionCaps DEF CapsKnown
<1>6. CASE TookSearch \/ TookFetch
  BY <1>4, <1>6 DEF TookSearch, TookFetch, Took
<1> QED BY <1>4, <1>5, <1>6, ReadResult

\* The other steps of a session.
LEMMA CallCaps ==
  ASSUME Order, CapsKnown, (\E op \in Kinds : Command(op)) \/ Idle \/ IdleDone \/ Timeout
  PROVE  CapsKnown'
<1>1. /\ at = "ready" /\ at' \in {"ready", "none"}
      /\ UNCHANGED <<channel, state, early, cached, wire>>
      /\ offered' \in {NoCaps, offered} /\ untagged' \in {<<>>, untagged}
  BY DEF Command, Idle, IdleDone, Timeout, CanCall, connVars
<1>2. UNCHANGED result \/ result'.ok = FALSE
  BY FailsWith DEF Command, Idle, IdleDone, Timeout
<1>3. CapLines(<<>>)
  BY NoCapLines
<1>4. CapLines(wire)' /\ CapLines(untagged)'
  BY <1>1, <1>3 DEF CapsKnown, CapLines
<1>5. offered' \in Knowable /\ (state = "AUTH" => cached' \in Knowable)
  BY <1>1 DEF CapsKnown, Knowable
<1> QED BY <1>1, <1>2, <1>4, <1>5, SameCaps, SessionCaps

\* idle_check() tells of no capabilities.
LEMMA CheckCaps == ASSUME Order, CapsKnown, IdleCheck PROVE CapsKnown'
<1>1. /\ at = "ready"
      /\ UNCHANGED <<at, channel, state, early, cached, offered, untagged>>
  BY DEF IdleCheck, connVars
<1>2. CapLines(wire)'
  <2>1. PICK n \in 1..Len(wire) : wire' = SubSeq(wire, n + 1, Len(wire))
    BY CheckForms
  <2>2. /\ Len(wire) \in Nat /\ Len(wire') = Len(wire) - n
        /\ \A k \in 1..Len(wire') : wire'[k] = wire[n + k]
    BY <2>1, RestIs DEF Order, Typed
  <2>3. \A k \in 1..Len(wire') : n + k \in 1..Len(wire)
    BY <2>2
  <2> QED BY <1>1, <2>2, <2>3 DEF CapsKnown, CapLines
<1>3. result'.op # "capability"
  BY CheckForms
<1>4. CapLines(untagged)'
  BY <1>1 DEF CapsKnown, CapLines
<1> QED BY <1>1, <1>2, <1>3, <1>4, SameCaps, SessionCaps DEF CapsKnown

\* capabilities() keeps what it returns, if anything.
LEMMA CapabilitiesCaps == ASSUME Order, CapsKnown, Capabilities PROVE CapsKnown'
<1>1. /\ at = "ready"
      /\ UNCHANGED <<at, channel, state, early, offered, untagged, wire>>
      /\ KnownCaps # NoCaps /\ cached' \in {cached, KnownCaps}
  BY DEF Capabilities, CanCall
<1>2. state = "AUTH" => KnownCaps \in {CapsOf(channel, TRUE), early}
  BY <1>1, KnownIs
<1>3. CapsAfterLogin'
  BY <1>1, <1>2, CapabilitiesResult DEF CapsAfterLogin
<1>4. CapLines(wire)' /\ CapLines(untagged)'
  BY <1>1 DEF CapsKnown, CapLines
<1>5. state = "AUTH" => cached' \in Knowable
  BY <1>1, <1>2 DEF CapsKnown, Knowable
<1> QED BY <1>1, <1>3, <1>4, <1>5, SessionCaps DEF CapsKnown

\* The server tells of those of the session.
LEMMA ServerCaps == ASSUME Order, CapsKnown, Serve \/ Update PROVE CapsKnown'
<1>1. /\ at = "ready"
      /\ UNCHANGED <<at, channel, state, early, cached, offered, untagged, result>>
  BY DEF Serve, Update, client, connVars
<1>2. CapLines(wire)'
  <2>1. CASE Serve
    <3>1. /\ \A k \in 1..Len(wire) : wire'[k] = wire[k]
          /\ \A k \in 1..Len(wire') : k > Len(wire) => NewLine(wire'[k], reqs[1])
          /\ Len(wire) \in Nat /\ Len(wire') \in Nat
      BY <2>1, ServedWire
    <3>2. ASSUME NEW k \in 1..Len(wire'), wire'[k].typ = "capability"
          PROVE  wire'[k].val = CapsOf(channel, TRUE)
      <4>1. CASE k \in 1..Len(wire)
        BY <3>1, <3>2, <4>1 DEF CapsKnown, CapLines
      <4>2. CASE k > Len(wire)
        <5>1. NewLine(wire'[k], reqs[1])
          BY <3>1, <4>2
        <5> QED BY <3>2, <5>1 DEF NewLine
      <4>3. k \in 1..Len(wire) \/ k > Len(wire)
        BY <3>1
      <4> QED BY <4>1, <4>2, <4>3, Zenon
    <3> QED BY <1>1, <3>2 DEF CapLines
  <2>2. CASE Update
    <3>1. PICK l : l.typ = "fetch" /\ Grows(1) /\ wire'[Len(wire) + 1] = l
      BY <2>2, UpdateForms
    <3>2. \A k \in 1..Len(wire') : k \in 1..Len(wire) \/ k = Len(wire) + 1
      BY <3>1 DEF Grows
    <3> QED BY <1>1, <3>1, <3>2 DEF Grows, CapsKnown, CapLines
  <2> QED BY <2>1, <2>2
<1>3. CapLines(untagged)'
  BY <1>1 DEF CapsKnown, CapLines
<1> QED BY <1>1, <1>2, <1>3, SameCaps, SessionCaps DEF CapsKnown

\* A client that nobody has used.
LEMMA FreshCaps ==
  Fresh /\ offered = NoCaps /\ cached = NoCaps /\ early = NoCaps => CapsKnown
<1> SUFFICES ASSUME Fresh, offered = NoCaps, cached = NoCaps, early = NoCaps
             PROVE  CapsKnown
  OBVIOUS
<1>1. CapLines(wire) /\ CapLines(untagged)
  BY NoCapLines DEF Fresh
<1> QED BY <1>1 DEF Fresh, CapsKnown, CapsAfterLogin, NoResult, Knowable

\* Every step.
LEMMA NextCaps == ASSUME Order, CapsKnown, [Next]_vars PROVE CapsKnown'
<1>1. CASE UNCHANGED vars
  BY <1>1 DEF vars, connVars, sessVars, CapsKnown, CapLines, CapsAfterLogin,
           Knowable
<1>2. CASE NewClient
  <2>1. (Fresh /\ offered = NoCaps /\ cached = NoCaps /\ early = NoCaps)'
    BY <1>2 DEF NewClient, Create, Fresh
  <2> QED BY <2>1, FreshCaps, PTL
<1>3. CASE Connecting /\ UNCHANGED sessVars
  BY <1>3, ConnectingCaps
<1>4. CASE (\E op \in Kinds : Command(op)) \/ Idle \/ IdleDone \/ Timeout
  BY <1>4, CallCaps
<1>5. CASE IdleCheck \/ Capabilities \/ Read \/ Serve \/ Update
  BY <1>5, CheckCaps, CapabilitiesCaps, ReadCaps, ServerCaps
<1> QED BY <1>1, <1>2, <1>3, <1>4, <1>5 DEF Next

\* Over whichever channel and by whichever way a client was logged in, and
\* whatever was remembered, offered or read before: the capabilities it reports
\* are those of the session it is in, or those that the server told it with its
\* answer to STARTTLS (capabilities, starttls, login).
THEOREM CapsOfSession == Spec => []CapsAfterLogin
<1>1. Init => CapsKnown
  <2>1. Init => Fresh /\ offered = NoCaps /\ cached = NoCaps /\ early = NoCaps
    BY DEF Init, SessInit, ConnInit, Fresh
  <2> QED BY <2>1, FreshCaps
<1>2. Order /\ CapsKnown /\ [Next]_vars => CapsKnown'
  BY NextCaps
<1>3. CapsKnown => CapsAfterLogin
  BY DEF CapsKnown
<1> QED BY <1>1, <1>2, <1>3, Books, PTL DEF Spec

-----------------------------------------------------------------------------
(* Idling: a tag has one idle() and one idle_done().                       *)

\* A tag goes with one idle() and one idle_done() only.
Once ==
  /\ \A j, k \in 1..Len(reqs) :
       reqs[j].tag = tag /\ reqs[k].tag = tag /\ reqs[j].op \in {"idle", "done"}
         /\ reqs[k].op = reqs[j].op => j = k
  /\ srv.op = "idle" /\ srv.tag = tag =>
       \A k \in 1..Len(reqs) : ~(reqs[k].tag = tag /\ reqs[k].op = "idle")

\* Nothing but notices from the i-th line to the j-th.
Clean(i, j) == \A k \in i..j : wire[k].kind = "untagged"

\* An idle() that nobody has ended is not completed.
NotYet == call.op = "idle" \/ (idling /\ call.op = "none") =>
            \A k \in 1..Len(wire) : ~Succeeds(wire[k])

\* Until the client knows that the server idles, the notices are on the wire,
\* after the invitation.
Invite ==
  call.op = "idle" /\ srv.op = "idle" /\ srv.tag = tag =>
    \E k \in 1..Len(wire) :
      /\ wire[k].kind = "continuation" /\ Len(told) = Len(wire) - k
      /\ \A j \in 1..Len(told) : told[j] = wire[k + j]

\* What the server told is what was returned, then what idle_done() has read,
\* then the first n lines of the wire.
Said(n) ==
  /\ Len(told) = Len(seen) + Len(call.got) + n
  /\ \A j \in 1..Len(seen) : told[j] = seen[j]
  /\ \A j \in 1..Len(call.got) : told[Len(seen) + j] = call.got[j]
  /\ \A j \in 1..n : told[Len(seen) + Len(call.got) + j] = wire[j]

Listens == idling /\ srv.op = "idle" /\ srv.tag = tag /\ Clean(1, Len(wire)) =>
             Said(Len(wire))

\* The completion idle_done() waits for ends what the server had to tell.
Hears ==
  \A k \in 1..Len(wire) : call.op = "done" /\ Succeeds(wire[k]) =>
    /\ reqs = <<>> /\ srv.op = "none" /\ Clean(k + 1, Len(wire))
    /\ Clean(1, k - 1) => Said(k - 1)

\* After a good idle_done() the two agree on where they are, whatever call comes
\* next, as long as its result is out.
Heeds ==
  result.op = "done" /\ result.ok =>
    /\ ~idling
    /\ reqs # <<>> => /\ Len(reqs) = 1 /\ reqs[1].tag = tag
                      /\ Clean(1, Len(wire))
    /\ \A j, k \in 1..Len(wire) :
         wire[j].kind # "untagged" /\ wire[k].kind # "untagged" => j = k
    /\ call.op = "none" => /\ reqs = <<>> /\ srv.op = "none"
                           /\ Clean(1, Len(wire))
    /\ srv.op = "idle" => call.op = "idle" /\ srv.tag = tag /\ reqs = <<>>
    /\ srv.op # "idle" => seen = told

-----------------------------------------------------------------------------
\* What a request comes to.
LEMMA Sent ==
  ASSUME Order, NEW r, reqs' = Append(reqs, r)
  PROVE  /\ IsSeq(reqs') /\ Len(reqs') = Len(reqs) + 1 /\ Len(reqs) \in Nat
         /\ reqs'[Len(reqs) + 1] = r
         /\ \A k \in 1..Len(reqs) : reqs'[k] = reqs[k]
         /\ \A k \in 1..Len(reqs') : k \in 1..Len(reqs) \/ k = Len(reqs) + 1
BY AppendIs DEF Order, Typed

\* The lines after the first, and the requests after the first.
LEMMA WireTail ==
  ASSUME Order, wire # <<>>, wire' = Tail(wire)
  PROVE  /\ Len(wire) \in Nat \ {0} /\ Len(wire') = Len(wire) - 1
         /\ \A k \in 1..Len(wire') : k + 1 \in 1..Len(wire) /\ wire'[k] = wire[k + 1]
<1>1. /\ Len(wire) \in Nat \ {0} /\ Len(wire') = Len(wire) - 1
      /\ \A k \in 1..(Len(wire) - 1) : wire'[k] = wire[k + 1]
  BY TailIs DEF Order, Typed
<1> QED BY <1>1

\* The requests after the first.
LEMMA ReqsTail ==
  ASSUME Order, reqs # <<>>, reqs' = Tail(reqs)
  PROVE  /\ Len(reqs) \in Nat \ {0} /\ Len(reqs') = Len(reqs) - 1
         /\ \A k \in 1..Len(reqs') : k + 1 \in 1..Len(reqs) /\ reqs'[k] = reqs[k + 1]
<1>1. /\ Len(reqs) \in Nat \ {0} /\ Len(reqs') = Len(reqs) - 1
      /\ \A k \in 1..(Len(reqs) - 1) : reqs'[k] = reqs[k + 1]
  BY TailIs DEF Order, Typed
<1> QED BY <1>1

\* A new call has a new tag.
LEMMA CallsOnce == ASSUME Order, NEW op, Calls(op) PROVE Once'
<1>1. tag \in Nat /\ tag' = tag + 1 /\ srv' = srv
  BY DEF Calls, Order, Typed
<1>2. PICK r : r.tag = tag + 1 /\ reqs' = Append(reqs, r)
  BY DEF Calls
<1>3. ASSUME NEW k \in 1..Len(reqs'), reqs'[k].tag = tag'
      PROVE  k = Len(reqs) + 1
  <2>1. ASSUME k \in 1..Len(reqs) PROVE FALSE
    <3>1. reqs'[k].tag \in 1..tag
      BY <1>2, <2>1, Sent DEF Order, Tags
    <3> QED BY <1>1, <1>3, <3>1
  <2> QED BY <1>2, <2>1, Sent
<1>4. srv.op # "none" => srv.tag # tag'
  BY <1>1 DEF Order, Tags
<1> QED BY <1>1, <1>3, <1>4 DEF Once

\* idle_done() ends the idle() it is for.
LEMMA DoneOnce == ASSUME Order, Matching, Once, IdleDone PROVE Once'
<1>1. /\ call.op = "none" /\ idling /\ UNCHANGED <<tag, srv>>
  BY DEF IdleDone, server, NoCall
<1>2. PICK r : r.op = "done" /\ reqs' = Append(reqs, r)
  BY DEF IdleDone
<1>3. \A k \in 1..Len(reqs) : reqs[k].tag = tag => reqs[k].op = "idle"
  BY <1>1 DEF Matching, Asked
<1>4. ASSUME NEW k \in 1..Len(reqs'), reqs'[k].tag = tag'
      PROVE  \/ k \in 1..Len(reqs) /\ reqs'[k] = reqs[k] /\ reqs[k].op = "idle" /\ reqs[k].tag = tag
             \/ k = Len(reqs) + 1 /\ reqs'[k].op = "done"
  <2>1. CASE k \in 1..Len(reqs)
    BY <1>1, <1>2, <1>3, <1>4, <2>1, Sent
  <2>2. CASE k = Len(reqs) + 1
    BY <1>2, <2>2, Sent
  <2> QED BY <1>2, <2>1, <2>2, Sent
<1>5. ASSUME NEW j \in 1..Len(reqs'), NEW k \in 1..Len(reqs'),
             reqs'[j].tag = tag', reqs'[k].tag = tag', reqs'[k].op = reqs'[j].op
      PROVE  j = k
  BY <1>4, <1>5 DEF Once
<1>6. srv.op = "idle" /\ srv.tag = tag =>
        \A k \in 1..Len(reqs') : ~(reqs'[k].tag = tag' /\ reqs'[k].op = "idle")
  BY <1>4 DEF Once
<1> QED BY <1>1, <1>5, <1>6 DEF Once

\* Only a literal is sent when a line is read.
LEMMA ReadOnce == ASSUME Order, Once, Read PROVE Once'
<1>0. PICK l : l = wire[1]
  OBVIOUS
<1>1. /\ UNCHANGED <<tag, srv>>
      /\ \/ Keeps(l) \/ SendsText(l) \/ Collects(l)
         \/ StartsIdle(l) \/ StopsIdle(l) \/ Stops(l)
  BY <1>0, ReadForms
<1>2. CASE SendsText(l)
  <2>1. PICK r : r.op = "literal" /\ reqs' = Append(reqs, r)
    BY <1>2 DEF SendsText
  <2>2. ASSUME NEW k \in 1..Len(reqs'), reqs'[k].op \in {"idle", "done"}
        PROVE  k \in 1..Len(reqs) /\ reqs'[k] = reqs[k]
    BY <2>1, <2>2, Sent
  <2>3. ASSUME NEW j \in 1..Len(reqs'), NEW k \in 1..Len(reqs'),
               reqs'[j].tag = tag', reqs'[k].tag = tag',
               reqs'[j].op \in {"idle", "done"}, reqs'[k].op = reqs'[j].op
        PROVE  j = k
    BY <1>1, <2>2, <2>3 DEF Once
  <2>4. srv.op = "idle" /\ srv.tag = tag =>
          \A k \in 1..Len(reqs') : ~(reqs'[k].tag = tag' /\ reqs'[k].op = "idle")
    BY <1>1, <2>2 DEF Once
  <2> QED BY <1>1, <2>3, <2>4 DEF Once
<1>3. CASE ~SendsText(l)
  <2>1. UNCHANGED reqs
    BY <1>1, <1>3 DEF Keeps, Collects, StartsIdle, StopsIdle, Stops
  <2> QED BY <1>1, <2>1 DEF Once
<1> QED BY <1>2, <1>3

\* An idle() that is taken up is no longer waiting.
LEMMA ServeOnce == ASSUME Order, Once, Serve PROVE Once'
<1>0. PICK r : r = reqs[1]
  OBVIOUS
<1>1. /\ reqs # <<>> /\ reqs' = Tail(reqs) /\ 1 \in 1..Len(reqs) /\ tag' = tag
      /\ \/ Ignores(r) \/ Finishes(r) \/ TakesText(r)
         \/ InvitesTo(r) \/ Refuses(r) \/ Grants(r)
  BY <1>0, ServeForms DEF client
<1>2. srv' = srv \/ srv' = NoServe \/ srv' = r
  BY <1>1 DEF Ignores, Finishes, TakesText, InvitesTo, Refuses, Grants
<1>3. ASSUME NEW j \in 1..Len(reqs'), NEW k \in 1..Len(reqs'),
             reqs'[j].tag = tag', reqs'[k].tag = tag',
             reqs'[j].op \in {"idle", "done"}, reqs'[k].op = reqs'[j].op
      PROVE  j = k
  <2>1. /\ j + 1 \in 1..Len(reqs) /\ reqs'[j] = reqs[j + 1]
        /\ k + 1 \in 1..Len(reqs) /\ reqs'[k] = reqs[k + 1]
    BY <1>1, ReqsTail
  <2>2. j + 1 = k + 1
    BY <1>1, <1>3, <2>1 DEF Once
  <2> QED BY <2>2
<1>4. ASSUME srv'.op = "idle", srv'.tag = tag, NEW k \in 1..Len(reqs'),
             reqs'[k].tag = tag, reqs'[k].op = "idle"
      PROVE  FALSE
  <2>1. k + 1 \in 1..Len(reqs) /\ reqs'[k] = reqs[k + 1] /\ k + 1 # 1
    BY <1>1, ReqsTail
  <2>2. CASE srv' = srv
    BY <1>4, <2>1, <2>2 DEF Once
  <2>3. CASE srv' = r
    BY <1>0, <1>1, <1>4, <2>1, <2>3 DEF Once
  <2>4. CASE srv' = NoServe
    BY <1>4, <2>4 DEF NoServe
  <2> QED BY <1>2, <2>2, <2>3, <2>4
<1> QED BY <1>1, <1>3, <1>4 DEF Once

\* Every step.
LEMMA NextOnce == ASSUME Order, Matching, Once, [Next]_vars PROVE Once'
<1>1. CASE UNCHANGED <<tag, reqs, srv>>
  BY <1>1 DEF Once
<1>2. CASE UNCHANGED sessVars \/ Capabilities \/ IdleCheck \/ Timeout \/ Update
  BY <1>1, <1>2 DEF sessVars, Capabilities, IdleCheck, Timeout, Update, server, client
<1>3. CASE NewClient
  <2>1. reqs' = <<>> /\ srv' = NoServe
    BY <1>3 DEF NewClient
  <2>2. Len(reqs') = 0
    BY <2>1, ShortIs
  <2>3. 1..0 = {}
    OBVIOUS
  <2> QED BY <2>1, <2>2, <2>3 DEF Once, NoServe
<1>4. CASE (\E op \in Kinds : Command(op)) \/ Idle
  BY <1>4, CommandCalls, IdleCalls, CallsOnce
<1>5. CASE IdleDone \/ Read \/ Serve
  BY <1>5, DoneOnce, ReadOnce, ServeOnce
<1> QED BY <1>2, <1>3, <1>4, <1>5 DEF Next, vars

-----------------------------------------------------------------------------
(* Idling: success is what the server says to the DONE.                    *)

\* While nothing but an idle() and its end can be under way, success is what
\* the server that idled says to the DONE.
LEMMA ServedSuccess ==
  ASSUME Order, Matching, Serve, call.op = "idle" \/ idling,
         NEW k \in 1..Len(wire'), k \notin 1..Len(wire), Succeeds(wire'[k])
  PROVE  /\ k = Len(wire) + 1 /\ Len(wire') = Len(wire) + 1
         /\ srv.op = "idle" /\ srv.tag = tag
         /\ reqs[1].op = "done" /\ reqs[1].tag = tag /\ "done" \in Asked
         /\ srv' = NoServe /\ told' = told
<1>0. PICK r : r = reqs[1]
  OBVIOUS
<1>1. /\ 1 \in 1..Len(reqs)
      /\ \/ Ignores(r) \/ Finishes(r) \/ TakesText(r)
         \/ InvitesTo(r) \/ Refuses(r) \/ Grants(r)
  BY <1>0, ServeForms
<1>2. /\ r.tag \in 1..tag /\ tag \in Nat /\ IsSeq(wire) /\ Len(wire) \in Nat
      /\ srv.op # "none" => srv.tag \in 1..tag /\ srv.tag <= r.tag
  BY <1>0, <1>1, ConcatIs DEF Order, Typed, Tags
<1>3. /\ Asked \subseteq {"idle", "done"}
      /\ r.tag = tag => r.op \in Asked
      /\ srv.op # "none" /\ srv.tag = tag => srv.op \in Asked
  BY <1>0, <1>1 DEF Asked, Matching
<1>4. ASSUME NEW x, wire' = Append(wire, x)
      PROVE  Succeeds(x) /\ k = Len(wire) + 1 /\ Len(wire') = Len(wire) + 1
  <2>1. Grows(1) /\ wire'[Len(wire) + 1] = x
    BY <1>2, <1>4, Adding
  <2>2. k = Len(wire) + 1
    BY <2>1 DEF Grows
  <2> QED BY <2>1, <2>2 DEF Grows
<1>5. ASSUME NEW c, wire' = wire \o (Answers(r) \o <<c>>)
      PROVE  Succeeds(c)
  <2>1. CASE Grows(1) /\ wire'[Len(wire) + 1] = c
    <3>1. k = Len(wire) + 1
      BY <2>1 DEF Grows
    <3> QED BY <2>1, <3>1
  <2>2. CASE Grows(2) /\ wire'[Len(wire) + 2] = c /\ AnswerTo(wire'[Len(wire) + 1], r)
    <3>1. k \in {Len(wire) + 1, Len(wire) + 2}
      BY <2>2 DEF Grows
    <3>2. k # Len(wire) + 1
      BY <2>2 DEF AnswerTo, Succeeds, Own
    <3> QED BY <2>2, <3>1, <3>2
  <2> QED BY <1>2, <1>5, <2>1, <2>2, Answering
<1>6. CASE Ignores(r)
  BY <1>6 DEF Ignores
<1>7. CASE Finishes(r)
  <2>1. CASE /\ srv.op = "idle" /\ r.op = "done"
             /\ wire' = Append(wire, Completes(srv.tag, TRUE))
    <3>1. /\ Own(Completes(srv.tag, TRUE))
          /\ k = Len(wire) + 1 /\ Len(wire') = Len(wire) + 1
      BY <1>4, <2>1 DEF Succeeds
    <3>2. srv.tag = tag
      BY <3>1, CompletionIs DEF Own
    <3>3. r.tag = tag
      BY <1>2, <2>1, <3>2
    <3>4. srv' = NoServe /\ told' = told
      BY <1>7 DEF Finishes
    <3> QED BY <1>0, <1>3, <2>1, <3>1, <3>2, <3>3, <3>4
  <2>2. CASE wire' = Append(wire, Completes(srv.tag, FALSE))
    <3>1. Completes(srv.tag, FALSE).typ = "OK"
      BY <1>4, <2>2 DEF Succeeds
    <3> QED BY <3>1, CompletionIs
  <2> QED BY <1>7, <2>1, <2>2 DEF Finishes
<1>8. CASE Refuses(r)
  <2>1. Completes(r.tag, FALSE).typ = "OK"
    BY <1>4, <1>8 DEF Succeeds, Refuses
  <2> QED BY <2>1, CompletionIs
<1>9. CASE InvitesTo(r)
  <2>1. Own(Invites(r.tag))
    BY <1>4, <1>9 DEF Succeeds, InvitesTo
  <2> QED BY <2>1 DEF Own, Invites, Line
<1>10. CASE TakesText(r)
  <2>1. srv.op = "text"
    BY <1>10 DEF TakesText
  <2>2. Own(Completes(srv.tag, TRUE))
    BY <1>5, <1>10 DEF TakesText, Succeeds
  <2>3. srv.tag = tag
    BY <2>2, CompletionIs DEF Own
  <2> QED BY <1>3, <2>1, <2>3
<1>11. CASE Grants(r)
  <2>1. r.op \notin {"idle", "done"}
    BY <1>11 DEF Grants
  <2>2. Own(Completes(r.tag, TRUE))
    BY <1>5, <1>11 DEF Grants, Succeeds
  <2>3. r.tag = tag
    BY <2>2, CompletionIs DEF Own
  <2> QED BY <1>3, <2>1, <2>3
<1> QED BY <1>1, <1>6, <1>7, <1>8, <1>9, <1>10, <1>11

-----------------------------------------------------------------------------
\* The wire when lines come off it.
LEMMA CheckWire ==
  ASSUME Order, NEW n \in 1..Len(wire), wire' = SubSeq(wire, n + 1, Len(wire))
  PROVE  /\ Len(wire) \in Nat /\ Len(wire') = Len(wire) - n
         /\ \A k \in 1..Len(wire') : n + k \in 1..Len(wire) /\ wire'[k] = wire[n + k]
<1>1. /\ Len(wire) \in Nat /\ Len(wire') = Len(wire) - n
      /\ \A k \in 1..Len(wire') : wire'[k] = wire[n + k]
  BY RestIs DEF Order, Typed
<1> QED BY <1>1

\* Nothing on the wire completes a new call.
LEMMA CallsNotYet ==
  ASSUME Order, NEW op, Calls(op)
  PROVE  \A k \in 1..Len(wire) : ~Succeeds(wire[k])'
<1>1. tag \in Nat /\ tag' = tag + 1 /\ wire' = wire
  BY DEF Calls, Order, Typed
<1>2. ASSUME NEW k \in 1..Len(wire), wire[k].kind = "tagged"
      PROVE  wire[k].tag # tag + 1
  BY <1>1, <1>2 DEF Order, Tags
<1> QED BY <1>1, <1>2 DEF Succeeds, Own

\* Nothing but a DONE completes an idle().
LEMMA NextNotYet == ASSUME Order, Matching, NotYet, [Next]_vars PROVE NotYet'
<1>1. CASE UNCHANGED <<call, tag, idling, wire>>
  BY <1>1 DEF NotYet, Succeeds, Own
<1>2. CASE UNCHANGED sessVars \/ Capabilities
  BY <1>1, <1>2 DEF sessVars, Capabilities
<1>3. CASE NewClient \/ Timeout
  <2>1. call'.op = "none" /\ ~idling'
    <3>1. CASE NewClient
      BY <3>1 DEF NewClient, NoCall
    <3>2. CASE Timeout
      BY <3>2 DEF Timeout, Fails, Ends, NoCall, Order, Current
    <3> QED BY <1>3, <3>1, <3>2
  <2> QED BY <2>1 DEF NotYet
<1>4. CASE (\E op \in Kinds : Command(op)) \/ Idle
  <2>1. PICK op : Calls(op)
    BY <1>4, CommandCalls, IdleCalls
  <2>2. wire' = wire
    BY <2>1 DEF Calls
  <2> QED BY <2>1, <2>2, CallsNotYet DEF NotYet
<1>5. CASE IdleDone
  <2>1. call'.op = "done"
    BY <1>5 DEF IdleDone
  <2> QED BY <2>1 DEF NotYet
<1>6. CASE IdleCheck
  <2>1. call.op = "none" /\ idling /\ UNCHANGED <<call, tag>>
    BY <1>6, CheckForms DEF NoCall
  <2>2. PICK n \in 1..Len(wire) : wire' = SubSeq(wire, n + 1, Len(wire))
    BY <1>6, CheckForms
  <2>3. \A k \in 1..Len(wire') : ~Succeeds(wire'[k])
    BY <2>1, <2>2, CheckWire DEF NotYet
  <2> QED BY <2>1, <2>3 DEF NotYet, Succeeds, Own
<1>7. CASE Read
  <2>0. PICK l : l = wire[1]
    OBVIOUS
  <2>1. /\ wire # <<>> /\ wire' = Tail(wire) /\ tag' = tag
        /\ \/ Keeps(l) \/ SendsText(l) \/ Collects(l)
           \/ StartsIdle(l) \/ StopsIdle(l) \/ Stops(l)
    BY <1>7, <2>0, ReadForms
  <2>2. SUFFICES ASSUME call'.op = "idle" \/ (idling' /\ call'.op = "none")
                 PROVE  \A k \in 1..Len(wire') : ~Succeeds(wire'[k])
    BY <2>1 DEF NotYet, Succeeds, Own
  <2>3. call.op = "idle"
    <3>1. CASE Keeps(l)
      BY <2>2, <3>1 DEF Keeps, Order, Current, NoCall
    <3>2. CASE SendsText(l) \/ Collects(l)
      <4>1. call'.op = call.op /\ call.op \in {"text", "noop", "done"}
        BY <3>2 DEF SendsText, Collects, Order, Typed, Current
      <4> QED BY <2>2, <4>1
    <3>3. CASE StartsIdle(l)
      BY <3>3 DEF StartsIdle, Order, Current
    <3>4. CASE StopsIdle(l) \/ Stops(l)
      <4>1. call'.op = "none" /\ ~idling'
        BY <3>4 DEF StopsIdle, Stops, NoCall
      <4> QED BY <2>2, <4>1
    <3> QED BY <2>1, <3>1, <3>2, <3>3, <3>4
  <2> QED BY <2>1, <2>3, WireTail DEF NotYet
<1>8. CASE Serve
  <2>1. UNCHANGED <<call, tag, idling>>
    BY <1>8, ServeForms DEF client
  <2>2. SUFFICES ASSUME call.op = "idle" \/ (idling /\ call.op = "none"),
                        NEW k \in 1..Len(wire'), Succeeds(wire'[k])
                 PROVE  FALSE
    BY <2>1 DEF NotYet, Succeeds, Own
  <2>3. CASE k \in 1..Len(wire)
    <3>1. wire'[k] = wire[k]
      BY <1>8, <2>3, ServedWire
    <3> QED BY <2>2, <2>3, <3>1 DEF NotYet
  <2>4. CASE k \notin 1..Len(wire)
    <3>1. "done" \in Asked
      BY <1>8, <2>2, <2>4, ServedSuccess
    <3> QED BY <2>2, <3>1 DEF Asked
  <2> QED BY <2>3, <2>4
<1>9. CASE Update
  <2>1. PICK l : l.kind = "untagged" /\ Grows(1) /\ wire'[Len(wire) + 1] = l /\ UNCHANGED client
    BY <1>9, UpdateForms
  <2>2. UNCHANGED <<call, tag, idling>>
    BY <2>1 DEF client
  <2>3. \A k \in 1..Len(wire') : k \in 1..Len(wire) \/ k = Len(wire) + 1
    BY <2>1 DEF Grows
  <2> QED BY <2>1, <2>2, <2>3 DEF Grows, NotYet, Succeeds, Own
<1> QED BY <1>2, <1>3, <1>4, <1>5, <1>6, <1>7, <1>8, <1>9 DEF Next, vars

-----------------------------------------------------------------------------
(* Idling: what was told is on the wire, after the invitation.             *)

\* The invitation is the last line, and nothing has been told.
LEMMA ServeInvite == ASSUME Order, Invite, Serve PROVE Invite'
<1>0. PICK r : r = reqs[1]
  OBVIOUS
<1>1. /\ UNCHANGED <<call, tag>>
      /\ \/ Ignores(r) \/ Finishes(r) \/ TakesText(r)
         \/ InvitesTo(r) \/ Refuses(r) \/ Grants(r)
  BY <1>0, ServeForms DEF client
<1>2. CASE Ignores(r)
  BY <1>1, <1>2 DEF Ignores, Invite
<1>3. CASE InvitesTo(r)
  <2>1. CASE r.op = "idle"
    <3>1. PICK x : x.kind = "continuation" /\ wire' = Append(wire, x)
      <4>1. Invites(r.tag).kind = "continuation"
        BY DEF Invites, Line
      <4> QED BY <1>3, <4>1 DEF InvitesTo
    <3>2. Grows(1) /\ wire'[Len(wire) + 1] = x
      BY <3>1, Adding DEF Order, Typed
    <3>3. Len(told') = 0
      BY <1>3, <2>1, ShortIs DEF InvitesTo
    <3>4. Len(wire) + 1 \in 1..Len(wire') /\ Len(wire') - (Len(wire) + 1) = 0
      BY <3>2 DEF Grows
    <3> QED BY <3>1, <3>2, <3>3, <3>4 DEF Invite
  <2>2. CASE r.op # "idle"
    BY <1>3, <2>2 DEF InvitesTo, Invite
  <2> QED BY <2>1, <2>2
<1>4. CASE Finishes(r) \/ TakesText(r) \/ Refuses(r) \/ Grants(r)
  <2>1. srv'.op = "none"
    <3>1. CASE Finishes(r)
      BY <3>1 DEF Finishes, NoServe
    <3>2. CASE TakesText(r)
      BY <3>2 DEF TakesText, NoServe
    <3>3. CASE Refuses(r) \/ Grants(r)
      BY <3>3 DEF Refuses, Grants
    <3> QED BY <1>4, <3>1, <3>2, <3>3
  <2> QED BY <2>1 DEF Invite
<1> QED BY <1>1, <1>2, <1>3, <1>4

\* A notice goes out while the server idles: both the wire and what was told
\* go on with it.
LEMMA Notice ==
  ASSUME Order, Update
  PROVE  /\ UNCHANGED <<call, tag, reqs, idling, seen, result, srv>>
         /\ Len(wire) \in Nat /\ Len(wire') = Len(wire) + 1
         /\ \A k \in 1..Len(wire) : wire'[k] = wire[k]
         /\ wire'[Len(wire) + 1].kind = "untagged"
         /\ srv.op = "idle" =>
              /\ Len(told) \in Nat /\ Len(told') = Len(told) + 1
              /\ \A k \in 1..Len(told) : told'[k] = told[k]
              /\ told'[Len(told) + 1] = wire'[Len(wire) + 1]
         /\ srv.op # "idle" => told' = told
<1>1. PICK l : /\ l.kind = "untagged" /\ Grows(1) /\ wire'[Len(wire) + 1] = l
               /\ told' = IF srv.op = "idle" THEN Append(told, l) ELSE told
               /\ UNCHANGED <<client, reqs, srv>>
  BY UpdateForms
<1>2. /\ Len(told) \in Nat /\ Len(Append(told, l)) = Len(told) + 1
      /\ \A k \in 1..Len(told) : Append(told, l)[k] = told[k]
      /\ Append(told, l)[Len(told) + 1] = l
  BY AppendIs DEF Order, Typed
<1> QED BY <1>1, <1>2 DEF Grows, client

\* A notice goes to the wire and to what was told.
LEMMA UpdateInvite == ASSUME Order, Invite, Update PROVE Invite'
<1>1. SUFFICES ASSUME call.op = "idle", srv.op = "idle", srv.tag = tag
               PROVE  \E k \in 1..Len(wire') :
                        /\ wire'[k].kind = "continuation" /\ Len(told') = Len(wire') - k
                        /\ \A j \in 1..Len(told') : told'[j] = wire'[k + j]
  BY Notice DEF Invite
<1>2. PICK k \in 1..Len(wire) :
        /\ wire[k].kind = "continuation" /\ Len(told) = Len(wire) - k
        /\ \A j \in 1..Len(told) : told[j] = wire[k + j]
  BY <1>1 DEF Invite
<1>3. /\ Len(wire) \in Nat /\ Len(wire') = Len(wire) + 1
      /\ \A j \in 1..Len(wire) : wire'[j] = wire[j]
      /\ Len(told) \in Nat /\ Len(told') = Len(told) + 1
      /\ \A j \in 1..Len(told) : told'[j] = told[j]
      /\ told'[Len(told) + 1] = wire'[Len(wire) + 1]
  BY <1>1, Notice
<1>4. ASSUME NEW j \in 1..Len(told')
      PROVE  told'[j] = wire'[k + j]
  <2>1. CASE j \in 1..Len(told)
    <3>1. k + j \in 1..Len(wire)
      BY <1>2, <1>3, <2>1
    <3> QED BY <1>2, <1>3, <2>1, <3>1
  <2>2. CASE j = Len(told) + 1
    <3>1. k + j = Len(wire) + 1
      BY <1>2, <1>3, <2>2
    <3> QED BY <1>3, <2>2, <3>1
  <2> QED BY <1>3, <2>1, <2>2, SMTT(60)
<1>5. k \in 1..Len(wire') /\ wire'[k].kind = "continuation" /\ Len(told') = Len(wire') - k
  BY <1>2, <1>3
<1> QED BY <1>4, <1>5

\* Every step.
LEMMA NextInvite == ASSUME Order, Invite, [Next]_vars PROVE Invite'
<1>1. CASE UNCHANGED <<call, tag, srv, told, wire>>
  BY <1>1 DEF Invite
<1>2. CASE UNCHANGED sessVars \/ Capabilities
  BY <1>1, <1>2 DEF sessVars, Capabilities, server
<1>3. CASE call'.op # "idle"
  BY <1>3 DEF Invite
<1>4. CASE NewClient \/ Timeout \/ IdleDone \/ IdleCheck
  <2>1. CASE NewClient \/ Timeout
    BY <1>3, <2>1 DEF NewClient, Timeout, Fails, Ends, NoCall
  <2>2. CASE IdleDone
    BY <1>3, <2>2 DEF IdleDone
  <2>3. CASE IdleCheck
    <3>1. call' = NoCall
      BY <2>3, CheckForms
    <3> QED BY <1>3, <3>1 DEF NoCall
  <2> QED BY <1>4, <2>1, <2>2, <2>3
<1>5. CASE (\E op \in Kinds : Command(op)) \/ Idle
  <2>1. PICK op : Calls(op)
    BY <1>5, CommandCalls, IdleCalls
  <2>2. tag \in Nat /\ tag' = tag + 1 /\ srv' = srv
    BY <2>1 DEF Calls, Order, Typed
  <2>3. srv.op # "none" => srv.tag # tag'
    BY <2>2 DEF Order, Tags
  <2> QED BY <2>2, <2>3 DEF Invite
<1>6. CASE Read
  <2>1. PICK l : \/ Keeps(l) \/ SendsText(l) \/ Collects(l)
                 \/ StartsIdle(l) \/ StopsIdle(l) \/ Stops(l)
    BY <1>6, ReadForms, Zenon
  <2>2. CASE Keeps(l)
    BY <1>3, <2>2 DEF Keeps, Order, Current
  <2>3. CASE SendsText(l) \/ Collects(l)
    <3>1. call'.op = call.op /\ call.op \in {"text", "noop", "done"}
      BY <2>3 DEF SendsText, Collects, Order, Typed, Current
    <3> QED BY <1>3, <3>1
  <2>4. CASE StartsIdle(l) \/ StopsIdle(l) \/ Stops(l)
    BY <1>3, <2>4 DEF StartsIdle, StopsIdle, Stops, NoCall
  <2> QED BY <2>1, <2>2, <2>3, <2>4
<1>7. CASE Serve \/ Update
  BY <1>7, ServeInvite, UpdateInvite
<1> QED BY <1>2, <1>4, <1>5, <1>6, <1>7 DEF Next, vars

-----------------------------------------------------------------------------
\* The lengths of what the notices are kept in.
LEMMA Lengths ==
  ASSUME Order
  PROVE  /\ Len(seen) \in Nat /\ Len(call.got) \in Nat /\ Len(wire) \in Nat
         /\ Len(told) \in Nat
BY ConcatIs DEF Order, Typed

\* Arithmetic on the lengths.
LEMMA Sums ==
  ASSUME NEW a \in Nat, NEW b \in Nat, NEW w \in Nat
  PROVE  a + b + (w + 1) = a + b + w + 1 /\ a + (b + 1) + w = a + b + (w + 1)
OBVIOUS

\* A line that idle_done() reads goes from the wire to what it has read.
LEMMA CollectsSaid ==
  ASSUME Order, wire # <<>>, wire' = Tail(wire), Collects(wire[1]),
         told' = told, NEW n \in 1..Len(wire), Said(n)
  PROVE  Said(n - 1)'
<1>0. PICK l : l = wire[1]
  OBVIOUS
<1>1. seen' = seen /\ call'.got = Append(call.got, l)
  BY <1>0 DEF Collects, Order, Typed
<1>2. /\ Len(call'.got) = Len(call.got) + 1 /\ call'.got[Len(call.got) + 1] = l
      /\ \A j \in 1..Len(call.got) : call'.got[j] = call.got[j]
  BY <1>1, AppendIs DEF Order, Typed
<1>3. /\ Len(wire') = Len(wire) - 1
      /\ \A k \in 1..Len(wire') : k + 1 \in 1..Len(wire) /\ wire'[k] = wire[k + 1]
  BY WireTail
<1>4. /\ Len(seen) \in Nat /\ Len(call.got) \in Nat /\ Len(wire) \in Nat /\ n \in Nat
      /\ n >= 1
  BY Lengths
<1>5. /\ Len(told) = Len(seen) + Len(call.got) + n
      /\ \A j \in 1..Len(seen) : told[j] = seen[j]
      /\ \A j \in 1..Len(call.got) : told[Len(seen) + j] = call.got[j]
      /\ \A j \in 1..n : told[Len(seen) + Len(call.got) + j] = wire[j]
  BY DEF Said
<1>6. Len(told) = Len(seen) + Len(call'.got) + (n - 1)
  BY <1>2, <1>4, <1>5
<1>7. ASSUME NEW j \in 1..Len(call'.got)
      PROVE  told[Len(seen) + j] = call'.got[j]
  <2>1. CASE j \in 1..Len(call.got)
    BY <1>2, <1>5, <2>1
  <2>2. CASE j = Len(call.got) + 1
    <3>1. told[Len(seen) + Len(call.got) + 1] = wire[1]
      BY <1>4, <1>5
    <3>2. Len(seen) + j = Len(seen) + Len(call.got) + 1
      BY <1>4, <2>2
    <3> QED BY <1>0, <1>2, <2>2, <3>1, <3>2
  <2> QED BY <1>2, <1>4, <2>1, <2>2
<1>8. ASSUME NEW j \in 1..(n - 1)
      PROVE  told[Len(seen) + Len(call'.got) + j] = wire'[j]
  <2>1. j \in 1..Len(wire') /\ j + 1 \in 1..n
    BY <1>3, <1>4
  <2>2. Len(seen) + Len(call'.got) + j = Len(seen) + Len(call.got) + (j + 1)
    <3>1. PICK a \in Nat, b \in Nat : a = Len(seen) /\ b = Len(call.got)
      BY <1>4
    <3>2. Len(call'.got) = b + 1
      BY <1>2, <3>1
    <3>3. a + (b + 1) + j = a + b + (j + 1)
      <4>1. j \in Nat
        BY <1>4
      <4>2. a \in Nat /\ b \in Nat
        BY <3>1
      <4> QED BY ONLY <4>1, <4>2, Sums, ZenonT(60)
    <3> QED BY <3>1, <3>2, <3>3
  <2> QED BY <1>3, <1>5, <2>1, <2>2
<1> QED BY <1>1, <1>5, <1>6, <1>7, <1>8 DEF Said

\* The lines idle_check() returns go from the wire to what was returned.
LEMMA CheckSaid ==
  ASSUME Order, NEW n \in 1..Len(wire), wire' = SubSeq(wire, n + 1, Len(wire)),
         seen' = seen \o SubSeq(wire, 1, n), call = NoCall,
         UNCHANGED <<call, told>>, Said(Len(wire))
  PROVE  Said(Len(wire))'
<1>1. call.got = <<>> /\ call'.got = <<>> /\ Len(call.got) = 0
  BY ShortIs DEF NoCall
<1>2. /\ Len(seen) \in Nat /\ Len(wire) \in Nat /\ n \in Nat
  BY Lengths
<1>3. PICK p : /\ p = SubSeq(wire, 1, n) /\ IsSeq(p) /\ Len(p) = n
               /\ \A k \in 1..n : p[k] = wire[k]
  <2>1. n \in 0..Len(wire) /\ IsSeq(wire)
    BY <1>2 DEF Order, Typed
  <2> DEFINE q == SubSeq(wire, 1, n)
  <2>2. IsSeq(q) /\ Len(q) = n /\ \A k \in 1..n : q[k] = wire[k]
    BY <2>1, FirstIs, ZenonT(60)
  <2> QED BY <2>2, Zenon
<1>4. /\ Len(seen') = Len(seen) + n
      /\ \A k \in 1..Len(seen) : seen'[k] = seen[k]
      /\ \A k \in 1..n : seen'[Len(seen) + k] = p[k]
  <2>1. seen' = seen \o p
    BY <1>3, Zenon
  <2>2. IsSeq(seen) /\ IsSeq(p)
    BY <1>3, Zenon DEF Order, Typed
  <2>3. /\ Len(seen \o p) = Len(seen) + Len(p)
        /\ \A k \in 1..Len(seen) : (seen \o p)[k] = seen[k]
        /\ \A k \in 1..Len(p) : (seen \o p)[Len(seen) + k] = p[k]
    BY <2>2, ConcatIs, SMTT(60)
  <2> QED BY <1>3, <2>1, <2>3, Zenon
<1>5. /\ Len(wire') = Len(wire) - n
      /\ \A k \in 1..Len(wire') : n + k \in 1..Len(wire) /\ wire'[k] = wire[n + k]
  BY CheckWire
<1>6. /\ Len(told) = Len(seen) + Len(wire)
      /\ \A j \in 1..Len(seen) : told[j] = seen[j]
      /\ \A j \in 1..Len(wire) : told[Len(seen) + j] = wire[j]
  BY <1>1, <1>2 DEF Said
<1>7. ASSUME NEW j \in 1..Len(seen')
      PROVE  told[j] = seen'[j]
  <2>1. CASE j \in 1..Len(seen)
    BY <1>4, <1>6, <2>1
  <2>2. CASE j \notin 1..Len(seen)
    <3>1. PICK k \in 1..n : j = Len(seen) + k
      <4>1. j - Len(seen) \in 1..n /\ j = Len(seen) + (j - Len(seen))
        BY <1>2, <1>4, <2>2
      <4> QED BY <4>1
    <3>2. k \in 1..Len(wire)
      BY <1>2
    <3> QED BY <1>3, <1>4, <1>6, <3>1, <3>2
  <2> QED BY <2>1, <2>2
<1>8. ASSUME NEW j \in 1..Len(wire')
      PROVE  told[Len(seen') + 0 + j] = wire'[j]
  <2>1. Len(seen') + 0 + j = Len(seen) + (n + j) /\ n + j \in 1..Len(wire)
    BY <1>2, <1>4, <1>5
  <2> QED BY <1>5, <1>6, <2>1
<1>9. Len(told) = Len(seen') + 0 + Len(wire')
  <2>1. PICK a \in Nat, w \in Nat : a = Len(seen) /\ w = Len(wire)
    BY <1>2
  <2>2. (a + n) + 0 + (w - n) = a + w
    BY <1>2, <2>1
  <2>3. Len(seen') = a + n /\ Len(wire') = w - n /\ Len(told) = a + w
    BY <1>4, <1>5, <1>6, <2>1
  <2> QED BY <2>2, <2>3
<1>10. \A j \in 1..0 : FALSE
  OBVIOUS
<1>11. Len(call'.got) = 0 /\ told' = told
  BY <1>1
<1>12. \A j \in 1..Len(call'.got) : told'[Len(seen') + j] = call'.got[j]
  BY <1>10, <1>11
<1>13. PICK g : g = Len(call'.got) /\ g = 0
  BY <1>11
<1>14. /\ Len(told') = Len(seen') + g + Len(wire')
       /\ \A j \in 1..Len(wire') : told'[Len(seen') + g + j] = wire'[j]
  BY <1>8, <1>9, <1>11, <1>13, SMTT(60)
<1>15. \A j \in 1..Len(seen') : told'[j] = seen'[j]
  BY <1>7, <1>11
<1>16. Len(told') = Len(seen') + Len(call'.got) + Len(wire')
  BY <1>13, <1>14
<1>17. \A j \in 1..Len(wire') : told'[Len(seen') + Len(call'.got) + j] = wire'[j]
  BY <1>13, <1>14
<1> QED BY <1>12, <1>15, <1>16, <1>17, Zenon DEF Said

\* A notice goes out.
LEMMA UpdateSaid ==
  ASSUME Order, Update, srv.op = "idle", Said(Len(wire)) PROVE Said(Len(wire))'
<1>1. /\ UNCHANGED <<call, seen>>
      /\ Len(wire) \in Nat /\ Len(wire') = Len(wire) + 1
      /\ \A k \in 1..Len(wire) : wire'[k] = wire[k]
      /\ Len(told) \in Nat /\ Len(told') = Len(told) + 1
      /\ \A k \in 1..Len(told) : told'[k] = told[k]
      /\ told'[Len(told) + 1] = wire'[Len(wire) + 1]
  BY Notice
<1>2. Len(seen) \in Nat /\ Len(call.got) \in Nat
  BY Lengths
<1>3. /\ Len(told) = Len(seen) + Len(call.got) + Len(wire)
      /\ \A j \in 1..Len(seen) : told[j] = seen[j]
      /\ \A j \in 1..Len(call.got) : told[Len(seen) + j] = call.got[j]
      /\ \A j \in 1..Len(wire) : told[Len(seen) + Len(call.got) + j] = wire[j]
  BY DEF Said
<1>4. \A j \in 1..Len(seen) : j \in 1..Len(told) /\ told'[j] = seen[j]
  BY <1>1, <1>2, <1>3
<1>5. \A j \in 1..Len(call.got) : told'[Len(seen) + j] = call.got[j]
  <2>1. \A j \in 1..Len(call.got) : Len(seen) + j \in 1..Len(told)
    BY <1>1, <1>2, <1>3
  <2> QED BY <1>1, <1>3, <2>1
<1>6. ASSUME NEW j \in 1..Len(wire')
      PROVE  told'[Len(seen) + Len(call.got) + j] = wire'[j]
  <2>1. CASE j \in 1..Len(wire)
    <3>1. Len(seen) + Len(call.got) + j \in 1..Len(told)
      BY <1>1, <1>2, <1>3, <2>1, SMTT(60)
    <3> QED BY <1>1, <1>3, <2>1, <3>1
  <2>2. CASE j = Len(wire) + 1
    <3>1. Len(seen) + Len(call.got) + j = Len(told) + 1
      <4>1. PICK a \in Nat, b \in Nat, w \in Nat :
              a = Len(seen) /\ b = Len(call.got) /\ w = Len(wire)
        BY <1>1, <1>2
      <4>2. Len(told) = a + b + w
        BY <1>3, <4>1
      <4>3. a + b + (w + 1) = a + b + w + 1
        BY Sums
      <4> QED BY <2>2, <4>1, <4>2, <4>3
    <3> QED BY <1>1, <2>2, <3>1
  <2> QED BY <1>1, <2>1, <2>2
<1>7. Len(told') = Len(seen) + Len(call.got) + Len(wire')
  <2>1. PICK a \in Nat, b \in Nat, w \in Nat :
          a = Len(seen) /\ b = Len(call.got) /\ w = Len(wire)
    BY <1>1, <1>2
  <2>2. Len(told') = a + b + w + 1 /\ Len(wire') = w + 1
    BY <1>1, <1>3, <2>1
  <2>3. a + b + (w + 1) = a + b + w + 1
    BY Sums
  <2> QED BY <2>1, <2>2, <2>3
<1> QED BY <1>1, <1>4, <1>5, <1>6, <1>7 DEF Said

-----------------------------------------------------------------------------
(* Idling: what was told is what was returned and the wire.                *)

\* The client starts to idle, or reads a notice.
LEMMA ReadListens == ASSUME Order, Invite, Listens, Read PROVE Listens'
<1>0. PICK l : l = wire[1]
  OBVIOUS
<1>1. /\ wire # <<>> /\ wire' = Tail(wire) /\ UNCHANGED <<tag, srv, told>>
      /\ \/ Keeps(l) \/ SendsText(l) \/ Collects(l)
         \/ StartsIdle(l) \/ StopsIdle(l) \/ Stops(l)
  BY <1>0, ReadForms
<1>2. SUFFICES ASSUME idling', srv.op = "idle", srv.tag = tag, Clean(1, Len(wire))'
               PROVE  Said(Len(wire))'
  BY <1>1 DEF Listens
<1>3. /\ Len(wire) \in Nat \ {0} /\ Len(wire') = Len(wire) - 1
      /\ \A k \in 1..Len(wire') : k + 1 \in 1..Len(wire) /\ wire'[k] = wire[k + 1]
  BY <1>1, WireTail
<1>4. \A k \in 1..Len(wire) : k # 1 => wire[k].kind = "untagged"
  <2>1. ASSUME NEW k \in 1..Len(wire), k # 1
        PROVE  wire[k].kind = "untagged"
    <3>1. k - 1 \in 1..Len(wire') /\ (k - 1) + 1 = k
      BY <1>3, <2>1
    <3> QED BY <1>2, <1>3, <3>1 DEF Clean
  <2> QED BY <2>1
<1>5. CASE Keeps(l) \/ SendsText(l)
  <2>1. idling /\ call.mode \in {"complete", "invite"}
    BY <1>2, <1>5 DEF Keeps, SendsText
  <2> QED BY <2>1 DEF Order, Current
<1>6. CASE Collects(l)
  <2>1. idling /\ l.kind = "untagged"
    BY <1>2, <1>6 DEF Collects
  <2>2. Clean(1, Len(wire))
    BY <1>0, <1>4, <2>1 DEF Clean
  <2>3. PICK n \in 1..Len(wire) : n = Len(wire)
    BY <1>3
  <2>4. Said(n)
    BY <1>2, <2>1, <2>2, <2>3 DEF Listens
  <2>5. Said(n - 1)'
    BY <1>0, <1>1, <1>6, <2>4, CollectsSaid
  <2>6. Len(wire') = n - 1
    BY <1>3, <2>3
  <2> QED BY <2>5, <2>6 DEF Said
<1>7. CASE StartsIdle(l)
  <2>1. call.op = "idle"
    BY <1>7 DEF StartsIdle, Order, Current
  <2>2. PICK k \in 1..Len(wire) :
          /\ wire[k].kind = "continuation" /\ Len(told) = Len(wire) - k
          /\ \A j \in 1..Len(told) : told[j] = wire[k + j]
    BY <1>2, <2>1 DEF Invite
  <2>3. k = 1
    BY <1>4, <2>2
  <2>4. seen' = <<>> /\ call'.got = <<>>
    BY <1>7 DEF StartsIdle, NoCall
  <2>5. Len(seen') = 0 /\ Len(call'.got) = 0
    BY <2>4, ShortIs
  <2>6. \A j \in 1..0 : FALSE
    OBVIOUS
  <2>7. /\ Len(told') = Len(wire')
        /\ \A j \in 1..Len(wire') : told'[j] = wire'[j]
    BY <1>1, <1>3, <2>2, <2>3
  <2>8. PICK s, g : s = Len(seen') /\ g = Len(call'.got) /\ s = 0 /\ g = 0
    BY <2>5
  <2>9. /\ Len(told') = s + g + Len(wire')
        /\ \A j \in 1..Len(wire') : told'[s + g + j] = wire'[j]
    BY <1>3, <2>7, <2>8
  <2>10. /\ \A j \in 1..s : told'[j] = seen'[j]
         /\ \A j \in 1..g : told'[s + j] = call'.got[j]
    BY <2>6, <2>8
  <2> QED BY <2>8, <2>9, <2>10 DEF Said
<1>8. CASE StopsIdle(l) \/ Stops(l)
  BY <1>2, <1>8 DEF StopsIdle, Stops
<1> QED BY <1>1, <1>5, <1>6, <1>7, <1>8

\* The server idles no more, or its invitation is on the wire.
LEMMA ServeListens == ASSUME Order, Listens, Serve PROVE Listens'
<1>0. PICK r : r = reqs[1]
  OBVIOUS
<1>1. /\ UNCHANGED <<call, tag, idling, seen>>
      /\ \/ Ignores(r) \/ Finishes(r) \/ TakesText(r)
         \/ InvitesTo(r) \/ Refuses(r) \/ Grants(r)
  BY <1>0, ServeForms DEF client
<1>2. CASE Ignores(r)
  BY <1>1, <1>2 DEF Ignores, Listens, Clean, Said
<1>3. CASE InvitesTo(r)
  <2>1. PICK x : x.kind = "continuation" /\ wire' = Append(wire, x)
    <3>1. Invites(r.tag).kind = "continuation"
      BY DEF Invites, Line
    <3> QED BY <1>3, <3>1 DEF InvitesTo
  <2>2. Grows(1) /\ wire'[Len(wire) + 1] = x
    BY <2>1, Adding DEF Order, Typed
  <2>3. Len(wire) + 1 \in 1..Len(wire')
    BY <2>2 DEF Grows
  <2>4. ~Clean(1, Len(wire))'
    BY <2>1, <2>2, <2>3 DEF Clean
  <2> QED BY <2>4 DEF Listens
<1>4. CASE Finishes(r) \/ TakesText(r) \/ Refuses(r) \/ Grants(r)
  <2>1. srv'.op = "none"
    <3>1. CASE Finishes(r)
      BY <3>1 DEF Finishes, NoServe
    <3>2. CASE TakesText(r)
      BY <3>2 DEF TakesText, NoServe
    <3>3. CASE Refuses(r) \/ Grants(r)
      BY <3>3 DEF Refuses, Grants
    <3> QED BY <1>4, <3>1, <3>2, <3>3
  <2> QED BY <2>1 DEF Listens
<1> QED BY <1>1, <1>2, <1>3, <1>4

\* A notice goes out to a client that idles.
LEMMA UpdateListens == ASSUME Order, Listens, Update PROVE Listens'
<1>1. /\ UNCHANGED <<tag, idling, srv>>
      /\ Len(wire) \in Nat /\ Len(wire') = Len(wire) + 1
      /\ \A k \in 1..Len(wire) : wire'[k] = wire[k]
  BY Notice
<1>2. ASSUME idling, srv.op = "idle", srv.tag = tag, Clean(1, Len(wire))'
      PROVE  Said(Len(wire))'
  <2>1. \A k \in 1..Len(wire) : k \in 1..Len(wire')
    BY <1>1
  <2>2. Clean(1, Len(wire))
    BY <1>1, <1>2, <2>1 DEF Clean
  <2> QED BY <1>2, <2>2, UpdateSaid DEF Listens
<1> QED BY <1>1, <1>2 DEF Listens

\* idle_check() returns what it takes off the wire.
LEMMA CheckListens == ASSUME Order, Listens, IdleCheck PROVE Listens'
<1>1. call = NoCall /\ idling /\ UNCHANGED <<call, tag, srv, told>>
  BY CheckForms
<1>2. PICK n \in 1..Len(wire) :
        /\ wire' = SubSeq(wire, n + 1, Len(wire))
        /\ \/ /\ seen' = seen \o SubSeq(wire, 1, n)
              /\ \A k \in 1..n : wire[k].kind = "untagged"
           \/ idling' = FALSE
  BY CheckForms
<1>3. ASSUME idling', srv.op = "idle", srv.tag = tag, Clean(1, Len(wire))'
      PROVE  Said(Len(wire))'
  <2>1. /\ seen' = seen \o SubSeq(wire, 1, n)
        /\ \A k \in 1..n : wire[k].kind = "untagged"
    BY <1>2, <1>3
  <2>2. /\ Len(wire) \in Nat /\ Len(wire') = Len(wire) - n
        /\ \A k \in 1..Len(wire') : n + k \in 1..Len(wire) /\ wire'[k] = wire[n + k]
    BY <1>2, CheckWire
  <2>3. ASSUME NEW k \in 1..Len(wire), k \notin 1..n
        PROVE  wire[k].kind = "untagged"
    <3>1. k - n \in 1..Len(wire') /\ n + (k - n) = k
      BY <2>2, <2>3
    <3> QED BY <1>3, <2>2, <3>1 DEF Clean
  <2>4. Clean(1, Len(wire))
    BY <2>1, <2>3 DEF Clean
  <2>5. Said(Len(wire))
    BY <1>1, <1>3, <2>4 DEF Listens
  <2> QED BY <1>1, <1>2, <2>1, <2>5, CheckSaid
<1> QED BY <1>1, <1>3 DEF Listens

\* Every step.
LEMMA NextListens == ASSUME Order, Invite, Listens, [Next]_vars PROVE Listens'
<1>1. CASE UNCHANGED sessVars \/ Capabilities
  BY <1>1 DEF sessVars, Capabilities, server, Listens, Clean, Said
<1>2. CASE ~idling'
  BY <1>2 DEF Listens
<1>3. CASE NewClient
  BY <1>2, <1>3 DEF NewClient
<1>4. CASE Timeout
  BY <1>2, <1>4 DEF Timeout, Fails, Ends, Order, Current
<1>5. CASE (\E op \in Kinds : Command(op)) \/ Idle
  <2>1. PICK op : Calls(op)
    BY <1>5, CommandCalls, IdleCalls
  <2> QED BY <1>2, <2>1 DEF Calls
<1>6. CASE IdleDone
  <2>1. /\ call.got = <<>> /\ call'.got = <<>>
        /\ UNCHANGED <<tag, wire, idling, seen, srv, told>>
    BY <1>6 DEF IdleDone, server, NoCall
  <2> QED BY <2>1 DEF Listens, Clean, Said
<1>7. CASE IdleCheck \/ Read \/ Serve \/ Update
  BY <1>7, CheckListens, ReadListens, ServeListens, UpdateListens
<1> QED BY <1>1, <1>3, <1>4, <1>5, <1>6, <1>7 DEF Next, vars

-----------------------------------------------------------------------------
(* Idling: the completion of DONE ends what the server had to tell.        *)

\* A sequence of length 0.
LEMMA NoneLeft == ASSUME NEW s, IsSeq(s), Len(s) = 0 PROVE s = <<>>
<1>1. PICK S : s \in Seq(S)
  BY DEF IsSeq
<1> QED BY <1>1

\* After DONE the server has nothing else to read.
LEMMA LastRequest ==
  ASSUME Order, Matching, Once, call.op = "done", srv.op = "idle", srv.tag = tag,
         reqs # <<>>, reqs[1].op = "done", reqs[1].tag = tag, reqs' = Tail(reqs),
         Order'
  PROVE  reqs' = <<>>
<1>1. /\ Len(reqs) \in Nat \ {0} /\ Len(reqs') = Len(reqs) - 1
      /\ \A k \in 1..Len(reqs') : k + 1 \in 1..Len(reqs) /\ reqs'[k] = reqs[k + 1]
  BY ReqsTail
<1>2. ASSUME Len(reqs') # 0 PROVE FALSE
  <2>1. 1 \in 1..Len(reqs) /\ 2 \in 1..Len(reqs) /\ 1 \in 1..2
    BY <1>1, <1>2
  <2>2. reqs[2].tag = tag
    <3>1. reqs[2].tag \in 1..tag /\ reqs[1].tag <= reqs[2].tag /\ tag \in Nat
      BY <2>1 DEF Order, Typed, Tags
    <3> QED BY <3>1
  <2>3. idling
    BY DEF Order, Current
  <2>4. reqs[2].op \in {"done", "idle"}
    BY <2>1, <2>2, <2>3 DEF Matching, Asked
  <2>5. reqs[2].op # "idle"
    BY <2>1, <2>2 DEF Once
  <2>6. reqs[2].op = "done"
    BY <2>4, <2>5
  <2>7. 1 = 2
    BY <2>1, <2>2, <2>6 DEF Once
  <2> QED BY <2>7
<1> QED BY <1>2, NoneLeft DEF Order, Typed

\* The DONE is read, and the completion put on the wire.
LEMMA ServeHears ==
  ASSUME Order, Matching, Once, Listens, Hears, Serve PROVE Hears'
<1>1. /\ reqs # <<>> /\ reqs' = Tail(reqs) /\ UNCHANGED <<call, tag, idling, seen>>
  BY ServeForms DEF client
<1>2. SUFFICES ASSUME NEW k \in 1..Len(wire'), call.op = "done", Succeeds(wire'[k])
               PROVE  /\ reqs' = <<>> /\ srv'.op = "none" /\ Clean(k + 1, Len(wire))'
                      /\ Clean(1, k - 1)' => Said(k - 1)'
  BY <1>1 DEF Hears, Succeeds, Own
<1>3. /\ Len(wire) \in Nat
      /\ \A j \in 1..Len(wire) : wire'[j] = wire[j]
  BY ServedWire
<1>4. k \notin 1..Len(wire)
  BY <1>1, <1>2, <1>3 DEF Hears
<1>5. idling
  BY <1>2 DEF Order, Current
<1>6. /\ k = Len(wire) + 1 /\ Len(wire') = Len(wire) + 1
      /\ srv.op = "idle" /\ srv.tag = tag
      /\ reqs[1].op = "done" /\ reqs[1].tag = tag
      /\ srv' = NoServe /\ told' = told
  BY <1>2, <1>4, <1>5, ServedSuccess
<1>7. Order'
  BY NextOrder DEF Next
<1>8. reqs' = <<>>
  BY <1>1, <1>2, <1>6, <1>7, LastRequest
<1>9. Clean(k + 1, Len(wire))'
  <2>1. \A j \in (k + 1)..Len(wire') : FALSE
    BY <1>3, <1>6
  <2> QED BY <2>1 DEF Clean
<1>10. PICK n \in Nat : n = Len(wire) /\ k - 1 = n
  BY <1>3, <1>6
<1>11. ASSUME Clean(1, n)' PROVE Said(n)'
  <2>1. Clean(1, n)
    BY <1>3, <1>10, <1>11 DEF Clean
  <2>2. Said(n)
    BY <1>5, <1>6, <1>10, <2>1 DEF Listens
  <2> QED BY <1>1, <1>3, <1>6, <1>10, <2>2 DEF Said
<1>12. srv'.op = "none"
  BY <1>6 DEF NoServe
<1> QED BY <1>8, <1>9, <1>10, <1>11, <1>12

\* idle_done() reads the lines before the completion.
LEMMA ReadHears == ASSUME Order, Hears, Read PROVE Hears'
<1>0. PICK l : l = wire[1]
  OBVIOUS
<1>1. /\ wire # <<>> /\ wire' = Tail(wire) /\ 1 \in 1..Len(wire)
      /\ UNCHANGED <<tag, srv, told>>
      /\ \/ Keeps(l) \/ SendsText(l) \/ Collects(l)
         \/ StartsIdle(l) \/ StopsIdle(l) \/ Stops(l)
  BY <1>0, ReadForms
<1>2. SUFFICES ASSUME NEW k \in 1..Len(wire'), call'.op = "done", Succeeds(wire'[k])
               PROVE  /\ reqs' = <<>> /\ srv'.op = "none" /\ Clean(k + 1, Len(wire))'
                      /\ Clean(1, k - 1)' => Said(k - 1)'
  BY <1>1 DEF Hears, Succeeds, Own
<1>3. /\ Len(wire) \in Nat \ {0} /\ Len(wire') = Len(wire) - 1
      /\ \A j \in 1..Len(wire') : j + 1 \in 1..Len(wire) /\ wire'[j] = wire[j + 1]
  BY <1>1, WireTail
<1>4. Collects(l)
  <2>1. CASE Keeps(l)
    BY <1>2, <2>1 DEF Keeps, Order, Current
  <2>2. CASE SendsText(l)
    <3>1. call'.op = "text"
      BY <2>2 DEF SendsText, Order, Typed, Current
    <3> QED BY <1>2, <3>1
  <2>3. CASE StartsIdle(l) \/ StopsIdle(l) \/ Stops(l)
    BY <1>2, <2>3 DEF StartsIdle, StopsIdle, Stops, NoCall
  <2> QED BY <1>1, <2>1, <2>2, <2>3
<1>5. call.op = "done" /\ reqs' = reqs /\ l.kind = "untagged"
  BY <1>2, <1>4 DEF Collects, Order, Typed
<1>6. PICK m \in 1..Len(wire) : m = k + 1 /\ wire'[k] = wire[m]
  BY <1>2, <1>3
<1>7. /\ reqs = <<>> /\ srv.op = "none" /\ Clean(m + 1, Len(wire))
      /\ Clean(1, m - 1) => Said(m - 1)
  BY <1>2, <1>5, <1>6 DEF Hears
<1>8. m - 1 = k /\ k \in 1..Len(wire)
  BY <1>3, <1>6
<1>9. Clean(k + 1, Len(wire))'
  <2>1. ASSUME NEW j \in (k + 1)..Len(wire')
        PROVE  wire'[j].kind = "untagged"
    <3>1. j \in 1..Len(wire') /\ j + 1 \in (m + 1)..Len(wire)
      BY <1>3, <1>6, <1>8
    <3> QED BY <1>3, <1>7, <3>1 DEF Clean
  <2> QED BY <2>1 DEF Clean
<1>10. ASSUME Clean(1, k - 1)' PROVE Said(k - 1)'
  <2>1. ASSUME NEW j \in 1..k PROVE wire[j].kind = "untagged"
    <3>1. CASE j = 1
      BY <1>0, <1>5, <3>1
    <3>2. CASE j # 1
      <4>1. j - 1 \in 1..(k - 1) /\ j - 1 \in 1..Len(wire') /\ (j - 1) + 1 = j
        BY <1>3, <1>8, <3>2
      <4> QED BY <1>3, <1>10, <4>1 DEF Clean
    <3> QED BY <3>1, <3>2
  <2>2. Said(k)
    BY <1>7, <1>8, <2>1 DEF Clean
  <2> QED BY <1>0, <1>1, <1>4, <1>8, <2>2, CollectsSaid
<1> QED BY <1>1, <1>5, <1>7, <1>9, <1>10

\* A notice after the completion is none of idle().
LEMMA UpdateHears == ASSUME Order, Hears, Update PROVE Hears'
<1>1. /\ UNCHANGED <<call, tag, reqs, idling, seen, srv>>
      /\ Len(wire) \in Nat /\ Len(wire') = Len(wire) + 1
      /\ \A k \in 1..Len(wire) : wire'[k] = wire[k]
      /\ wire'[Len(wire) + 1].kind = "untagged"
      /\ srv.op # "idle" => told' = told
  BY Notice
<1>2. SUFFICES ASSUME NEW k \in 1..Len(wire'), call.op = "done", Succeeds(wire'[k])
               PROVE  /\ reqs = <<>> /\ srv.op = "none" /\ Clean(k + 1, Len(wire))'
                      /\ Clean(1, k - 1)' => Said(k - 1)'
  BY <1>1 DEF Hears, Succeeds, Own
<1>3. k \in 1..Len(wire)
  <2>1. k # Len(wire) + 1
    BY <1>1, <1>2 DEF Succeeds, Own
  <2> QED BY <1>1, <2>1
<1>4. /\ reqs = <<>> /\ srv.op = "none" /\ Clean(k + 1, Len(wire))
      /\ Clean(1, k - 1) => Said(k - 1)
  BY <1>1, <1>2, <1>3 DEF Hears
<1>5. Clean(k + 1, Len(wire))'
  <2>1. ASSUME NEW j \in (k + 1)..Len(wire')
        PROVE  wire'[j].kind = "untagged"
    <3>1. CASE j = Len(wire) + 1
      BY <1>1, <3>1
    <3>2. CASE j # Len(wire) + 1
      <4>1. j \in (k + 1)..Len(wire) /\ j \in 1..Len(wire)
        BY <1>1, <1>3, <3>2
      <4> QED BY <1>1, <1>4, <4>1 DEF Clean
    <3> QED BY <3>1, <3>2
  <2> QED BY <2>1 DEF Clean
<1>6. PICK n : n = k - 1 /\ \A j \in 1..n : j \in 1..Len(wire)
  BY <1>1, <1>3
<1>7. ASSUME Clean(1, n)' PROVE Said(n)'
  <2>1. Clean(1, n)
    BY <1>1, <1>6, <1>7 DEF Clean
  <2>2. Said(n)
    BY <1>4, <1>6, <2>1
  <2> QED BY <1>1, <1>4, <1>6, <2>2 DEF Said
<1> QED BY <1>4, <1>5, <1>6, <1>7

\* Every step.
LEMMA NextHears ==
  ASSUME Order, Matching, Once, NotYet, Listens, Hears, [Next]_vars PROVE Hears'
<1>1. CASE UNCHANGED sessVars \/ Capabilities
  <2>1. UNCHANGED <<call, tag, reqs, wire, seen, srv, told>>
    BY <1>1 DEF sessVars, Capabilities, server
  <2>2. \A n : Said(n) <=> Said(n)'
    BY <2>1 DEF Said
  <2>3. \A i, j : Clean(i, j) <=> Clean(i, j)'
    BY <2>1 DEF Clean
  <2>4. \A k \in 1..Len(wire) : Succeeds(wire[k]) <=> Succeeds(wire[k])'
    BY <2>1 DEF Succeeds, Own
  <2> QED BY <2>1, <2>2, <2>3, <2>4 DEF Hears
<1>2. CASE call'.op # "done"
  BY <1>2 DEF Hears
<1>3. CASE NewClient \/ Timeout \/ IdleCheck
  <2>1. call' = NoCall
    BY <1>3, CheckForms DEF NewClient, Timeout, Fails, Ends
  <2> QED BY <1>2, <2>1 DEF NoCall
<1>4. CASE (\E op \in Kinds : Command(op)) \/ Idle
  <2>1. PICK op : Calls(op)
    BY <1>4, CommandCalls, IdleCalls
  <2>2. call'.op = op /\ op \in Kinds \cup {"idle"}
    BY <2>1 DEF Calls
  <2> QED BY <1>2, <2>2 DEF Kinds
<1>5. CASE IdleDone
  <2>1. call.op = "none" /\ idling /\ UNCHANGED <<tag, wire>>
    BY <1>5 DEF IdleDone, NoCall
  <2> QED BY <2>1 DEF NotYet, Hears, Succeeds, Own
<1>6. CASE Read \/ Serve \/ Update
  BY <1>6, ReadHears, ServeHears, UpdateHears
<1> QED BY <1>1, <1>3, <1>4, <1>5, <1>6 DEF Next, vars

-----------------------------------------------------------------------------
(* After idle_done().                                                      *)

\* The parts of Heeds.
Alone(w) == \A j, k \in 1..Len(w) :
              w[j].kind # "untagged" /\ w[k].kind # "untagged" => j = k

\* All that was told has been returned.
LEMMA SaidAll ==
  ASSUME Order, Said(0), seen' = seen \o call.got, told' = told
  PROVE  seen' = told'
<1>1. /\ Len(told) = Len(seen) + Len(call.got) + 0
      /\ \A j \in 1..Len(seen) : told[j] = seen[j]
      /\ \A j \in 1..Len(call.got) : told[Len(seen) + j] = call.got[j]
  BY DEF Said
<1>2. /\ IsSeq(seen') /\ Len(seen) \in Nat /\ Len(call.got) \in Nat
      /\ Len(seen') = Len(seen) + Len(call.got)
      /\ \A k \in 1..Len(seen) : seen'[k] = seen[k]
      /\ \A k \in 1..Len(call.got) : seen'[Len(seen) + k] = call.got[k]
  BY ConcatIs DEF Order, Typed
<1>3. Len(seen') = Len(told)
  BY <1>1, <1>2
<1>4. ASSUME NEW j \in 1..Len(told) PROVE seen'[j] = told[j]
  <2>1. CASE j \in 1..Len(seen)
    BY <1>1, <1>2, <2>1
  <2>2. CASE j \notin 1..Len(seen)
    <3>1. PICK k \in 1..Len(call.got) : j = Len(seen) + k
      <4>1. j - Len(seen) \in 1..Len(call.got) /\ j = Len(seen) + (j - Len(seen))
        BY <1>1, <1>2, <2>2
      <4> QED BY <4>1
    <3> QED BY <1>1, <1>2, <3>1
  <2> QED BY <2>1, <2>2
<1>5. IsSeq(told)
  BY DEF Order, Typed
<1>6. PICK S, T : seen' \in Seq(S) /\ told \in Seq(T)
  BY <1>2, <1>5 DEF IsSeq
<1>7. seen' \in Seq(S \cup T) /\ told \in Seq(S \cup T)
  BY <1>6
<1>8. seen' = told
  <2>1. \A j \in 1..Len(seen') : seen'[j] = told[j]
    BY <1>3, <1>4
  <2> QED BY <1>3, <1>7, <2>1, SeqEqual
<1> QED BY <1>8

\* The next call finds nothing on the wire but notices.
LEMMA CallsHeeds == ASSUME Order, Heeds, NEW op, Calls(op) PROVE Heeds'
<1>1. /\ call = NoCall /\ ~idling /\ tag' = tag + 1 /\ call'.op = op
      /\ op \in Kinds \cup {"idle"}
      /\ UNCHANGED <<wire, idling, seen, result, srv, told>>
  BY DEF Calls
<1>2. PICK r : r.tag = tag + 1 /\ reqs' = Append(reqs, r)
  BY DEF Calls
<1>3. SUFFICES ASSUME result.op = "done" /\ result.ok
               PROVE  Heeds'
  BY <1>1 DEF Heeds
<1>4. /\ reqs = <<>> /\ srv.op = "none" /\ Clean(1, Len(wire))
      /\ Alone(wire) /\ seen = told
  BY <1>1, <1>3 DEF Heeds, NoCall, Alone
<1>5. Len(reqs') = 1 /\ reqs'[1].tag = tag'
  <2>1. Len(reqs) = 0
    BY <1>4, ShortIs
  <2> QED BY <1>1, <1>2, <2>1, Sent
<1>6. Clean(1, Len(wire))'
  BY <1>1, <1>4 DEF Clean
<1>7. call'.op # "none"
  BY <1>1 DEF Kinds
<1> QED BY <1>1, <1>4, <1>5, <1>6, <1>7 DEF Heeds, Alone

\* Its request is answered, with one line that is no notice.
LEMMA ServeHeeds == ASSUME Order, Matching, Heeds, Serve PROVE Heeds'
<1>0. PICK r : r = reqs[1]
  OBVIOUS
<1>1. /\ reqs # <<>> /\ reqs' = Tail(reqs) /\ 1 \in 1..Len(reqs)
      /\ UNCHANGED <<call, tag, idling, seen, result>>
      /\ \/ Ignores(r) \/ Finishes(r) \/ TakesText(r)
         \/ InvitesTo(r) \/ Refuses(r) \/ Grants(r)
  BY <1>0, ServeForms DEF client
<1>2. SUFFICES ASSUME result.op = "done" /\ result.ok
               PROVE  Heeds'
  BY <1>1 DEF Heeds
<1>3. /\ ~idling /\ Len(reqs) = 1 /\ r.tag = tag /\ Clean(1, Len(wire))
      /\ call.op # "none" /\ srv.op # "idle" /\ seen = told
  BY <1>0, <1>1, <1>2 DEF Heeds
<1>4. reqs' = <<>>
  <2>1. Len(reqs') = 0 /\ IsSeq(reqs')
    BY <1>1, <1>3, TailIs DEF Order, Typed
  <2> QED BY <2>1, NoneLeft
<1>5. IsSeq(wire) /\ Len(wire) \in Nat
  BY ConcatIs DEF Order, Typed
<1>6. ASSUME Grows(1) PROVE Alone(wire')
  <2>1. \A k \in 1..Len(wire') : k \in 1..Len(wire) \/ k = Len(wire) + 1
    BY <1>6 DEF Grows
  <2>2. \A k \in 1..Len(wire) : wire'[k].kind = "untagged"
    BY <1>3, <1>6 DEF Grows, Clean
  <2> QED BY <2>1, <2>2 DEF Alone
<1>7. ASSUME Grows(2), AnswerTo(wire'[Len(wire) + 1], r) PROVE Alone(wire')
  <2>1. \A k \in 1..Len(wire') : k \in 1..Len(wire) \/ k = Len(wire) + 1 \/ k = Len(wire) + 2
    BY <1>7 DEF Grows
  <2>2. \A k \in 1..Len(wire) : wire'[k].kind = "untagged"
    BY <1>3, <1>7 DEF Grows, Clean
  <2>3. wire'[Len(wire) + 1].kind = "untagged"
    BY <1>7 DEF AnswerTo
  <2> QED BY <2>1, <2>2, <2>3 DEF Alone
<1>8. ASSUME NEW x, wire' = Append(wire, x) PROVE Alone(wire')
  BY <1>5, <1>6, <1>8, Adding
<1>9. ASSUME NEW c, wire' = wire \o (Answers(r) \o <<c>>) PROVE Alone(wire')
  <2>1. CASE Grows(1) /\ wire'[Len(wire) + 1] = c
    BY <1>6, <2>1
  <2>2. CASE Grows(2) /\ AnswerTo(wire'[Len(wire) + 1], r)
    BY <1>7, <2>2
  <2> QED BY <1>5, <1>9, <2>1, <2>2, Answering
<1>10. Alone(wire')
  <2>1. CASE Ignores(r)
    BY <1>3, <2>1 DEF Ignores, Clean, Alone
  <2>2. CASE Finishes(r)
    BY <1>8, <2>2 DEF Finishes
  <2>3. CASE TakesText(r)
    BY <1>9, <2>3 DEF TakesText
  <2>4. CASE InvitesTo(r)
    BY <1>8, <2>4 DEF InvitesTo
  <2>5. CASE Refuses(r)
    BY <1>8, <2>5 DEF Refuses
  <2>6. CASE Grants(r)
    BY <1>9, <2>6 DEF Grants
  <2> QED BY <1>1, <2>1, <2>2, <2>3, <2>4, <2>5, <2>6
<1>11. \/ srv'.op = "idle" /\ call.op = "idle" /\ srv'.tag = tag
       \/ srv'.op # "idle" /\ told' = told
  <2>1. CASE Ignores(r)
    BY <1>3, <2>1 DEF Ignores
  <2>2. CASE Finishes(r)
    BY <2>2 DEF Finishes, NoServe
  <2>3. CASE TakesText(r)
    BY <2>3 DEF TakesText, NoServe
  <2>4. CASE InvitesTo(r)
    <3>1. r.op \in Asked
      BY <1>0, <1>1, <1>3 DEF Matching
    <3>2. r.op = "idle" => call.op = "idle"
      BY <1>3, <3>1 DEF Asked
    <3> QED BY <1>3, <2>4, <3>2 DEF InvitesTo
  <2>5. CASE Refuses(r)
    BY <1>3, <2>5 DEF Refuses
  <2>6. CASE Grants(r)
    BY <1>3, <2>6 DEF Grants
  <2> QED BY <1>1, <2>1, <2>2, <2>3, <2>4, <2>5, <2>6
<1> QED BY <1>1, <1>3, <1>4, <1>10, <1>11 DEF Heeds, Alone

\* Notices may come at any time.
LEMMA UpdateHeeds == ASSUME Order, Heeds, Update PROVE Heeds'
<1>1. /\ UNCHANGED <<call, tag, reqs, idling, seen, result, srv>>
      /\ Len(wire) \in Nat /\ Len(wire') = Len(wire) + 1
      /\ \A k \in 1..Len(wire) : wire'[k] = wire[k]
      /\ wire'[Len(wire) + 1].kind = "untagged"
      /\ srv.op # "idle" => told' = told
  BY Notice
<1>2. SUFFICES ASSUME result.op = "done" /\ result.ok
               PROVE  Heeds'
  BY <1>1 DEF Heeds
<1>3. \A k \in 1..Len(wire') : k \in 1..Len(wire) \/ k = Len(wire) + 1
  BY <1>1
<1>4. Alone(wire')
  <2>1. Alone(wire)
    BY <1>2 DEF Heeds, Alone
  <2> QED BY <1>1, <1>3, <2>1 DEF Alone
<1>5. Clean(1, Len(wire)) => Clean(1, Len(wire))'
  BY <1>1, <1>3 DEF Clean
<1> QED BY <1>1, <1>2, <1>4, <1>5 DEF Heeds, Alone

\* idle_done() ends well, or the next call goes on.
LEMMA ReadHeeds == ASSUME Order, Hears, Heeds, Read PROVE Heeds'
<1>0. PICK l : l = wire[1]
  OBVIOUS
<1>1. /\ wire # <<>> /\ wire' = Tail(wire) /\ 1 \in 1..Len(wire)
      /\ call.op # "none" /\ UNCHANGED <<tag, srv, told>>
      /\ \/ Keeps(l) \/ SendsText(l) \/ Collects(l)
         \/ StartsIdle(l) \/ StopsIdle(l) \/ Stops(l)
  BY <1>0, ReadForms
<1>2. /\ Len(wire) \in Nat \ {0} /\ Len(wire') = Len(wire) - 1
      /\ \A j \in 1..Len(wire') : j + 1 \in 1..Len(wire) /\ wire'[j] = wire[j + 1]
  BY <1>1, WireTail
<1>3. ASSUME Alone(wire) PROVE Alone(wire')
  <2>1. ASSUME NEW j \in 1..Len(wire'), NEW k \in 1..Len(wire'),
               wire'[j].kind # "untagged", wire'[k].kind # "untagged"
        PROVE  j = k
    <3>1. /\ j + 1 \in 1..Len(wire) /\ wire[j + 1].kind # "untagged"
          /\ k + 1 \in 1..Len(wire) /\ wire[k + 1].kind # "untagged"
      BY <1>2, <2>1, Zenon
    <3>2. j + 1 = k + 1
      BY <1>3, <3>1, Zenon DEF Alone
    <3> QED BY <3>2
  <2> QED BY <2>1 DEF Alone
<1>4. ASSUME Clean(1, Len(wire)) PROVE Clean(1, Len(wire))'
  BY <1>2, <1>4 DEF Clean
<1>5. CASE Keeps(l) \/ Collects(l)
  <2>1. UNCHANGED <<result, idling, reqs, seen>> /\ call'.op = call.op
    BY <1>5 DEF Keeps, Collects, Order, Typed
  <2> QED BY <1>1, <1>3, <1>4, <2>1 DEF Heeds, Alone
<1>6. CASE SendsText(l)
  <2>1. /\ UNCHANGED <<result, idling, seen>> /\ call'.op = call.op /\ call.op = "text"
        /\ l.kind = "continuation" /\ call.tag = tag
    BY <1>6 DEF SendsText, Order, Typed, Current
  <2>2. SUFFICES ASSUME result.op = "done" /\ result.ok
                 PROVE  Heeds'
    BY <2>1 DEF Heeds
  <2>3. Alone(wire)
    BY <2>2 DEF Heeds, Alone
  <2>4. ~Clean(1, Len(wire))
    BY <1>0, <1>1, <2>1 DEF Clean
  <2>5. reqs = <<>> /\ srv.op # "idle" /\ ~idling /\ seen = told
    BY <2>1, <2>2, <2>4 DEF Heeds
  <2>6. Len(reqs') = 1 /\ reqs'[1].tag = tag
    <3>1. PICK r : r.tag = tag /\ reqs' = Append(reqs, r)
      BY <1>6, <2>1 DEF SendsText
    <3>2. Len(reqs) = 0
      BY <2>5, ShortIs
    <3> QED BY <3>1, <3>2, Sent
  <2>7. Clean(1, Len(wire))'
    <3>1. ASSUME NEW j \in 1..Len(wire') PROVE wire'[j].kind = "untagged"
      <4>1. j + 1 # 1
        BY <1>2
      <4> QED BY <1>0, <1>1, <1>2, <2>1, <2>3, <4>1 DEF Alone
    <3> QED BY <3>1 DEF Clean
  <2> QED BY <1>1, <1>3, <2>1, <2>3, <2>5, <2>6, <2>7 DEF Heeds, Alone
<1>7. CASE StartsIdle(l)
  <2>1. result' = [NoResult EXCEPT !.op = "idle", !.of = call.tag]
    BY <1>7 DEF StartsIdle
  <2>2. result'.op # "done"
    BY <2>1 DEF NoResult
  <2> QED BY <2>2 DEF Heeds
<1>8. CASE Stops(l)
  BY <1>8 DEF Stops, Heeds
<1>9. CASE StopsIdle(l)
  <2>1. /\ call.op = "done" /\ Succeeds(wire[1]) /\ call' = NoCall /\ idling' = FALSE
        /\ seen' = seen \o call.got /\ reqs' = reqs
    BY <1>0, <1>9 DEF StopsIdle, Succeeds
  <2>2. /\ reqs = <<>> /\ srv.op = "none" /\ Clean(1 + 1, Len(wire))
        /\ Clean(1, 1 - 1) => Said(1 - 1)
    BY <1>1, <2>1 DEF Hears
  <2>3. Clean(1, 0)
    <3>1. \A k \in 1..0 : FALSE
      OBVIOUS
    <3> QED BY <3>1 DEF Clean
  <2>4. Said(0)
    <3>1. 1 - 1 = 0
      OBVIOUS
    <3> QED BY <2>2, <2>3, <3>1
  <2>5. seen' = told'
    BY <1>1, <2>1, <2>4, SaidAll
  <2>6. \A j \in 1..Len(wire') : wire'[j].kind = "untagged"
    <3>1. \A j \in 1..Len(wire') : j + 1 \in (1 + 1)..Len(wire)
      BY <1>2
    <3> QED BY <1>2, <2>2, <3>1 DEF Clean
  <2>7. Clean(1, Len(wire))' /\ Alone(wire')
    BY <2>6 DEF Clean, Alone
  <2> QED BY <1>1, <2>1, <2>2, <2>5, <2>7 DEF Heeds, Alone
<1> QED BY <1>1, <1>5, <1>6, <1>7, <1>8, <1>9

\* Every step.
LEMMA NextHeeds == ASSUME Order, Matching, Hears, Heeds, [Next]_vars PROVE Heeds'
<1>1. CASE UNCHANGED sessVars
  BY <1>1 DEF sessVars, Heeds, Clean
<1>2. CASE result'.op # "done" \/ ~result'.ok
  BY <1>2 DEF Heeds
<1>3. CASE NewClient
  BY <1>2, <1>3 DEF NewClient, NoResult
<1>4. CASE Timeout
  BY <1>2, <1>4, FailsWith DEF Timeout
<1>5. CASE IdleCheck
  BY <1>2, <1>5, CheckForms
<1>6. CASE Capabilities
  BY <1>2, <1>6, CapabilitiesResult
<1>7. CASE (\E op \in Kinds : Command(op)) \/ Idle
  BY <1>7, CommandCalls, IdleCalls, CallsHeeds
<1>8. CASE IdleDone
  <2>1. idling /\ UNCHANGED <<idling, result>>
    BY <1>8 DEF IdleDone
  <2>2. ~(result.op = "done" /\ result.ok)
    BY <2>1 DEF Heeds
  <2> QED BY <2>1, <2>2 DEF Heeds
<1>9. CASE Read \/ Serve \/ Update
  BY <1>9, ReadHeeds, ServeHeeds, UpdateHeeds
<1> QED BY <1>1, <1>3, <1>4, <1>5, <1>6, <1>7, <1>8, <1>9 DEF Next, vars

-----------------------------------------------------------------------------
\* What holds between idle() and idle_done() of a client nobody has used.
LEMMA StartsListening ==
  Fresh => Once /\ NotYet /\ Invite /\ Listens /\ Hears /\ Heeds
<1> SUFFICES ASSUME Fresh PROVE Once /\ NotYet /\ Invite /\ Listens /\ Hears /\ Heeds
  OBVIOUS
<1>1. Len(reqs) = 0 /\ Len(wire) = 0 /\ 1..0 = {}
  <2>1. 1..0 = {}
    OBVIOUS
  <2> QED BY <2>1, ShortIs DEF Fresh
<1>2. 1..Len(reqs) = {} /\ 1..Len(wire) = {}
  BY <1>1
<1>3. /\ call.op = "none" /\ srv.op = "none" /\ ~idling /\ result.op = "none"
  BY DEF Fresh, NoCall, NoServe, NoResult
<1> QED BY <1>2, <1>3 DEF Once, NotYet, Invite, Listens, Hears, Heeds

\* Whatever the server tells while it idles, whenever it is asked to stop and
\* whatever was given up before: idle_check() and the idle_done() that ends well
\* have returned it all, once and in order (idle_check, idle_done,
\* _consume_until_tagged_response).
THEOREM IdleLosesNothing == Spec => []IdleOnce
<1> DEFINE Idles == Once /\ NotYet /\ Invite /\ Listens /\ Hears /\ Heeds
<1>1. Init => Idles
  <2>1. Init => Fresh
    BY DEF Init, SessInit, Fresh
  <2> QED BY <2>1, StartsListening
<1>2. Order /\ Matching /\ Idles /\ [Next]_vars => Idles'
  BY NextOnce, NextNotYet, NextInvite, NextListens, NextHears, NextHeeds
<1>3. Idles => IdleOnce
  BY DEF Heeds, IdleOnce
<1> HIDE DEF Idles
<1> QED BY <1>1, <1>2, <1>3, Books, PTL DEF Spec

-----------------------------------------------------------------------------
(* Setting the connection up.                                              *)

\* The channel is as good as the configuration says, the ssl and the starttls
\* part.
SslOK == conf.ssl => /\ channel.tls
                     /\ conf.verify => channel.trusted
                     /\ conf.checkHost => channel.host
StarttlsOK == conf.starttls => channel.tls /\ channel.trusted /\ channel.host

\* What each step of create_client_from_config has behind it.
Phases ==
  /\ cert \in Certs
  /\ at \in {"greeting", "starttls", "upgrade", "auth", "token"} => SslOK
  /\ at \in {"wrap", "greeting", "starttls", "upgrade", "auth", "token"} => sock = "open"
  /\ at \in {"auth", "token"} => StarttlsOK
  /\ at = "upgrade" => ~conf.ssl
  /\ at \in {"connect", "wrap", "greeting"} => ~made
  /\ started /\ at \in {"auth", "token"} => channel.tls
  /\ at \in {"connect", "wrap", "greeting", "starttls"} => ~started

\* A token of the cache is the one of the account in its key.
TokensOwn == \A k \in DOMAIN tokens : tokens[k] = k[3]

ConnInv == Phases /\ TokensOwn /\ SecretsProtected /\ NoStrayConnection

\* What the invariant speaks of.
relevant == <<conf, at, sock, channel, cert, made, started, tokens, secret>>

\* The invariant does not depend on anything else.
LEMMA ConnStutter == ASSUME ConnInv, UNCHANGED relevant PROVE ConnInv'
BY DEF ConnInv, Phases, TokensOwn, SecretsProtected, NoStrayConnection, SslOK,
       StarttlsOK, relevant

\* The end of a session.
Left == /\ at' = "none"
        /\ UNCHANGED <<conf, channel, cert, made, started, tokens, secret>>

LEMMA ConnLeft == ASSUME ConnInv, Left PROVE ConnInv'
BY DEF ConnInv, Phases, TokensOwn, SecretsProtected, NoStrayConnection, SslOK,
       StarttlsOK, Left

\* A handshake that succeeds gives what its context asks for.
LEMMA HandshakeGives ==
  ASSUME NEW ctx, cert \in Certs, "ok" \in Outcomes(ctx)
  PROVE  /\ Protected.tls
         /\ ctx.verify => Protected.trusted
         /\ ctx.checkHost => Protected.host
<1>1. Handshake(ctx, cert) = "ok"
  BY DEF Outcomes, Trouble
<1>2. cert \in [trusted : BOOLEAN, name : {"same", "other", "wildcard"}]
  BY CertsAssumption
<1>3. ctx.verify => cert.trusted
  BY <1>1, <1>2 DEF Handshake
<1>4. ctx.checkHost => cert.name = "same"
  <2>1. SUFFICES ASSUME ctx.checkHost, cert.name # "same" PROVE FALSE
    OBVIOUS
  <2>2. HostMatch(cert) = "ok"
    BY <1>1, <1>3, <2>1 DEF Handshake
  <2>3. cert.name \in {"other", "wildcard"}
    BY <1>2, <2>1
  <2> QED BY <2>2, <2>3 DEF HostMatch
<1> QED BY <1>3, <1>4 DEF Protected

\* A token of the cache belongs to the account of the client.
LEMMA TokenIsOwn == ASSUME TokensOwn PROVE Token(conf) = conf.account
BY DEF TokensOwn, Token, TokenKey

LEMMA ConnInitInv == Init => ConnInv
BY DEF Init, ConnInit, ConnInv, Phases, TokensOwn, SecretsProtected,
       NoStrayConnection

LEMMA CreateInv == ASSUME ConnInv, Create PROVE ConnInv'
BY DEF Create, ConnInv, Phases, TokensOwn, SecretsProtected, NoStrayConnection

LEMMA ConnectInv == ASSUME ConnInv, Connect PROVE ConnInv'
<1>1. UNCHANGED <<conf, channel, cert, made, started, tokens, secret>> /\ at = "connect"
  BY DEF Connect
<1>2. CASE at' = "failed"
  BY <1>1, <1>2 DEF ConnInv, Phases, TokensOwn, SecretsProtected, NoStrayConnection
<1>3. CASE sock' = "open" /\ at' = IF conf.ssl THEN "wrap" ELSE "greeting"
  BY <1>1, <1>3 DEF ConnInv, Phases, TokensOwn, SecretsProtected,
                    NoStrayConnection, SslOK
<1> QED BY <1>2, <1>3 DEF Connect

LEMMA WrapInv == ASSUME ConnInv, Wrap PROVE ConnInv'
<1>1. /\ UNCHANGED <<conf, cert, made, started, tokens, secret>>
      /\ at = "wrap" /\ ~made /\ ~started /\ cert \in Certs
  BY DEF Wrap, ConnInv, Phases
<1>2. PICK o \in Outcomes(ConfContext) :
        IF o = "ok"
        THEN channel' = Protected /\ at' = "greeting" /\ UNCHANGED sock
        ELSE at' = "failed" /\ UNCHANGED channel
  BY DEF Wrap
<1>3. CASE o # "ok"
  BY <1>1, <1>2, <1>3 DEF ConnInv, Phases, TokensOwn, SecretsProtected,
                          NoStrayConnection
<1>4. CASE o = "ok"
  <2>1. SslOK'
    BY <1>1, <1>2, <1>4, HandshakeGives DEF ConfContext, SslOK
  <2>2. sock' = "open"
    BY <1>1, <1>2, <1>4 DEF ConnInv, Phases
  <2> QED BY <1>1, <1>2, <1>4, <2>1, <2>2
          DEF ConnInv, Phases, TokensOwn, SecretsProtected, NoStrayConnection
<1> QED BY <1>3, <1>4

LEMMA GreetingInv == ASSUME ConnInv, Greeting PROVE ConnInv'
<1>1. /\ UNCHANGED <<conf, channel, cert, started, tokens, secret>>
      /\ at = "greeting" /\ ~made /\ ~started
  BY DEF Greeting, ConnInv, Phases
<1>2. CASE at' = "failed" /\ UNCHANGED made
  BY <1>1, <1>2 DEF ConnInv, Phases, TokensOwn, SecretsProtected, NoStrayConnection
<1>3. CASE UNCHANGED sock /\ at' = IF conf.starttls THEN "starttls" ELSE "auth"
  BY <1>1, <1>3 DEF ConnInv, Phases, TokensOwn, SecretsProtected,
                    NoStrayConnection, SslOK, StarttlsOK
<1> QED BY <1>2, <1>3 DEF Greeting

\* A step that ends in shutdown().
LEMMA ShutdownInv ==
  ASSUME ConnInv, Shutdown,
         UNCHANGED <<conf, channel, cert, made, tokens>>,
         UNCHANGED secret
  PROVE  ConnInv'
BY DEF Shutdown, CloseSock, ConnInv, Phases, TokensOwn, SecretsProtected, NoStrayConnection

LEMMA StarttlsInv == ASSUME ConnInv, Starttls PROVE ConnInv'
<1>1. CASE Shutdown
  BY <1>1, ShutdownInv DEF Starttls
<1>2. CASE ~conf.ssl /\ started' = TRUE /\ at' = "upgrade" /\ UNCHANGED sock
  <2>1. /\ UNCHANGED <<conf, channel, cert, made, tokens, secret>>
        /\ at = "starttls"
    BY DEF Starttls
  <2> QED BY <1>2, <2>1 DEF ConnInv, Phases, TokensOwn, SecretsProtected,
                            NoStrayConnection, SslOK
<1> QED BY <1>1, <1>2 DEF Starttls

LEMMA UpgradeInv == ASSUME ConnInv, Upgrade PROVE ConnInv'
<1>1. /\ UNCHANGED <<conf, cert, made, started, tokens, secret>>
      /\ at = "upgrade" /\ ~conf.ssl /\ cert \in Certs /\ sock = "open"
  BY DEF Upgrade, ConnInv, Phases
<1>2. PICK o \in Outcomes(DefaultContext) :
        IF o = "ok"
        THEN channel' = Protected /\ at' = "auth" /\ UNCHANGED sock
        ELSE Shutdown /\ UNCHANGED channel
  BY DEF Upgrade
<1>3. CASE o # "ok"
  BY <1>1, <1>2, <1>3, ShutdownInv
<1>4. CASE o = "ok"
  <2>1. StarttlsOK' /\ channel'.tls
    BY <1>1, <1>2, <1>4, HandshakeGives DEF DefaultContext, StarttlsOK
  <2>2. SslOK'
    BY <1>1 DEF SslOK
  <2> QED BY <1>1, <1>2, <1>4, <2>1, <2>2
          DEF ConnInv, Phases, TokensOwn, SecretsProtected, NoStrayConnection
<1> QED BY <1>3, <1>4

LEMMA GetTokenInv == ASSUME ConnInv, GetToken PROVE ConnInv'
<1>1. /\ UNCHANGED <<conf, channel, cert, made, started, secret>>
      /\ at = "auth"
  BY DEF GetToken
<1>2. CASE Shutdown /\ UNCHANGED tokens
  BY <1>1, <1>2, ShutdownInv
<1>3. CASE /\ tokens' = [k \in DOMAIN tokens \cup {TokenKey(conf)} |->
                           IF k \in DOMAIN tokens THEN tokens[k] ELSE conf.account]
           /\ at' = "token" /\ UNCHANGED sock
  <2>1. TokensOwn'
    BY <1>3 DEF TokensOwn, TokenKey, ConnInv
  <2> QED BY <1>1, <1>3, <2>1 DEF ConnInv, Phases, SecretsProtected,
                                  NoStrayConnection, SslOK, StarttlsOK
<1> QED BY <1>2, <1>3 DEF GetToken

\* The secret of the account goes out once the channel is as good as it
\* should be.
LEMMA LoginInv == ASSUME ConnInv, Login PROVE ConnInv'
<1>1. /\ UNCHANGED <<conf, channel, cert, made, started, tokens>>
      /\ at \in {"auth", "token"}
  BY DEF Login
<1>2. CASE UNCHANGED <<sock, secret>> /\ at' = "ready"
  BY <1>1, <1>2 DEF ConnInv, Phases, TokensOwn, SecretsProtected,
                    NoStrayConnection
<1>3. CASE SendSecret(conf.account) /\ Answer
  <2>1. secret' = [what |-> conf.account, over |-> channel]
    BY <1>3 DEF SendSecret
  <2>2. SecretsProtected'
    BY <1>1, <2>1 DEF SecretsProtected, ConnInv, Phases, SslOK, StarttlsOK
  <2>3. CASE Shutdown
    BY <1>1, <2>2, <2>3 DEF Shutdown, CloseSock, ConnInv, Phases, TokensOwn,
                            NoStrayConnection
  <2>4. CASE at' = "ready" /\ UNCHANGED sock
    BY <1>1, <2>2, <2>4 DEF ConnInv, Phases, TokensOwn, NoStrayConnection
  <2> QED BY <1>3, <2>3, <2>4 DEF Answer
<1>4. Token(conf) = conf.account
  BY TokenIsOwn DEF ConnInv
<1> QED BY <1>2, <1>3, <1>4 DEF Login

\* The commands of a client change nothing the invariant speaks of, but that
\* a logout closes the connection.
LEMMA ConnCommandsInv ==
  ASSUME ConnInv,
         \/ \E op \in Kinds : Command(op)
         \/ Idle \/ IdleDone \/ IdleCheck \/ Capabilities
         \/ Read \/ Timeout \/ Serve \/ Update
  PROVE  ConnInv'
<1>1. CASE \E op \in Kinds : Command(op)
  BY <1>1, ConnStutter DEF Command, relevant
<1>2. CASE Idle \/ IdleDone \/ IdleCheck
  BY <1>2, ConnStutter DEF Idle, IdleDone, IdleCheck, relevant, connVars
<1>3. CASE Capabilities
  BY <1>3, ConnStutter DEF Capabilities, relevant
<1>4. CASE Read
  <2>1. UNCHANGED relevant \/ Left
    BY <1>4 DEF Read, relevant, Left
  <2> QED BY <2>1, ConnStutter, ConnLeft
<1>5. CASE Timeout
  <2>1. UNCHANGED relevant \/ Left
    BY <1>5 DEF Timeout, relevant, Left
  <2> QED BY <2>1, ConnStutter, ConnLeft
<1>6. CASE Serve \/ Update
  BY <1>6, ConnStutter DEF Serve, Update, relevant, connVars
<1> QED BY <1>1, <1>2, <1>3, <1>4, <1>5, <1>6

LEMMA ConnNextInv == ConnInv /\ [Next]_vars => ConnInv'
<1> SUFFICES ASSUME ConnInv, [Next]_vars PROVE ConnInv'
  OBVIOUS
<1>1. CASE UNCHANGED vars
  BY <1>1, ConnStutter DEF vars, connVars, relevant
<1>2. CASE NewClient
  BY <1>2, CreateInv DEF NewClient
<1>3. CASE Connecting
  BY <1>3, ConnectInv, WrapInv, GreetingInv, StarttlsInv, UpgradeInv,
     GetTokenInv, LoginInv DEF Connecting
<1>4. CASE \/ \E op \in Kinds : Command(op)
           \/ Idle \/ IdleDone \/ IdleCheck \/ Capabilities
           \/ Read \/ Timeout \/ Serve \/ Update
  BY <1>4, ConnCommandsInv
<1> QED BY <1>1, <1>2, <1>3, <1>4 DEF Next

LEMMA ConnInvariance == Spec => []ConnInv
<1>1. Init => ConnInv
  BY ConnInitInv
<1>2. ConnInv /\ [Next]_vars => ConnInv'
  BY ConnNextInv
<1> QED BY <1>1, <1>2, PTL DEF Spec

\* Whatever the configurations, certificates and tokens: a password or a token
\* is sent over no weaker channel than asked for, and to no other account's
\* login (create_client_from_config, starttls, get_oauth2_token).
THEOREM Confidential == Spec => []SecretsProtected
<1>1. ConnInv => SecretsProtected
  BY DEF ConnInv
<1> QED BY <1>1, ConnInvariance, PTL

\* A client that is not handed out has no connection left that works once its
\* object exists, and no socket either unless it is that of a broken ssl
\* connection; one that is handed out has an open connection
\* (create_client_from_config, IMAP4_TLS.shutdown).
THEOREM NothingLeftOpen == Spec => []NoStrayConnection
<1>1. ConnInv => NoStrayConnection
  BY DEF ConnInv
<1> QED BY <1>1, ConnInvariance, PTL
=============================================================================
