--------------------------- MODULE OleFile_proofs ---------------------------
(***************************************************************************)
(* For any files, damaged or not, and any callers: every variable keeps    *)
(* its type; a stream is never read from a sector twice; a directory that  *)
(* gave no defect is a tree and finds what it lists; properties do not     *)
(* depend on each other; and the streams that no damage reaches are a      *)
(* StreamStore: they can be read, and hold what was written to them.       *)
(*                                                                         *)
(* Recursive functions are dealt with by RecursionExists, an induction on  *)
(* the numbers that uses no theorem with an operator for a parameter.      *)
(***************************************************************************)
EXTENDS OleFile, FiniteSetTheorems, SequenceTheorems, WellFoundedInduction,
        TLAPS

-----------------------------------------------------------------------------
(* Numbers, and recursive functions on the numbers up to a length.         *)

\* A set of numbers that holds 0 and the successor of each of its members.
LEMMA Induct ==
  ASSUME NEW P, 0 \in P, \A n \in Nat : n \in P => n + 1 \in P
  PROVE  Nat \subseteq P
<1> SUFFICES ASSUME NEW m \in Nat, m \notin P PROVE FALSE
  OBVIOUS
<1> DEFINE S == Nat \ P
           R == OpToRel(<, Nat)
<1>1. PICK x \in S : \A y \in S : <<y, x>> \notin R
  <2>1. IsWellFoundedOn(R, Nat)
    BY NatLessThanWellFounded
  <2>2. S \subseteq Nat /\ m \in S
    OBVIOUS
  <2> HIDE DEF R, S
  <2> QED BY <2>1, <2>2, WFMin, Zenon
<1>2. \A y \in S : ~ (y < x)
  BY <1>1, Zenon DEF OpToRel
<1>3. x \in Nat /\ x # 0 /\ x - 1 \in Nat
  OBVIOUS
<1>4. x - 1 \in P
  BY <1>2, <1>3
<1> QED BY <1>3, <1>4

\* f starts with z and goes on with what G puts on top.
Recurs(f, N, z, G) == f[0] = z /\ \A k \in 1..N : f[k] = G[k][f[k - 1]]

\* A recursive function on 0..N is there: what is put on top of its value at
\* k - 1 is its value at k.
LEMMA RecursionExists ==
  ASSUME NEW N \in Nat, NEW V, NEW z \in V, NEW G \in [1..N -> [V -> V]]
  PROVE  \E f \in [0..N -> V] : Recurs(f, N, z, G)
<1> DEFINE F(n) == {f \in [0..n -> V] :
                      \A k \in 0..n : f[k] = IF k = 0 THEN z ELSE G[k][f[k - 1]]}
           P == {n \in Nat : n <= N => F(n) # {}}
<1>1. 0 \in P
  <2> DEFINE f == [k \in 0..0 |-> z]
  <2>1. f \in F(0)
    OBVIOUS
  <2> QED BY <2>1
<1>2. ASSUME NEW n \in Nat, n \in P, n + 1 <= N
      PROVE  F(n + 1) # {}
  <2>1. PICK f \in [0..n -> V] :
               \A k \in 0..n : f[k] = IF k = 0 THEN z ELSE G[k][f[k - 1]]
    BY <1>2
  <2> DEFINE g == [k \in 0..(n + 1) |-> IF k <= n THEN f[k] ELSE G[n + 1][f[n]]]
  <2>2. n + 1 \in 1..N /\ f[n] \in V /\ G[n + 1] \in [V -> V]
    BY <1>2
  <2>3. g \in [0..(n + 1) -> V]
    BY <2>2
  <2>4. ASSUME NEW k \in 0..(n + 1)
        PROVE  g[k] = IF k = 0 THEN z ELSE G[k][g[k - 1]]
    <3>1. CASE k = 0
      BY <2>1, <3>1
    <3>2. CASE k \in 1..n
      <4>1. k - 1 \in 0..(n + 1) /\ k - 1 <= n /\ k \in 0..n
        BY <3>2
      <4>2. g[k] = f[k] /\ g[k - 1] = f[k - 1]
        BY <3>2, <4>1
      <4>3. f[k] = G[k][f[k - 1]]
        BY <2>1, <3>2, <4>1
      <4> QED BY <3>2, <4>2, <4>3
    <3>3. CASE k = n + 1
      BY <3>3
    <3> QED BY <3>1, <3>2, <3>3
  <2> HIDE DEF g
  <2>5. g \in F(n + 1)
    BY <2>3, <2>4
  <2> QED BY <2>5
<1>3. N \in P
  <2>1. \A n \in Nat : n \in P => n + 1 \in P
    BY <1>2, SMTT(60)
  <2> HIDE DEF P
  <2> QED BY <1>1, <2>1, Induct
<1>4. PICK f \in [0..N -> V] :
             \A k \in 0..N : f[k] = IF k = 0 THEN z ELSE G[k][f[k - 1]]
  BY <1>3
<1>5. 0 \in 0..N /\ \A k \in 1..N : k # 0 /\ k \in 0..N
  OBVIOUS
<1> QED BY <1>4, <1>5 DEF Recurs

\* A set of numbers that is not empty has a least one.
LEMMA LeastIs ==
  ASSUME NEW S, S \subseteq Nat, S # {}
  PROVE  \E m \in S : \A k \in S : m <= k
<1> DEFINE R == OpToRel(<, Nat)
<1>1. PICK m \in S : \A k \in S : <<k, m>> \notin R
  <2>1. IsWellFoundedOn(R, Nat)
    BY NatLessThanWellFounded
  <2> HIDE DEF R
  <2> QED BY <2>1, WFMin, Zenon
<1>2. \A k \in S : ~ (k < m)
  BY <1>1, Zenon DEF OpToRel
<1> QED BY <1>2

\* A set of numbers up to n that is not empty has a greatest one.
LEMMA GreatestIs ==
  ASSUME NEW n \in Nat, NEW S, S \subseteq 0..n, S # {}
  PROVE  \E m \in S : \A k \in S : k <= m
<1> DEFINE T == {n - k : k \in S}
<1>1. T \subseteq Nat /\ T # {}
  <2>1. \A k \in S : n - k \in Nat
    OBVIOUS
  <2> QED BY <2>1
<1>2. PICK t \in T : \A k \in T : t <= k
  <2> HIDE DEF T
  <2> QED BY <1>1, LeastIs
<1>3. PICK m \in S : t = n - m
  OBVIOUS
<1>4. \A k \in S : n - m <= n - k
  BY <1>2, <1>3
<1> QED BY <1>4

-----------------------------------------------------------------------------
(* Sequences.                                                              *)

\* As many members as places, when no member has two places.
LEMMA InjectiveSeq ==
  ASSUME NEW S, NEW s \in Seq(S), \A i, j \in 1..Len(s) : s[i] = s[j] => i = j
  PROVE  Cardinality(ToSet(s)) = Len(s)
<1> DEFINE N == Len(s)
<1>1. N \in Nat /\ DOMAIN s = 1..N /\ s \in [1..N -> ToSet(s)]
  BY DEF ToSet
<1>2. s \in Bijection(1..N, ToSet(s))
  BY <1>1 DEF Bijection, Injection, Surjection, ToSet, IsInjective
<1>3. ExistsBijection(1..N, ToSet(s))
  BY <1>2 DEF ExistsBijection
<1>4. IsFiniteSet(1..N) /\ Cardinality(1..N) = N
  BY <1>1, FS_Interval, SMTT(60)
<1> QED BY <1>3, <1>4, FS_Bijection

\* FlattenSeq puts its sequences behind each other.
LEMMA FlattenSteps ==
  ASSUME NEW S, NEW ss \in Seq(Seq(S))
  PROVE  \E of \in [0..Len(ss) -> Seq(S)] :
           /\ of[0] = <<>>
           /\ \A k \in 1..Len(ss) : of[k] = of[k - 1] \o ss[k]
           /\ FlattenSeq(ss) = of[Len(ss)]
<1> DEFINE N == Len(ss)
           V == Seq(S)
           G == [k \in 1..N |-> [s \in V |-> s \o ss[k]]]
           z == <<>>
           step(h) == [i \in 1..N |-> IF i = 1 THEN ss[i] ELSE h[i - 1] \o ss[i]]
           Of == CHOOSE h : h = step(h)
<1>1. N \in Nat /\ z \in V /\ \A k \in 1..N : ss[k] \in V
  OBVIOUS
<1>2. G \in [1..N -> [V -> V]]
  BY <1>1
<1>3. \A k \in 1..N, s \in V : G[k][s] = s \o ss[k]
  OBVIOUS
<1>4. FlattenSeq(ss) = IF N = 0 THEN ss ELSE Of[N]
  BY DEF FlattenSeq
<1>5. PICK f \in [0..N -> V] : f[0] = <<>> /\ \A k \in 1..N : f[k] = f[k - 1] \o ss[k]
  <2> HIDE DEF N, V, G, z
  <2>1. PICK f \in [0..N -> V] : Recurs(f, N, z, G)
    BY <1>1, <1>2, RecursionExists
  <2>2. \A k \in 1..N : k - 1 \in 0..N
    BY <1>1
  <2>3. f[0] = <<>>
    BY <2>1, Zenon DEF Recurs, z
  <2>4. ASSUME NEW k \in 1..N PROVE f[k] = f[k - 1] \o ss[k]
    <3>1. f[k] = G[k][f[k - 1]]
      BY <2>1, Zenon DEF Recurs
    <3>2. f[k - 1] \in V
      BY <2>1, <2>2, Zenon
    <3> QED BY <1>3, <3>1, <3>2, Zenon
  <2> QED BY <2>1, <2>3, <2>4, Zenon
<1>6. CASE N = 0
  <2>1. ss = <<>>
    BY <1>6
  <2> QED BY <1>4, <1>5, <1>6, <2>1
<1>7. CASE N # 0
  <2> DEFINE g == [i \in 1..N |-> f[i]]
  <2>1. g = step(g)
    <3>1. ASSUME NEW i \in 1..N PROVE g[i] = step(g)[i]
      <4>1. CASE i = 1
        <5>1. f[1] = <<>> \o ss[1] /\ ss[1] \in Seq(S)
          <6> HIDE DEF N, G, g, step
          <6>1. 1 \in 1..N /\ 1 - 1 = 0
            BY <1>1, <1>7
          <6>2. f[1] = f[0] \o ss[1]
            BY <1>5, <6>1
          <6> QED BY <1>1, <1>5, <6>1, <6>2
        <5>2. f[1] = ss[1]
          <6> DEFINE s == ss[1]
          <6> HIDE DEF s
          <6>1. s \in Seq(S) /\ f[1] = <<>> \o s
            BY <5>1 DEF s
          <6> QED BY <6>1, ConcatEmptySeq, Zenon DEF s
        <5> QED BY <4>1, <5>2
      <4>2. CASE i # 1
        <5>1. i - 1 \in 1..N
          BY <1>1, <4>2
        <5> QED BY <1>5, <4>2, <5>1
      <4> QED BY <4>1, <4>2
    <3> QED BY <3>1
  <2>2. Of = step(Of)
    <3> HIDE DEF step, g
    <3> QED BY <2>1
  <2> HIDE DEF Of
  <2>3. \A i \in 1..N : Of[i] = IF i = 1 THEN ss[i] ELSE Of[i - 1] \o ss[i]
    <3>1. \A i \in 1..N : Of[i] = step(Of)[i]
      BY <2>2
    <3> QED BY <3>1
  <2>4. \A i \in 1..N : g[i] = IF i = 1 THEN ss[i] ELSE g[i - 1] \o ss[i]
    <3>1. \A i \in 1..N : g[i] = step(g)[i]
      BY <2>1
    <3> QED BY <3>1
  <2> DEFINE P == {n \in Nat : n + 1 <= N => Of[n + 1] = g[n + 1]}
  <2>5. Nat \subseteq P
    <3> HIDE DEF N, g
    <3>1. 0 \in P
      <4>1. 1 <= N => 1 \in 1..N
        BY <1>1
      <4> QED BY <1>1, <2>3, <2>4, <4>1
    <3>2. ASSUME NEW n \in Nat, n \in P PROVE n + 1 \in P
      <4>1. SUFFICES ASSUME n + 2 <= N PROVE Of[n + 2] = g[n + 2]
        OBVIOUS
      <4>2. n + 2 \in 1..N /\ n + 2 # 1 /\ (n + 2) - 1 = n + 1 /\ n + 1 <= N
        BY <1>1, <4>1
      <4> QED BY <2>3, <2>4, <3>2, <4>2
    <3> HIDE DEF P
    <3> QED BY <3>1, <3>2, Induct
  <2>6. N - 1 \in Nat /\ (N - 1) + 1 = N /\ N \in 1..N
    BY <1>1, <1>7
  <2>7. Of[N] = g[N]
    <3> HIDE DEF N, g
    <3> QED BY <2>5, <2>6
  <2> QED BY <1>4, <1>5, <1>7, <2>6, <2>7
<1> QED BY <1>6, <1>7

\* What is in the flattened sequence is in one of the sequences.
LEMMA FlattenIs ==
  ASSUME NEW S, NEW ss \in Seq(Seq(S))
  PROVE  /\ FlattenSeq(ss) \in Seq(S)
         /\ \A x \in ToSet(FlattenSeq(ss)) : \E k \in 1..Len(ss) : x \in ToSet(ss[k])
<1> DEFINE N == Len(ss)
<1>1. PICK of \in [0..N -> Seq(S)] :
        /\ of[0] = <<>>
        /\ \A k \in 1..N : of[k] = of[k - 1] \o ss[k]
        /\ FlattenSeq(ss) = of[N]
  BY FlattenSteps
<1>2. N \in Nat /\ \A k \in 1..N : ss[k] \in Seq(S)
  OBVIOUS
<1> DEFINE P == {n \in Nat : n <= N =>
                   \A x \in ToSet(of[n]) : \E k \in 1..N : x \in ToSet(ss[k])}
<1>3. 0 \in P
  BY <1>1 DEF ToSet
<1>4. ASSUME NEW n \in Nat, n \in P PROVE n + 1 \in P
  <2> SUFFICES ASSUME n + 1 <= N, NEW x \in ToSet(of[n + 1])
               PROVE  \E k \in 1..N : x \in ToSet(ss[k])
    OBVIOUS
  <2> DEFINE a == of[n]
             b == ss[n + 1]
  <2>1. n + 1 \in 1..N /\ (n + 1) - 1 = n /\ n \in 0..N
    BY <1>2
  <2>2. of[n + 1] = a \o b /\ a \in Seq(S) /\ b \in Seq(S)
    BY <1>1, <1>2, <2>1
  <2>3. \A y \in ToSet(a) : \E k \in 1..N : y \in ToSet(ss[k])
    BY <1>4, <2>1
  <2> HIDE DEF a, b, N, P
  <2>4. x \in ToSet(a) \/ x \in ToSet(b)
    BY <2>2 DEF ToSet
  <2> QED BY <2>1, <2>3, <2>4 DEF b
<1>5. N \in P
  <2> HIDE DEF P, N
  <2> QED BY <1>2, <1>3, <1>4, Induct
<1> QED BY <1>1, <1>2, <1>5

\* A function of 1..n is a sequence.
LEMMA IsSequence ==
  ASSUME NEW S, NEW n \in Nat, NEW f \in [1..n -> S]
  PROVE  f \in Seq(S) /\ Len(f) = n
<1>1. f \in Seq(S)
  BY SeqDef
<1>2. DOMAIN f = 1..Len(f) /\ Len(f) \in Nat
  BY <1>1, LenProperties
<1> QED BY <1>1, <1>2

\* The first n members, or those from m to n.
LEMMA PartIs ==
  ASSUME NEW S, NEW s \in Seq(S), NEW m \in Nat \ {0}, NEW n \in 0..Len(s)
  PROVE  SubSeq(s, m, n) \in Seq(S) /\ Len(SubSeq(s, m, n)) = IF m <= n THEN n - m + 1 ELSE 0
<1>1. \A i \in m..n : s[i] \in S
  <2>1. ASSUME NEW i \in m..n PROVE s[i] \in S
    <3>1. i \in 1..Len(s)
      OBVIOUS
    <3> QED BY <3>1
  <2> QED BY <2>1
<1>2. m \in Int /\ n \in Int
  OBVIOUS
<1> QED BY <1>1, <1>2, SubSeqProperties

\* How many parts of length b a length has.
LEMMA CeilDivIs ==
  ASSUME NEW a \in Nat, NEW b \in Nat \ {0}
  PROVE  /\ CeilDiv(a, b) \in Nat
         /\ a <= CeilDiv(a, b) * b /\ CeilDiv(a, b) * b < a + b
<1>1. a + b - 1 \in Nat
  OBVIOUS
<1> DEFINE q == (a + b - 1) \div b
           r == (a + b - 1) % b
<1>2. q \in Int /\ r \in 0..(b - 1) /\ a + b - 1 = b * q + r
  BY <1>1
<1> HIDE DEF q, r
<1>3. b * q > -b
  BY <1>2
<1>4. q >= 0
  <2>1. q <= -1 => b * q <= b * (-1)
    BY <1>2
  <2> QED BY <1>2, <1>3, <2>1
<1>5. CeilDiv(a, b) = q
  BY DEF CeilDiv, q
<1> QED BY <1>2, <1>4, <1>5

-----------------------------------------------------------------------------
(* Chains of the table and the streams read along them.                    *)

\* Each step of a chain follows the table.
Follows(at, table, n) ==
  \A k \in 1..n : at[k] = IF at[k - 1] \in DOMAIN table
                          THEN table[at[k - 1]] ELSE at[k - 1]

LEMMA WalkIs ==
  ASSUME NEW table, NEW first, NEW n \in Nat
  PROVE  LET at == Walk(table, first, n) IN at[0] = first /\ Follows(at, table, n)
<1> DEFINE V == {first} \cup {table[x] : x \in DOMAIN table}
           Then(x) == IF x \in DOMAIN table THEN table[x] ELSE x
           G == [k \in 1..n |-> [x \in V |-> Then(x)]]
           step(f) == [i \in 0..n |->
                         IF i = 0 THEN first
                         ELSE IF f[i - 1] \in DOMAIN table
                         THEN table[f[i - 1]] ELSE f[i - 1]]
           Of == CHOOSE f : f = step(f)
<1>1. Walk(table, first, n) = Of
  BY DEF Walk
<1>2. first \in V /\ \A x \in V : Then(x) \in V
  OBVIOUS
<1>3. G \in [1..n -> [V -> V]]
  BY <1>2
<1>4. \A k \in 1..n, x \in V : G[k][x] = Then(x)
  OBVIOUS
<1> HIDE DEF V, G
<1>5. PICK f \in [0..n -> V] : Recurs(f, n, first, G)
  BY <1>2, <1>3, RecursionExists
<1>6. f = step(f)
  <2>1. ASSUME NEW i \in 0..n PROVE f[i] = step(f)[i]
    <3>1. CASE i = 0
      BY <1>5, <3>1 DEF Recurs
    <3>2. CASE i # 0
      <4>1. i \in 1..n /\ i - 1 \in 0..n
        BY <3>2
      <4>2. f[i] = G[i][f[i - 1]] /\ f[i - 1] \in V
        BY <1>5, <4>1 DEF Recurs
      <4> QED BY <1>4, <3>2, <4>1, <4>2
    <3> QED BY <3>1, <3>2
  <2>2. step(f) = [i \in 0..n |-> step(f)[i]]
    OBVIOUS
  <2>3. f = [i \in 0..n |-> f[i]]
    BY <1>5
  <2> HIDE DEF step
  <2> QED BY <2>1, <2>2, <2>3
<1>7. Of = step(Of)
  <2> HIDE DEF step
  <2> QED BY <1>6
<1> HIDE DEF Of
<1>8. \A i \in 0..n : Of[i] = step(Of)[i]
  BY <1>7
<1>9. 0 \in 0..n /\ \A k \in 1..n : k \in 0..n /\ k # 0
  OBVIOUS
<1> QED BY <1>1, <1>8, <1>9 DEF Follows

\* A chain whose n-th step leaves the table at last visits nothing twice.
LEMMA ChainDistinct ==
  ASSUME NEW table, NEW at, NEW n \in Nat,
         Follows(at, table, n),
         \A k \in 0..(n - 1) : at[k] \in DOMAIN table,
         at[n] \notin DOMAIN table
  PROVE  \A i, j \in 0..(n - 1) : at[i] = at[j] => i = j
<1>1. ASSUME NEW i \in 0..(n - 1), NEW j \in 0..(n - 1), i < j, at[i] = at[j]
      PROVE  FALSE
  <2> DEFINE P == {d \in Nat : j + d <= n => at[i + d] = at[j + d]}
  <2>1. 0 \in P
    BY <1>1
  <2>2. ASSUME NEW d \in Nat, d \in P PROVE d + 1 \in P
    <3> SUFFICES ASSUME j + (d + 1) <= n PROVE at[i + (d + 1)] = at[j + (d + 1)]
      OBVIOUS
    <3>1. /\ i + (d + 1) \in 1..n /\ j + (d + 1) \in 1..n
          /\ (i + (d + 1)) - 1 = i + d /\ (j + (d + 1)) - 1 = j + d
      BY <1>1
    <3>2. at[i + d] = at[j + d]
      BY <2>2, <3>1
    <3>3. /\ at[i + (d + 1)] = IF at[i + d] \in DOMAIN table
                              THEN table[at[i + d]] ELSE at[i + d]
          /\ at[j + (d + 1)] = IF at[j + d] \in DOMAIN table
                              THEN table[at[j + d]] ELSE at[j + d]
      BY <3>1 DEF Follows
    <3> QED BY <3>2, <3>3
  <2>3. n - j \in P
    <3>1. n - j \in Nat
      BY <1>1
    <3> HIDE DEF P
    <3> QED BY <2>1, <2>2, <3>1, Induct
  <2>4. at[i + (n - j)] = at[n]
    <3>1. j + (n - j) = n /\ n <= n
      OBVIOUS
    <3> QED BY <2>3, <3>1
  <2>5. i + (n - j) \in 0..(n - 1)
    BY <1>1
  <2> QED BY <2>4, <2>5
<1> QED BY <1>1

\* A stream of a known size is read from different sectors, and is as long as
\* its size.  No table has an entry for the mark of the end.
LEMMA OpenKnownIs ==
  ASSUME NEW source, NEW ssize \in Nat \ {0}, NEW table, NEW first,
         NEW size \in Nat,
         \A s \in DOMAIN source : source[s] \in Seq(Nat),
         ENDOFCHAIN \notin DOMAIN table
  PROVE  LET r == OpenKnown(source, ssize, table, first, size) IN
         /\ r.ok \in BOOLEAN /\ r.words \in Seq(Nat)
         /\ Cardinality(ToSet(r.sects)) = Len(r.sects)
         /\ r.ok => Len(r.words) = size /\ CeilDiv(size, ssize) <= Cardinality(DOMAIN table)
<1> DEFINE n == CeilDiv(size, ssize)
           at == Walk(table, first, n)
           parts == [i \in 1..n |-> source[at[i - 1]]]
           words == FlattenSeq(parts)
           sects == [i \in 1..n |-> at[i - 1]]
           Fine == /\ n <= Cardinality(DOMAIN table)
                   /\ size = 0 => first = ENDOFCHAIN
                   /\ \A i \in 0..(n - 1) : SectorOk(table, source, ssize, at[i])
                   /\ EndsAt(at, n)
                   /\ Len(words) >= size
           r == OpenKnown(source, ssize, table, first, size)
<1>1. r = IF Fine THEN ReadAs(SubSeq(words, 1, size), sects) ELSE Failed
  BY DEF OpenKnown
<1>2. n \in Nat
  BY CeilDivIs
<1> HIDE DEF n
<1>3. at[0] = first /\ Follows(at, table, n)
  BY <1>2, WalkIs
<1> HIDE DEF at, r
<1>4. CASE ~Fine
  <2>1. r = Failed
    BY <1>1, <1>4
  <2>2. ToSet(<<>>) = {} /\ Len(<<>>) = 0 /\ <<>> \in Seq(Nat)
    BY DEF ToSet
  <2>3. Cardinality({}) = 0
    BY FS_EmptySet
  <2>4. r.ok = FALSE /\ r.words = <<>> /\ r.sects = <<>>
    BY <2>1 DEF Failed
  <2> QED BY <2>2, <2>3, <2>4 DEF r
<1>5. CASE Fine
  <2>1. /\ r.ok = TRUE /\ r.words = SubSeq(words, 1, size) /\ r.sects = sects
        /\ n <= Cardinality(DOMAIN table)
    BY <1>1, <1>5 DEF ReadAs
  <2>2. \A i \in 0..(n - 1) : at[i] \in DOMAIN table /\ at[i] \in DOMAIN source
    BY <1>5 DEF SectorOk
  <2>3. \A i \in 1..n : i - 1 \in 0..(n - 1)
    BY <1>2
  <2>4. parts \in Seq(Seq(Nat))
    <3>1. parts \in [1..n -> Seq(Nat)]
      BY <2>2, <2>3
    <3> HIDE DEF parts
    <3> QED BY <1>2, <3>1, IsSequence
  <2>5. words \in Seq(Nat)
    <3> HIDE DEF parts
    <3> QED BY <2>4, FlattenIs
  <2>6. SubSeq(words, 1, size) \in Seq(Nat) /\ Len(SubSeq(words, 1, size)) = size
    <3>1. size \in 0..Len(words)
      <4>1. Len(words) \in Nat
        <5> HIDE DEF words
        <5> QED BY <2>5
      <4>2. Len(words) >= size
        BY <1>5
      <4> HIDE DEF words
      <4> QED BY <4>1, <4>2
    <3> HIDE DEF words
    <3> QED BY <2>5, <3>1, PartIs
  <2>7. at[n] \notin DOMAIN table
    BY <1>5 DEF EndsAt
  <2>8. \A i, j \in 0..(n - 1) : at[i] = at[j] => i = j
    <3> HIDE DEF Fine, words, sects, parts
    <3>1. \A i \in 0..(n - 1) : at[i] \in DOMAIN table
      BY <2>2
    <3> QED BY <1>2, <1>3, <2>7, <3>1, ChainDistinct, Zenon
  <2>9. Cardinality(ToSet(sects)) = Len(sects)
    <3>1. sects \in [1..n -> DOMAIN table]
      BY <2>2, <2>3
    <3>2. \A i, j \in 1..n : sects[i] = sects[j] => i = j
      <4>1. ASSUME NEW i \in 1..n, NEW j \in 1..n, sects[i] = sects[j] PROVE i = j
        <5>1. at[i - 1] = at[j - 1] /\ i - 1 \in 0..(n - 1) /\ j - 1 \in 0..(n - 1)
          BY <2>3, <4>1
        <5>2. i - 1 = j - 1
          BY <2>8, <5>1
        <5> QED BY <5>2, <1>2
      <4> QED BY <4>1
    <3> HIDE DEF sects
    <3>3. sects \in Seq(DOMAIN table) /\ Len(sects) = n
      BY <1>2, <3>1, IsSequence
    <3> QED BY <3>2, <3>3, InjectiveSeq
  <2> HIDE DEF words, sects, parts
  <2> QED BY <2>1, <2>6, <2>9 DEF r, n
<1> QED BY <1>4, <1>5

\* A chain whose length is not known ends at the first mark, or with the table.
LEMMA ChainLengthIs ==
  ASSUME NEW table, NEW at, NEW most \in Nat
  PROVE  ChainLength(table, at, most, FALSE) \in 0..most
<1> DEFINE S == {k \in 0..most : at[k] = ENDOFCHAIN \/ k = most}
           Good(k) == /\ at[k] = ENDOFCHAIN \/ k = most
                      /\ \A i \in 0..(k - 1) : at[i] # ENDOFCHAIN
           n == ChainLength(table, at, most, FALSE)
<1>1. S \subseteq Nat /\ S # {}
  OBVIOUS
<1>2. PICK m \in S : \A k \in S : m <= k
  <2> HIDE DEF S
  <2> QED BY <1>1, LeastIs
<1>3. m \in 0..most /\ Good(m)
  <2>1. ASSUME NEW i \in 0..(m - 1), at[i] = ENDOFCHAIN PROVE FALSE
    <3>1. i \in S
      BY <2>1
    <3> QED BY <1>2, <2>1, <3>1
  <2> QED BY <2>1
<1>4. n = CHOOSE k \in 0..most : Good(k)
  BY DEF ChainLength
<1> HIDE DEF Good, n
<1>5. n \in 0..most
  BY <1>3, <1>4
<1> QED BY <1>5 DEF n

\* The directory stream: sequences of words and of sectors.
LEMMA OpenUnknownIs ==
  ASSUME NEW source, NEW ssize, NEW table, NEW first,
         \A s \in DOMAIN source : source[s] \in Seq(Nat),
         IsFiniteSet(DOMAIN table)
  PROVE  LET r == OpenUnknown(source, ssize, table, first) IN
         r.ok \in BOOLEAN /\ r.words \in Seq(Nat) /\ Len(r.sects) \in Nat
<1> DEFINE most == Cardinality(DOMAIN table)
           at == Walk(table, first, most)
           n == ChainLength(table, at, most, FALSE)
           parts == [i \in 1..n |-> source[at[i - 1]]]
           words == FlattenSeq(parts)
           sects == [i \in 1..n |-> at[i - 1]]
           Fine == /\ most = 0 => first = ENDOFCHAIN
                   /\ \A i \in 0..(n - 1) : SectorOk(table, source, ssize, at[i])
                   /\ EndsAt(at, n)
           r == OpenUnknown(source, ssize, table, first)
<1>1. r = IF Fine THEN ReadAs(words, sects) ELSE Failed
  BY DEF OpenUnknown
<1>2. most \in Nat
  BY FS_CardinalityType
<1> HIDE DEF most, at
<1>3. n \in Nat
  <2>1. n \in 0..most
    BY <1>2, ChainLengthIs
  <2> HIDE DEF n
  <2> QED BY <1>2, <2>1
<1> HIDE DEF n, r
<1>4. CASE ~Fine
  <2>1. r.ok = FALSE /\ r.words = <<>> /\ r.sects = <<>>
    BY <1>1, <1>4 DEF Failed
  <2>2. <<>> \in Seq(Nat) /\ Len(<<>>) \in Nat
    OBVIOUS
  <2> QED BY <2>1, <2>2 DEF r
<1>5. CASE Fine
  <2>1. r.ok = TRUE /\ r.words = words /\ r.sects = sects
    BY <1>1, <1>5 DEF ReadAs
  <2>2. parts \in [1..n -> Seq(Nat)]
    <3>1. \A i \in 0..(n - 1) : source[at[i]] \in Seq(Nat)
      BY <1>5 DEF SectorOk
    <3>2. \A i \in 1..n : i - 1 \in 0..(n - 1)
      BY <1>3
    <3> QED BY <3>1, <3>2
  <2>3. words \in Seq(Nat)
    <3>1. parts \in Seq(Seq(Nat))
      <4> HIDE DEF parts
      <4> QED BY <1>3, <2>2, IsSequence
    <3> HIDE DEF parts
    <3> QED BY <3>1, FlattenIs
  <2>4. Len(sects) \in Nat
    <3>1. sects \in [1..n -> {at[i - 1] : i \in 1..n}]
      OBVIOUS
    <3> HIDE DEF sects
    <3> QED BY <1>3, <3>1, IsSequence
  <2> HIDE DEF words, sects
  <2> QED BY <2>1, <2>3, <2>4 DEF r
<1> QED BY <1>4, <1>5

\* An array is a prefix.
LEMMA ArrayIs ==
  ASSUME NEW S, NEW s \in Seq(S), NEW n \in Nat
  PROVE  \E m \in 0..n : m <= Len(s) /\ Array(s, n) \in [0..(m - 1) -> S]
<1> DEFINE m == IF Len(s) < n THEN Len(s) ELSE n
<1>1. m \in 0..n /\ m <= Len(s)
  OBVIOUS
<1>2. \A i \in 0..(m - 1) : s[i + 1] \in S
  BY <1>1
<1>3. Array(s, n) = [i \in 0..(m - 1) |-> s[i + 1]]
  BY DEF Array
<1> HIDE DEF m
<1> QED BY <1>1, <1>2, <1>3

LEMMA UpToMarkIs ==
  ASSUME NEW slots \in Seq(Nat)
  PROVE  UpToMark(slots) \in Seq(Nat)
<1> DEFINE marks == {i \in 1..Len(slots) : slots[i] \in EndMarks}
           first == CHOOSE i \in marks : \A j \in marks : i <= j
<1>1. UpToMark(slots) = IF marks = {} THEN slots ELSE SubSeq(slots, 1, first - 1)
  BY DEF UpToMark
<1>2. marks \subseteq 1..Len(slots) /\ marks \subseteq Nat
  OBVIOUS
<1> HIDE DEF marks
<1>3. CASE marks # {}
  <2>1. \E i \in marks : \A j \in marks : i <= j
    BY <1>2, <1>3, LeastIs
  <2>2. first \in marks
    BY <2>1
  <2> HIDE DEF first
  <2>3. first - 1 \in 0..Len(slots)
    BY <1>2, <2>2
  <2>4. SubSeq(slots, 1, first - 1) \in Seq(Nat)
    BY <2>3, PartIs
  <2> QED BY <1>1, <1>3, <2>4
<1> QED BY <1>1, <1>3

\* The DIFAT sectors are complete, and each but the first is named in the last
\* word of the one before it.
LEMMA DifatChainIs ==
  ASSUME NEW d, NEW h, IsDisk(d), IsHeader(h), DifatOk(d, h)
  PROVE  LET at == DifatChain(d, h) IN
         /\ Len(at) = (IF h.csectDif = 0 THEN 0 ELSE DifatCount(h)) /\ Len(at) \in Nat
         /\ DOMAIN at = 1..Len(at)
         /\ \A i \in 1..Len(at) : /\ Readable(d, at[i])
                                  /\ at[i] = DifatWalk(d, h.sectDifStart, Len(at))[i - 1]
<1> DEFINE n == IF h.csectDif = 0 THEN 0 ELSE DifatCount(h)
           walk == DifatWalk(d, h.sectDifStart, n)
           at == [i \in 1..n |-> walk[i - 1]]
<1>1. n \in Nat /\ \A i \in 0..(n - 1) : Readable(d, walk[i])
  <2>1. CASE h.csectDif = 0
    BY <2>1
  <2>2. CASE h.csectDif # 0
    BY <2>2 DEF DifatOk, IsHeader
  <2> QED BY <2>1, <2>2
<1>2. DifatChain(d, h) = at
  BY DEF DifatChain
<1> HIDE DEF n
<1>3. at \in [1..n -> {walk[i - 1] : i \in 1..n}]
  OBVIOUS
<1> HIDE DEF walk
<1>4. Len(at) = n
  <2> HIDE DEF at
  <2> QED BY <1>1, <1>3, IsSequence
<1>5. \A i \in 1..n : i - 1 \in 0..(n - 1)
  BY <1>1
<1>6. DOMAIN at = 1..n /\ \A i \in 1..n : at[i] = walk[i - 1] /\ Readable(d, at[i])
  BY <1>1, <1>5
<1> HIDE DEF at
<1> QED BY <1>1, <1>2, <1>4, <1>6 DEF n, walk

\* The sectors of the table are read from the header and the DIFAT sectors.
LEMMA FatSectorsIs ==
  ASSUME NEW d, NEW h, IsDisk(d), IsHeader(h), DifatOk(d, h)
  PROVE  FatSectors(d, h) \in Seq(Nat)
<1> DEFINE at == DifatChain(d, h)
           Words(i) == SubSeq(d[at[i]], 1, SectorWords - 1)
           parts == [i \in 1..Len(at) |-> UpToMark(Words(i))]
<1>1. Len(at) \in Nat /\ \A i \in 1..Len(at) : Readable(d, at[i])
  BY DifatChainIs
<1> HIDE DEF at
<1>2. parts \in [1..Len(at) -> Seq(Nat)]
  <2>1. ASSUME NEW i \in 1..Len(at) PROVE UpToMark(Words(i)) \in Seq(Nat)
    <3>1. d[at[i]] \in Seq(Nat) /\ Len(d[at[i]]) = SectorWords
      BY <1>1 DEF Readable, IsDisk
    <3>2. SectorWords - 1 \in 0..SectorWords
      BY SizeAssumption
    <3>3. Words(i) \in Seq(Nat)
      BY <3>1, <3>2, PartIs, SMTT(60)
    <3> HIDE DEF Words
    <3> QED BY <3>3, UpToMarkIs
  <2> HIDE DEF Words
  <2> QED BY <2>1
<1>3. FatSectors(d, h) = UpToMark(h.slots) \o FlattenSeq(parts)
  BY DEF FatSectors, at
<1>4. FlattenSeq(parts) \in Seq(Nat)
  <2> HIDE DEF parts
  <2>1. parts \in Seq(Seq(Nat))
    BY <1>1, <1>2, IsSequence
  <2> QED BY <2>1, FlattenIs
<1>5. UpToMark(h.slots) \in Seq(Nat)
  BY UpToMarkIs DEF IsHeader
<1> HIDE DEF parts
<1> QED BY <1>3, <1>4, <1>5

\* No table of a file has more entries than the file has sectors.
IsTable(t, d) ==
  \E m \in 0..Cardinality(DOMAIN d) : DOMAIN t = 0..(m - 1)

LEMMA FatIs ==
  ASSUME NEW d, IsDisk(d), NEW sects \in Seq(Nat),
         \A i \in 1..Len(sects) : Readable(d, sects[i])
  PROVE  IsTable(Fat(d, sects), d)
<1> DEFINE parts == [i \in 1..Len(sects) |-> d[sects[i]]]
<1>1. parts \in [1..Len(sects) -> Seq(Nat)] /\ Len(sects) \in Nat
  BY DEF Readable, IsDisk
<1>2. Cardinality(DOMAIN d) \in Nat
  BY FS_CardinalityType DEF IsDisk
<1>3. Fat(d, sects) = Array(FlattenSeq(parts), Cardinality(DOMAIN d))
  BY DEF Fat
<1> HIDE DEF parts
<1>4. parts \in Seq(Seq(Nat))
  BY <1>1, IsSequence
<1>5. FlattenSeq(parts) \in Seq(Nat)
  BY <1>4, FlattenIs
<1>6. PICK m \in 0..Cardinality(DOMAIN d) : Fat(d, sects) \in [0..(m - 1) -> Nat]
  <2> DEFINE all == FlattenSeq(parts)
             n == Cardinality(DOMAIN d)
  <2>1. all \in Seq(Nat) /\ n \in Nat /\ Fat(d, sects) = Array(all, n)
    BY <1>2, <1>3, <1>5
  <2> HIDE DEF all, n
  <2>2. \E m \in 0..n : Array(all, n) \in [0..(m - 1) -> Nat]
    BY <2>1, ArrayIs
  <2> QED BY <2>1, <2>2 DEF n
<1> QED BY <1>6 DEF IsTable

LEMMA TableIs ==
  ASSUME NEW d, NEW t, IsDisk(d), IsTable(t, d)
  PROVE  /\ IsFiniteSet(DOMAIN t) /\ Cardinality(DOMAIN t) \in Nat
         /\ Cardinality(DOMAIN t) * SectorWords <= FREESECT
         /\ DOMAIN t \subseteq DOMAIN d /\ ENDOFCHAIN \notin DOMAIN t
<1> DEFINE N == Cardinality(DOMAIN d)
<1>1. N \in Nat /\ DOMAIN d = 0..(N - 1) /\ N * SectorWords <= FREESECT
  BY FS_CardinalityType DEF IsDisk
<1> HIDE DEF N
<1>2. PICK m \in 0..N : DOMAIN t = 0..(m - 1)
  BY DEF IsTable, N
<1>3. IsFiniteSet(DOMAIN t) /\ Cardinality(DOMAIN t) = m
  BY <1>1, <1>2, FS_Interval, SMTT(60)
<1>4. SectorWords \in Nat /\ SectorWords >= 1
  BY SizeAssumption
<1>5. m * SectorWords <= N * SectorWords /\ N <= N * SectorWords
  BY <1>1, <1>2, <1>4
<1>6. m * SectorWords <= FREESECT /\ N <= FREESECT
  <2>1. m * SectorWords \in Nat /\ N * SectorWords \in Nat /\ FREESECT \in Nat
    BY <1>1, <1>2, <1>4 DEF FREESECT
  <2> QED BY <1>1, <1>5, <2>1
<1>7. ENDOFCHAIN \notin DOMAIN t
  BY <1>1, <1>2, <1>6 DEF ENDOFCHAIN, FREESECT
<1>8. DOMAIN t \subseteq DOMAIN d
  BY <1>1, <1>2
<1> QED BY <1>1, <1>2, <1>3, <1>6, <1>7, <1>8

\* The mini sectors of a ministream are sequences of words.
LEMMA MiniSectorsIs ==
  ASSUME NEW words \in Seq(Nat)
  PROVE  \A m \in DOMAIN MiniSectors(words) : MiniSectors(words)[m] \in Seq(Nat)
<1> DEFINE L == Len(words)
           n == CeilDiv(L, MiniWords)
           Until(m) == IF (m + 1) * MiniWords < L THEN (m + 1) * MiniWords ELSE L
<1>1. MiniSectors(words) = [m \in 0..(n - 1) |-> SubSeq(words, m * MiniWords + 1, Until(m))]
  BY DEF MiniSectors
<1>2. L \in Nat /\ MiniWords \in Nat
  BY SizeAssumption
<1> HIDE DEF n
<1>3. ASSUME NEW m \in 0..(n - 1)
      PROVE  SubSeq(words, m * MiniWords + 1, Until(m)) \in Seq(Nat)
  <2>1. m \in Nat
    OBVIOUS
  <2>2. m * MiniWords \in Nat /\ (m + 1) * MiniWords \in Nat
    BY <1>2, <2>1
  <2>3. m * MiniWords + 1 \in Nat \ {0} /\ Until(m) \in 0..Len(words)
    BY <1>2, <2>2
  <2> HIDE DEF Until
  <2> QED BY <2>3, PartIs
<1> HIDE DEF Until
<1> QED BY <1>1, <1>3

\* The sectors a stream is written in are full.
LEMMA DataSectorIs ==
  ASSUME NEW data \in Seq(Nat), NEW i \in Nat, i + 1 <= CeilDiv(Len(data), SectorWords)
  PROVE  LET s == Padded(DataSector(data, i)) IN s \in Seq(Nat) /\ Len(s) = SectorWords
<1> DEFINE L == Len(data)
           from == i * SectorWords
           to == IF (i + 1) * SectorWords < L THEN (i + 1) * SectorWords ELSE L
           part == SubSeq(data, from + 1, to)
<1>1. SectorWords \in Nat \ {0} /\ L \in Nat
  BY SizeAssumption
<1>2. CeilDiv(L, SectorWords) \in Nat /\ CeilDiv(L, SectorWords) * SectorWords < L + SectorWords
  BY <1>1, CeilDivIs
<1>3. from \in Nat /\ (i + 1) * SectorWords = from + SectorWords
  BY <1>1
<1>4. (i + 1) * SectorWords <= CeilDiv(L, SectorWords) * SectorWords
  <2> DEFINE c == CeilDiv(L, SectorWords)
  <2>1. c \in Nat /\ i + 1 <= c
    BY <1>2
  <2> HIDE DEF c
  <2>2. (i + 1) * SectorWords <= c * SectorWords
    BY <1>1, <2>1
  <2> QED BY <2>2 DEF c
<1>5. from < L
  <2>1. CeilDiv(L, SectorWords) * SectorWords \in Nat
    BY <1>1, <1>2
  <2> QED BY <1>1, <1>2, <1>3, <1>4, <2>1
<1>6. DataSector(data, i) = part
  BY DEF DataSector
<1>7. to \in 0..L /\ from + 1 <= to /\ to - from <= SectorWords
  BY <1>1, <1>3, <1>5
<1> HIDE DEF from, to
<1>8. part \in Seq(Nat) /\ Len(part) \in 1..SectorWords
  <2>1. part \in Seq(Nat) /\ Len(part) = to - (from + 1) + 1
    BY <1>3, <1>7, PartIs
  <2> QED BY <1>3, <1>7, <2>1
<1> HIDE DEF part
<1>9. [k \in 1..(SectorWords - Len(part)) |-> 0] \in Seq(Nat)
      /\ Len([k \in 1..(SectorWords - Len(part)) |-> 0]) = SectorWords - Len(part)
  <2>1. SectorWords - Len(part) \in Nat
    BY <1>1, <1>8
  <2> QED BY <2>1, IsSequence
<1> QED BY <1>1, <1>6, <1>8, <1>9 DEF Padded

-----------------------------------------------------------------------------
(* The directory: sorting, searching and listing it.                       *)

\* The loaded entries, and their kids.
Loaded ==
  /\ entries \in [DOMAIN entries -> Entry]
  /\ kids \in [DOMAIN entries -> Seq(DOMAIN entries)]

\* The members of s, each at a place of its own.
Permutes(t, s) ==
  /\ Len(t) = Len(s)
  /\ \E p \in [1..Len(s) -> 1..Len(s)] :
       /\ \A k \in 1..Len(s) : t[k] = s[p[k]]
       /\ \A j, k \in 1..Len(s) : p[j] = p[k] => j = k
       /\ \A i \in 1..Len(s) : \E k \in 1..Len(s) : p[k] = i

\* Sorting moves every kid to one place, and one kid to every place.
LEMMA SortedIs ==
  ASSUME NEW S, NEW seq \in Seq(S), \A x \in S : entries[x].name \in Nat
  PROVE  Sorted(seq) \in Seq(S) /\ Permutes(Sorted(seq), seq)
<1> DEFINE N == Len(seq)
           name(i) == entries[seq[i]].name
           before(i) == {j \in 1..N : \/ Before(seq[j], seq[i])
                                      \/ ~Before(seq[i], seq[j]) /\ j < i}
           place(i) == 1 + Cardinality(before(i))
           where == [i \in 1..N |-> place(i)]
           p == [k \in 1..N |-> CHOOSE i \in 1..N : place(i) = k]
<1>1. N \in Nat /\ \A i \in 1..N : seq[i] \in S /\ name(i) \in Nat
  OBVIOUS
<1>2. Sorted(seq) = [k \in 1..N |-> seq[CHOOSE i \in 1..N : place(i) = k]]
  BY DEF Sorted
<1>3. \A i \in 1..N : before(i) = {j \in 1..N : name(j) < name(i) \/ (name(j) <= name(i) /\ j < i)}
  <2> SUFFICES ASSUME NEW i \in 1..N, NEW j \in 1..N
               PROVE  (Before(seq[j], seq[i]) \/ (~Before(seq[i], seq[j]) /\ j < i))
                      <=> (name(j) < name(i) \/ (name(j) <= name(i) /\ j < i))
    OBVIOUS
  <2> QED BY <1>1, SMTT(60) DEF Before
<1>4. IsFiniteSet(1..N) /\ Cardinality(1..N) = N
  <2> HIDE DEF N
  <2>1. 1 \in Int /\ N \in Int
    BY <1>1
  <2> QED BY <1>1, <2>1, FS_Interval
<1> HIDE DEF N, name, before
<1>5. \A i \in 1..N : IsFiniteSet(before(i)) /\ before(i) \subseteq (1..N) \ {i}
  <2> SUFFICES ASSUME NEW i \in 1..N
               PROVE  IsFiniteSet(before(i)) /\ before(i) \subseteq (1..N) \ {i}
    OBVIOUS
  <2>1. before(i) \subseteq (1..N) \ {i}
    BY <1>1, <1>3
  <2>2. before(i) \in SUBSET (1..N)
    BY <2>1
  <2> QED BY <1>4, <2>1, <2>2, FS_Subset
<1>6. where \in [1..N -> 1..N]
  <2> SUFFICES ASSUME NEW i \in 1..N PROVE place(i) \in 1..N
    OBVIOUS
  <2> DEFINE T == (1..N) \ {i}
  <2>1. IsFiniteSet(T) /\ Cardinality(T) = N - 1
    BY <1>4, FS_RemoveElement
  <2>2. before(i) \in SUBSET T
    BY <1>5
  <2> HIDE DEF T
  <2>3. Cardinality(before(i)) <= N - 1 /\ Cardinality(before(i)) \in Nat
    BY <2>1, <2>2, <1>5, FS_Subset, FS_CardinalityType
  <2> QED BY <1>1, <2>3
<1>7. ASSUME NEW i \in 1..N, NEW j \in 1..N, name(i) < name(j) \/ (name(i) <= name(j) /\ i < j)
      PROVE  place(i) < place(j)
  <2> DEFINE T == before(i) \cup {i}
  <2>1. IsFiniteSet(T) /\ Cardinality(T) = Cardinality(before(i)) + 1
    BY <1>5, FS_AddElement
  <2>2. T \in SUBSET before(j)
    <3>1. i \in before(j)
      BY <1>3, <1>7
    <3>2. ASSUME NEW k \in before(i) PROVE k \in before(j)
      <4>1. k \in 1..N /\ (name(k) < name(i) \/ (name(k) <= name(i) /\ k < i))
        BY <1>3, <3>2
      <4>2. name(k) \in Nat /\ name(i) \in Nat /\ name(j) \in Nat
        BY <1>1, <4>1
      <4>3. name(k) < name(j) \/ (name(k) <= name(j) /\ k < j)
        BY <1>1, <1>7, <4>1, <4>2
      <4> QED BY <1>3, <4>1, <4>3
    <3> QED BY <3>1, <3>2
  <2> HIDE DEF T
  <2>3. Cardinality(T) <= Cardinality(before(j))
    BY <1>5, <2>2, FS_Subset
  <2>4. Cardinality(before(i)) \in Nat /\ Cardinality(before(j)) \in Nat
    BY <1>5, FS_CardinalityType
  <2> QED BY <2>1, <2>3, <2>4
<1>8. \A i, j \in 1..N : where[i] = where[j] => i = j
  <2> SUFFICES ASSUME NEW i \in 1..N, NEW j \in 1..N, place(i) = place(j), i # j
               PROVE  FALSE
    OBVIOUS
  <2>1. \/ name(i) < name(j) \/ (name(i) <= name(j) /\ i < j)
        \/ name(j) < name(i) \/ (name(j) <= name(i) /\ j < i)
    BY <1>1
  <2>2. place(i) \in 1..N /\ place(j) \in 1..N
    BY <1>6
  <2> HIDE DEF place
  <2>3. place(i) < place(j) \/ place(j) < place(i)
    BY <1>7, <2>1
  <2> QED BY <1>1, <2>2, <2>3
<1>9. \A k \in 1..N : \E i \in 1..N : place(i) = k
  <2>1. where \in Injection(1..N, 1..N)
    <3> HIDE DEF where
    <3> QED BY <1>6, <1>8 DEF Injection, IsInjective
  <2>2. where \in Surjection(1..N, 1..N)
    <3> HIDE DEF where
    <3> QED BY <1>4, <2>1, FS_Injection
  <2>3. \A k \in 1..N : \E i \in 1..N : where[i] = k
    <3> HIDE DEF where
    <3> QED BY <2>2 DEF Surjection
  <2> QED BY <2>3
<1> HIDE DEF place
<1>10. \A k \in 1..N : p[k] \in 1..N /\ place(p[k]) = k
  BY <1>9
<1> HIDE DEF p
<1>11. p \in [1..N -> 1..N]
  BY <1>10 DEF p
<1>12. \A j, k \in 1..N : p[j] = p[k] => j = k
  BY <1>10
<1>13. \A i \in 1..N : \E k \in 1..N : p[k] = i
  <2> SUFFICES ASSUME NEW i \in 1..N PROVE \E k \in 1..N : p[k] = i
    OBVIOUS
  <2>1. place(i) \in 1..N
    BY <1>6
  <2>2. place(p[place(i)]) = place(i) /\ p[place(i)] \in 1..N
    BY <1>10, <2>1
  <2>3. p[place(i)] = i
    BY <1>8, <2>2
  <2> QED BY <2>1, <2>3
<1>14. Sorted(seq) = [k \in 1..N |-> seq[p[k]]]
  BY <1>2 DEF p
<1>15. Sorted(seq) \in [1..N -> S]
  BY <1>1, <1>11, <1>14
<1>16. Sorted(seq) \in Seq(S) /\ Len(Sorted(seq)) = N
  BY <1>1, <1>15, IsSequence
<1>17. \A k \in 1..N : Sorted(seq)[k] = seq[p[k]]
  BY <1>14
<1> QED BY <1>11, <1>12, <1>13, <1>16, <1>17 DEF N, Permutes

\* The kid of a storage that has a name in small letters, as _find takes it.
KidOf(s, name) ==
  LET same == {k \in 1..Len(kids[s]) : Lower(entries[kids[s][k]].name) = Lower(name)}
  IN  IF s = NOSTREAM \/ same = {} THEN NOSTREAM
      ELSE kids[s][CHOOSE k \in same : \A l \in same : k <= l]

\* _find goes from a storage to a kid.
LEMMA FindSteps ==
  ASSUME Loaded, 0 \in DOMAIN entries, NEW S, NEW path \in Seq(S)
  PROVE  \E at \in [0..Len(path) -> DOMAIN entries \cup {NOSTREAM}] :
           /\ at[0] = 0
           /\ \A i \in 1..Len(path) : at[i] = KidOf(at[i - 1], path[i])
           /\ Find(path) = at[Len(path)]
<1> DEFINE N == Len(path)
           V == DOMAIN entries \cup {NOSTREAM}
           z == 0
           G == [i \in 1..N |-> [s \in V |-> KidOf(s, path[i])]]
           same(s, x) == {k \in 1..Len(kids[s]) :
                            Lower(entries[kids[s][k]].name) = Lower(x)}
           step(f) == [i \in 0..N |->
             IF i = 0 THEN 0
             ELSE IF f[i - 1] = NOSTREAM THEN NOSTREAM
             ELSE IF same(f[i - 1], path[i]) = {} THEN NOSTREAM
             ELSE kids[f[i - 1]][CHOOSE k \in same(f[i - 1], path[i]) :
                                   \A l \in same(f[i - 1], path[i]) : k <= l]]
           Of == CHOOSE f : f = step(f)
<1>1. N \in Nat /\ z \in V
  OBVIOUS
<1>2. ASSUME NEW s \in V, NEW x PROVE KidOf(s, x) \in V
  <2>1. CASE s = NOSTREAM \/ same(s, x) = {}
    BY <2>1 DEF KidOf
  <2>2. CASE s # NOSTREAM /\ same(s, x) # {}
    <3> DEFINE k == CHOOSE k \in same(s, x) : \A l \in same(s, x) : k <= l
    <3>1. s \in DOMAIN entries /\ kids[s] \in Seq(DOMAIN entries)
      BY <2>2 DEF Loaded
    <3>2. same(s, x) \subseteq Nat /\ same(s, x) \subseteq 1..Len(kids[s])
      OBVIOUS
    <3>3. KidOf(s, x) = kids[s][k]
      BY <2>2 DEF KidOf
    <3> HIDE DEF same
    <3>4. \E m \in same(s, x) : \A l \in same(s, x) : m <= l
      BY <2>2, <3>2, LeastIs
    <3>5. k \in same(s, x)
      BY <3>4
    <3> HIDE DEF k
    <3>6. kids[s][k] \in DOMAIN entries
      BY <3>1, <3>2, <3>5
    <3> QED BY <3>3, <3>6
  <2> QED BY <2>1, <2>2
<1>3. Find(path) = Of[N]
  BY DEF Find
<1>4. \A f : step(f) = [i \in 0..N |-> IF i = 0 THEN 0 ELSE KidOf(f[i - 1], path[i])]
  <2> SUFFICES ASSUME NEW f, NEW i \in 0..N
               PROVE  step(f)[i] = IF i = 0 THEN 0 ELSE KidOf(f[i - 1], path[i])
    OBVIOUS
  <2> DEFINE s == f[i - 1]
             x == path[i]
             kid == kids[s][CHOOSE k \in same(s, x) : \A l \in same(s, x) : k <= l]
  <2>1. KidOf(s, x) = IF s = NOSTREAM \/ same(s, x) = {} THEN NOSTREAM ELSE kid
    BY Zenon DEF KidOf
  <2>2. step(f)[i] = IF i = 0 THEN 0
                     ELSE IF s = NOSTREAM THEN NOSTREAM
                     ELSE IF same(s, x) = {} THEN NOSTREAM ELSE kid
    BY Zenon
  <2> HIDE DEF same, kid, step
  <2> QED BY <2>1, <2>2, Zenon
<1> HIDE DEF step, N, V, z
<1>5. G \in [1..N -> [V -> V]]
  BY <1>2
<1>6. PICK f \in [0..N -> V] : Recurs(f, N, z, G)
  <2> HIDE DEF G
  <2> QED BY <1>1, <1>5, RecursionExists
<1>7. f = step(f)
  <2>1. ASSUME NEW i \in 0..N PROVE f[i] = IF i = 0 THEN 0 ELSE KidOf(f[i - 1], path[i])
    <3>1. CASE i = 0
      BY <1>6, <3>1 DEF Recurs, z
    <3>2. CASE i # 0
      <4>1. i \in 1..N /\ f[i - 1] \in V
        BY <1>1, <1>6, <3>2
      <4>2. f[i] = G[i][f[i - 1]]
        BY <1>6, <4>1 DEF Recurs
      <4> QED BY <3>2, <4>1, <4>2
    <3> QED BY <3>1, <3>2
  <2>2. f = [i \in 0..N |-> f[i]]
    BY <1>6
  <2> QED BY <1>4, <2>1, <2>2
<1>8. Of = step(Of)
  BY <1>7
<1> HIDE DEF Of
<1>9. /\ Of[0] = 0
      /\ \A i \in 1..N : Of[i] = KidOf(Of[i - 1], path[i])
      /\ DOMAIN Of = 0..N
      /\ Of = [i \in 0..N |-> Of[i]]
  <2>1. Of = [i \in 0..N |-> IF i = 0 THEN 0 ELSE KidOf(Of[i - 1], path[i])]
    BY <1>4, <1>8
  <2>2. 0 \in 0..N /\ \A i \in 1..N : i \in 0..N /\ i # 0
    BY <1>1
  <2> QED BY <2>1, <2>2
<1>10. \A i \in 0..N : Of[i] \in V
  <2> DEFINE P == {i \in Nat : i <= N => Of[i] \in V}
  <2>1. 0 \in P
    BY <1>1, <1>9 DEF z
  <2>2. ASSUME NEW i \in Nat, i \in P PROVE i + 1 \in P
    <3> SUFFICES ASSUME i + 1 <= N PROVE Of[i + 1] \in V
      OBVIOUS
    <3>1. i + 1 \in 1..N /\ (i + 1) - 1 = i /\ i <= N
      BY <1>1
    <3>2. Of[i] \in V
      BY <2>2, <3>1
    <3>3. Of[i + 1] = KidOf(Of[i], path[i + 1])
      BY <1>9, <3>1
    <3> QED BY <1>2, <3>2, <3>3
  <2> HIDE DEF P
  <2>3. Nat \subseteq P
    BY <2>1, <2>2, Induct
  <2> QED BY <1>1, <2>3 DEF P
<1>11. Of \in [0..N -> V]
  BY <1>9, <1>10
<1> QED BY <1>3, <1>9, <1>11 DEF N, V

\* A row of a listing: a path and the entry it was listed for.
Row == [path : Seq(Nat), sid : DOMAIN entries]

LEMMA RowIs ==
  ASSUME NEW r \in Row
  PROVE  r.path \in Seq(Nat) /\ r.sid \in DOMAIN entries
BY DEF Row

\* r says of a kid what it is, or of something below it.
RowOf(r, kid, below) ==
  \/ r.path = <<entries[kid].name>> /\ r.sid = kid
  \/ \E q \in ToSet(below) : r.path = <<entries[kid].name>> \o q.path /\ r.sid = q.sid

LEMMA ShownIs ==
  ASSUME Loaded, NEW kid \in DOMAIN entries, NEW below \in Seq(Row), NEW a, NEW b
  PROVE  /\ Shown(kid, below, a, b) \in Seq(Row)
         /\ \A r \in ToSet(Shown(kid, below, a, b)) : RowOf(r, kid, below)
<1> DEFINE name == <<entries[kid].name>>
           here == [path |-> name, sid |-> kid]
           under == [i \in 1..Len(below) |->
                       [path |-> name \o below[i].path, sid |-> below[i].sid]]
           own == IF b THEN <<here>> ELSE <<>>
           shown == Shown(kid, below, a, b)
<1>1. name \in Seq(Nat) /\ here \in Row
  <2>1. entries[kid].name \in Nat
    BY DEF Loaded, Entry
  <2>2. name \in Seq(Nat)
    BY <2>1
  <2> HIDE DEF name
  <2> QED BY <2>2 DEF Row
<1>2. here.path = name /\ here.sid = kid
  OBVIOUS
<1>3. \/ shown = own \o under
      \/ shown = <<here>>
      \/ shown = <<>>
  BY DEF Shown
<1> HIDE DEF name, here
<1>4. under \in [1..Len(below) -> Row] /\ Len(below) \in Nat
  <2> SUFFICES ASSUME NEW i \in 1..Len(below)
               PROVE  [path |-> name \o below[i].path, sid |-> below[i].sid] \in Row
    BY SMTT(60)
  <2>1. below[i].path \in Seq(Nat) /\ below[i].sid \in DOMAIN entries
    <3>1. below[i] \in Row
      OBVIOUS
    <3> QED BY <3>1, RowIs
  <2>2. name \o below[i].path \in Seq(Nat)
    BY <1>1, <2>1
  <2> QED BY <2>1, <2>2 DEF Row
<1>5. \A i \in 1..Len(below) : under[i].path = name \o below[i].path
                               /\ under[i].sid = below[i].sid
  OBVIOUS
<1> HIDE DEF under
<1>6. under \in Seq(Row) /\ Len(under) = Len(below)
  BY <1>4, IsSequence
<1>7. own \in Seq(Row) /\ <<here>> \in Seq(Row) /\ <<>> \in Seq(Row)
  BY <1>1
<1>8. ToSet(<<here>>) = {here} /\ ToSet(<<>>) = {}
  BY DEF ToSet
<1>9. ToSet(own) \subseteq {here}
  BY <1>8
<1> HIDE DEF own
<1>10. \A r \in ToSet(own \o under) : r \in ToSet(own) \/ r \in ToSet(under)
  BY <1>6, <1>7 DEF ToSet
<1>11. \A r \in ToSet(under) : RowOf(r, kid, below)
  <2> SUFFICES ASSUME NEW i \in 1..Len(below) PROVE RowOf(under[i], kid, below)
    BY <1>6 DEF ToSet
  <2>1. below[i] \in ToSet(below)
    BY DEF ToSet
  <2>2. under[i].path = name \o below[i].path /\ under[i].sid = below[i].sid
    BY <1>5
  <2> QED BY <2>1, <2>2 DEF RowOf, name
<1>12. RowOf(here, kid, below)
  BY <1>2 DEF RowOf, name
<1>13. own \o under \in Seq(Row)
  BY <1>6, <1>7
<1> HIDE DEF shown
<1>14. shown \in Seq(Row)
  BY <1>3, <1>7, <1>13
<1>15. \A r \in ToSet(shown) : RowOf(r, kid, below)
  BY <1>3, <1>8, <1>9, <1>10, <1>11, <1>12
<1> QED BY <1>14, <1>15 DEF shown

\* A listing is made from the leaves up, as deep as Python allows calls.
LEMMA ListSteps ==
  ASSUME Loaded, 0 \in DOMAIN entries, NEW a, NEW b
  PROVE  \E under \in [0..RecursionLimit -> [DOMAIN entries -> Seq(Row)]] :
           /\ \A s \in DOMAIN entries : under[0][s] = <<>>
           /\ \A d \in 1..RecursionLimit : \A s \in DOMAIN entries :
                \A r \in ToSet(under[d][s]) : \E k \in 1..Len(kids[s]) :
                  RowOf(r, kids[s][k], under[d - 1][kids[s][k]])
           /\ List(a, b) = under[RecursionLimit][0]
<1> DEFINE N == RecursionLimit
           D == DOMAIN entries
           V == [D -> Seq(Row)]
           z == [s \in D |-> <<>>]
           parts(g, s) == [k \in 1..Len(kids[s]) |-> Shown(kids[s][k], g[kids[s][k]], a, b)]
           H(g) == [s \in D |-> FlattenSeq(parts(g, s))]
           G == [d \in 1..N |-> [g \in V |-> H(g)]]
           step(f) == [d \in 0..N |->
             [s \in D |-> IF d = 0 THEN <<>>
                          ELSE FlattenSeq([k \in 1..Len(kids[s]) |->
                                 Shown(kids[s][k], f[d - 1][kids[s][k]], a, b)])]]
           Of == CHOOSE f : f = step(f)
<1>1. N \in Nat
  BY LimitsAssumption
<1>2. List(a, b) = Of[N][0]
  BY DEF List
<1>3. \A f : step(f) = [d \in 0..N |-> IF d = 0 THEN z ELSE H(f[d - 1])]
  OBVIOUS
<1> HIDE DEF N, step
<1>4. ASSUME NEW g \in V, NEW s \in D
      PROVE  /\ parts(g, s) \in Seq(Seq(Row)) /\ Len(parts(g, s)) = Len(kids[s])
             /\ \A k \in 1..Len(kids[s]) : /\ kids[s][k] \in D
                                           /\ g[kids[s][k]] \in Seq(Row)
                                           /\ parts(g, s)[k] = Shown(kids[s][k], g[kids[s][k]], a, b)
  <2>1. kids[s] \in Seq(D)
    BY DEF Loaded
  <2>2. Len(kids[s]) \in Nat /\ \A k \in 1..Len(kids[s]) : kids[s][k] \in D
    BY <2>1
  <2>3. \A k \in 1..Len(kids[s]) : g[kids[s][k]] \in Seq(Row)
    BY <2>2
  <2>4. \A k \in 1..Len(kids[s]) : Shown(kids[s][k], g[kids[s][k]], a, b) \in Seq(Row)
    BY <2>2, <2>3, ShownIs
  <2>5. parts(g, s) \in [1..Len(kids[s]) -> Seq(Row)]
    BY <2>4
  <2>6. \A k \in 1..Len(kids[s]) : parts(g, s)[k] = Shown(kids[s][k], g[kids[s][k]], a, b)
    OBVIOUS
  <2> HIDE DEF parts, V, D
  <2>7. parts(g, s) \in Seq(Seq(Row)) /\ Len(parts(g, s)) = Len(kids[s])
    BY <2>2, <2>5, IsSequence
  <2> QED BY <2>2, <2>3, <2>6, <2>7
<1> HIDE DEF parts
<1>5. \A g \in V : H(g) \in V
  <2> SUFFICES ASSUME NEW g \in V, NEW s \in D PROVE FlattenSeq(parts(g, s)) \in Seq(Row)
    OBVIOUS
  <2>1. parts(g, s) \in Seq(Seq(Row))
    BY <1>4
  <2> QED BY <2>1, FlattenIs
<1>6. z \in V
  OBVIOUS
<1>7. G \in [1..N -> [V -> V]]
  <2> HIDE DEF H, V
  <2> QED BY <1>5
<1>8. \A d \in 1..N, g \in V : G[d][g] = H(g)
  <2> HIDE DEF H, V
  <2> QED OBVIOUS
<1> HIDE DEF G, z, H, V
<1>9. PICK f \in [0..N -> V] : Recurs(f, N, z, G)
  BY <1>1, <1>6, <1>7, RecursionExists
<1>10. f = step(f)
  <2>1. ASSUME NEW d \in 0..N PROVE f[d] = IF d = 0 THEN z ELSE H(f[d - 1])
    <3>1. CASE d = 0
      BY <1>9, <3>1 DEF Recurs
    <3>2. CASE d # 0
      <4>1. d \in 1..N /\ f[d - 1] \in V
        BY <1>1, <1>9, <3>2
      <4>2. f[d] = G[d][f[d - 1]]
        BY <1>9, <4>1 DEF Recurs
      <4> QED BY <1>8, <3>2, <4>1, <4>2
    <3> QED BY <3>1, <3>2
  <2>2. f = [d \in 0..N |-> f[d]]
    BY <1>9
  <2> QED BY <1>3, <2>1, <2>2
<1>11. Of = step(Of)
  BY <1>10
<1> HIDE DEF Of
<1>12. /\ Of[0] = z /\ \A d \in 1..N : Of[d] = H(Of[d - 1])
       /\ Of = [d \in 0..N |-> Of[d]]
  <2>1. Of = [d \in 0..N |-> IF d = 0 THEN z ELSE H(Of[d - 1])]
    BY <1>3, <1>11
  <2>2. 0 \in 0..N /\ \A d \in 1..N : d \in 0..N /\ d # 0
    BY <1>1
  <2> QED BY <2>1, <2>2
<1>13. \A d \in 0..N : Of[d] \in V
  <2> DEFINE P == {d \in Nat : d <= N => Of[d] \in V}
  <2>1. 0 \in P
    BY <1>6, <1>12
  <2>2. ASSUME NEW d \in Nat, d \in P PROVE d + 1 \in P
    <3> SUFFICES ASSUME d + 1 <= N PROVE Of[d + 1] \in V
      OBVIOUS
    <3>1. d + 1 \in 1..N /\ (d + 1) - 1 = d /\ d <= N
      BY <1>1
    <3>2. Of[d] \in V /\ Of[d + 1] = H(Of[d])
      BY <1>12, <2>2, <3>1
    <3> QED BY <1>5, <3>2
  <2> HIDE DEF P
  <2>3. Nat \subseteq P
    BY <2>1, <2>2, Induct
  <2> QED BY <1>1, <2>3 DEF P
<1>14. Of \in [0..N -> V]
  BY <1>12, <1>13
<1>15. \A s \in D : Of[0][s] = <<>>
  BY <1>12 DEF z
<1>16. ASSUME NEW d \in 1..N, NEW s \in D, NEW r \in ToSet(Of[d][s])
       PROVE  \E k \in 1..Len(kids[s]) : RowOf(r, kids[s][k], Of[d - 1][kids[s][k]])
  <2> DEFINE g == Of[d - 1]
             ss == parts(g, s)
  <2>1. g \in V /\ Of[d] = H(g)
    <3>1. d - 1 \in 0..N
      BY <1>1
    <3> QED BY <1>12, <1>13, <3>1
  <2>2. Of[d][s] = FlattenSeq(ss)
    BY <2>1 DEF H
  <2>3. ss \in Seq(Seq(Row)) /\ Len(ss) = Len(kids[s])
    BY <1>4, <2>1
  <2>4. PICK k \in 1..Len(kids[s]) : r \in ToSet(ss[k])
    <3> HIDE DEF ss
    <3>1. \A x \in ToSet(FlattenSeq(ss)) : \E k \in 1..Len(ss) : x \in ToSet(ss[k])
      BY <2>3, FlattenIs
    <3> QED BY <1>16, <2>2, <2>3, <3>1
  <2>5. kids[s][k] \in D /\ g[kids[s][k]] \in Seq(Row)
        /\ ss[k] = Shown(kids[s][k], g[kids[s][k]], a, b)
    BY <1>4, <2>1
  <2>6. RowOf(r, kids[s][k], g[kids[s][k]])
    <3> HIDE DEF g, ss
    <3> QED BY <2>4, <2>5, ShownIs
  <2> QED BY <2>6
<1> QED BY <1>2, <1>14, <1>15, <1>16 DEF N, V

\* A listing consists of rows.
LEMMA ListIs ==
  ASSUME Loaded, 0 \in DOMAIN entries, NEW a, NEW b
  PROVE  List(a, b) \in Seq(Row)
<1>1. PICK under \in [0..RecursionLimit -> [DOMAIN entries -> Seq(Row)]] :
        List(a, b) = under[RecursionLimit][0]
  BY ListSteps
<1>2. RecursionLimit \in 0..RecursionLimit
  BY LimitsAssumption
<1> QED BY <1>1, <1>2

\* Callers ask for paths of numbers.
LEMMA PathsAre ==
  ASSUME Loaded, 0 \in DOMAIN entries, NEW path \in Paths
  PROVE  path \in Seq(Nat)
<1>1. CASE path = <<19>>
  BY <1>1
<1>2. ASSUME NEW r \in ToSet(List(TRUE, TRUE)),
             path = [i \in 1..Len(r.path) |-> 10 + Lower(r.path[i])]
      PROVE  path \in Seq(Nat)
  <2>1. r \in Row
    <3> DEFINE rows == List(TRUE, TRUE)
    <3>1. rows \in Seq(Row) /\ r \in ToSet(rows)
      BY <1>2, ListIs
    <3> HIDE DEF rows
    <3> QED BY <3>1 DEF ToSet
  <2>2. r.path \in Seq(Nat) /\ Len(r.path) \in Nat
    BY <2>1, RowIs
  <2>3. \A i \in 1..Len(r.path) : 10 + Lower(r.path[i]) \in Nat
    BY <2>2 DEF Lower
  <2> QED BY <1>2, <2>2, <2>3, IsSequence
<1> QED BY <1>1, <1>2 DEF Paths

\* What _find gives is a loaded entry, or nothing.
LEMMA FindIs ==
  ASSUME Loaded, 0 \in DOMAIN entries, NEW path \in Seq(Nat)
  PROVE  Find(path) \in DOMAIN entries \cup {NOSTREAM}
<1>1. PICK at \in [0..Len(path) -> DOMAIN entries \cup {NOSTREAM}] : Find(path) = at[Len(path)]
  BY FindSteps
<1>2. Len(path) \in 0..Len(path)
  OBVIOUS
<1> QED BY <1>1, <1>2

-----------------------------------------------------------------------------
(* The inductive invariant: what every variable holds.                     *)

Frames == [fn : {"append", "build"}, sid : Nat, owner : Nat,
           at : {"enter", "left", "right", "kid", "sort"}]

\* The entries a call of the walk is about have been loaded.
FrameOK(f, loaded) ==
  /\ f.fn = "build" => f.sid \in loaded
  /\ f.fn = "append" => f.owner \in loaded /\ (f.at # "enter" => f.sid \in loaded)

FileInv ==
  /\ IsDisk(disk) /\ IsHeader(header) /\ IsDirs(dirs) /\ grown \in BOOLEAN
  /\ IsTable(fat, disk)

DirInv ==
  /\ Loaded /\ used \subseteq DOMAIN entries
  /\ folder \in [DOMAIN folder -> Entry] /\ NOSTREAM \notin DOMAIN entries
  /\ pc \in {"walk", "open", "writing"} => 0 \in DOMAIN entries
  /\ pc \in {"open", "writing"} => stack = <<>>
  /\ stack \in Seq(Frames) /\ Len(stack) <= RecursionLimit
  /\ \A i \in 1..Len(stack) : FrameOK(stack[i], DOMAIN entries)

MiniOK(m) ==
  /\ m.loaded \in BOOLEAN /\ m.words \in Seq(Nat) /\ ENDOFCHAIN \notin DOMAIN m.fat

Answered(call) == pc = "open" /\ result # NoCall /\ result.call = call /\ result.ok

CallInv ==
  /\ pc \in {"closed", "fat", "root", "walk", "open", "writing", "failed"}
  /\ writes \in 0..MaxWrites /\ MiniOK(mini)
  /\ pc = "writing" => /\ DOMAIN job = {"sid", "sect", "i", "data"}
                       /\ job.data \in Seq(Nat) /\ job.i \in Nat
                       /\ job.i + 1 <= CeilDiv(Len(job.data), SectorWords)
  /\ pc # "open" => result = NoCall
  /\ Answered("read") => /\ result.sid \in DOMAIN entries
                         /\ Len(result.words) = entries[result.sid].size

IInv == FileInv /\ DirInv /\ CallInv

\* What is not called keeps its part of the invariant.
LEMMA FileStutter == ASSUME FileInv, UNCHANGED <<fileVars, fat>> PROVE FileInv'
BY DEF FileInv, fileVars, IsDisk, IsHeader, IsDirs, IsTable

LEMMA DirStutter ==
  ASSUME DirInv, UNCHANGED dirVars,
         pc' \in {"walk", "open", "writing"} => 0 \in DOMAIN entries,
         pc' \in {"open", "writing"} => stack = <<>>
  PROVE  DirInv'
BY DEF DirInv, dirVars, Loaded, FrameOK

\* A step that makes no call that answers.
LEMMA CallStutter ==
  ASSUME CallInv, UNCHANGED <<mini, job, writes>>, result' = NoCall, pc # "writing",
         pc' \in {"closed", "fat", "root", "walk", "open", "failed"}
  PROVE  CallInv'
BY DEF CallInv, MiniOK, Answered

LEMMA FailInv == ASSUME IInv, pc \notin {"open", "writing"}, Fail PROVE IInv'
<1>1. FileInv'
  BY FileStutter DEF IInv, Fail, oleVars
<1>2. DirInv'
  BY DirStutter DEF IInv, Fail
<1>3. CallInv'
  BY CallStutter DEF IInv, Fail, oleVars, CallInv
<1> QED BY <1>1, <1>2, <1>3 DEF IInv

\* A call inside the innermost one, and its return.
LEMMA CallIs ==
  ASSUME stack \in Seq(Frames), stack # <<>>, NEW f \in Frames,
         NEW at \in {"enter", "left", "right", "kid", "sort"}
  PROVE  LET t == Call(at, f) n == Len(stack) IN
         /\ n \in Nat \ {0} /\ Top = stack[n] /\ Top \in Frames
         /\ t \in Seq(Frames) /\ Len(t) = n + 1
         /\ \A i \in 1..(n - 1) : t[i] = stack[i]
         /\ t[n] \in Frames /\ t[n].fn = Top.fn /\ t[n].sid = Top.sid
         /\ t[n].owner = Top.owner /\ t[n].at = at
         /\ t[n + 1] = f
<1> DEFINE n == Len(stack)
           s == [stack EXCEPT ![n].at = at]
           t == Call(at, f)
<1>1. n \in Nat \ {0} /\ DOMAIN stack = 1..n /\ stack \in [1..n -> Frames]
  BY LenProperties, EmptySeq
<1>2. Top = stack[n] /\ Top \in Frames
  BY <1>1 DEF Top
<1>3. s = [i \in 1..n |-> IF i = n THEN [stack[n] EXCEPT !.at = at] ELSE stack[i]]
  BY <1>1
<1>4. /\ [stack[n] EXCEPT !.at = at] \in Frames
      /\ [stack[n] EXCEPT !.at = at].fn = stack[n].fn
      /\ [stack[n] EXCEPT !.at = at].sid = stack[n].sid
      /\ [stack[n] EXCEPT !.at = at].owner = stack[n].owner
      /\ [stack[n] EXCEPT !.at = at].at = at
  BY <1>1, <1>2 DEF Frames
<1>5. s \in [1..n -> Frames]
  BY <1>1, <1>3, <1>4
<1>6. t = Append(s, f)
  BY DEF Call, Step
<1>7. n \in 1..n /\ \A i \in 1..(n - 1) : i \in 1..n /\ i # n
  <2> HIDE DEF n
  <2> QED BY <1>1
<1>8. s[n] = [stack[n] EXCEPT !.at = at] /\ \A i \in 1..(n - 1) : s[i] = stack[i]
  BY <1>3, <1>7
<1> HIDE DEF s, n, t
<1>9. s \in Seq(Frames) /\ Len(s) = n
  BY <1>1, <1>5, IsSequence
<1>10. /\ t \in Seq(Frames) /\ Len(t) = n + 1 /\ t[n + 1] = f
       /\ \A i \in 1..n : t[i] = s[i]
  BY <1>6, <1>9
<1> QED BY <1>1, <1>2, <1>4, <1>7, <1>8, <1>10 DEF n, t

LEMMA ReturnIs ==
  ASSUME stack \in Seq(Frames), stack # <<>>
  PROVE  LET n == Len(stack) IN
         /\ n \in Nat \ {0} /\ Top = stack[n] /\ Top \in Frames
         /\ Return \in Seq(Frames) /\ Len(Return) = n - 1
         /\ \A i \in 1..(n - 1) : Return[i] = stack[i]
<1> DEFINE n == Len(stack)
<1>1. n \in Nat \ {0} /\ stack \in [1..n -> Frames]
  BY LenProperties, EmptySeq
<1>2. n - 1 \in 0..n
  BY <1>1
<1>3. Return \in Seq(Frames) /\ Len(Return) = n - 1
  BY <1>1, <1>2, PartIs DEF Return
<1>4. \A i \in 1..(n - 1) : Return[i] = stack[i]
  BY <1>1 DEF Return
<1> QED BY <1>1, <1>3, <1>4 DEF Top

-----------------------------------------------------------------------------
(* The steps, and what they preserve.                                      *)

LEMMA InitInv == ASSUME Init PROVE IInv
<1>1. PICK image \in Images, level \in Levels :
        /\ header = [image.header EXCEPT !.level = level]
        /\ disk = image.disk /\ dirs = image.dirs
  BY DEF Init
<1>2. IsHeader(header) /\ IsDisk(disk) /\ IsDirs(dirs)
  BY <1>1, ImagesAssumption DEF IsHeader
<1>3. DOMAIN <<>> = {} /\ <<>> \in Seq(Frames) /\ <<>> \in Seq(Nat) /\ Len(<<>>) = 0
      /\ 1..0 = {} /\ 0..(0 - 1) = {}
  OBVIOUS
<1>4. FileInv
  <2>1. Cardinality(DOMAIN disk) \in Nat
    BY <1>2, FS_CardinalityType DEF IsDisk
  <2>2. DOMAIN fat = 0..(0 - 1) /\ 0 \in 0..Cardinality(DOMAIN disk)
    BY <1>3, <2>1 DEF Init
  <2> QED BY <1>2, <2>2 DEF Init, FileInv, IsTable
<1>5. DirInv
  <2>1. stack = <<>> /\ entries = <<>> /\ kids = <<>> /\ folder = <<>> /\ used = {} /\ pc = "closed"
    BY DEF Init
  <2>2. entries \in [DOMAIN entries -> Entry] /\ folder \in [DOMAIN folder -> Entry]
        /\ kids \in [DOMAIN entries -> Seq(DOMAIN entries)]
    BY <1>3, <2>1
  <2> QED BY <1>3, <2>1, <2>2, LimitsAssumption DEF DirInv, Loaded
<1>6. CallInv
  BY <1>3, LimitsAssumption DEF Init, CallInv, NoMini, MiniOK, Answered
<1> QED BY <1>4, <1>5, <1>6 DEF IInv

LEMMA OpenHeaderInv == ASSUME IInv, OpenHeader PROVE IInv'
<1>1. CASE Raises(HeaderDefects)
  BY <1>1, FailInv DEF OpenHeader
<1>2. CASE ~Raises(HeaderDefects)
  <2>1. FileInv'
    BY <1>2, FileStutter DEF IInv, OpenHeader
  <2>2. DirInv'
    BY <1>2, DirStutter DEF IInv, OpenHeader
  <2>3. CallInv'
    BY <1>2, CallStutter DEF IInv, OpenHeader, CallInv
  <2> QED BY <2>1, <2>2, <2>3 DEF IInv
<1> QED BY <1>1, <1>2

LEMMA LoadFatInv == ASSUME IInv, LoadFat PROVE IInv'
<1> DEFINE sects == FatSectors(disk, header)
           Bad == \/ ~DifatOk(disk, header)
                  \/ Raises(DifatDefects(header))
                  \/ \E i \in 1..Len(sects) : ~Readable(disk, sects[i])
<1>1. CASE Bad
  BY <1>1, FailInv DEF LoadFat
<1>2. CASE ~Bad
  <2>1. /\ fat' = Fat(disk, sects) /\ pc = "fat" /\ pc' = "root"
        /\ UNCHANGED <<fileVars, dirVars, seen, mini, job, writes, result>>
    BY <1>2 DEF LoadFat
  <2>2. sects \in Seq(Nat)
    BY <1>2, FatSectorsIs DEF IInv, FileInv
  <2>3. IsTable(fat', disk)
    BY <1>2, <2>1, <2>2, FatIs DEF IInv, FileInv
  <2>4. FileInv'
    BY <2>1, <2>3 DEF IInv, FileInv, fileVars, IsDisk, IsHeader, IsDirs, IsTable
  <2>5. DirInv'
    BY <2>1, DirStutter DEF IInv
  <2>6. CallInv'
    BY <2>1, CallStutter DEF IInv, CallInv
  <2> QED BY <2>4, <2>5, <2>6 DEF IInv
<1> QED BY <1>1, <1>2

\* The directory holds entries.
LEMMA FolderIs ==
  ASSUME NEW ds, IsDirs(ds), NEW r, r.words \in Seq(Nat), Len(r.sects) \in Nat
  PROVE  Folder(ds, r) \in [DOMAIN Folder(ds, r) -> Entry] /\ DOMAIN Folder(ds, r) \subseteq Nat
<1> DEFINE parts == [i \in 1..Len(r.sects) |-> EntriesOf(ds, r.sects[i])]
           all == FlattenSeq(parts)
           room == Len(r.words) * DirPerSector
           n == room \div SectorWords
<1>1. ASSUME NEW s PROVE EntriesOf(ds, s) \in Seq(Entry)
  <2>1. CASE s \in DOMAIN ds
    BY <2>1 DEF EntriesOf, IsDirs
  <2>2. CASE s \notin DOMAIN ds
    <3>1. EmptyEntry \in Entry
      BY DEF EmptyEntry, Entry, Kind
    <3>2. [i \in 1..DirPerSector |-> EmptyEntry] \in [1..DirPerSector -> Entry]
          /\ DirPerSector \in Nat
      BY <3>1, LimitsAssumption
    <3>3. [i \in 1..DirPerSector |-> EmptyEntry] \in Seq(Entry)
      BY <3>2, IsSequence
    <3> QED BY <2>2, <3>3 DEF EntriesOf
  <2> QED BY <2>1, <2>2
<1>2. parts \in [1..Len(r.sects) -> Seq(Entry)]
  BY <1>1
<1> HIDE DEF parts
<1>3. parts \in Seq(Seq(Entry))
  BY <1>2, IsSequence
<1>4. all \in Seq(Entry)
  BY <1>3, FlattenIs
<1>5. n \in Nat
  <2>1. room \in Nat
    BY LimitsAssumption
  <2> HIDE DEF room
  <2> QED BY <2>1, SizeAssumption
<1>6. Folder(ds, r) = Array(all, n)
  BY DEF Folder, parts
<1> HIDE DEF all, n
<1>7. PICK m \in 0..n : Array(all, n) \in [0..(m - 1) -> Entry]
  BY <1>4, <1>5, ArrayIs
<1>8. DOMAIN Array(all, n) = 0..(m - 1)
  BY <1>7
<1> QED BY <1>5, <1>6, <1>7, <1>8

LEMMA LoadRootInv == ASSUME IInv, LoadRoot PROVE IInv'
<1> DEFINE read == OpenUnknown(disk, SectorWords, fat, header.sectDirStart)
           all == Folder(dirs, read)
           Bad == \/ ~read.ok \/ 0 \notin DOMAIN all \/ Raises(EntryDefects(all[0], 0))
<1>1. CASE Bad
  BY <1>1, FailInv DEF LoadRoot
<1>2. CASE ~Bad
  <2>1. /\ folder' = all /\ 0 \in DOMAIN all
        /\ entries' = [s \in {0} |-> all[0]] /\ kids' = [s \in {0} |-> <<>>]
        /\ used' = {} /\ stack' = <<Frame("build", 0, 0)>>
        /\ pc = "root" /\ pc' = "walk"
        /\ UNCHANGED <<fileVars, fat, mini, job, writes, result>>
    BY <1>2 DEF LoadRoot
  <2>2. all \in [DOMAIN all -> Entry]
    <3>1. read.words \in Seq(Nat) /\ Len(read.sects) \in Nat
      <4>1. \A s \in DOMAIN disk : disk[s] \in Seq(Nat)
        BY DEF IInv, FileInv, IsDisk
      <4>2. IsFiniteSet(DOMAIN fat)
        BY TableIs DEF IInv, FileInv
      <4> QED BY <4>1, <4>2, OpenUnknownIs
    <3> HIDE DEF read
    <3> QED BY <3>1, FolderIs DEF IInv, FileInv
  <2>3. FileInv'
    BY <2>1, FileStutter DEF IInv
  <2>4. DirInv'
    <3> HIDE DEF all
    <3>1. DOMAIN entries' = {0} /\ entries' \in [{0} -> Entry] /\ kids' \in [{0} -> Seq({0})]
      BY <2>1, <2>2
    <3>2. Frame("build", 0, 0) \in Frames
      BY DEF Frame, Frames
    <3>3. stack' \in Seq(Frames) /\ Len(stack') = 1 /\ stack'[1] = Frame("build", 0, 0)
      BY <2>1, <3>2
    <3>4. \A i \in 1..Len(stack') : FrameOK(stack'[i], DOMAIN entries')
      BY <3>1, <3>3 DEF FrameOK, Frame
    <3>5. 1 <= RecursionLimit /\ NOSTREAM # 0
      BY LimitsAssumption
    <3> QED BY <2>1, <2>2, <3>1, <3>3, <3>4, <3>5 DEF DirInv, Loaded
  <2>5. CallInv'
    BY <2>1, CallStutter DEF IInv, CallInv
  <2> QED BY <2>3, <2>4, <2>5 DEF IInv
<1> QED BY <1>1, <1>2

\* A step of the walk keeps what is not of the directory.
Walks == pc = "walk" /\ UNCHANGED <<fileVars, pc, fat, mini, job, writes, result>>

LEMMA WalkInv == ASSUME IInv, Walks, DirInv' PROVE IInv'
<1>1. FileInv'
  BY FileStutter DEF IInv, Walks
<1>2. CallInv'
  BY CallStutter DEF IInv, Walks, CallInv
<1> QED BY <1>1, <1>2 DEF IInv

\* The stack after a call, and after a return.
StackOK(t, loaded) ==
  /\ t \in Seq(Frames) /\ Len(t) <= RecursionLimit
  /\ \A i \in 1..Len(t) : FrameOK(t[i], loaded)

LEMMA CallKeeps ==
  ASSUME DirInv, stack # <<>>, ~TooDeep, NEW f \in Frames,
         NEW at \in {"enter", "left", "right", "kid", "sort"},
         NEW loaded, DOMAIN entries \subseteq loaded, FrameOK(f, loaded),
         Top.fn = "append" => Top.sid \in loaded
  PROVE  StackOK(Call(at, f), loaded)
<1> DEFINE n == Len(stack)
           t == Call(at, f)
<1>1. /\ n \in Nat \ {0} /\ Top = stack[n] /\ Top \in Frames
      /\ t \in Seq(Frames) /\ Len(t) = n + 1
      /\ \A i \in 1..(n - 1) : t[i] = stack[i]
      /\ t[n].fn = Top.fn /\ t[n].sid = Top.sid /\ t[n].owner = Top.owner /\ t[n].at = at
      /\ t[n + 1] = f
  BY CallIs DEF DirInv
<1>2. n + 1 <= RecursionLimit
  BY <1>1, LimitsAssumption DEF TooDeep
<1> HIDE DEF n, t
<1>3. \A i \in 1..n : FrameOK(stack[i], DOMAIN entries)
  BY DEF DirInv, n
<1>4. ASSUME NEW i \in 1..(n + 1) PROVE FrameOK(t[i], loaded)
  <2>1. CASE i \in 1..(n - 1)
    <3>1. i \in 1..n /\ t[i] = stack[i]
      BY <1>1, <2>1
    <3>2. FrameOK(stack[i], DOMAIN entries)
      BY <1>3, <3>1
    <3> QED BY <3>1, <3>2 DEF FrameOK
  <2>2. CASE i = n
    <3>1. n \in 1..n
      BY <1>1
    <3>2. FrameOK(Top, DOMAIN entries)
      BY <1>1, <1>3, <3>1
    <3> QED BY <1>1, <2>2, <3>2 DEF FrameOK
  <2>3. CASE i = n + 1
    BY <1>1, <2>3
  <2> QED BY <1>1, <2>1, <2>2, <2>3
<1> QED BY <1>1, <1>2, <1>4 DEF StackOK, t

LEMMA ReturnKeeps ==
  ASSUME DirInv, stack # <<>>
  PROVE  StackOK(Return, DOMAIN entries)
<1> DEFINE n == Len(stack)
<1>1. /\ n \in Nat \ {0} /\ Return \in Seq(Frames) /\ Len(Return) = n - 1
      /\ \A i \in 1..(n - 1) : Return[i] = stack[i]
  BY ReturnIs DEF DirInv
<1>2. n <= RecursionLimit /\ \A i \in 1..n : FrameOK(stack[i], DOMAIN entries)
  BY DEF DirInv
<1>3. \A i \in 1..(n - 1) : i \in 1..n
  OBVIOUS
<1> HIDE DEF n
<1> QED BY <1>1, <1>2, <1>3, LimitsAssumption DEF StackOK

\* The call that runs.
LEMMA TopIs ==
  ASSUME DirInv, stack # <<>>
  PROVE  /\ Top \in Frames /\ FrameOK(Top, DOMAIN entries)
         /\ Top.fn \in {"append", "build"} /\ Top.sid \in Nat /\ Top.owner \in Nat
<1>1. Top = stack[Len(stack)] /\ Len(stack) \in 1..Len(stack) /\ Top \in Frames
  BY ReturnIs DEF DirInv
<1>2. FrameOK(Top, DOMAIN entries)
  BY <1>1 DEF DirInv
<1> QED BY <1>1, <1>2 DEF Frames

\* Loading an entry, the first time.
LEMMA LoadKeeps ==
  ASSUME DirInv, NEW sid \in DOMAIN folder, Load(sid)
  PROVE  /\ Loaded' /\ sid \in DOMAIN entries' /\ DOMAIN entries \subseteq DOMAIN entries'
         /\ entries'[sid] \in Entry /\ DOMAIN entries' \subseteq DOMAIN entries \cup {sid}
<1>1. CASE sid \in DOMAIN entries
  BY <1>1 DEF DirInv, Load, Loaded
<1>2. CASE sid \notin DOMAIN entries
  <2> DEFINE D == DOMAIN entries \cup {sid}
  <2>1. /\ entries' = [x \in D |-> IF x = sid THEN folder[sid] ELSE entries[x]]
    BY <1>2, Zenon DEF Load, Put
  <2>2. kids' = [x \in DOMAIN kids \cup {sid} |-> IF x = sid THEN <<>> ELSE kids[x]]
    BY <1>2, Zenon DEF Load, Put
  <2>3. DOMAIN kids = DOMAIN entries /\ folder[sid] \in Entry
    BY DEF DirInv, Loaded
  <2>4. entries' \in [D -> Entry] /\ DOMAIN entries' = D
    BY <2>1, <2>3 DEF DirInv, Loaded
  <2>5. kids' \in [D -> Seq(D)]
    <3>1. ASSUME NEW x \in D PROVE (IF x = sid THEN <<>> ELSE kids[x]) \in Seq(D)
      <4>1. CASE x = sid
        BY <4>1
      <4>2. CASE x # sid
        <5>1. kids[x] \in Seq(DOMAIN entries) /\ DOMAIN entries \subseteq D
          BY <4>2 DEF DirInv, Loaded
        <5> HIDE DEF D
        <5>2. kids[x] \in Seq(D)
          BY <5>1, SeqMonotonic
        <5> QED BY <4>2, <5>2
      <4> QED BY <4>1, <4>2
    <3>2. kids' = [x \in D |-> IF x = sid THEN <<>> ELSE kids[x]]
      BY <2>2, <2>3
    <3> HIDE DEF D
    <3> QED BY <3>1, <3>2
  <2>6. sid \in D /\ DOMAIN entries \subseteq D /\ D \subseteq DOMAIN entries \cup {sid}
    OBVIOUS
  <2> HIDE DEF D
  <2> QED BY <2>4, <2>5, <2>6 DEF Loaded
<1> QED BY <1>1, <1>2

LEMMA AppendEnterInv == ASSUME IInv, AppendEnter PROVE IInv'
<1> DEFINE sid == Top.sid
<1>1. pc = "walk" /\ stack # <<>> /\ Top.fn = "append" /\ Top.at = "enter" /\ sid # NOSTREAM
  BY DEF AppendEnter
<1>2. CASE sid \notin DOMAIN folder \/ Raises(LoadDefects(sid)) \/ TooDeep
  BY <1>1, <1>2, FailInv DEF AppendEnter
<1>3. CASE ~ (sid \notin DOMAIN folder \/ Raises(LoadDefects(sid)) \/ TooDeep)
  <2> DEFINE f == Frame("append", entries'[sid].left, Top.owner)
  <2>1. /\ Load(sid) /\ stack' = Call("left", f) /\ ~TooDeep /\ sid \in DOMAIN folder
        /\ UNCHANGED <<fileVars, pc, fat, folder, used, mini, job, writes, result>>
    BY <1>3 DEF AppendEnter
  <2>2. DirInv
    BY DEF IInv
  <2>3. /\ Loaded' /\ sid \in DOMAIN entries' /\ DOMAIN entries \subseteq DOMAIN entries'
        /\ entries'[sid] \in Entry /\ DOMAIN entries' \subseteq DOMAIN entries \cup {sid}
    BY <2>1, <2>2, LoadKeeps
  <2>4. FrameOK(Top, DOMAIN entries) /\ Top.owner \in Nat
    BY <1>1, <2>2, TopIs
  <2>5. f \in Frames /\ FrameOK(f, DOMAIN entries')
    <3>1. entries'[sid].left \in Nat
      BY <2>3 DEF Entry
    <3>2. Top.owner \in DOMAIN entries'
      BY <1>1, <2>3, <2>4 DEF FrameOK
    <3> QED BY <2>4, <3>1, <3>2 DEF Frame, Frames, FrameOK
  <2> HIDE DEF f
  <2>6. StackOK(stack', DOMAIN entries')
    BY <1>1, <2>1, <2>2, <2>3, <2>5, CallKeeps
  <2>7. DirInv'
    BY <1>1, <2>1, <2>2, <2>3, <2>6 DEF DirInv, StackOK
  <2> QED BY <1>1, <2>1, <2>7, WalkInv DEF Walks
<1> QED BY <1>2, <1>3

\* A step of the walk that loads and moves no entry.
LEMMA StackInv ==
  ASSUME IInv, Walks, stack # <<>>, UNCHANGED <<folder, entries, used>>,
         Loaded', StackOK(stack', DOMAIN entries)
  PROVE  IInv'
<1>1. DirInv'
  BY DEF IInv, DirInv, StackOK, Walks
<1> QED BY <1>1, WalkInv

LEMMA ReturnFromInv == ASSUME IInv, NEW at, ReturnFrom(at) PROVE IInv'
<1>1. StackOK(stack', DOMAIN entries)
  BY ReturnKeeps DEF IInv, ReturnFrom
<1>2. Loaded'
  BY DEF ReturnFrom, IInv, DirInv, Loaded
<1> QED BY <1>1, <1>2, StackInv DEF ReturnFrom, Walks, oleVars

LEMMA AppendKidInv == ASSUME IInv, AppendKid PROVE IInv'
<1>1. pc = "walk" /\ stack # <<>> /\ Top.fn = "append" /\ Top.at = "left"
  BY DEF AppendKid
<1>2. CASE Raises(KidDefects(Top.sid, Top.owner)) \/ TooDeep
  BY <1>1, <1>2, FailInv DEF AppendKid
<1>3. CASE ~ (Raises(KidDefects(Top.sid, Top.owner)) \/ TooDeep)
  <2> DEFINE f == Frame("append", entries[Top.sid].right, Top.owner)
  <2>1. /\ kids' = [kids EXCEPT ![Top.owner] = Append(@, Top.sid)]
        /\ used' = used \cup {Top.sid}
        /\ stack' = Call("right", f) /\ ~TooDeep
        /\ UNCHANGED <<fileVars, pc, fat, seen, folder, entries, mini, job, writes, result>>
    BY <1>3 DEF AppendKid
  <2>2. DirInv
    BY DEF IInv
  <2>3. Top.owner \in DOMAIN entries /\ Top.sid \in DOMAIN entries /\ Top.owner \in Nat
    BY <1>1, <2>2, TopIs DEF FrameOK
  <2>4. f \in Frames /\ FrameOK(f, DOMAIN entries)
    <3>1. entries[Top.sid].right \in Nat
      BY <2>2, <2>3 DEF DirInv, Loaded, Entry
    <3> QED BY <2>3, <3>1 DEF Frame, Frames, FrameOK
  <2> HIDE DEF f
  <2>5. StackOK(stack', DOMAIN entries)
    BY <1>1, <2>1, <2>2, <2>3, <2>4, CallKeeps
  <2>6. Loaded'
    <3>1. Append(kids[Top.owner], Top.sid) \in Seq(DOMAIN entries)
      BY <2>2, <2>3 DEF DirInv, Loaded
    <3> QED BY <2>1, <2>2, <2>3, <3>1 DEF DirInv, Loaded
  <2>7. DirInv'
    BY <1>1, <2>1, <2>2, <2>3, <2>5, <2>6 DEF DirInv, StackOK
  <2> QED BY <1>1, <2>1, <2>7, WalkInv DEF Walks
<1> QED BY <1>2, <1>3

LEMMA AppendBuildInv == ASSUME IInv, AppendBuild PROVE IInv'
<1>1. pc = "walk" /\ stack # <<>> /\ Top.fn = "append" /\ Top.at = "right"
  BY DEF AppendBuild
<1>2. CASE TooDeep
  BY <1>1, <1>2, FailInv DEF AppendBuild
<1>3. CASE ~TooDeep
  <2> DEFINE f == Frame("build", Top.sid, Top.sid)
  <2>1. /\ stack' = Call("kid", f)
        /\ UNCHANGED <<fileVars, oleVars, pc, folder, entries, kids, used, job, writes, result>>
    BY <1>3 DEF AppendBuild
  <2>2. DirInv
    BY DEF IInv
  <2>3. Top.sid \in DOMAIN entries /\ Top.sid \in Nat
    BY <1>1, <2>2, TopIs DEF FrameOK
  <2>4. f \in Frames /\ FrameOK(f, DOMAIN entries)
    BY <2>3 DEF Frame, Frames, FrameOK
  <2> HIDE DEF f
  <2>5. StackOK(stack', DOMAIN entries)
    BY <1>1, <1>3, <2>1, <2>2, <2>3, <2>4, CallKeeps
  <2>6. Loaded'
    BY <2>1, <2>2 DEF DirInv, Loaded
  <2> QED BY <1>1, <2>1, <2>5, <2>6, StackInv DEF Walks, oleVars
<1> QED BY <1>2, <1>3

LEMMA BuildEnterInv == ASSUME IInv, BuildEnter PROVE IInv'
<1>1. pc = "walk" /\ stack # <<>> /\ Top.fn = "build"
  BY DEF BuildEnter
<1>2. CASE TooDeep
  BY <1>1, <1>2, FailInv DEF BuildEnter
<1>3. CASE ~TooDeep
  <2> DEFINE f == Frame("append", entries[Top.sid].child, Top.sid)
  <2>1. /\ stack' = Call("sort", f)
        /\ UNCHANGED <<fileVars, oleVars, pc, folder, entries, kids, used, job, writes, result>>
    BY <1>3 DEF BuildEnter
  <2>2. DirInv
    BY DEF IInv
  <2>3. Top.sid \in DOMAIN entries /\ Top.sid \in Nat
    BY <1>1, <2>2, TopIs DEF FrameOK
  <2>4. f \in Frames /\ FrameOK(f, DOMAIN entries)
    <3>1. entries[Top.sid].child \in Nat
      BY <2>2, <2>3 DEF DirInv, Loaded, Entry
    <3> QED BY <2>3, <3>1 DEF Frame, Frames, FrameOK
  <2> HIDE DEF f
  <2>5. StackOK(stack', DOMAIN entries)
    BY <1>1, <1>3, <2>1, <2>2, <2>4, CallKeeps
  <2>6. Loaded'
    BY <2>1, <2>2 DEF DirInv, Loaded
  <2> QED BY <1>1, <2>1, <2>5, <2>6, StackInv DEF Walks, oleVars
<1> QED BY <1>2, <1>3

LEMMA BuildSortInv == ASSUME IInv, BuildSort PROVE IInv'
<1>1. /\ pc = "walk" /\ stack # <<>> /\ Top.fn = "build"
      /\ kids' = [kids EXCEPT ![Top.sid] = Sorted(@)] /\ stack' = Return
      /\ UNCHANGED <<fileVars, oleVars, pc, folder, entries, used, job, writes, result>>
  BY DEF BuildSort
<1>2. DirInv
  BY DEF IInv
<1>3. Top.sid \in DOMAIN entries
  BY <1>1, <1>2, TopIs DEF FrameOK
<1>4. StackOK(stack', DOMAIN entries)
  BY <1>1, <1>2, ReturnKeeps
<1>5. Loaded'
  <2>1. kids[Top.sid] \in Seq(DOMAIN entries)
    BY <1>2, <1>3 DEF DirInv, Loaded
  <2>2. \A x \in DOMAIN entries : entries[x].name \in Nat
    BY <1>2 DEF DirInv, Loaded, Entry
  <2>3. Sorted(kids[Top.sid]) \in Seq(DOMAIN entries)
    BY <2>1, <2>2, SortedIs
  <2> QED BY <1>1, <1>2, <1>3, <2>3 DEF DirInv, Loaded
<1> QED BY <1>1, <1>4, <1>5, StackInv DEF Walks, oleVars

LEMMA OpenedInv == ASSUME IInv, Opened PROVE IInv'
<1>1. FileInv'
  BY FileStutter DEF IInv, Opened
<1>2. DirInv'
  BY DirStutter DEF IInv, DirInv, Opened
<1>3. CallInv'
  BY DEF IInv, Opened, CallInv, NoMini, MiniOK, Answered
<1> QED BY <1>1, <1>2, <1>3 DEF IInv

-----------------------------------------------------------------------------
(* Reading a stream, and the calls.                                        *)

LEMMA FailedIs ==
  /\ ~Failed.ok /\ Failed.words \in Seq(Nat)
  /\ Cardinality(ToSet(Failed.sects)) = Len(Failed.sects)
<1>1. <<>> \in Seq(Nat) /\ ToSet(<<>>) = {} /\ Len(<<>>) = 0
  BY DEF ToSet
<1> QED BY <1>1, FS_EmptySet DEF Failed

\* What is kept of the mini table and of the ministream.
LEMMA MiniReadIs ==
  ASSUME FileInv, Loaded, 0 \in DOMAIN entries, MiniOK(mini)
  PROVE  MiniOK(MiniRead)
<1> DEFINE size == header.csectMiniFat * SectorWords
           table == MiniFatStream(disk, fat, header)
           root == entries[0]
           store == OpenKnown(disk, SectorWords, fat, root.start, root.size)
           kept == MiniFat(table, root.size)
<1>1. SectorWords \in Nat \ {0} /\ size \in Nat /\ MiniWords \in Nat \ {0}
  BY SizeAssumption DEF FileInv, IsHeader
<1>2. root.size \in Nat
  BY DEF Loaded, Entry
<1>3. /\ \A s \in DOMAIN disk : disk[s] \in Seq(Nat)
      /\ ENDOFCHAIN \notin DOMAIN fat /\ Cardinality(DOMAIN fat) \in Nat
      /\ Cardinality(DOMAIN fat) * SectorWords <= FREESECT
  BY TableIs DEF FileInv, IsDisk
<1>4. table = OpenKnown(disk, SectorWords, fat, header.MiniFatStart, size)
  BY DEF MiniFatStream
<1> HIDE DEF size, root
<1>5. /\ table.words \in Seq(Nat)
      /\ table.ok => /\ Len(table.words) = size
                     /\ CeilDiv(size, SectorWords) <= Cardinality(DOMAIN fat)
  BY <1>1, <1>3, <1>4, OpenKnownIs, SMTT(60)
<1>6. store.words \in Seq(Nat)
  BY <1>1, <1>2, <1>3, OpenKnownIs
<1> HIDE DEF table, store
<1>7. ASSUME table.ok PROVE ENDOFCHAIN \notin DOMAIN kept
  <2>1. CeilDiv(size, SectorWords) \in Nat /\ size <= CeilDiv(size, SectorWords) * SectorWords
    BY <1>1, CeilDivIs
  <2>2. CeilDiv(size, SectorWords) * SectorWords <= Cardinality(DOMAIN fat) * SectorWords
    <3>1. \A a, b \in Nat : a <= b => a * SectorWords <= b * SectorWords
      BY <1>1
    <3> QED BY <1>3, <1>5, <1>7, <2>1, <3>1
  <2>3. Len(table.words) <= FREESECT
    <3>1. \A a, b, c, d \in Nat : a <= b /\ b <= c /\ c <= d => a <= d
      OBVIOUS
    <3>2. /\ CeilDiv(size, SectorWords) * SectorWords \in Nat
          /\ Cardinality(DOMAIN fat) * SectorWords \in Nat
      BY <1>1, <1>3, <2>1
    <3> QED BY <1>1, <1>3, <1>5, <1>7, <2>1, <2>2, <3>1, <3>2 DEF FREESECT
  <2>4. CeilDiv(root.size, MiniWords) \in Nat
    BY <1>1, <1>2, CeilDivIs
  <2>5. PICK m \in 0..CeilDiv(root.size, MiniWords) :
          m <= Len(table.words) /\ kept \in [0..(m - 1) -> Nat]
    BY <1>5, <2>4, ArrayIs DEF MiniFat
  <2>6. DOMAIN kept = 0..(m - 1)
    BY <2>5
  <2>7. m <= FREESECT
    BY <1>5, <2>3, <2>4, <2>5 DEF FREESECT
  <2> HIDE DEF kept
  <2> QED BY <2>4, <2>6, <2>7 DEF ENDOFCHAIN, FREESECT
<1>8. MiniRead = IF mini.loaded THEN mini
                 ELSE IF ~table.ok THEN NoMini
                 ELSE IF ~store.ok THEN NoMini
                 ELSE [loaded |-> TRUE, words |-> store.words, fat |-> kept]
  BY DEF MiniRead, table, store, root
<1> HIDE DEF kept
<1>9. MiniOK(NoMini)
  BY DEF MiniOK, NoMini
<1> QED BY <1>6, <1>7, <1>8, <1>9 DEF MiniOK

\* What a stream is read from, and how much of it.
LEMMA ReadsIs ==
  ASSUME FileInv, Loaded, 0 \in DOMAIN entries, MiniOK(mini), NEW sid \in DOMAIN entries
  PROVE  LET r == Reads(sid) IN
         /\ r.words \in Seq(Nat)
         /\ Cardinality(ToSet(r.sects)) = Len(r.sects)
         /\ r.ok => Len(r.words) = entries[sid].size
<1> DEFINE e == entries[sid]
<1>1. e.size \in Nat
  BY DEF Loaded, Entry
<1>2. SectorWords \in Nat \ {0} /\ MiniWords \in Nat \ {0}
  BY SizeAssumption
<1>3. CASE ~InMini(e)
  <2>1. Reads(sid) = OpenKnown(disk, SectorWords, fat, e.start, e.size)
    BY <1>3 DEF Reads
  <2>2. (\A s \in DOMAIN disk : disk[s] \in Seq(Nat)) /\ ENDOFCHAIN \notin DOMAIN fat
    BY TableIs DEF FileInv, IsDisk
  <2> HIDE DEF e
  <2>3. LET r == OpenKnown(disk, SectorWords, fat, e.start, e.size) IN
         /\ r.words \in Seq(Nat)
         /\ Cardinality(ToSet(r.sects)) = Len(r.sects)
         /\ r.ok => Len(r.words) = e.size
    BY <1>1, <1>2, <2>2, OpenKnownIs, SMTT(60)
  <2> QED BY <2>1, <2>3 DEF e
<1>4. CASE InMini(e) /\ ~MiniRead.loaded
  BY <1>4, FailedIs DEF Reads
<1>5. CASE InMini(e) /\ MiniRead.loaded
  <2> DEFINE source == MiniSectors(MiniRead.words)
             table == MiniRead.fat
  <2>1. Reads(sid) = OpenKnown(source, MiniWords, table, e.start, e.size)
    BY <1>5 DEF Reads
  <2>2. MiniOK(MiniRead)
    BY MiniReadIs
  <2>3. (\A s \in DOMAIN source : source[s] \in Seq(Nat)) /\ ENDOFCHAIN \notin DOMAIN table
    BY <2>2, MiniSectorsIs DEF MiniOK
  <2> HIDE DEF e, source, table
  <2>4. LET r == OpenKnown(source, MiniWords, table, e.start, e.size) IN
         /\ r.words \in Seq(Nat)
         /\ Cardinality(ToSet(r.sects)) = Len(r.sects)
         /\ r.ok => Len(r.words) = e.size
    BY <1>1, <1>2, <2>3, OpenKnownIs
  <2> QED BY <2>1, <2>4 DEF e
<1> QED BY <1>3, <1>4, <1>5

\* A call on an open file that reads.
LEMMA OpenKeeps ==
  ASSUME IInv, pc = "open", pc' = "open", UNCHANGED <<fileVars, dirVars, fat>>,
         writes' \in 0..MaxWrites, MiniOK(mini'),
         Answered("read")' => /\ result'.sid \in DOMAIN entries
                              /\ Len(result'.words) = entries[result'.sid].size
  PROVE  IInv'
<1>1. FileInv'
  BY FileStutter DEF IInv
<1>2. DirInv'
  BY DirStutter DEF IInv, DirInv
<1>3. entries' = entries
  BY DEF dirVars
<1>4. CallInv'
  BY <1>3 DEF CallInv, MiniOK
<1> QED BY <1>1, <1>2, <1>4 DEF IInv

LEMMA ListDirInv == ASSUME IInv, ListDir PROVE IInv'
<1>1. /\ pc = "open" /\ UNCHANGED <<fileVars, dirVars, fat, mini, pc, writes>>
      /\ result' = [call |-> "list", sid |-> 0, ok |-> result'.ok, words |-> <<>>]
  BY DEF ListDir, Raised, Returns
<1>2. ~Answered("read")' /\ ~Answered("meta")'
  BY <1>1 DEF Answered
<1>3. writes' \in 0..MaxWrites /\ MiniOK(mini')
  BY <1>1 DEF IInv, CallInv
<1> QED BY <1>1, <1>2, <1>3, OpenKeeps

LEMMA GetSizeInv == ASSUME IInv, NEW path, GetSize(path) PROVE IInv'
<1>1. /\ pc = "open" /\ UNCHANGED <<fileVars, dirVars, fat, mini, pc, writes>>
      /\ result'.call = "size"
  BY DEF GetSize, Raised, Returns, oleVars
<1>2. ~Answered("read")' /\ ~Answered("meta")'
  BY <1>1 DEF Answered
<1>3. writes' \in 0..MaxWrites /\ MiniOK(mini')
  BY <1>1 DEF IInv, CallInv
<1> QED BY <1>1, <1>2, <1>3, OpenKeeps

LEMMA OpenStreamInv == ASSUME IInv, NEW path \in Seq(Nat), OpenStream(path) PROVE IInv'
<1> DEFINE sid == Find(path)
           Refused == GetType(path) # "stream" \/ Raises(OpenDefects(sid))
<1>1. /\ pc = "open" /\ UNCHANGED <<fileVars, dirVars, fat, pc, writes>>
  BY DEF OpenStream
<1>2. FileInv /\ Loaded /\ 0 \in DOMAIN entries /\ MiniOK(mini) /\ writes \in 0..MaxWrites
  BY <1>1 DEF IInv, DirInv, CallInv
<1>3. CASE Refused
  <2>1. result'.ok = FALSE /\ mini' = mini
    BY <1>3 DEF OpenStream, Raised, Returns
  <2>2. ~Answered("read")' /\ ~Answered("meta")'
    BY <2>1 DEF Answered
  <2> QED BY <1>1, <1>2, <2>1, <2>2, OpenKeeps
<1>4. CASE ~Refused
  <2>1. /\ KeepsMini(sid)
        /\ result' = [call |-> "read", sid |-> sid, ok |-> Reads(sid).ok,
                      words |-> Reads(sid).words]
    BY <1>4 DEF OpenStream, Returns
  <2>2. sid \in DOMAIN entries
    BY <1>2, <1>4, FindIs DEF GetType
  <2>3. Reads(sid).ok => Len(Reads(sid).words) = entries[sid].size
    BY <1>2, <2>2, ReadsIs
  <2>4. MiniOK(mini')
    BY <1>2, <2>1, MiniReadIs DEF KeepsMini
  <2> HIDE DEF sid
  <2>5. ~Answered("meta")'
    BY <2>1 DEF Answered
  <2>6. Answered("read")' => /\ result'.sid \in DOMAIN entries
                             /\ Len(result'.words) = entries[result'.sid].size
    BY <2>1, <2>2, <2>3 DEF Answered
  <2> QED BY <1>1, <1>2, <2>4, <2>5, <2>6, OpenKeeps
<1> QED BY <1>3, <1>4

LEMMA GetMetadataInv ==
  ASSUME IInv, NEW t \in Tables, GetMetadata(t[1], t[2]) PROVE IInv'
<1>1. /\ pc = "open" /\ UNCHANGED <<fileVars, dirVars, fat, pc, writes>>
      /\ mini' \in {mini, MiniRead}
  BY DEF GetMetadata
<1>2. FileInv /\ Loaded /\ 0 \in DOMAIN entries /\ MiniOK(mini) /\ writes \in 0..MaxWrites
  BY <1>1 DEF IInv, DirInv, CallInv
<1>3. MiniOK(mini')
  BY <1>1, <1>2, MiniReadIs
<1>4. ~Answered("read")'
  BY DEF GetMetadata, Answered, Raised, Returns
<1> QED BY <1>1, <1>2, <1>3, <1>4, OpenKeeps

LEMMA WriteStreamInv ==
  ASSUME IInv, NEW path \in Seq(Nat), NEW extra \in {0, 1}, WriteStream(path, extra)
  PROVE  IInv'
<1> DEFINE sid == Find(path)
           size == IF Exists(path) THEN entries[sid].size + extra ELSE 0
           Allowed == Exists(path) /\ Writable(entries[sid], size)
<1>1. /\ pc = "open" /\ writes < MaxWrites /\ writes' = writes + 1
      /\ UNCHANGED <<fileVars, dirVars, fat, mini>>
  BY DEF WriteStream, oleVars
<1>2. Loaded /\ 0 \in DOMAIN entries /\ MiniOK(mini) /\ writes \in 0..MaxWrites /\ stack = <<>>
  BY <1>1 DEF IInv, DirInv, CallInv
<1>3. writes' \in 0..MaxWrites
  BY <1>1, <1>2, LimitsAssumption
<1>4. CASE ~Allowed
  <2>1. result'.ok = FALSE /\ pc' = pc
    BY <1>4 DEF WriteStream, Raised, Returns
  <2>2. ~Answered("read")' /\ ~Answered("meta")'
    BY <2>1 DEF Answered
  <2>3. MiniOK(mini')
    BY <1>1, <1>2
  <2> QED BY <1>1, <1>3, <2>1, <2>2, <2>3, OpenKeeps
<1>5. CASE Allowed
  <2> DEFINE data == Data(writes + 1, size)
  <2>1. /\ job' = [sid |-> sid, sect |-> entries[sid].start, i |-> 0, data |-> data]
        /\ pc' = "writing" /\ result' = NoCall
    BY <1>5 DEF WriteStream
  <2>2. size \in Nat \ {0}
    <3>1. sid \in DOMAIN entries
      BY <1>2, <1>5, FindIs DEF Exists
    <3>2. entries[sid].size \in Nat /\ size = entries[sid].size /\ size >= MinisectorCutoff
      BY <1>2, <1>5, <3>1 DEF Loaded, Entry, Writable
    <3> QED BY <3>2, LimitsAssumption
  <2> HIDE DEF size
  <2>3. data \in Seq(Nat) /\ Len(data) = size
    <3>1. data \in [1..size -> Nat] /\ size \in Nat
      BY <1>2, <2>2 DEF Data
    <3> HIDE DEF data
    <3> QED BY <3>1, IsSequence
  <2> HIDE DEF data, sid
  <2>4. 0 + 1 <= CeilDiv(Len(data), SectorWords)
    <3>1. /\ CeilDiv(size, SectorWords) \in Nat
          /\ size <= CeilDiv(size, SectorWords) * SectorWords
      BY <2>2, CeilDivIs, SizeAssumption
    <3>2. CeilDiv(size, SectorWords) # 0
      BY <2>2, <3>1, SizeAssumption
    <3> QED BY <2>3, <3>1, <3>2
  <2>5. DOMAIN job' = {"sid", "sect", "i", "data"} /\ job'.data = data /\ job'.i = 0
    BY <2>1
  <2>6. CallInv'
    BY <1>1, <1>2, <1>3, <2>1, <2>3, <2>4, <2>5 DEF CallInv, Answered, MiniOK
  <2>7. FileInv'
    BY <1>1, FileStutter DEF IInv
  <2>8. DirInv'
    BY <1>1, <1>2, DirStutter DEF IInv
  <2> QED BY <2>6, <2>7, <2>8 DEF IInv
<1> QED BY <1>4, <1>5

\* A sector of the file is overwritten by a whole sector.
LEMMA WriteSectInv ==
  ASSUME FileInv, NEW s, NEW data, Padded(data) \in Seq(Nat),
         Len(Padded(data)) = SectorWords, WriteSect(s, data), fat' = fat
  PROVE  FileInv'
<1>1. CASE s \notin DOMAIN disk
  <2>1. grown' = TRUE /\ UNCHANGED <<header, disk, dirs>>
    BY <1>1 DEF WriteSect
  <2> QED BY <2>1 DEF FileInv, IsDisk, IsHeader, IsDirs, IsTable
<1>2. CASE s \in DOMAIN disk
  <2>1. /\ disk' = [disk EXCEPT ![s] = Padded(data)]
        /\ dirs' = [d \in DOMAIN dirs \ {s} |-> dirs[d]]
        /\ UNCHANGED <<header, grown>>
    BY <1>2 DEF WriteSect
  <2>2. DOMAIN disk' = DOMAIN disk
        /\ \A x \in DOMAIN disk : disk'[x] = IF x = s THEN Padded(data) ELSE disk[x]
    BY <2>1
  <2>3. SectorWords \in 1..SectorWords
    BY SizeAssumption
  <2>4. IsDisk(disk')
    <3>1. \A x \in DOMAIN disk : disk'[x] \in Seq(Nat) /\ Len(disk'[x]) \in 1..SectorWords
      BY <2>2, <2>3 DEF FileInv, IsDisk
    <3> QED BY <2>2, <3>1 DEF FileInv, IsDisk
  <2>5. IsDirs(dirs')
    BY <2>1 DEF FileInv, IsDirs
  <2>6. IsTable(fat', disk')
    BY <2>2 DEF FileInv, IsTable
  <2> QED BY <2>1, <2>4, <2>5, <2>6 DEF FileInv
<1> QED BY <1>1, <1>2

LEMMA WriteSectorInv == ASSUME IInv, WriteSector PROVE IInv'
<1> DEFINE data == DataSector(job.data, job.i)
<1>1. /\ pc = "writing" /\ WriteSect(job.sect, data)
      /\ UNCHANGED <<dirVars, fat, mini, writes>>
  BY DEF WriteSector, oleVars
<1>2. /\ DOMAIN job = {"sid", "sect", "i", "data"} /\ job.data \in Seq(Nat) /\ job.i \in Nat
      /\ job.i + 1 <= CeilDiv(Len(job.data), SectorWords)
      /\ stack = <<>> /\ 0 \in DOMAIN entries /\ result = NoCall
      /\ writes \in 0..MaxWrites /\ MiniOK(mini)
  BY <1>1 DEF IInv, CallInv, DirInv
<1>3. FileInv'
  <2>1. Padded(data) \in Seq(Nat) /\ Len(Padded(data)) = SectorWords
    BY <1>2, DataSectorIs
  <2> HIDE DEF data
  <2> QED BY <1>1, <2>1, WriteSectInv DEF IInv
<1>4. DirInv'
  BY <1>1, <1>2, DirStutter DEF IInv
<1>5. CallInv'
  <2>1. CASE job.sect \notin DOMAIN fat
    <3>1. result'.ok = FALSE /\ pc' = "open"
      BY <2>1 DEF WriteSector, Raised, Returns
    <3> QED BY <1>1, <1>2, <3>1 DEF CallInv, Answered, MiniOK
  <2>2. CASE job.sect \in DOMAIN fat /\ LastSector
    <3>1. result'.call = "write" /\ pc' = "open"
      BY <2>2 DEF WriteSector, Returns
    <3> QED BY <1>1, <1>2, <3>1 DEF CallInv, Answered, MiniOK
  <2>3. CASE job.sect \in DOMAIN fat /\ ~LastSector
    <3>1. /\ job' = [job EXCEPT !.i = @ + 1, !.sect = NextSector(@)]
          /\ pc' = "writing" /\ result' = NoCall
      BY <1>1, <1>2, <2>3 DEF WriteSector
    <3>2. DOMAIN job' = DOMAIN job /\ job'.data = job.data /\ job'.i = job.i + 1
      BY <1>2, <3>1
    <3>3. CeilDiv(Len(job.data), SectorWords) \in Nat
          /\ job.i + 1 # CeilDiv(Len(job.data), SectorWords)
      BY <1>2, <2>3, CeilDivIs, SizeAssumption DEF LastSector
    <3>4. job'.i \in Nat /\ job'.i + 1 <= CeilDiv(Len(job'.data), SectorWords)
      <4> DEFINE c == CeilDiv(Len(job.data), SectorWords)
      <4>1. c \in Nat /\ job.i \in Nat /\ job.i + 1 <= c /\ job.i + 1 # c
        BY <1>2, <3>3
      <4> HIDE DEF c
      <4>2. (job.i + 1) \in Nat /\ (job.i + 1) + 1 <= c
        BY <4>1
      <4> QED BY <3>2, <4>2 DEF c
    <3> QED BY <1>1, <1>2, <3>1, <3>2, <3>4 DEF CallInv, Answered, MiniOK
  <2> QED BY <2>1, <2>2, <2>3
<1> QED BY <1>3, <1>4, <1>5 DEF IInv

LEMMA ForgetInv == ASSUME IInv, Forget PROVE IInv'
<1>1. DOMAIN <<>> = {} /\ <<>> \in Seq(Frames) /\ <<>> \in Seq(Nat) /\ Len(<<>>) = 0
      /\ 1..0 = {} /\ 0..(0 - 1) = {}
  OBVIOUS
<1>2. FileInv'
  <2>1. UNCHANGED <<header, disk, dirs, grown>> /\ fat' = <<>>
    BY DEF Forget, fileVars
  <2>2. Cardinality(DOMAIN disk) \in Nat
    BY FS_CardinalityType DEF IInv, FileInv, IsDisk
  <2>3. DOMAIN fat' = 0..(0 - 1) /\ 0 \in 0..Cardinality(DOMAIN disk)
    BY <1>1, <2>1, <2>2
  <2>4. IsTable(fat', disk')
    BY <2>1, <2>3 DEF IsTable
  <2> QED BY <2>1, <2>4 DEF IInv, FileInv, IsDisk, IsHeader, IsDirs
<1>3. DirInv'
  <2>1. stack' = <<>> /\ entries' = <<>> /\ kids' = <<>> /\ folder' = <<>> /\ used' = {} /\ pc' = "closed"
    BY DEF Forget
  <2>2. entries' \in [DOMAIN entries' -> Entry] /\ folder' \in [DOMAIN folder' -> Entry]
        /\ kids' \in [DOMAIN entries' -> Seq(DOMAIN entries')]
    BY <1>1, <2>1
  <2> QED BY <1>1, <2>1, <2>2, LimitsAssumption DEF DirInv, Loaded
<1>4. CallInv'
  BY <1>1 DEF IInv, Forget, CallInv, NoMini, MiniOK, Answered
<1> QED BY <1>2, <1>3, <1>4 DEF IInv

LEMMA CallsInv == ASSUME IInv, Calls PROVE IInv'
<1>1. CASE ListDir
  BY <1>1, ListDirInv
<1>2. ASSUME pc = "open", NEW path \in Paths,
             \/ OpenStream(path) \/ GetSize(path)
             \/ \E extra \in {0, 1} : WriteStream(path, extra)
      PROVE  IInv'
  <2>1. path \in Seq(Nat)
    BY <1>2, PathsAre DEF IInv, DirInv
  <2> QED BY <1>2, <2>1, OpenStreamInv, GetSizeInv, WriteStreamInv
<1>3. ASSUME NEW t \in Tables, GetMetadata(t[1], t[2]) PROVE IInv'
  BY <1>3, GetMetadataInv
<1> QED BY <1>1, <1>2, <1>3 DEF Calls

LEMMA DirectoryInv == ASSUME IInv, Directory PROVE IInv'
<1>1. CASE AppendNothing \/ AppendEnd \/ BuildNothing
  BY <1>1, ReturnFromInv DEF AppendNothing, AppendEnd, BuildNothing
<1> QED BY <1>1, AppendEnterInv, AppendKidInv, AppendBuildInv, BuildEnterInv,
           BuildSortInv DEF Directory

LEMMA NextInv == ASSUME IInv, [Next]_vars PROVE IInv'
<1>1. CASE UNCHANGED vars
  <2>1. FileInv'
    BY <1>1, FileStutter DEF IInv, vars, oleVars
  <2>2. DirInv'
    BY <1>1, DirStutter DEF IInv, DirInv, vars
  <2>3. CallInv'
    BY <1>1 DEF IInv, CallInv, MiniOK, Answered, vars, oleVars, dirVars
  <2> QED BY <2>1, <2>2, <2>3 DEF IInv
<1>2. CASE Close \/ Interrupt
  BY <1>2, ForgetInv DEF Close, Interrupt
<1> QED BY <1>1, <1>2, OpenHeaderInv, LoadFatInv, LoadRootInv, DirectoryInv, OpenedInv,
           CallsInv, WriteSectorInv DEF Next

\* The fields of OleFileIO, the loaded entries with the calls of the walk, and
\* the call at work agree with each other after every step.
THEOREM Invariance == Spec => []IInv
<1>1. Init => IInv
  BY InitInv
<1>2. IInv /\ [Next]_vars => IInv'
  BY NextInv
<1> QED BY <1>1, <1>2, PTL DEF Spec

-----------------------------------------------------------------------------
\* Every variable keeps its type.
THEOREM TypesKept == Spec => []TypeOK
<1>1. IInv => TypeOK
  <2> SUFFICES ASSUME IInv PROVE TypeOK
    OBVIOUS
  <2>1. DOMAIN fat \subseteq DOMAIN disk
    BY TableIs DEF IInv, FileInv
  <2>2. \A sid \in DOMAIN entries : entries[sid].type \in Kind
    BY DEF IInv, DirInv, Loaded, Entry
  <2>3. DOMAIN kids = DOMAIN entries
    BY DEF IInv, DirInv, Loaded
  <2> QED BY <2>1, <2>2, <2>3
         DEF TypeOK, IInv, FileInv, IsDisk, DirInv, CallInv, MiniOK
<1> QED BY <1>1, Invariance, PTL

\* A stream that could be read was read from as many sectors as its size
\* takes, no sector twice, in every file.
THEOREM SectorsOnce == Spec => []NoSectorTwice
<1>1. IInv => NoSectorTwice
  <2> SUFFICES ASSUME IInv, Answered("read") PROVE
        /\ Cardinality(ToSet(Reads(result.sid).sects)) = Len(Reads(result.sid).sects)
        /\ Len(result.words) = entries[result.sid].size
    BY DEF NoSectorTwice, Answered
  <2>1. FileInv /\ Loaded /\ 0 \in DOMAIN entries /\ MiniOK(mini)
    BY DEF IInv, DirInv, CallInv, Answered
  <2>2. result.sid \in DOMAIN entries /\ Len(result.words) = entries[result.sid].size
    BY DEF IInv, CallInv
  <2> QED BY <2>1, <2>2, ReadsIs
<1> QED BY <1>1, Invariance, PTL

-----------------------------------------------------------------------------
(* The metadata.                                                           *)

Kept(t) == IF t.header THEN Decodable(t) ELSE {}

LastOf(t, id) == CHOOSE i \in Kept(t) :
  t.props[i].id = id /\ \A j \in Kept(t) : t.props[j].id = id => j <= i

\* The value of an id is that of the last property that has it.
LEMMA LastIs ==
  ASSUME NEW t \in PropertyTable, NEW id, \E i \in Kept(t) : t.props[i].id = id
  PROVE  LET m == LastOf(t, id) IN
         m \in Kept(t) /\ t.props[m].id = id
         /\ \A j \in Kept(t) : t.props[j].id = id => j <= m
<1> DEFINE S == {i \in Kept(t) : t.props[i].id = id}
<1>1. Len(t.props) \in Nat /\ S \subseteq 0..Len(t.props) /\ S # {}
  BY DEF Kept, Decodable, PropertyTable
<1>2. PICK m \in S : \A k \in S : k <= m
  <2> HIDE DEF S
  <2> QED BY <1>1, GreatestIs
<1>3. m \in Kept(t) /\ t.props[m].id = id /\ \A j \in Kept(t) : t.props[j].id = id => j <= m
  BY <1>2
<1> QED BY <1>3 DEF LastOf

\* Without a defect every property is decoded, and the attributes have what
\* the last one of their id says.
LEMMA FaithfulIs ==
  ASSUME NEW t \in PropertyTable, NEW kept, NEW n \in Nat, PropertyDefects(t) = {}
  PROVE  Faithful(t, Attributes(Properties(t, kept), n), kept)
<1> DEFINE props == Properties(t, kept)
<1>1. t.header /\ Kept(t) = 1..Len(t.props)
  BY DEF PropertyDefects, Kept, Decodable
<1>2. DOMAIN props = {t.props[i].id : i \in Kept(t)}
      /\ \A a \in DOMAIN props : props[a] = Value(t.props[LastOf(t, a)], a \notin kept)
  BY DEF Properties, Kept, LastOf
<1> HIDE DEF props
<1>3. DOMAIN Attributes(props, n) = 1..n
      /\ \A a \in 1..n : Attributes(props, n)[a]
                           = IF a \in DOMAIN props THEN props[a] ELSE None
  BY DEF Attributes
<1>4. ASSUME NEW a \in 1..n, a \notin DOMAIN props
      PROVE  /\ \A i \in 1..Len(t.props) : t.props[i].id # a
             /\ Attributes(props, n)[a] = None
  BY <1>1, <1>2, <1>3, <1>4
<1>5. ASSUME NEW a \in 1..n, a \in DOMAIN props
      PROVE  \E i \in 1..Len(t.props) :
               /\ t.props[i].id = a
               /\ \A j \in 1..Len(t.props) : t.props[j].id = a => j <= i
               /\ Attributes(props, n)[a] = Value(t.props[i], a \notin kept)
  <2>1. \E i \in Kept(t) : t.props[i].id = a
    BY <1>2, <1>5
  <2>2. /\ LastOf(t, a) \in Kept(t) /\ t.props[LastOf(t, a)].id = a
        /\ \A j \in Kept(t) : t.props[j].id = a => j <= LastOf(t, a)
    BY <2>1, LastIs
  <2>3. Attributes(props, n)[a] = Value(t.props[LastOf(t, a)], a \notin kept)
    BY <1>2, <1>3, <1>5
  <2> QED BY <1>1, <2>2, <2>3
<1> QED BY <1>1, <1>3, <1>4, <1>5 DEF Faithful, props

\* No defect of a table went unheard: a strict caller met none, and what a
\* lenient one met is recorded.
Unharmed == INCORRECT >= header.level
              \/ issues \cap {"property", "properties header"} = {}

MetaInv ==
  Answered("meta") =>
    /\ \A k \in {1, 2} : /\ result.words[k] \in PropertyTable
                         /\ Unharmed => PropertyDefects(result.words[k]) = {}
    /\ result.words[3] = Metadata(result.words[1], result.words[2])

LEMMA NoTableIs == NoTable \in PropertyTable /\ PropertyDefects(NoTable) = {}
<1>1. NoTable \in PropertyTable
  BY DEF NoTable, PropertyTable
<1>2. NoTable.header = TRUE /\ NoTable.props = <<>>
  BY DEF NoTable
<1>3. 1..Len(NoTable.props) = {}
  BY <1>2
<1>4. PropertyDefects(NoTable) = {}
  BY <1>2, <1>3 DEF PropertyDefects
<1> QED BY <1>1, <1>4

\* What a table adds to the recorded issues.
Heard(path, t) == {e.what : e \in Noted(path, t)}

\* A table that was read through gave no defect, or one that is recorded.
LEMMA ReadThrough ==
  ASSUME NEW path, NEW u \in PropertyTable, Exists(path) \/ u = NoTable,
         ~GivesUp(path, u), NEW marks, Heard(path, u) \subseteq marks,
         \/ INCORRECT >= header.level
         \/ marks \cap {"property", "properties header"} = {}
  PROVE  PropertyDefects(u) = {}
<1>1. CASE ~Exists(path)
  BY <1>1, NoTableIs
<1>2. CASE Exists(path)
  <2>1. u \in PropertyTable /\ ~Unreadable(path) /\ ~Raises(TableDefects(u))
    BY <1>2 DEF GivesUp
  <2>2. GetType(path) = "stream"
    BY <2>1 DEF Unreadable
  <2>3. ASSUME NEW d \in PropertyDefects(u) PROVE FALSE
    <3> DEFINE e == [level |-> INCORRECT, what |-> d]
    <3>1. e \in TableDefects(u) /\ e.level = INCORRECT /\ e.what = d
      BY DEF TableDefects
    <3>2. ~(INCORRECT >= header.level)
      BY <2>1, <3>1 DEF Raises
    <3>3. ~Raises({e})
      BY <3>1, <3>2 DEF Raises
    <3> HIDE DEF e
    <3>4. e \in Noted(path, u)
      BY <2>1, <2>2, <3>1, <3>3 DEF Noted
    <3>5. d \in marks
      BY <3>1, <3>4 DEF Heard
    <3>6. d \in {"property", "properties header"}
      BY DEF PropertyDefects
    <3>7. ~(INCORRECT >= header.level)
      BY <3>2
    <3> QED BY <3>5, <3>6, <3>7
  <2> QED BY <2>1, <2>3
<1> QED BY <1>1, <1>2

LEMMA GetMetadataMeta ==
  ASSUME IInv, NEW t \in Tables, GetMetadata(t[1], t[2]) PROVE MetaInv'
<1> DEFINE s == IF Exists(SummaryPath) THEN t[1] ELSE NoTable
           d == IF Exists(DocsumPath) THEN t[2] ELSE NoTable
<1> SUFFICES ASSUME Answered("meta")' PROVE MetaInv'
  BY DEF MetaInv
<1>1. ~GivesUp(SummaryPath, s) /\ ~GivesUp(DocsumPath, d)
      /\ Record(Noted(SummaryPath, s) \cup Noted(DocsumPath, d))
      /\ Returns("meta", 0, TRUE, <<s, d, Metadata(s, d)>>)
      /\ header' = header
  BY DEF GetMetadata, Raised, Returns, Answered, fileVars
<1>2. t[1] \in PropertyTable /\ t[2] \in PropertyTable
  BY TablesAssumption
<1>4. Heard(SummaryPath, s) \subseteq issues' /\ Heard(DocsumPath, d) \subseteq issues'
  BY <1>1 DEF Record, Heard
<1>5. result'.words = <<s, d, Metadata(s, d)>>
  BY <1>1 DEF Returns
<1>6. s \in PropertyTable /\ d \in PropertyTable
      /\ (Exists(SummaryPath) \/ s = NoTable) /\ (Exists(DocsumPath) \/ d = NoTable)
  BY <1>2, NoTableIs
<1>7. ASSUME Unharmed' PROVE PropertyDefects(s) = {} /\ PropertyDefects(d) = {}
  <2>1. \/ INCORRECT >= header.level
        \/ issues' \cap {"property", "properties header"} = {}
    BY <1>1, <1>7 DEF Unharmed
  <2>2. ~GivesUp(SummaryPath, s) /\ ~GivesUp(DocsumPath, d)
    BY <1>1
  <2> HIDE DEF s, d
  <2>3. PropertyDefects(s) = {}
    BY <1>4, <1>6, <2>1, <2>2, ReadThrough
  <2>4. PropertyDefects(d) = {}
    BY <1>4, <1>6, <2>1, <2>2, ReadThrough
  <2> QED BY <2>3, <2>4
<1> HIDE DEF s, d
<1>9. result'.words[1] = s /\ result'.words[2] = d /\ result'.words[3] = Metadata(s, d)
  BY <1>5
<1> QED BY <1>6, <1>7, <1>9 DEF MetaInv

LEMMA NextMeta == ASSUME IInv, MetaInv, [Next]_vars PROVE MetaInv'
<1> SUFFICES ASSUME Answered("meta")' PROVE MetaInv'
  BY DEF MetaInv
<1>1. pc # "open" => result = NoCall
  BY DEF IInv, CallInv
<1>2. CASE UNCHANGED vars
  BY <1>2 DEF vars, fileVars, oleVars, MetaInv, Answered, Unharmed
<1>3. CASE OpenHeader \/ LoadFat \/ LoadRoot \/ Directory \/ Opened
  <2>1. pc # "open" /\ result' = result
    BY <1>3 DEF OpenHeader, LoadFat, LoadRoot, Directory, Opened, AppendEnter,
                AppendNothing, AppendKid, AppendBuild, AppendEnd, BuildEnter,
                BuildNothing, BuildSort, ReturnFrom, Fail
  <2> QED BY <1>1, <2>1 DEF Answered
<1>4. CASE Close \/ Interrupt
  BY <1>4 DEF Close, Interrupt, Forget, Answered
<1>5. CASE WriteSector
  <2>1. pc = "writing" /\ (result' = result \/ result'.call = "write")
    BY <1>5 DEF WriteSector, Raised, Returns
  <2> QED BY <1>1, <2>1 DEF Answered
<1>6. CASE ListDir
  BY <1>6 DEF ListDir, Raised, Returns, Answered
<1>7. ASSUME NEW path \in Paths, OpenStream(path) \/ GetSize(path) PROVE FALSE
  BY <1>7 DEF OpenStream, GetSize, Raised, Returns, Answered
<1>8. ASSUME NEW path \in Paths, NEW extra \in {0, 1}, WriteStream(path, extra) PROVE FALSE
  BY <1>8 DEF WriteStream, Raised, Returns, Answered
<1>9. ASSUME NEW t \in Tables, GetMetadata(t[1], t[2]) PROVE MetaInv'
  BY <1>9, GetMetadataMeta
<1> QED BY <1>2, <1>3, <1>4, <1>5, <1>6, <1>7, <1>8, <1>9 DEF Next, Calls

\* What the metadata miss is known: without a defect raised or recorded, every
\* attribute has what the last property of its id says.
THEOREM LossKnown == Spec => []MetadataLossKnown
<1>1. Init => MetaInv
  BY DEF Init, MetaInv, Answered
<1>2. IInv /\ MetaInv /\ [Next]_vars => MetaInv'
  BY NextMeta
<1>3. MetaInv => MetadataLossKnown
  <2> SUFFICES ASSUME MetaInv, Answered("meta"), Unharmed
               PROVE  /\ Faithful(result.words[1], result.words[3].sum, {EditTime})
                      /\ Faithful(result.words[2], result.words[3].doc, {})
    BY DEF MetadataLossKnown, Answered, Unharmed
  <2>1. /\ result.words[1] \in PropertyTable /\ PropertyDefects(result.words[1]) = {}
        /\ result.words[2] \in PropertyTable /\ PropertyDefects(result.words[2]) = {}
        /\ result.words[3] = Metadata(result.words[1], result.words[2])
    BY DEF MetaInv
  <2>2. \A s, d : /\ Metadata(s, d).sum
                       = Attributes(Properties(s, {EditTime}), SummaryAttribs)
                  /\ Metadata(s, d).doc = Attributes(Properties(d, {}), DocsumAttribs)
    BY DEF Metadata
  <2>3. SummaryAttribs \in Nat /\ DocsumAttribs \in Nat
    BY PropertyAssumption
  <2> DEFINE s == result.words[1]
             d == result.words[2]
             m == result.words[3]
  <2>4. /\ m.sum = Attributes(Properties(s, {EditTime}), SummaryAttribs)
        /\ m.doc = Attributes(Properties(d, {}), DocsumAttribs)
    BY <2>1, <2>2, Zenon
  <2> HIDE DEF s, d, m
  <2>5. Faithful(s, m.sum, {EditTime})
    BY <2>1, <2>3, <2>4, FaithfulIs DEF s
  <2>6. Faithful(d, m.doc, {})
    BY <2>1, <2>3, <2>4, FaithfulIs DEF d
  <2> QED BY <2>5, <2>6 DEF s, d, m
<1> QED BY <1>1, <1>2, <1>3, Invariance, PTL DEF Spec

-----------------------------------------------------------------------------
(* The tree of the directory.                                              *)

Placed(K, s, k, x) == s \in DOMAIN K /\ k \in 1..Len(K[s]) /\ K[s][k] = x

\* The i-th call is append_kids, has loaded x and has not made it a kid.
Pending(t, i, x) ==
  i \in 1..Len(t) /\ t[i].fn = "append" /\ t[i].at = "left" /\ t[i].sid = x

\* Every entry but the root is the kid of one storage, or about to be.
Tree ==
  /\ \A x \in DOMAIN entries \ {0} :
       (\E s, k : Placed(kids, s, k, x)) \/ (\E i : Pending(stack, i, x))
  /\ \A x, s, t, k, l : Placed(kids, s, k, x) /\ Placed(kids, t, l, x) => s = t /\ k = l
  /\ \A x, i, j : Pending(stack, i, x) /\ Pending(stack, j, x) => i = j
  /\ \A x, s, k, i : ~ (Placed(kids, s, k, x) /\ Pending(stack, i, x))
  /\ \A s, k, i : ~Placed(kids, s, k, 0) /\ ~Pending(stack, i, 0)
  /\ \A s, k, l, x, y :
       Placed(kids, s, k, x) /\ Placed(kids, s, l, y)
         /\ Lower(entries[x].name) = Lower(entries[y].name) => k = l

\* No defect was overlooked.
Careful == header.level = INCORRECT \/ issues = {}

TreeInv == pc \in {"walk", "open", "writing"} /\ Careful => Tree

LEMMA RecordIs ==
  ASSUME NEW D, Record(D), ~Raises(D), header' = header, Careful'
  PROVE  Careful /\ \A d \in D : d.level # INCORRECT
BY DEF Record, Raises, Careful, INCORRECT

LEMMA DefectIs ==
  ASSUME NEW c, NEW w, \A d \in Defect(c, INCORRECT, w) : d.level # INCORRECT
  PROVE  ~c
BY DEF Defect

LEMMA CallPending ==
  ASSUME DirInv, stack # <<>>, NEW f \in Frames, f.at = "enter",
         NEW at \in {"enter", "left", "right", "kid", "sort"}, NEW i, NEW x
  PROVE  LET n == Len(stack) IN
         Pending(Call(at, f), i, x) <=>
           \/ i \in 1..(n - 1) /\ Pending(stack, i, x)
           \/ i = n /\ Top.fn = "append" /\ at = "left" /\ x = Top.sid
<1> DEFINE n == Len(stack)
           t == Call(at, f)
<1> SUFFICES Pending(t, i, x) <=>
               \/ i \in 1..(n - 1) /\ Pending(stack, i, x)
               \/ i = n /\ Top.fn = "append" /\ at = "left" /\ x = Top.sid
  OBVIOUS
<1>1. /\ n \in Nat \ {0} /\ Top = stack[n]
      /\ t \in Seq(Frames) /\ Len(t) = n + 1
      /\ \A j \in 1..(n - 1) : t[j] = stack[j]
      /\ t[n].fn = Top.fn /\ t[n].sid = Top.sid /\ t[n].at = at
      /\ t[n + 1] = f
  BY CallIs DEF DirInv
<1> HIDE DEF n, t
<1>2. \A j : j \in 1..(n + 1) <=> j \in 1..(n - 1) \/ j = n \/ j = n + 1
  BY <1>1
<1>3. n # n + 1 /\ (\A j \in 1..(n - 1) : j # n /\ j # n + 1 /\ j \in 1..n)
  BY <1>1
<1>4. CASE i \in 1..(n - 1)
  BY <1>1, <1>2, <1>3, <1>4 DEF Pending, n
<1>5. CASE i = n
  BY <1>1, <1>2, <1>3, <1>5 DEF Pending
<1>6. CASE i = n + 1
  BY <1>1, <1>2, <1>3, <1>6 DEF Pending
<1>7. CASE i \notin 1..(n + 1)
  BY <1>1, <1>2, <1>3, <1>7 DEF Pending
<1> QED BY <1>2, <1>4, <1>5, <1>6, <1>7

LEMMA ReturnPending ==
  ASSUME DirInv, stack # <<>>, Top.fn # "append" \/ Top.at # "left", NEW i, NEW x
  PROVE  Pending(Return, i, x) <=> Pending(stack, i, x)
<1> DEFINE n == Len(stack)
<1>1. /\ n \in Nat \ {0} /\ Top = stack[n] /\ Len(Return) = n - 1
      /\ \A j \in 1..(n - 1) : Return[j] = stack[j]
  BY ReturnIs DEF DirInv
<1> HIDE DEF n
<1>2. \A j : j \in 1..n <=> j \in 1..(n - 1) \/ j = n
  BY <1>1
<1> QED BY <1>1, <1>2 DEF Pending, n

\* A step of the walk that moves no entry.
LEMMA SameTree ==
  ASSUME Tree, UNCHANGED <<entries, kids>>,
         \A i, x : Pending(stack', i, x) <=> Pending(stack, i, x)
  PROVE  Tree'
BY DEF Tree

LEMMA PendingBelow ==
  ASSUME DirInv, stack # <<>>, NEW i, NEW x,
         Pending(stack, i, x), Top.fn # "append" \/ Top.at # "left"
  PROVE  i \in 1..(Len(stack) - 1)
<1>1. Len(stack) \in Nat \ {0} /\ Top = stack[Len(stack)]
  BY ReturnIs DEF DirInv
<1>2. i \in 1..Len(stack) /\ i # Len(stack)
  BY <1>1 DEF Pending
<1> QED BY <1>1, <1>2

LEMMA CallTree ==
  ASSUME DirInv, Tree, stack # <<>>, UNCHANGED <<entries, kids>>,
         Top.fn # "append" \/ Top.at # "left",
         NEW f \in Frames, f.at = "enter", NEW at \in {"right", "kid", "sort"},
         stack' = Call(at, f)
  PROVE  Tree'
<1>1. ASSUME NEW i, NEW x PROVE Pending(stack', i, x) <=> Pending(stack, i, x)
  BY CallPending, PendingBelow
<1> QED BY <1>1, SameTree

LEMMA ReturnTree ==
  ASSUME DirInv, Tree, stack # <<>>, UNCHANGED <<entries, kids>>,
         Top.fn # "append" \/ Top.at # "left", stack' = Return
  PROVE  Tree'
<1>1. ASSUME NEW i, NEW x PROVE Pending(stack', i, x) <=> Pending(stack, i, x)
  BY ReturnPending
<1> QED BY <1>1, SameTree

\* A pending entry and a placed one are loaded.
LEMMA PendingLoaded ==
  ASSUME DirInv, NEW i, NEW x, Pending(stack, i, x)
  PROVE  x \in DOMAIN entries
BY DEF Pending, DirInv, FrameOK

LEMMA PlacedLoaded ==
  ASSUME DirInv, NEW s, NEW k, NEW x, Placed(kids, s, k, x)
  PROVE  s \in DOMAIN entries /\ x \in DOMAIN entries
<1>1. s \in DOMAIN entries /\ kids[s] \in Seq(DOMAIN entries)
  BY DEF Placed, DirInv, Loaded
<1> QED BY <1>1 DEF Placed

LEMMA AppendEnterTree ==
  ASSUME IInv, TreeInv, AppendEnter, pc' # "failed", Careful'
  PROVE  Tree'
<1> DEFINE sid == Top.sid
           n == Len(stack)
           f == Frame("append", entries'[sid].left, Top.owner)
<1>1. /\ pc = "walk" /\ stack # <<>> /\ Top.fn = "append" /\ Top.at = "enter"
      /\ sid \in DOMAIN folder /\ ~Raises(LoadDefects(sid)) /\ Load(sid) /\ ~TooDeep
      /\ stack' = Call("left", f) /\ header' = header
  BY DEF AppendEnter, Fail, fileVars
<1>2. DirInv /\ 0 \in DOMAIN entries
  BY <1>1 DEF IInv, DirInv
<1>3. sid \notin DOMAIN entries
  <2> SUFFICES ASSUME sid \in DOMAIN entries PROVE FALSE
    OBVIOUS
  <2>1. Record(ReloadDefects(sid)) /\ ~Raises(ReloadDefects(sid))
    BY <1>1 DEF Load, LoadDefects
  <2>2. \A d \in ReloadDefects(sid) : d.level # INCORRECT
    BY <1>1, <2>1, RecordIs
  <2> HIDE DEF sid
  <2> QED BY <2>2, DefectIs DEF ReloadDefects
<1>4. Tree
  <2>1. Record(EntryDefects(folder[sid], sid)) /\ ~Raises(EntryDefects(folder[sid], sid))
    BY <1>1, <1>3 DEF Load, LoadDefects
  <2> HIDE DEF sid
  <2>2. Careful
    BY <1>1, <2>1, RecordIs
  <2> QED BY <1>1, <2>2 DEF TreeInv
<1>5. /\ entries' = [x \in DOMAIN entries \cup {sid} |->
                       IF x = sid THEN folder[sid] ELSE entries[x]]
      /\ kids' = [x \in DOMAIN kids \cup {sid} |-> IF x = sid THEN <<>> ELSE kids[x]]
  BY <1>1, <1>3, Zenon DEF Load, Put
<1>6. f \in Frames /\ f.at = "enter"
  <2>1. entries'[sid] \in Entry /\ Top.owner \in Nat
    BY <1>1, <1>2, LoadKeeps, TopIs
  <2> QED BY <2>1 DEF Frame, Frames, Entry
<1> HIDE DEF f
<1>7. DOMAIN kids = DOMAIN entries
  BY <1>2 DEF DirInv, Loaded
<1>8. n \in Nat \ {0} /\ Top = stack[n]
  BY <1>1, <1>2, ReturnIs DEF DirInv
<1> DEFINE Pl(s, k, x) == Placed(kids, s, k, x)
           Pe(i, x) == Pending(stack, i, x)
<1>9. \A s, k, x : Placed(kids', s, k, x) <=> Pl(s, k, x)
  <2> HIDE DEF sid
  <2>1. DOMAIN kids' = DOMAIN kids \cup {sid} /\ kids'[sid] = <<>>
        /\ \A s \in DOMAIN kids : kids'[s] = kids[s]
    BY <1>3, <1>5, <1>7
  <2>2. 1..Len(<<>>) = {}
    OBVIOUS
  <2> QED BY <1>3, <1>7, <2>1, <2>2 DEF Placed
<1>10. ASSUME NEW i, NEW x PROVE Pending(stack', i, x) <=> Pe(i, x) \/ (i = n /\ x = sid)
  <2>1. Pending(stack', i, x) <=>
          (i \in 1..(n - 1) /\ Pe(i, x)) \/ (i = n /\ x = sid)
    BY <1>1, <1>2, <1>6, CallPending
  <2>2. Pe(i, x) => i \in 1..(n - 1)
    BY <1>1, <1>2, PendingBelow
  <2> QED BY <2>1, <2>2
<1>11. \A s, k, i : ~Pl(s, k, sid) /\ ~Pe(i, sid)
  BY <1>2, <1>3, PendingLoaded, PlacedLoaded
<1>12. \A s, k, x : Pl(s, k, x) => x \in DOMAIN entries /\ x # sid
  BY <1>2, <1>3, PlacedLoaded
<1>13. \A i, x : Pe(i, x) => i # n
  <2>1. \A i, x : Pe(i, x) => i \in 1..(n - 1)
    BY <1>1, <1>2, PendingBelow
  <2> HIDE DEF n, Pe
  <2> QED BY <1>8, <2>1
<1>14. sid # 0 /\ DOMAIN entries' = DOMAIN entries \cup {sid}
       /\ \A x \in DOMAIN entries : entries'[x] = entries[x]
  BY <1>2, <1>3, <1>5
<1>15. /\ \A x \in DOMAIN entries \ {0} : (\E s, k : Pl(s, k, x)) \/ (\E i : Pe(i, x))
       /\ \A x, s, t, k, l : Pl(s, k, x) /\ Pl(t, l, x) => s = t /\ k = l
       /\ \A x, i, j : Pe(i, x) /\ Pe(j, x) => i = j
       /\ \A x, s, k, i : ~ (Pl(s, k, x) /\ Pe(i, x))
       /\ \A s, k, i : ~Pl(s, k, 0) /\ ~Pe(i, 0)
       /\ \A s, k, l, x, y :
            Pl(s, k, x) /\ Pl(s, l, y)
              /\ Lower(entries[x].name) = Lower(entries[y].name) => k = l
  BY <1>4 DEF Tree
<1> HIDE DEF Pl, Pe, sid, n
<1> USE <1>9, <1>10
<1>16. \A x \in DOMAIN entries' \ {0} :
         (\E s, k : Placed(kids', s, k, x)) \/ (\E i : Pending(stack', i, x))
  BY <1>14, <1>15
<1>17. \A x, s, t, k, l : Placed(kids', s, k, x) /\ Placed(kids', t, l, x) => s = t /\ k = l
  BY <1>15
<1>18. \A x, i, j : Pending(stack', i, x) /\ Pending(stack', j, x) => i = j
  BY <1>11, <1>15
<1>19. \A x, s, k, i : ~ (Placed(kids', s, k, x) /\ Pending(stack', i, x))
  BY <1>11, <1>15
<1>20. \A s, k, i : ~Placed(kids', s, k, 0) /\ ~Pending(stack', i, 0)
  BY <1>14, <1>15
<1>21. \A s, k, l, x, y :
         Placed(kids', s, k, x) /\ Placed(kids', s, l, y)
           /\ Lower(entries'[x].name) = Lower(entries'[y].name) => k = l
  BY <1>12, <1>14, <1>15
<1> QED BY <1>16, <1>17, <1>18, <1>19, <1>20, <1>21 DEF Tree

LEMMA AppendKidTree ==
  ASSUME IInv, TreeInv, AppendKid, pc' # "failed", Careful'
  PROVE  Tree'
<1> DEFINE sid == Top.sid
           o == Top.owner
           n == Len(stack)
           m == Len(kids[o])
           f == Frame("append", entries[sid].right, o)
<1>1. /\ pc = "walk" /\ stack # <<>> /\ Top.fn = "append" /\ Top.at = "left"
      /\ ~Raises(KidDefects(sid, o)) /\ Record(KidDefects(sid, o))
      /\ kids' = [kids EXCEPT ![o] = Append(@, sid)]
      /\ stack' = Call("right", f) /\ header' = header /\ entries' = entries
  BY DEF AppendKid, Fail, fileVars
<1>2. DirInv
  BY DEF IInv
<1>3. o \in DOMAIN entries /\ sid \in DOMAIN entries /\ o \in Nat
  BY <1>1, <1>2, TopIs DEF FrameOK
<1>4. f \in Frames /\ f.at = "enter"
  <2>1. entries[sid].right \in Nat
    BY <1>2, <1>3 DEF DirInv, Loaded, Entry
  <2> QED BY <1>3, <2>1 DEF Frame, Frames
<1>5. kids[o] \in Seq(DOMAIN entries) /\ DOMAIN kids = DOMAIN entries /\ m \in Nat
  BY <1>2, <1>3 DEF DirInv, Loaded
<1>6. Careful /\ \A d \in KidDefects(sid, o) : d.level # INCORRECT
  <2> HIDE DEF sid, o
  <2> QED BY <1>1, RecordIs
<1>7. Tree
  BY <1>1, <1>6 DEF TreeInv
<1>8. \A k \in 1..m : Lower(entries[kids[o][k]].name) # Lower(entries[sid].name)
  <2> DEFINE c == \E k \in 1..m : Lower(entries[kids[o][k]].name) = Lower(entries[sid].name)
  <2>1. \A d \in Defect(c, INCORRECT, "Duplicate filename") : d.level # INCORRECT
    BY <1>6 DEF KidDefects
  <2> HIDE DEF c
  <2>2. ~c
    BY <2>1, DefectIs
  <2> QED BY <2>2 DEF c
<1> DEFINE Pl(s, k, x) == Placed(kids, s, k, x)
           Pe(i, x) == Pending(stack, i, x)
<1>9. n \in Nat \ {0} /\ Top = stack[n] /\ Pe(n, sid) /\ (\A x : Pe(n, x) => x = sid)
  <2>1. n \in Nat \ {0} /\ Top = stack[n]
    BY <1>1, <1>2, ReturnIs DEF DirInv
  <2> QED BY <1>1, <2>1 DEF Pending
<1>10. ASSUME NEW i, NEW x PROVE Pending(stack', i, x) <=> Pe(i, x) /\ i # n
  <2> HIDE DEF f
  <2>1. Pending(stack', i, x) <=> i \in 1..(n - 1) /\ Pe(i, x)
    BY <1>1, <1>2, <1>4, CallPending
  <2>2. Pe(i, x) => i \in 1..n
    BY DEF Pending
  <2>3. i \in 1..(n - 1) <=> i \in 1..n /\ i # n
    <3> HIDE DEF n
    <3> QED BY <1>9
  <2> QED BY <2>1, <2>2, <2>3
<1>11. ASSUME NEW s, NEW k, NEW x
       PROVE  Placed(kids', s, k, x) <=> Pl(s, k, x) \/ (s = o /\ k = m + 1 /\ x = sid)
  <2>1. DOMAIN kids' = DOMAIN kids
        /\ \A t \in DOMAIN kids : kids'[t] = IF t = o THEN Append(kids[o], sid) ELSE kids[t]
    BY <1>1
  <2>2. /\ Len(Append(kids[o], sid)) = m + 1 /\ Append(kids[o], sid)[m + 1] = sid
        /\ \A j \in 1..m : Append(kids[o], sid)[j] = kids[o][j]
    BY <1>3, <1>5
  <2>3. (k \in 1..(m + 1) <=> k \in 1..m \/ k = m + 1) /\ (k \in 1..m => k # m + 1)
    <3> HIDE DEF m
    <3> QED BY <1>5
  <2> DEFINE row == Append(kids[o], sid)
  <2> HIDE DEF row
  <2>4. CASE s = o
    BY <1>3, <1>5, <2>1, <2>2, <2>3, <2>4 DEF Placed, row
  <2>5. CASE s # o
    BY <2>1, <2>5 DEF Placed
  <2> QED BY <2>4, <2>5
<1>12. \A k, x : Pl(o, k, x) => k \in 1..m /\ kids[o][k] = x /\ k # m + 1
  <2>1. \A k \in 1..m : k # m + 1
    <3> HIDE DEF m
    <3> QED BY <1>5
  <2> QED BY <2>1 DEF Placed
<1>13. /\ \A x \in DOMAIN entries \ {0} : (\E s, k : Pl(s, k, x)) \/ (\E i : Pe(i, x))
       /\ \A x, s, t, k, l : Pl(s, k, x) /\ Pl(t, l, x) => s = t /\ k = l
       /\ \A x, i, j : Pe(i, x) /\ Pe(j, x) => i = j
       /\ \A x, s, k, i : ~ (Pl(s, k, x) /\ Pe(i, x))
       /\ \A s, k, i : ~Pl(s, k, 0) /\ ~Pe(i, 0)
       /\ \A s, k, l, x, y :
            Pl(s, k, x) /\ Pl(s, l, y)
              /\ Lower(entries[x].name) = Lower(entries[y].name) => k = l
  BY <1>7 DEF Tree
<1>14. \A k, x : Pl(o, k, x) => Lower(entries[x].name) # Lower(entries[sid].name)
  BY <1>8, <1>12
<1>15. entries' = entries
  BY <1>1
<1>16. \A s, k : ~Pl(s, k, sid)
  BY <1>9, <1>13
<1> HIDE DEF Pl, Pe, sid, n, o, m
<1>17. sid # 0
  BY <1>9, <1>13
<1> USE <1>10, <1>11, <1>15
<1>18. \A x \in DOMAIN entries' \ {0} :
         (\E s, k : Placed(kids', s, k, x)) \/ (\E i : Pending(stack', i, x))
  <2> SUFFICES ASSUME NEW x \in DOMAIN entries \ {0}
               PROVE  (\E s, k : Placed(kids', s, k, x)) \/ (\E i : Pending(stack', i, x))
    OBVIOUS
  <2>1. CASE \E s, k : Pl(s, k, x)
    BY <2>1
  <2>2. CASE \E i : Pe(i, x)
    <3>1. PICK i : Pe(i, x)
      BY <2>2
    <3>2. CASE i = n
      BY <1>9, <3>1, <3>2
    <3>3. CASE i # n
      BY <3>1, <3>3
    <3> QED BY <3>2, <3>3
  <2> QED BY <1>13, <2>1, <2>2
<1>19. \A x, s, t, k, l : Placed(kids', s, k, x) /\ Placed(kids', t, l, x) => s = t /\ k = l
  BY <1>13, <1>16
<1>20. \A x, i, j : Pending(stack', i, x) /\ Pending(stack', j, x) => i = j
  BY <1>13
<1>21. \A x, s, k, i : ~ (Placed(kids', s, k, x) /\ Pending(stack', i, x))
  BY <1>9, <1>13
<1>22. \A s, k, i : ~Placed(kids', s, k, 0) /\ ~Pending(stack', i, 0)
  BY <1>13, <1>17
<1>23. \A s, k, l, x, y :
         Placed(kids', s, k, x) /\ Placed(kids', s, l, y)
           /\ Lower(entries'[x].name) = Lower(entries'[y].name) => k = l
  BY <1>13, <1>14
<1> QED BY <1>18, <1>19, <1>20, <1>21, <1>22, <1>23 DEF Tree

LEMMA BuildSortTree ==
  ASSUME DirInv, Tree, BuildSort
  PROVE  Tree'
<1> DEFINE o == Top.sid
           row == kids[o]
           N == Len(row)
<1>1. /\ stack # <<>> /\ Top.fn = "build" /\ stack' = Return /\ entries' = entries
      /\ kids' = [kids EXCEPT ![o] = Sorted(@)]
  BY DEF BuildSort
<1>2. o \in DOMAIN entries /\ DOMAIN kids = DOMAIN entries /\ row \in Seq(DOMAIN entries)
      /\ N \in Nat
  BY <1>1, TopIs DEF FrameOK, DirInv, Loaded
<1>3. Permutes(Sorted(row), row)
  <2> DEFINE S == DOMAIN entries
  <2>1. row \in Seq(S) /\ \A x \in S : entries[x].name \in Nat
    BY <1>2 DEF DirInv, Loaded, Entry
  <2> HIDE DEF row, S
  <2> QED BY <2>1, SortedIs
<1>4. PICK p \in [1..N -> 1..N] :
        /\ \A k \in 1..N : Sorted(row)[k] = row[p[k]]
        /\ \A j, k \in 1..N : p[j] = p[k] => j = k
        /\ \A i \in 1..N : \E k \in 1..N : p[k] = i
  BY <1>3 DEF Permutes
<1> DEFINE Pl(s, k, x) == Placed(kids, s, k, x)
           Pe(i, x) == Pending(stack, i, x)
           Pm(s, k, x) == Placed(kids', s, k, x)
<1>5. ASSUME NEW i, NEW x PROVE Pending(stack', i, x) <=> Pe(i, x)
  BY <1>1, ReturnPending
<1>6. DOMAIN kids' = DOMAIN kids
      /\ \A t \in DOMAIN kids : kids'[t] = IF t = o THEN Sorted(row) ELSE kids[t]
  BY <1>1
<1>7. \A s, k, x : s # o => (Pm(s, k, x) <=> Pl(s, k, x))
  BY <1>6 DEF Placed
<1>8. \A k, x : Pm(o, k, x) <=> k \in 1..N /\ Pl(o, p[k], x)
  <2>1. \A k \in 1..N : p[k] \in 1..N
    BY <1>4
  <2> DEFINE sorted == Sorted(row)
  <2>2. /\ o \in DOMAIN kids' /\ kids'[o] = sorted /\ Len(sorted) = N
        /\ \A k \in 1..N : sorted[k] = row[p[k]]
    BY <1>2, <1>3, <1>4, <1>6 DEF Permutes
  <2> HIDE DEF N, sorted
  <2>4. \A k, x : Pm(o, k, x) <=> k \in 1..N /\ row[p[k]] = x
    BY <2>2 DEF Placed
  <2>3. \A k \in 1..N : \A x : Pl(o, p[k], x) <=> row[p[k]] = x
    BY <1>2, <2>1 DEF Placed, N
  <2> QED BY <2>3, <2>4
<1>9. \A k, x : Pl(o, k, x) => \E j \in 1..N : p[j] = k
  BY <1>4 DEF Placed
<1>10. /\ \A x \in DOMAIN entries \ {0} : (\E s, k : Pl(s, k, x)) \/ (\E i : Pe(i, x))
       /\ \A x, s, t, k, l : Pl(s, k, x) /\ Pl(t, l, x) => s = t /\ k = l
       /\ \A x, i, j : Pe(i, x) /\ Pe(j, x) => i = j
       /\ \A x, s, k, i : ~ (Pl(s, k, x) /\ Pe(i, x))
       /\ \A s, k, i : ~Pl(s, k, 0) /\ ~Pe(i, 0)
       /\ \A s, k, l, x, y :
            Pl(s, k, x) /\ Pl(s, l, y)
              /\ Lower(entries[x].name) = Lower(entries[y].name) => k = l
  BY DEF Tree
<1>11. \A j, k \in 1..N : p[j] = p[k] => j = k
  BY <1>4
<1> HIDE DEF Pl, Pe, Pm, o, row, N
<1>12. \A x : (\E s, k : Pm(s, k, x)) <=> (\E s, k : Pl(s, k, x))
  <2>1. ASSUME NEW x, NEW s, NEW k, Pl(s, k, x) PROVE \E t, l : Pm(t, l, x)
    <3>1. CASE s # o
      BY <1>7, <2>1, <3>1
    <3>2. CASE s = o
      <4>1. PICK j \in 1..N : p[j] = k
        BY <1>9, <2>1, <3>2
      <4> QED BY <1>8, <2>1, <3>2, <4>1
    <3> QED BY <3>1, <3>2
  <2>2. ASSUME NEW x, NEW s, NEW k, Pm(s, k, x) PROVE \E t, l : Pl(t, l, x)
    <3>1. CASE s # o
      BY <1>7, <2>2, <3>1
    <3>2. CASE s = o
      BY <1>8, <2>2, <3>2
    <3> QED BY <3>1, <3>2
  <2> QED BY <2>1, <2>2
<1>13. \A x, s, t, k, l : Pm(s, k, x) /\ Pm(t, l, x) => s = t /\ k = l
  <2> SUFFICES ASSUME NEW x, NEW s, NEW t, NEW k, NEW l, Pm(s, k, x), Pm(t, l, x)
               PROVE  s = t /\ k = l
    OBVIOUS
  <2>1. CASE s # o /\ t # o
    BY <1>7, <1>10, <2>1
  <2>2. CASE s = o /\ t = o
    BY <1>8, <1>10, <1>11, <2>2
  <2>3. CASE (s = o) # (t = o)
    BY <1>7, <1>8, <1>10, <2>3
  <2> QED BY <2>1, <2>2, <2>3
<1>14. \A s, k, l, x, y :
         Pm(s, k, x) /\ Pm(s, l, y)
           /\ Lower(entries[x].name) = Lower(entries[y].name) => k = l
  <2> SUFFICES ASSUME NEW s, NEW k, NEW l, NEW x, NEW y, Pm(s, k, x), Pm(s, l, y),
                      Lower(entries[x].name) = Lower(entries[y].name)
               PROVE  k = l
    OBVIOUS
  <2>1. CASE s # o
    BY <1>7, <1>10, <2>1
  <2>2. CASE s = o
    BY <1>8, <1>10, <1>11, <2>2
  <2> QED BY <2>1, <2>2
<1>15. \A s, k : ~Pm(s, k, 0)
  BY <1>10, <1>12
<1>16. \A x, s, k, i : ~ (Pm(s, k, x) /\ Pe(i, x))
  BY <1>10, <1>12
<1>17. Tree' <=>
       /\ \A x \in DOMAIN entries \ {0} :
            (\E s, k : Pm(s, k, x)) \/ (\E i : Pending(stack', i, x))
       /\ \A x, s, t, k, l : Pm(s, k, x) /\ Pm(t, l, x) => s = t /\ k = l
       /\ \A x, i, j : Pending(stack', i, x) /\ Pending(stack', j, x) => i = j
       /\ \A x, s, k, i : ~ (Pm(s, k, x) /\ Pending(stack', i, x))
       /\ \A s, k, i : ~Pm(s, k, 0) /\ ~Pending(stack', i, 0)
       /\ \A s, k, l, x, y :
            Pm(s, k, x) /\ Pm(s, l, y)
              /\ Lower(entries[x].name) = Lower(entries[y].name) => k = l
  BY <1>1 DEF Tree, Pm
<1> QED BY <1>5, <1>10, <1>12, <1>13, <1>14, <1>15, <1>16, <1>17

LEMMA LoadRootTree == ASSUME LoadRoot, pc' # "failed" PROVE Tree'
<1>1. /\ DOMAIN entries' = {0} /\ kids' = [s \in {0} |-> <<>>]
      /\ stack' = <<Frame("build", 0, 0)>>
  BY DEF LoadRoot, Fail
<1>2. \A s, k, x : ~Placed(kids', s, k, x)
  <2>1. 1..Len(<<>>) = {}
    OBVIOUS
  <2> QED BY <1>1, <2>1 DEF Placed
<1>3. \A i, x : ~Pending(stack', i, x)
  BY <1>1 DEF Pending, Frame
<1> QED BY <1>1, <1>2, <1>3 DEF Tree

\* What leaves the directory alone, and overlooks no less.
LEMMA KeepTree ==
  ASSUME TreeInv, UNCHANGED <<entries, kids, stack>>, header' = header,
         pc \in {"walk", "open", "writing"}, issues \subseteq issues'
  PROVE  TreeInv'
<1>1. Careful' => Careful
  BY DEF Careful
<1>2. Tree => Tree'
  BY DEF Tree
<1> QED BY <1>1, <1>2 DEF TreeInv

LEMMA DirectoryTree ==
  ASSUME IInv, TreeInv, Directory, pc' # "failed", Careful' PROVE Tree'
<1>1. CASE AppendEnter
  BY <1>1, AppendEnterTree
<1>2. CASE AppendKid
  BY <1>2, AppendKidTree
<1>3. DirInv
  BY DEF IInv
<1>4. CASE AppendBuild \/ BuildEnter
  <2>1. /\ pc = "walk" /\ stack # <<>> /\ header' = header /\ issues' = issues
        /\ UNCHANGED <<entries, kids>>
        /\ \E f, at : /\ stack' = Call(at, f) /\ f.at = "enter" /\ at \in {"kid", "sort"}
                      /\ f \in Frames
        /\ Top.fn # "append" \/ Top.at # "left"
    <3>1. CASE AppendBuild
      <4> DEFINE f == Frame("build", Top.sid, Top.sid)
      <4>1. /\ pc = "walk" /\ stack # <<>> /\ Top.fn = "append" /\ Top.at = "right"
            /\ stack' = Call("kid", f)
            /\ UNCHANGED <<header, issues, entries, kids>>
        BY <3>1 DEF AppendBuild, Fail, fileVars, oleVars
      <4>2. f \in Frames /\ f.at = "enter"
        BY <1>3, <4>1, TopIs DEF Frame, Frames
      <4> QED BY <4>1, <4>2
    <3>2. CASE BuildEnter
      <4> DEFINE f == Frame("append", entries[Top.sid].child, Top.sid)
      <4>1. /\ pc = "walk" /\ stack # <<>> /\ Top.fn = "build"
            /\ stack' = Call("sort", f)
            /\ UNCHANGED <<header, issues, entries, kids>>
        BY <3>2 DEF BuildEnter, Fail, fileVars, oleVars
      <4>2. entries[Top.sid].child \in Nat /\ Top.sid \in Nat
        BY <1>3, <4>1, TopIs DEF FrameOK, DirInv, Loaded, Entry
      <4>3. f \in Frames /\ f.at = "enter"
        BY <4>2 DEF Frame, Frames
      <4> QED BY <4>1, <4>3
    <3> QED BY <1>4, <3>1, <3>2
  <2>2. Tree
    BY <2>1 DEF TreeInv, Careful
  <2>3. PICK f, at : /\ stack' = Call(at, f) /\ f.at = "enter" /\ at \in {"kid", "sort"}
                     /\ f \in Frames
    BY <2>1
  <2> QED BY <1>3, <2>1, <2>2, <2>3, CallTree
<1>5. CASE AppendNothing \/ AppendEnd \/ BuildNothing
  <2>1. /\ pc = "walk" /\ stack # <<>> /\ stack' = Return
        /\ Top.at \in {"enter", "kid"}
        /\ UNCHANGED <<header, issues, entries, kids>>
    BY <1>5 DEF AppendNothing, AppendEnd, BuildNothing, ReturnFrom, fileVars, oleVars
  <2>2. Tree
    BY <2>1 DEF TreeInv, Careful
  <2> QED BY <1>3, <2>1, <2>2, ReturnTree
<1>6. CASE BuildSort
  <2>1. Tree
    BY <1>6 DEF BuildSort, fileVars, oleVars, TreeInv, Careful
  <2> QED BY <1>3, <1>6, <2>1, BuildSortTree
<1> QED BY <1>1, <1>2, <1>4, <1>5, <1>6 DEF Directory

LEMMA NextTree == ASSUME IInv, TreeInv, [Next]_vars PROVE TreeInv'
<1> SUFFICES ASSUME pc' \in {"walk", "open", "writing"} PROVE TreeInv'
  BY DEF TreeInv
<1>1. CASE OpenHeader \/ LoadFat \/ Close \/ Interrupt
  BY <1>1 DEF OpenHeader, LoadFat, Close, Interrupt, Forget, Fail
<1>2. CASE LoadRoot
  BY <1>2, LoadRootTree DEF TreeInv
<1>3. CASE Directory
  BY <1>3, DirectoryTree DEF TreeInv
<1>4. CASE Opened \/ Calls \/ WriteSector \/ UNCHANGED vars
  <2>1. UNCHANGED <<entries, kids, stack>>
    BY <1>4 DEF Opened, Calls, ListDir, OpenStream, GetSize, WriteStream, GetMetadata,
                WriteSector, vars, dirVars
  <2>2. header' = header
    BY <1>4 DEF Opened, Calls, ListDir, OpenStream, GetSize, WriteStream, GetMetadata,
                WriteSector, WriteSect, vars, fileVars
  <2>3. issues \subseteq issues'
    BY <1>4, Zenon DEF Opened, Calls, ListDir, OpenStream, GetSize, WriteStream, GetMetadata,
                WriteSector, vars, oleVars, Record
  <2>4. pc \in {"walk", "open", "writing"}
    BY <1>4 DEF Opened, Calls, ListDir, OpenStream, GetSize, WriteStream, GetMetadata,
                WriteSector, vars
  <2> QED BY <2>1, <2>2, <2>3, <2>4, KeepTree
<1> QED BY <1>1, <1>2, <1>3, <1>4 DEF Next

\* While no defect of a duplicate has been met, every loaded entry but the root
\* has one place in the tree, or one call of the walk that will give it one.
THEOREM TreeKept == Spec => []TreeInv
<1>1. Init => TreeInv
  BY DEF Init, TreeInv
<1>2. IInv /\ TreeInv /\ [Next]_vars => TreeInv'
  BY NextTree
<1> QED BY <1>1, <1>2, Invariance, PTL DEF Spec

\* A caller that asked for strict parsing, or whose file gave no issue, has a
\* directory that is a tree, with names that differ below each storage.
THEOREM DirectoryTreeKept == Spec => []DirectoryIsTree
<1>1. IInv /\ TreeInv => DirectoryIsTree
  <2> SUFFICES ASSUME IInv, TreeInv, Clean PROVE DirectoryIsTree
    BY DEF DirectoryIsTree
  <2>1. stack = <<>> /\ Tree /\ Loaded
    BY DEF IInv, DirInv, TreeInv, Clean, Careful
  <2>2. \A i, x : ~Pending(stack, i, x)
    BY <2>1 DEF Pending
  <2>3. ASSUME NEW x PROVE KidPlaces(x) = {p \in KidPlaces(x) : Placed(kids, p[1], p[2], x)}
    BY <2>1 DEF KidPlaces, Placed, Loaded
  <2>4. KidPlaces(0) = {}
    BY <2>1, <2>3 DEF Tree
  <2>5. ASSUME NEW x \in DOMAIN entries \ {0} PROVE Cardinality(KidPlaces(x)) = 1
    <3>1. PICK s, k : Placed(kids, s, k, x)
      BY <2>1, <2>2 DEF Tree
    <3>2. <<s, k>> \in KidPlaces(x)
      BY <2>1, <3>1 DEF KidPlaces, Placed, Loaded
    <3>3. ASSUME NEW p \in KidPlaces(x) PROVE p = <<s, k>>
      <4>1. PICK t \in DOMAIN entries : p \in {t} \X (1..Len(kids[t]))
        BY DEF KidPlaces
      <4>2. Placed(kids, p[1], p[2], x)
        BY <2>3
      <4>3. p[1] = s /\ p[2] = k
        BY <2>1, <3>1, <4>2 DEF Tree
      <4> QED BY <4>1, <4>3
    <3>4. KidPlaces(x) = {<<s, k>>}
      BY <3>2, <3>3
    <3> QED BY <3>4, FS_Singleton
  <2>6. ASSUME NEW s \in DOMAIN entries, NEW i \in 1..Len(kids[s]), NEW k \in 1..Len(kids[s]),
               Lower(entries[kids[s][i]].name) = Lower(entries[kids[s][k]].name)
        PROVE  i = k
    <3>1. Placed(kids, s, i, kids[s][i]) /\ Placed(kids, s, k, kids[s][k])
      BY <2>1 DEF Placed, Loaded
    <3> QED BY <2>1, <2>6, <3>1 DEF Tree
  <2> QED BY <2>4, <2>5, <2>6 DEF DirectoryIsTree
<1> QED BY <1>1, Invariance, TreeKept, PTL

-----------------------------------------------------------------------------
(* Finding what was listed.                                                *)

\* at goes along a path from s.
Goes(at, s, path) ==
  at[0] = s /\ \A i \in 1..Len(path) : at[i] = KidOf(at[i - 1], path[i])

\* In a tree a kid is found by its name.
LEMMA KidFound ==
  ASSUME IInv, Tree, NEW s \in DOMAIN entries, NEW k \in 1..Len(kids[s])
  PROVE  KidOf(s, entries[kids[s][k]].name) = kids[s][k]
<1> DEFINE x == entries[kids[s][k]].name
           same == {l \in 1..Len(kids[s]) : Lower(entries[kids[s][l]].name) = Lower(x)}
<1>1. s # NOSTREAM /\ s \in DOMAIN kids
  BY DEF IInv, DirInv, Loaded
<1>2. \A l \in 1..Len(kids[s]) : Placed(kids, s, l, kids[s][l])
  BY <1>1 DEF Placed
<1>3. same = {k}
  <2>1. \A l \in same : l = k
    BY <1>2 DEF Tree
  <2> QED BY <2>1
<1>4. (CHOOSE l \in same : \A m \in same : l <= m) = k
  <2>1. k <= k
    OBVIOUS
  <2> HIDE DEF same
  <2> QED BY <1>3, <2>1
<1> QED BY <1>1, <1>3, <1>4 DEF KidOf

LEMMA ListedAt ==
  ASSUME IInv, Tree, pc \in {"open", "writing"},
         NEW r \in ToSet(List(TRUE, TRUE)), NEW at, Goes(at, 0, r.path)
  PROVE  at[Len(r.path)] = r.sid
<1> DEFINE D == DOMAIN entries
<1>1. Loaded /\ 0 \in D
  BY DEF IInv, DirInv
<1>2. PICK under \in [0..RecursionLimit -> [D -> Seq(Row)]] :
        /\ \A s \in D : under[0][s] = <<>>
        /\ \A d \in 1..RecursionLimit : \A s \in D :
             \A q \in ToSet(under[d][s]) : \E k \in 1..Len(kids[s]) :
               RowOf(q, kids[s][k], under[d - 1][kids[s][k]])
        /\ List(TRUE, TRUE) = under[RecursionLimit][0]
  BY <1>1, ListSteps
<1> DEFINE Right(d) == \A s \in D : \A q \in ToSet(under[d][s]) : \A bt :
                         Goes(bt, s, q.path) => bt[Len(q.path)] = q.sid
           P == {d \in Nat : d <= RecursionLimit => Right(d)}
<1>3. 0 \in P
  <2>1. ToSet(<<>>) = {}
    BY DEF ToSet
  <2> QED BY <1>2, <2>1
<1>4. ASSUME NEW d \in Nat, d \in P, d + 1 <= RecursionLimit PROVE Right(d + 1)
  <2> SUFFICES ASSUME NEW s \in D, NEW q \in ToSet(under[d + 1][s]), NEW bt,
                      Goes(bt, s, q.path)
               PROVE  bt[Len(q.path)] = q.sid
    OBVIOUS
  <2>1. Right(d) /\ d \in 0..RecursionLimit /\ d + 1 \in 1..RecursionLimit /\ (d + 1) - 1 = d
    BY <1>4, LimitsAssumption
  <2>2. PICK k \in 1..Len(kids[s]) : RowOf(q, kids[s][k], under[d][kids[s][k]])
    BY <1>2, <2>1
  <2> DEFINE kid == kids[s][k]
             name == entries[kid].name
  <2>3. kid \in D /\ name \in Nat /\ under[d][kid] \in Seq(Row)
    <3>1. kid \in D
      BY <1>1 DEF Loaded
    <3> QED BY <1>1, <1>2, <2>1, <3>1 DEF Loaded, Entry
  <2>4. KidOf(s, name) = kid
    BY KidFound
  <2> HIDE DEF kid, name, D, Right
  <2>5. CASE q.path = <<name>> /\ q.sid = kid
    BY <2>4, <2>5 DEF Goes
  <2>6. CASE \E p \in ToSet(under[d][kid]) : q.path = <<name>> \o p.path /\ q.sid = p.sid
    <3>1. PICK p \in ToSet(under[d][kid]) : q.path = <<name>> \o p.path /\ q.sid = p.sid
      BY <2>6
    <3>2. p \in Row
      BY <2>3, <3>1 DEF ToSet
    <3> DEFINE N == Len(p.path)
               ct == [i \in 0..N |-> bt[i + 1]]
    <3>3. p.path \in Seq(Nat) /\ N \in Nat
      BY <3>2, RowIs
    <3>4. /\ Len(q.path) = N + 1 /\ q.path[1] = name
          /\ \A i \in 1..N : q.path[i + 1] = p.path[i]
      <4> DEFINE one == <<name>>
                 whole == one \o p.path
      <4>1. one \in Seq(Nat) /\ Len(one) = 1 /\ one[1] = name
        BY <2>3
      <4> HIDE DEF one
      <4>2. /\ Len(whole) = 1 + N /\ \A i \in 1..(1 + N) :
                  whole[i] = IF i <= 1 THEN one[i] ELSE p.path[i - 1]
        <5>1. /\ Len(whole) = Len(one) + Len(p.path)
              /\ \A i \in 1..(Len(one) + Len(p.path)) :
                   whole[i] = IF i <= Len(one) THEN one[i] ELSE p.path[i - Len(one)]
          BY <3>3, <4>1, ConcatProperties, ZenonT(60)
        <5> HIDE DEF whole
        <5> QED BY <4>1, <5>1
      <4>3. q.path = whole
        BY <3>1 DEF one
      <4> HIDE DEF whole, N
      <4>4. \A i \in 1..N : i + 1 \in 1..(1 + N) /\ ~ (i + 1 <= 1) /\ (i + 1) - 1 = i
        BY <3>3
      <4>5. 1 \in 1..(1 + N) /\ 1 <= 1 /\ 1 + N = N + 1
        BY <3>3
      <4> QED BY <4>1, <4>2, <4>3, <4>4, <4>5
    <3>5. bt[1] = kid
      <4>1. 1 \in 1..Len(q.path) /\ bt[0] = s
        BY <3>3, <3>4 DEF Goes
      <4> QED BY <2>4, <3>4, <4>1 DEF Goes
    <3> HIDE DEF N
    <3>6. ASSUME NEW i \in 1..N PROVE ct[i] = KidOf(ct[i - 1], p.path[i])
      <4>1. i + 1 \in 1..Len(q.path) /\ (i + 1) - 1 = i /\ i - 1 \in 0..N /\ (i - 1) + 1 = i
            /\ i \in 0..N
        BY <3>3, <3>4
      <4>2. bt[i + 1] = KidOf(bt[i], q.path[i + 1])
        BY <4>1 DEF Goes
      <4> QED BY <3>4, <4>1, <4>2
    <3>7. 0 \in 0..N /\ N \in 0..N /\ ct[0] = bt[1] /\ ct[N] = bt[N + 1]
      BY <3>3
    <3> HIDE DEF ct
    <3>8. Goes(ct, kid, p.path)
      BY <3>5, <3>6, <3>7 DEF Goes, N
    <3>9. ct[N] = p.sid
      BY <2>1, <2>3, <3>1, <3>8 DEF Right, N
    <3> QED BY <3>1, <3>4, <3>7, <3>9
  <2> QED BY <2>2, <2>5, <2>6 DEF RowOf, kid, name
<1>5. RecursionLimit \in P
  <2>1. \A d \in Nat : d \in P => d + 1 \in P
    <3> HIDE DEF Right
    <3>1. \A d \in Nat : d \in P /\ d + 1 <= RecursionLimit => Right(d + 1)
      BY <1>4
    <3> QED BY <3>1
  <2> HIDE DEF P
  <2> QED BY <1>3, <2>1, Induct, LimitsAssumption
<1>6. Right(RecursionLimit)
  BY <1>5, LimitsAssumption
<1> QED BY <1>1, <1>2, <1>6

\* In such a directory every listed path, in small letters, is found again and
\* is the entry it was listed for.
THEOREM ListedFound == Spec => []ListedIsFound
<1>1. IInv /\ TreeInv => ListedIsFound
  <2> SUFFICES ASSUME IInv, TreeInv, Clean, NEW r \in ToSet(List(TRUE, TRUE))
               PROVE  Find([i \in 1..Len(r.path) |-> 10 + Lower(r.path[i])]) = r.sid
    BY DEF ListedIsFound
  <2> DEFINE N == Len(r.path)
             path == [i \in 1..N |-> 10 + Lower(r.path[i])]
  <2>1. Loaded /\ 0 \in DOMAIN entries /\ Tree /\ pc \in {"open", "writing"}
    BY DEF IInv, DirInv, TreeInv, Clean, Careful
  <2>2. r \in Row
    <3> DEFINE rows == List(TRUE, TRUE)
    <3>1. rows \in Seq(Row) /\ r \in ToSet(rows)
      BY <2>1, ListIs
    <3> HIDE DEF rows
    <3> QED BY <3>1 DEF ToSet
  <2>3. r.path \in Seq(Nat) /\ N \in Nat
    BY <2>2, RowIs
  <2>4. \A i \in 1..N : path[i] \in Nat /\ Lower(path[i]) = Lower(r.path[i])
    <3>1. \A n \in Nat : 10 + (n % 10) \in Nat /\ (10 + (n % 10)) % 10 = n % 10
      OBVIOUS
    <3>2. \A i \in 1..N : r.path[i] \in Nat
      BY <2>3
    <3> QED BY <3>1, <3>2 DEF Lower
  <2>5. path \in [1..N -> Nat]
    BY <2>4
  <2> HIDE DEF path
  <2>6. path \in Seq(Nat) /\ Len(path) = N
    <3> HIDE DEF N
    <3> QED BY <2>3, <2>5, IsSequence
  <2>7. PICK at \in [0..Len(path) -> DOMAIN entries \cup {NOSTREAM}] :
          /\ at[0] = 0
          /\ \A i \in 1..Len(path) : at[i] = KidOf(at[i - 1], path[i])
          /\ Find(path) = at[Len(path)]
    BY <2>1, <2>6, FindSteps
  <2>8. \A s : \A i \in 1..N : KidOf(s, path[i]) = KidOf(s, r.path[i])
    <3>1. ASSUME NEW s, NEW a, NEW b, Lower(a) = Lower(b) PROVE KidOf(s, a) = KidOf(s, b)
      <4> DEFINE same(x) == {k \in 1..Len(kids[s]) :
                               Lower(entries[kids[s][k]].name) = Lower(x)}
      <4>1. \A x : KidOf(s, x) =
                     IF s = NOSTREAM \/ same(x) = {} THEN NOSTREAM
                     ELSE kids[s][CHOOSE k \in same(x) : \A l \in same(x) : k <= l]
        BY DEF KidOf
      <4>2. same(a) = same(b)
        BY <3>1
      <4> HIDE DEF same
      <4> QED BY <4>1, <4>2
    <3> QED BY <2>4, <3>1
  <2>9. Goes(at, 0, r.path)
    BY <2>6, <2>7, <2>8 DEF Goes
  <2> QED BY <2>1, <2>6, <2>7, <2>9, ListedAt DEF path
<1> QED BY <1>1, Invariance, TreeKept, PTL

-----------------------------------------------------------------------------
(* Well laid streams: what is read of them is at their places.             *)

\* The j-th of the k-th of sequences of b is at (k - 1) * b + j of them all.
EvenlyIn(all, ss, b) ==
  \A k \in 1..Len(ss) : \A j \in 1..Len(ss[k]) :
    (k - 1) * b + j \in 1..Len(all) /\ all[(k - 1) * b + j] = ss[k][j]

\* Sequences of the same length put behind each other, but for the last.
LEMMA FlattenEven ==
  ASSUME NEW S, NEW ss \in Seq(Seq(S)), NEW b \in Nat \ {0},
         \A k \in 1..(Len(ss) - 1) : Len(ss[k]) = b
  PROVE  EvenlyIn(FlattenSeq(ss), ss, b)
<1> DEFINE N == Len(ss)
<1>1. PICK of \in [0..N -> Seq(S)] :
        /\ of[0] = <<>>
        /\ \A k \in 1..N : of[k] = of[k - 1] \o ss[k]
        /\ FlattenSeq(ss) = of[N]
  BY FlattenSteps
<1>2. N \in Nat /\ \A k \in 1..N : ss[k] \in Seq(S) /\ Len(ss[k]) \in Nat
  OBVIOUS
<1>3. \A k \in 1..(N - 1) : Len(ss[k]) = b
  OBVIOUS
<1> HIDE DEF N
<1>4. ASSUME NEW k \in 1..N
      PROVE  /\ of[k - 1] \in Seq(S) /\ of[k] = of[k - 1] \o ss[k]
             /\ Len(of[k]) = Len(of[k - 1]) + Len(ss[k])
  <2>1. k - 1 \in 0..N
    BY <1>2
  <2>2. of[k - 1] \in Seq(S) /\ ss[k] \in Seq(S) /\ of[k] = of[k - 1] \o ss[k]
    BY <1>1, <1>2, <2>1
  <2> QED BY <2>2
<1>5. \A n \in 0..(N - 1) : Len(of[n]) = n * b
  <2> DEFINE P == {n \in Nat : n <= N - 1 => Len(of[n]) = n * b}
  <2>1. 0 \in P
    BY <1>1
  <2>2. ASSUME NEW n \in Nat, n \in P PROVE n + 1 \in P
    <3> SUFFICES ASSUME n + 1 <= N - 1 PROVE Len(of[n + 1]) = (n + 1) * b
      OBVIOUS
    <3>1. n + 1 \in 1..N /\ n + 1 \in 1..(N - 1) /\ (n + 1) - 1 = n
      BY <1>2
    <3>2. Len(of[n + 1]) = Len(of[n]) + b
      BY <1>3, <1>4, <3>1
    <3>3. (n + 1) * b = n * b + b
      OBVIOUS
    <3>4. Len(of[n]) = n * b
      BY <1>2, <2>2, <3>1
    <3> QED BY <3>2, <3>3, <3>4
  <2> HIDE DEF P
  <2>3. Nat \subseteq P
    BY <2>1, <2>2, Induct
  <2> QED BY <1>2, <2>3 DEF P
<1>6. ASSUME NEW k \in 1..N, NEW j \in 1..Len(ss[k])
      PROVE  (k - 1) * b + j \in 1..Len(of[N]) /\ of[N][(k - 1) * b + j] = ss[k][j]
  <2> DEFINE p == (k - 1) * b + j
             P == {d \in Nat : k + d <= N => p \in 1..Len(of[k + d]) /\ of[k + d][p] = ss[k][j]}
  <2>1. Len(of[k - 1]) = (k - 1) * b /\ (k - 1) * b \in Nat
    <3>1. k - 1 \in 0..(N - 1) /\ k - 1 \in Nat
      BY <1>2
    <3>2. (k - 1) * b \in Nat
      BY <3>1
    <3> QED BY <1>5, <3>1, <3>2
  <2>2. 0 \in P
    <3>1. k + 0 = k
      OBVIOUS
    <3>2. of[k - 1] \in Seq(S) /\ ss[k] \in Seq(S) /\ of[k] = of[k - 1] \o ss[k]
      BY <1>2, <1>4
    <3>3. p \in Nat /\ p = Len(of[k - 1]) + j
      BY <2>1, <1>2
    <3> HIDE DEF p
    <3>4. p \in 1..Len(of[k]) /\ of[k][p] = ss[k][j]
      <4> DEFINE a == of[k - 1]
                 c == ss[k]
      <4>1. a \in Seq(S) /\ c \in Seq(S) /\ of[k] = a \o c /\ p = Len(a) + j /\ j \in 1..Len(c)
        BY <3>2, <3>3
      <4> HIDE DEF a, c
      <4>2. p \in 1..Len(a \o c) /\ (a \o c)[p] = c[j]
        BY <4>1
      <4> QED BY <4>1, <4>2 DEF c
    <3> QED BY <3>1, <3>4
  <2>3. ASSUME NEW d \in Nat, d \in P PROVE d + 1 \in P
    <3> SUFFICES ASSUME k + (d + 1) <= N
                 PROVE  p \in 1..Len(of[k + (d + 1)]) /\ of[k + (d + 1)][p] = ss[k][j]
      OBVIOUS
    <3> DEFINE a == of[k + d]
               c == ss[k + (d + 1)]
    <3>1. k + (d + 1) \in 1..N /\ (k + (d + 1)) - 1 = k + d /\ k + d <= N
      BY <1>2
    <3>2. a \in Seq(S) /\ c \in Seq(S) /\ of[k + (d + 1)] = a \o c
      BY <1>2, <1>4, <3>1
    <3>3. p \in 1..Len(a) /\ a[p] = ss[k][j]
      BY <2>3, <3>1
    <3> HIDE DEF a, c, p
    <3>4. p \in 1..Len(a \o c) /\ (a \o c)[p] = a[p]
      BY <3>2, <3>3
    <3> QED BY <3>2, <3>3, <3>4
  <2> HIDE DEF P, p
  <2>4. N - k \in P
    <3>1. N - k \in Nat
      BY <1>2
    <3> QED BY <2>2, <2>3, <3>1, Induct
  <2>5. k + (N - k) = N
    BY <1>2
  <2> QED BY <2>4, <2>5 DEF P, p
<1>7. EvenlyIn(of[N], ss, b)
  BY <1>6, Zenon DEF EvenlyIn, N
<1> QED BY <1>1, <1>7, Zenon

\* The sector a word of a stream is in, and its place there.
WordOf(b, n, i, q, r) == q \in 0..(n - 1) /\ r \in 0..(b - 1) /\ i = q * b + (r + 1)

LEMMA PlaceIs ==
  ASSUME NEW b \in Nat \ {0}, NEW size \in Nat, NEW i \in 1..size
  PROVE  WordOf(b, CeilDiv(size, b), i, (i - 1) \div b, (i - 1) % b)
<1> DEFINE q == (i - 1) \div b
           r == (i - 1) % b
           n == CeilDiv(size, b)
<1>1. n \in Nat /\ size <= n * b
  BY CeilDivIs
<1>2. q \in Int /\ r \in 0..(b - 1) /\ i - 1 = b * q + r
  OBVIOUS
<1> HIDE DEF q, r, n
<1>3. b * q = q * b /\ b * q > -b
  BY <1>2
<1>4. q >= 0
  <2>1. q <= -1 => b * q <= b * (-1)
    BY <1>2
  <2> QED BY <1>2, <1>3, <2>1
<1>5. q < n
  <2>1. q * b < n * b
    <3>1. q * b \in Int /\ n * b \in Int
      BY <1>1, <1>2
    <3> QED BY <1>1, <1>2, <1>3, <3>1
  <2>2. q >= n => q * b >= n * b
    BY <1>1, <1>2
  <2>3. q * b \in Int /\ n * b \in Int
    BY <1>1, <1>2
  <2> QED BY <1>1, <1>2, <2>1, <2>2, <2>3
<1>6. q \in 0..(n - 1) /\ r \in 0..(b - 1) /\ i = q * b + (r + 1)
  BY <1>1, <1>2, <1>3, <1>4, <1>5
<1>7. WordOf(b, n, i, q, r)
  BY <1>6, Zenon DEF WordOf
<1> QED BY <1>7, Zenon DEF q, r, n

SpotsAlong(p, at, ssize, size) ==
  /\ Len(p) = size /\ DOMAIN p = 1..size
  /\ \A i \in 1..size : /\ p[i][1] = at[(i - 1) \div ssize]
                        /\ p[i][2] = ((i - 1) % ssize) + 1

LEMMA SpotsAre ==
  ASSUME NEW ssize \in Nat \ {0}, NEW table, NEW first, NEW size \in Nat
  PROVE  SpotsAlong(Spots(ssize, table, first, size),
                    Walk(table, first, CeilDiv(size, ssize)), ssize, size)
<1> DEFINE at == Walk(table, first, CeilDiv(size, ssize))
           p == [i \in 1..size |-> <<at[(i - 1) \div ssize], ((i - 1) % ssize) + 1>>]
<1>1. Spots(ssize, table, first, size) = p
  BY DEF Spots
<1>2. p \in [1..size -> {p[i] : i \in 1..size}]
  OBVIOUS
<1>3. Len(p) = size
  <2> HIDE DEF p
  <2> QED BY <1>2, IsSequence
<1> HIDE DEF at
<1>4. DOMAIN p = 1..size
      /\ \A i \in 1..size : p[i][1] = at[(i - 1) \div ssize] /\ p[i][2] = ((i - 1) % ssize) + 1
  OBVIOUS
<1> HIDE DEF p
<1>5. SpotsAlong(p, at, ssize, size)
  BY <1>3, <1>4, Zenon DEF SpotsAlong
<1> QED BY <1>1, <1>5, Zenon DEF at

LEMMA WordsAre ==
  ASSUME NEW source, NEW n \in Nat, NEW places, Len(places) = n
  PROVE  LET w == WordsAt(source, places) IN
         /\ Len(w) = n /\ DOMAIN w = 1..n
         /\ \A i \in 1..n : w[i] = source[places[i][1]][places[i][2]]
<1> DEFINE w == [i \in 1..n |-> source[places[i][1]][places[i][2]]]
<1>1. WordsAt(source, places) = w
  BY DEF WordsAt
<1>2. w \in [1..n -> {w[i] : i \in 1..n}]
  OBVIOUS
<1>3. Len(w) = n
  <2> HIDE DEF w
  <2> QED BY <1>2, IsSequence
<1> QED BY <1>1, <1>3

\* Two tables that agree where a chain comes along.
LEMMA WalksAgree ==
  ASSUME NEW t, NEW u, NEW first, NEW n \in Nat,
         \A i \in 0..(n - 1) : LET s == Walk(t, first, n)[i] IN
           s \in DOMAIN t /\ s \in DOMAIN u /\ t[s] = u[s]
  PROVE  \A i \in 0..n : Walk(u, first, n)[i] = Walk(t, first, n)[i]
<1> DEFINE at == Walk(t, first, n)
           to == Walk(u, first, n)
           P == {i \in Nat : i <= n => to[i] = at[i]}
<1>1. at[0] = first /\ Follows(at, t, n) /\ to[0] = first /\ Follows(to, u, n)
  BY WalkIs
<1>2. \A i \in 0..(n - 1) : at[i] \in DOMAIN t /\ at[i] \in DOMAIN u /\ t[at[i]] = u[at[i]]
  OBVIOUS
<1> HIDE DEF at, to
<1>3. 0 \in P
  BY <1>1
<1>4. ASSUME NEW i \in Nat, i \in P PROVE i + 1 \in P
  <2> SUFFICES ASSUME i + 1 <= n PROVE to[i + 1] = at[i + 1]
    OBVIOUS
  <2>1. i + 1 \in 1..n /\ (i + 1) - 1 = i /\ i \in 0..(n - 1) /\ i <= n
    OBVIOUS
  <2>2. to[i] = at[i]
    BY <1>4, <2>1
  <2>3. to[i + 1] = u[at[i]] /\ at[i + 1] = t[at[i]]
    BY <1>1, <1>2, <2>1, <2>2 DEF Follows
  <2> QED BY <1>2, <2>1, <2>3
<1> HIDE DEF P
<1>5. Nat \subseteq P
  BY <1>3, <1>4, Induct
<1> QED BY <1>5 DEF P, at, to

\* What an array is of.
LEMMA ArrayHas ==
  ASSUME NEW S, NEW s \in Seq(S), NEW n \in Nat
  PROVE  LET a == Array(s, n)
             m == IF Len(s) < n THEN Len(s) ELSE n IN
         m \in Nat /\ DOMAIN a = 0..(m - 1) /\ \A i \in 0..(m - 1) : a[i] = s[i + 1]
BY DEF Array

\* A chain of a well laid stream stays in the table that ends with the file,
\* and visits no sector twice.
LEMMA LaidChain ==
  ASSUME NEW source, NEW N \in Nat, DOMAIN source = 0..(N - 1), N <= FREESECT,
         NEW words \in Seq(Nat), NEW ssize \in Nat \ {0}, NEW first, NEW size \in Nat,
         Laid(source, ssize, Array(words, Len(words)), first, size)
  PROVE  LET table == Array(words, N)
             n  == CeilDiv(size, ssize)
             at == Walk(Array(words, Len(words)), first, n) IN
         /\ \A i \in 0..n : Walk(table, first, n)[i] = at[i]
         /\ \A i \in 0..(n - 1) : at[i] \in DOMAIN table /\ at[i] \in DOMAIN source
         /\ \A i, j \in 0..(n - 1) : at[i] = at[j] => i = j
         /\ at[0] = first /\ at[n] = ENDOFCHAIN
<1> DEFINE all == Array(words, Len(words))
           table == Array(words, N)
           n  == CeilDiv(size, ssize)
           at == Walk(all, first, n)
           m == IF Len(words) < N THEN Len(words) ELSE N
<1>1. n \in Nat /\ Len(words) \in Nat
  BY CeilDivIs
<1>2. /\ at[n] = ENDOFCHAIN
      /\ \A i \in 0..(n - 1) : at[i] \in DOMAIN all /\ at[i] \in DOMAIN source
  BY DEF Laid
<1>3. DOMAIN all = 0..(Len(words) - 1) /\ \A i \in 0..(Len(words) - 1) : all[i] = words[i + 1]
  BY <1>1, ArrayHas
<1>4. DOMAIN table = 0..(m - 1) /\ \A i \in 0..(m - 1) : table[i] = words[i + 1]
  BY ArrayHas
<1> HIDE DEF all, table
<1>5. \A i \in 0..(n - 1) : at[i] \in DOMAIN table /\ all[at[i]] = table[at[i]]
  <2> SUFFICES ASSUME NEW i \in 0..(n - 1)
               PROVE  at[i] \in DOMAIN table /\ all[at[i]] = table[at[i]]
    OBVIOUS
  <2>1. at[i] \in 0..(Len(words) - 1) /\ at[i] \in 0..(N - 1)
    BY <1>2, <1>3
  <2> HIDE DEF at
  <2>2. at[i] \in 0..(m - 1)
    BY <1>1, <2>1
  <2> HIDE DEF m
  <2> DEFINE s == at[i]
  <2>3. s \in 0..(Len(words) - 1) /\ s \in 0..(m - 1)
    BY <2>1, <2>2
  <2> HIDE DEF s
  <2>4. all[s] = words[s + 1] /\ table[s] = words[s + 1] /\ s \in DOMAIN table
    BY <1>3, <1>4, <2>3
  <2> QED BY <2>4 DEF s
<1>6. \A i \in 0..n : Walk(table, first, n)[i] = at[i]
  <2> HIDE DEF n
  <2> QED BY <1>1, <1>2, <1>5, WalksAgree
<1>7. at[0] = first /\ Walk(table, first, n)[0] = first /\ Follows(Walk(table, first, n), table, n)
  BY <1>1, WalkIs
<1>8. \A i, j \in 0..(n - 1) : at[i] = at[j] => i = j
  <2> DEFINE to == Walk(table, first, n)
  <2>1. \A k \in 0..(n - 1) : to[k] \in DOMAIN table
    BY <1>1, <1>5, <1>6
  <2>2. to[n] \notin DOMAIN table
    <3>1. to[n] = ENDOFCHAIN
      BY <1>1, <1>2, <1>6
    <3> HIDE DEF to
    <3>2. N <= 1000 /\ to[n] = 1001
      BY <3>1 DEF ENDOFCHAIN, FREESECT
    <3> QED BY <1>1, <1>4, <3>2
  <2>3. Follows(to, table, n)
    BY <1>7
  <2>4. \A i \in 0..(n - 1) : to[i] = at[i]
    BY <1>1, <1>6
  <2> HIDE DEF to, at, n
  <2>5. \A i, j \in 0..(n - 1) : to[i] = to[j] => i = j
    BY <1>1, <2>1, <2>2, <2>3, ChainDistinct
  <2> QED BY <2>4, <2>5
<1> QED BY <1>2, <1>5, <1>6, <1>7, <1>8 DEF all, table

\* A word of a well laid stream is one of the file.
LEMMA LaidPlaces ==
  ASSUME NEW source, NEW table, NEW ssize \in Nat \ {0}, NEW first, NEW size \in Nat,
         Laid(source, ssize, table, first, size),
         \A s \in DOMAIN source : Len(source[s]) \in Nat
  PROVE  LET p == Spots(ssize, table, first, size) IN
         \A i \in 1..size : p[i][1] \in DOMAIN source /\ p[i][2] \in 1..Len(source[p[i][1]])
<1> DEFINE n  == CeilDiv(size, ssize)
           at == Walk(table, first, n)
           p == Spots(ssize, table, first, size)
<1> SUFFICES ASSUME NEW i \in 1..size
             PROVE  p[i][1] \in DOMAIN source /\ p[i][2] \in 1..Len(source[p[i][1]])
  OBVIOUS
<1> DEFINE q == (i - 1) \div ssize
           r == (i - 1) % ssize
<1>1. q \in 0..(n - 1) /\ r \in 0..(ssize - 1) /\ i = q * ssize + (r + 1)
  <2>1. WordOf(ssize, n, i, q, r)
    BY PlaceIs, Zenon
  <2> QED BY <2>1, Zenon DEF WordOf
<1>2. p[i][1] = at[q] /\ p[i][2] = r + 1
  <2>1. SpotsAlong(p, at, ssize, size)
    BY SpotsAre, Zenon
  <2> QED BY <2>1, Zenon DEF SpotsAlong
<1>3. n \in Nat
  BY CeilDivIs
<1>4. /\ at[q] \in DOMAIN source
      /\ \/ Len(source[at[q]]) = ssize
         \/ q = n - 1 /\ size <= q * ssize + Len(source[at[q]])
  BY <1>1 DEF Laid
<1> HIDE DEF q, r, n, at, p
<1>5. r + 1 <= Len(source[at[q]])
  <2> DEFINE L == Len(source[at[q]])
             z == q * ssize
  <2>1. L \in Nat /\ z \in Int
    BY <1>1, <1>4
  <2>2. i = z + (r + 1) /\ r \in Int /\ r + 1 <= ssize /\ i <= size
    BY <1>1
  <2>3. L = ssize \/ size <= z + L
    BY <1>4
  <2> HIDE DEF L, z
  <2>4. r + 1 <= L
    BY <2>1, <2>2, <2>3
  <2> QED BY <2>4 DEF L
<1>6. Len(source[at[q]]) \in Nat /\ r + 1 \in Nat \ {0}
  BY <1>1, <1>4
<1> QED BY <1>2, <1>4, <1>5, <1>6

\* N sectors of words.
Sectors(source, N) ==
  /\ N \in Nat /\ DOMAIN source = 0..(N - 1) /\ N <= FREESECT
  /\ \A s \in DOMAIN source : source[s] \in Seq(Nat)

\* Reading a stream, with a table that ends with the N sectors, gives the words
\* at its places.
ReadsPlaces(source, N, ssize, words, first, size) ==
  LET r == OpenKnown(source, ssize, Array(words, N), first, size)
      p == Spots(ssize, Array(words, Len(words)), first, size)
  IN  r = ReadAs(WordsAt(source, p), r.sects)

\* As it does when the stream is well laid.
LEMMA LaidIsRead ==
  ASSUME NEW source, NEW N, Sectors(source, N),
         NEW words \in Seq(Nat), NEW ssize \in Nat \ {0}, NEW first, NEW size \in Nat,
         Laid(source, ssize, Array(words, Len(words)), first, size)
  PROVE  ReadsPlaces(source, N, ssize, words, first, size)
<1> USE DEF Sectors, ReadsPlaces
<1> DEFINE all == Array(words, Len(words))
           table == Array(words, N)
           n  == CeilDiv(size, ssize)
           at == Walk(all, first, n)
           to == Walk(table, first, n)
           p == Spots(ssize, all, first, size)
           parts == [i \in 1..n |-> source[to[i - 1]]]
           read == FlattenSeq(parts)
           Fine == /\ n <= Cardinality(DOMAIN table)
                   /\ size = 0 => first = ENDOFCHAIN
                   /\ \A i \in 0..(n - 1) : SectorOk(table, source, ssize, to[i])
                   /\ EndsAt(to, n)
                   /\ Len(read) >= size
           m == IF Len(words) < N THEN Len(words) ELSE N
<1>1. OpenKnown(source, ssize, table, first, size)
        = IF Fine THEN ReadAs(SubSeq(read, 1, size), [i \in 1..n |-> to[i - 1]]) ELSE Failed
  BY DEF OpenKnown
<1>2. n \in Nat
  BY CeilDivIs
<1>3. /\ \A i \in 0..n : to[i] = at[i]
      /\ \A i \in 0..(n - 1) : at[i] \in DOMAIN table /\ at[i] \in DOMAIN source
      /\ \A i, j \in 0..(n - 1) : at[i] = at[j] => i = j
      /\ at[0] = first /\ at[n] = ENDOFCHAIN
  <2> HIDE DEF n
  <2> QED BY LaidChain DEF n
<1>4. \A i \in 0..(n - 1) :
        /\ at[i] \in DOMAIN all
        /\ \/ Len(source[at[i]]) = ssize
           \/ i = n - 1 /\ at[i] = Cardinality(DOMAIN source) - 1
  BY DEF Laid
<1>5. DOMAIN table = 0..(m - 1) /\ DOMAIN all = 0..(Len(words) - 1) /\ m \in Nat
  <2>1. m \in Nat /\ DOMAIN table = 0..(m - 1)
    BY ArrayHas
  <2>2. DOMAIN all = 0..(Len(words) - 1)
    BY ArrayHas
  <2> QED BY <2>1, <2>2, Zenon
<1> HIDE DEF m
<1>6. IsFiniteSet(DOMAIN table) /\ Cardinality(DOMAIN table) = m
  BY <1>5, FS_Interval, SMTT(60)
<1>7. Cardinality(DOMAIN source) = N
  BY FS_Interval
<1>8. \A i \in 1..size : p[i][1] \in DOMAIN source /\ p[i][2] \in 1..Len(source[p[i][1]])
  <2>1. \A s \in DOMAIN source : Len(source[s]) \in Nat
    OBVIOUS
  <2> HIDE DEF all
  <2> QED BY <2>1, LaidPlaces DEF all
<1>spots. SpotsAlong(p, at, ssize, size)
  <2> HIDE DEF all
  <2> QED BY SpotsAre, Zenon
<1>9. \A i \in 1..size : /\ (i - 1) \div ssize \in 0..(n - 1)
                         /\ (i - 1) % ssize \in 0..(ssize - 1)
                         /\ i = ((i - 1) \div ssize) * ssize + (((i - 1) % ssize) + 1)
                         /\ p[i][1] = at[(i - 1) \div ssize]
                         /\ p[i][2] = ((i - 1) % ssize) + 1
  <2> SUFFICES ASSUME NEW i \in 1..size
               PROVE  /\ (i - 1) \div ssize \in 0..(n - 1)
                      /\ (i - 1) % ssize \in 0..(ssize - 1)
                      /\ i = ((i - 1) \div ssize) * ssize + (((i - 1) % ssize) + 1)
                      /\ p[i][1] = at[(i - 1) \div ssize]
                      /\ p[i][2] = ((i - 1) % ssize) + 1
    OBVIOUS
  <2> DEFINE q == (i - 1) \div ssize
             r == (i - 1) % ssize
  <2>1. q \in 0..(n - 1) /\ r \in 0..(ssize - 1) /\ i = q * ssize + (r + 1)
    <3>1. WordOf(ssize, n, i, q, r)
      BY PlaceIs, Zenon
    <3> QED BY <3>1, Zenon DEF WordOf
  <2>2. p[i][1] = at[q] /\ p[i][2] = r + 1
    BY <1>spots, Zenon DEF SpotsAlong
  <2> HIDE DEF n, at, p, q, r
  <2> QED BY <2>1, <2>2, Zenon DEF q, r
<1>10. size = 0 => n = 0
  <2>1. size = 0 => n * ssize < ssize
    BY CeilDivIs
  <2> HIDE DEF n
  <2>2. n >= 1 => n * ssize >= 1 * ssize
    BY <1>2
  <2>3. n * ssize \in Nat
    BY <1>2
  <2> QED BY <1>2, <2>1, <2>2, <2>3
<1>11. Len(p) = size
  BY <1>spots, Zenon DEF SpotsAlong
<1> HIDE DEF n, at, to, all, table, p
<1>12. \A i \in 1..n : i - 1 \in 0..(n - 1) /\ i - 1 \in 0..n
  BY <1>2
<1>13. parts \in Seq(Seq(Nat)) /\ Len(parts) = n /\ \A k \in 1..n : parts[k] = source[at[k - 1]]
  <2>1. \A k \in 1..n : parts[k] = source[at[k - 1]] /\ source[at[k - 1]] \in Seq(Nat)
    BY <1>3, <1>12
  <2>2. parts \in [1..n -> Seq(Nat)]
    BY <2>1
  <2> HIDE DEF parts
  <2> QED BY <1>2, <2>1, <2>2, IsSequence
<1>14. \A k \in 1..(n - 1) : Len(parts[k]) = ssize
  <2> SUFFICES ASSUME NEW k \in 1..(n - 1) PROVE Len(parts[k]) = ssize
    OBVIOUS
  <2>1. k \in 1..n /\ k - 1 \in 0..(n - 1) /\ k - 1 # n - 1
    BY <1>2
  <2> QED BY <1>4, <1>13, <2>1
<1> HIDE DEF parts
<1>15. \A k \in 1..n : \A j \in 1..Len(parts[k]) :
         (k - 1) * ssize + j \in 1..Len(read) /\ read[(k - 1) * ssize + j] = parts[k][j]
  <2>1. \A k \in 1..(Len(parts) - 1) : Len(parts[k]) = ssize
    BY <1>13, <1>14
  <2>2. parts \in Seq(Seq(Nat)) /\ Len(parts) = n
    BY <1>13
  <2>3. EvenlyIn(read, parts, ssize)
    BY <2>1, <2>2, FlattenEven, Zenon
  <2> HIDE DEF read
  <2> QED BY <2>2, <2>3, Zenon DEF EvenlyIn
<1>16. read \in Seq(Nat) /\ Len(read) \in Nat
  <2>1. read \in Seq(Nat)
    BY <1>13, FlattenIs
  <2> HIDE DEF read
  <2> QED BY <2>1
<1> HIDE DEF read
<1>17. ASSUME NEW i \in 1..size
       PROVE  i \in 1..Len(read) /\ read[i] = source[p[i][1]][p[i][2]]
  <2> DEFINE q == (i - 1) \div ssize
             r == (i - 1) % ssize
  <2>1. q \in 0..(n - 1) /\ i = q * ssize + (r + 1) /\ p[i][1] = at[q] /\ p[i][2] = r + 1
    BY <1>9
  <2>2. r + 1 \in 1..Len(source[at[q]])
    BY <1>8, <2>1
  <2> HIDE DEF q, r
  <2>3. q + 1 \in 1..n /\ (q + 1) - 1 = q
    BY <1>2, <2>1
  <2>4. parts[q + 1] = source[at[q]]
    BY <1>13, <2>3
  <2>5. /\ ((q + 1) - 1) * ssize + (r + 1) \in 1..Len(read)
        /\ read[((q + 1) - 1) * ssize + (r + 1)] = parts[q + 1][r + 1]
    BY <1>15, <2>2, <2>3, <2>4
  <2> QED BY <2>1, <2>3, <2>4, <2>5
<1>18. Len(read) >= size
  <2>1. CASE size = 0
    BY <1>16, <2>1
  <2>2. CASE size # 0
    <3>1. size \in 1..size
      BY <2>2
    <3> QED BY <1>16, <1>17, <3>1
  <2> QED BY <2>1, <2>2
<1>19. n <= Cardinality(DOMAIN table)
  <2> DEFINE sects == [i \in 1..n |-> at[i - 1]]
  <2>1. sects \in [1..n -> DOMAIN table]
    BY <1>3, <1>12
  <2>2. \A i, j \in 1..n : sects[i] = sects[j] => i = j
    <3> SUFFICES ASSUME NEW i \in 1..n, NEW j \in 1..n, at[i - 1] = at[j - 1] PROVE i = j
      OBVIOUS
    <3>1. i - 1 = j - 1
      BY <1>3, <1>12
    <3> QED BY <1>2, <3>1
  <2> HIDE DEF sects
  <2>3. sects \in Seq(DOMAIN table) /\ Len(sects) = n
    BY <1>2, <2>1, IsSequence
  <2>4. Cardinality(ToSet(sects)) = n
    BY <2>2, <2>3, InjectiveSeq
  <2>5. ToSet(sects) \in SUBSET DOMAIN table
    BY <2>1, <2>3 DEF ToSet
  <2> QED BY <1>6, <2>4, <2>5, FS_Subset
<1>20. \A i \in 0..(n - 1) : SectorOk(table, source, ssize, to[i])
  <2> SUFFICES ASSUME NEW i \in 0..(n - 1) PROVE SectorOk(table, source, ssize, at[i])
    BY <1>2, <1>3
  <2>1. at[i] \in DOMAIN table /\ at[i] \in DOMAIN source
    BY <1>3
  <2>2. CASE Len(source[at[i]]) = ssize
    BY <2>1, <2>2 DEF SectorOk
  <2>3. CASE at[i] = N - 1
    <3>1. at[i] \in 0..(Len(words) - 1)
      BY <1>4, <1>5
    <3>2. m = N
      BY <2>3, <3>1 DEF m
    <3> QED BY <1>6, <2>1, <2>3, <3>2 DEF SectorOk
  <2> QED BY <1>4, <1>7, <2>2, <2>3
<1>21. EndsAt(to, n)
  BY <1>2, <1>3 DEF EndsAt
<1>22. size = 0 => first = ENDOFCHAIN
  BY <1>3, <1>10
<1>23. Fine
  BY <1>18, <1>19, <1>20, <1>21, <1>22
<1>24. SubSeq(read, 1, size) = WordsAt(source, p)
  <2>1. SubSeq(read, 1, size) = [i \in 1..size |-> read[i]]
    <3>1. size \in 0..Len(read)
      BY <1>16, <1>18
    <3>2. SubSeq(read, 1, size) = [i \in 1..(size - 1 + 1) |-> read[i + 1 - 1]]
      BY <1>16, <3>1
    <3> QED BY <3>2
  <2>2. WordsAt(source, p) = [i \in 1..size |-> source[p[i][1]][p[i][2]]]
    BY <1>11 DEF WordsAt
  <2> QED BY <1>17, <2>1, <2>2
<1> DEFINE sects == [i \in 1..n |-> to[i - 1]]
           r == OpenKnown(source, ssize, table, first, size)
<1>25. r = ReadAs(WordsAt(source, p), sects)
  <2> HIDE DEF Fine, sects
  <2> QED BY <1>1, <1>23, <1>24 DEF sects
<1> HIDE DEF sects, r
<1>26. r.sects = sects
  BY <1>25 DEF ReadAs
<1> QED BY <1>25, <1>26 DEF all, table, p, r

-----------------------------------------------------------------------------
(* A file of which one sector is rewritten.                                *)

GoodFile(f) == IsDisk(f.disk) /\ IsHeader(f.header) /\ IsDirs(f.dirs)

\* g is f with another sector s; the others, and the entries in them, are the
\* same.
Rewritten(f, g, s) ==
  /\ g.header = f.header /\ DOMAIN g.disk = DOMAIN f.disk
  /\ \A x \in DOMAIN f.disk : x # s => g.disk[x] = f.disk[x]
  /\ s \in DOMAIN f.disk => Len(g.disk[s]) = SectorWords
  /\ \A x : x # s => EntriesOf(g.dirs, x) = EntriesOf(f.dirs, x)

LEMMA DiskIs ==
  ASSUME NEW d, IsDisk(d)
  PROVE  LET N == Cardinality(DOMAIN d) IN
         N \in Nat /\ DOMAIN d = 0..(N - 1) /\ N <= FREESECT
<1> DEFINE N == Cardinality(DOMAIN d)
<1>1. N \in Nat /\ DOMAIN d = 0..(N - 1) /\ N * SectorWords <= FREESECT
  BY FS_CardinalityType DEF IsDisk
<1> HIDE DEF N
<1>2. SectorWords \in Nat /\ SectorWords >= 1
  BY SizeAssumption
<1>3. N <= N * SectorWords /\ N * SectorWords \in Nat
  BY <1>1, <1>2
<1>4. N <= FREESECT
  BY <1>1, <1>3 DEF FREESECT
<1> QED BY <1>1, <1>4 DEF N

\* The words the table is made of.
LEMMA TablesAre ==
  ASSUME NEW f, GoodFile(f), Leads(f)
  PROVE  \E words \in Seq(Nat) :
           /\ ChainsOf(f) = Array(words, Len(words))
           /\ TableOf(f) = Array(words, Cardinality(DOMAIN f.disk))
<1> DEFINE d == f.disk
           sects == FatSectors(d, f.header)
           parts == [i \in 1..Len(sects) |-> d[sects[i]]]
           words == FlattenSeq(parts)
<1>1. IsDisk(d) /\ IsHeader(f.header) /\ DifatOk(d, f.header)
      /\ \A x \in ToSet(sects) : Readable(d, x)
  BY DEF GoodFile, Leads
<1>2. ChainsOf(f) = Array(words, Len(words)) /\ TableOf(f) = Array(words, Cardinality(DOMAIN d))
  BY DEF ChainsOf, TableOf, FatAll, Fat
<1> HIDE DEF d
<1>3. sects \in Seq(Nat)
  BY <1>1, FatSectorsIs
<1> HIDE DEF sects
<1>4. Len(sects) \in Nat /\ \A i \in 1..Len(sects) : sects[i] \in ToSet(sects)
  BY <1>3 DEF ToSet
<1>5. parts \in [1..Len(sects) -> Seq(Nat)]
  BY <1>1, <1>4 DEF Readable, IsDisk
<1> HIDE DEF parts
<1>6. parts \in Seq(Seq(Nat))
  BY <1>4, <1>5, IsSequence
<1>7. words \in Seq(Nat)
  BY <1>6, FlattenIs
<1> HIDE DEF words
<1> QED BY <1>2, <1>7 DEF d

\* A stream that is well laid in the file is read from it.
LEMMA FileRead ==
  ASSUME NEW f, GoodFile(f), Leads(f), NEW first, NEW size \in Nat, LaidOn(f, first, size)
  PROVE  LET r == OpenKnown(f.disk, SectorWords, TableOf(f), first, size) IN
         r = ReadAs(WordsAt(f.disk, SpotsOn(f, first, size)), r.sects)
<1> DEFINE d == f.disk
           N == Cardinality(DOMAIN d)
<1>1. IsDisk(d) /\ \A s \in DOMAIN d : d[s] \in Seq(Nat)
  BY DEF GoodFile, IsDisk
<1>2. PICK words \in Seq(Nat) : ChainsOf(f) = Array(words, Len(words)) /\ TableOf(f) = Array(words, N)
  BY TablesAre
<1> DEFINE all == Array(words, Len(words))
           table == Array(words, N)
           r == OpenKnown(d, SectorWords, table, first, size)
<1>3. Laid(d, SectorWords, all, first, size) /\ SectorWords \in Nat \ {0}
  BY <1>2, SizeAssumption DEF LaidOn
<1>4. r = ReadAs(WordsAt(d, Spots(SectorWords, all, first, size)), r.sects)
  <2> HIDE DEF d
  <2>1. N \in Nat /\ DOMAIN d = 0..(N - 1) /\ N <= FREESECT
    BY <1>1, DiskIs
  <2> HIDE DEF N
  <2>2. Sectors(d, N)
    BY <1>1, <2>1 DEF Sectors
  <2>3. ReadsPlaces(d, N, SectorWords, words, first, size)
    BY <1>3, <2>2, LaidIsRead
  <2> QED BY <2>3 DEF ReadsPlaces
<1> QED BY <1>2, <1>4 DEF SpotsOn

\* Where its words are.
LEMMA FilePlaces ==
  ASSUME NEW f, GoodFile(f), NEW first, NEW size \in Nat, LaidOn(f, first, size)
  PROVE  LET p == SpotsOn(f, first, size) IN
         /\ Len(p) = size /\ DOMAIN p = 1..size
         /\ \A i \in 1..size : p[i][1] \in DOMAIN f.disk /\ p[i][2] \in 1..Len(f.disk[p[i][1]])
<1> DEFINE d == f.disk
           p == Spots(SectorWords, ChainsOf(f), first, size)
<1>1. \A s \in DOMAIN d : Len(d[s]) \in Nat
  BY DEF GoodFile, IsDisk
<1>2. Laid(d, SectorWords, ChainsOf(f), first, size) /\ SectorWords \in Nat \ {0}
  BY SizeAssumption DEF LaidOn
<1>3. \A i \in 1..size : p[i][1] \in DOMAIN d /\ p[i][2] \in 1..Len(d[p[i][1]])
  <2> HIDE DEF d
  <2> QED BY <1>1, <1>2, LaidPlaces
<1>4. Len(p) = size /\ DOMAIN p = 1..size
  <2>1. SpotsAlong(p, Walk(ChainsOf(f), first, CeilDiv(size, SectorWords)), SectorWords, size)
    BY <1>2, SpotsAre, Zenon
  <2> QED BY <2>1, Zenon DEF SpotsAlong
<1> QED BY <1>3, <1>4 DEF SpotsOn

\* The words of a stream, those of a sector longer or not.
LEMMA WordsAtIs ==
  ASSUME NEW f, GoodFile(f), NEW first, NEW size \in Nat, LaidOn(f, first, size)
  PROVE  LET w == WordsAt(f.disk, SpotsOn(f, first, size)) IN
         w \in Seq(Nat) /\ Len(w) = size
<1> DEFINE p == SpotsOn(f, first, size)
           w == WordsAt(f.disk, p)
<1>1. Len(p) = size /\ \A i \in 1..size : p[i][1] \in DOMAIN f.disk /\ p[i][2] \in 1..Len(f.disk[p[i][1]])
  BY FilePlaces
<1> HIDE DEF p
<1>2. w = [i \in 1..size |-> f.disk[p[i][1]][p[i][2]]]
  BY <1>1 DEF WordsAt
<1>3. \A x \in DOMAIN f.disk : f.disk[x] \in Seq(Nat)
  BY DEF GoodFile, IsDisk
<1>4. \A i \in 1..size : f.disk[p[i][1]][p[i][2]] \in Nat
  <2> SUFFICES ASSUME NEW i \in 1..size PROVE f.disk[p[i][1]][p[i][2]] \in Nat
    OBVIOUS
  <2> DEFINE t == f.disk[p[i][1]]
  <2>1. t \in Seq(Nat) /\ p[i][2] \in 1..Len(t)
    BY <1>1, <1>3
  <2> HIDE DEF t
  <2>2. t[p[i][2]] \in Nat
    BY <2>1
  <2> QED BY <2>2 DEF t
<1> HIDE DEF w
<1>5. w \in [1..size -> Nat]
  BY <1>2, <1>4
<1>6. w \in Seq(Nat) /\ Len(w) = size
  BY <1>5, IsSequence
<1> QED BY <1>6 DEF w, p

\* The DIFAT, when none of its sectors is rewritten.
LEMMA DifatKept ==
  ASSUME NEW f, NEW g, NEW s, GoodFile(f), DifatOk(f.disk, f.header), Rewritten(f, g, s),
         s \notin ToSet(DifatChain(f.disk, f.header))
  PROVE  /\ DifatChain(g.disk, g.header) = DifatChain(f.disk, f.header)
         /\ DifatOk(g.disk, g.header)
<1> DEFINE d == f.disk
           e == g.disk
           h == f.header
           chain == DifatChain(d, h)
<1>1. /\ g.header = h /\ DOMAIN e = DOMAIN d /\ \A x \in DOMAIN d : x # s => e[x] = d[x]
      /\ IsHeader(h) /\ DifatOk(d, h) /\ s \notin ToSet(chain)
  BY DEF Rewritten, GoodFile
<1> HIDE DEF d, e, h
<1>2. CASE h.csectDif = 0
  <2>1. \A x : DifatChain(x, h) = <<>>
    BY <1>2 DEF DifatChain
  <2> QED BY <1>1, <1>2, <2>1 DEF DifatOk, e, d, h
<1>3. CASE h.csectDif # 0
  <2> DEFINE n  == DifatCount(h)
             t  == DifatNext(d)
             u  == DifatNext(e)
             at == Walk(t, h.sectDifStart, n)
             to == Walk(u, h.sectDifStart, n)
  <2>1. /\ h.sectDifStart < Cardinality(DOMAIN d) /\ h.csectDif = n /\ n \in Nat
        /\ \A i \in 0..(n - 1) : Readable(d, at[i])
        /\ at[n] \in EndMarks
    BY <1>1, <1>3 DEF DifatOk, DifatWalk, IsHeader
  <2>2. chain = [i \in 1..n |-> at[i - 1]] /\ DifatChain(e, h) = [i \in 1..n |-> to[i - 1]]
    BY <1>3 DEF DifatChain, DifatWalk
  <2>3. DifatOk(e, h) <=> /\ h.sectDifStart < Cardinality(DOMAIN e) /\ h.csectDif = n
                          /\ \A i \in 0..(n - 1) : Readable(e, to[i])
                          /\ to[n] \in EndMarks
    BY <1>3 DEF DifatOk, DifatWalk
  <2> HIDE DEF n, chain, at, to
  <2>4. \A i \in 0..(n - 1) : at[i] # s /\ Readable(e, at[i])
    <3> SUFFICES ASSUME NEW i \in 0..(n - 1) PROVE at[i] # s /\ Readable(e, at[i])
      OBVIOUS
    <3>1. i + 1 \in 1..n /\ (i + 1) - 1 = i
      BY <2>1
    <3>2. DOMAIN chain = 1..n /\ chain[i + 1] = at[i]
      BY <2>2, <3>1
    <3>3. at[i] \in ToSet(chain)
      BY <3>1, <3>2 DEF ToSet
    <3>4. at[i] # s
      BY <1>1, <3>3
    <3> QED BY <1>1, <2>1, <3>4 DEF Readable
  <2>5. \A i \in 0..(n - 1) : at[i] \in DOMAIN t /\ at[i] \in DOMAIN u /\ t[at[i]] = u[at[i]]
    <3> SUFFICES ASSUME NEW i \in 0..(n - 1)
                 PROVE  at[i] \in DOMAIN t /\ at[i] \in DOMAIN u /\ t[at[i]] = u[at[i]]
      OBVIOUS
    <3> DEFINE x == at[i]
    <3>1. Readable(d, x) /\ Readable(e, x) /\ x # s
      BY <2>1, <2>4
    <3> HIDE DEF x
    <3>2. x \in DOMAIN t /\ x \in DOMAIN u /\ t[x] = d[x][SectorWords] /\ u[x] = e[x][SectorWords]
      BY <3>1 DEF DifatNext, Readable
    <3>3. e[x] = d[x]
      BY <1>1, <3>1 DEF Readable
    <3> QED BY <3>2, <3>3 DEF x
  <2>6. \A i \in 0..n : to[i] = at[i]
    <3> HIDE DEF t, u
    <3> QED BY <2>1, <2>5, WalksAgree DEF at, to
  <2>7. DifatChain(e, h) = chain
    <3>1. \A i \in 1..n : i - 1 \in 0..n
      BY <2>1
    <3> QED BY <2>2, <2>6, <3>1
  <2>8. DifatOk(e, h)
    <3>1. n \in 0..n /\ \A i \in 0..(n - 1) : i \in 0..n
      BY <2>1
    <3> QED BY <1>1, <2>1, <2>3, <2>4, <2>6, <3>1
  <2> QED BY <1>1, <2>7, <2>8 DEF chain, d, e, h
<1> QED BY <1>2, <1>3

\* The table, when none of its sectors is rewritten either.
LEMMA TablesKept ==
  ASSUME NEW f, NEW g, NEW s, GoodFile(f), DifatOk(f.disk, f.header), Rewritten(f, g, s),
         \A x \in ToSet(FatSectors(f.disk, f.header)) : Readable(f.disk, x),
         s \notin ToSet(DifatChain(f.disk, f.header)),
         s \notin ToSet(FatSectors(f.disk, f.header))
  PROVE  /\ FatSectors(g.disk, g.header) = FatSectors(f.disk, f.header)
         /\ ChainsOf(g) = ChainsOf(f) /\ TableOf(g) = TableOf(f)
         /\ \A x \in ToSet(FatSectors(g.disk, g.header)) : Readable(g.disk, x)
<1> DEFINE d == f.disk
           e == g.disk
           h == f.header
           at == DifatChain(d, h)
           sects == FatSectors(d, h)
           N == Cardinality(DOMAIN d)
           Parts(x) == [i \in 1..Len(at) |-> UpToMark(SubSeq(x[at[i]], 1, SectorWords - 1))]
           Words(x) == [i \in 1..Len(sects) |-> x[sects[i]]]
<1>1. /\ g.header = h /\ DOMAIN e = DOMAIN d /\ \A x \in DOMAIN d : x # s => e[x] = d[x]
      /\ IsHeader(h) /\ IsDisk(d)
  BY DEF Rewritten, GoodFile
<1>2. DifatChain(e, h) = at
  BY <1>1, DifatKept
<1>3. ASSUME NEW x, x \in DOMAIN d, x # s PROVE e[x] = d[x]
  BY <1>1, <1>3
<1> HIDE DEF d, e, h
<1>4. FatSectors(e, h) = sects
  <2>1. Len(at) \in Nat /\ \A i \in 1..Len(at) : at[i] \in DOMAIN d /\ at[i] # s
    <3>1. Len(at) \in Nat /\ \A i \in 1..Len(at) : Readable(d, at[i])
      BY <1>1, DifatChainIs DEF d, h
    <3>2. DOMAIN at = 1..Len(at)
      BY <1>1, DifatChainIs DEF d, h
    <3> HIDE DEF at
    <3>3. \A i \in 1..Len(at) : at[i] # s
      BY <3>2 DEF ToSet, at, d, h
    <3> QED BY <3>1, <3>3 DEF Readable
  <2>2. /\ sects = UpToMark(h.slots) \o FlattenSeq(Parts(d))
        /\ FatSectors(e, h) = UpToMark(h.slots) \o FlattenSeq(Parts(e))
    BY <1>2 DEF FatSectors
  <2>3. Parts(d) = Parts(e)
    <3> HIDE DEF at
    <3>1. \A i \in 1..Len(at) : e[at[i]] = d[at[i]]
      BY <1>1, <2>1
    <3> QED BY <3>1
  <2> HIDE DEF Parts
  <2> QED BY <2>2, <2>3
<1>5. sects \in Seq(Nat) /\ Len(sects) \in Nat /\ \A i \in 1..Len(sects) : sects[i] \in ToSet(sects)
  <2>1. sects \in Seq(Nat)
    BY <1>1, FatSectorsIs DEF d, h
  <2> HIDE DEF sects
  <2> QED BY <2>1 DEF ToSet
<1>6. \A x \in ToSet(sects) : x \in DOMAIN d /\ x # s /\ Readable(d, x)
  BY DEF Readable, d, h
<1> HIDE DEF sects
<1>7. Words(e) = Words(d)
  <2>1. \A i \in 1..Len(sects) : e[sects[i]] = d[sects[i]]
    BY <1>1, <1>5, <1>6
  <2> QED BY <2>1
<1>8. /\ FatAll(e, sects) = FatAll(d, sects) /\ Fat(e, sects) = Fat(d, sects)
  <2>1. /\ \A x : FatAll(x, sects) = Array(FlattenSeq(Words(x)), Len(FlattenSeq(Words(x))))
        /\ \A x : Fat(x, sects) = Array(FlattenSeq(Words(x)), Cardinality(DOMAIN x))
    BY DEF FatAll, Fat
  <2> HIDE DEF Words
  <2> QED BY <1>1, <1>7, <2>1
<1>9. \A x \in ToSet(sects) : Readable(e, x)
  BY <1>1, <1>6 DEF Readable
<1> QED BY <1>1, <1>4, <1>8, <1>9 DEF ChainsOf, TableOf, d, e, h, sects

\* The sectors of a stream of unknown length.
LEMMA UnknownSects ==
  ASSUME NEW d, NEW table, IsFiniteSet(DOMAIN table), NEW first, NEW read,
         read = OpenUnknown(d, SectorWords, table, first), read.ok
  PROVE  /\ Len(read.sects) \in Nat
         /\ \A i \in 1..Len(read.sects) : read.sects[i] \in ToSet(read.sects)
<1> DEFINE most == Cardinality(DOMAIN table)
           at == Walk(table, first, most)
           n == ChainLength(table, at, most, FALSE)
           words == FlattenSeq([i \in 1..n |-> d[at[i - 1]]])
           sects == [i \in 1..n |-> at[i - 1]]
           Fine == /\ most = 0 => first = ENDOFCHAIN
                   /\ \A i \in 0..(n - 1) : SectorOk(table, d, SectorWords, at[i])
                   /\ EndsAt(at, n)
<1>1. read = IF Fine THEN ReadAs(words, sects) ELSE Failed
  BY DEF OpenUnknown
<1>2. n \in Nat
  <2>1. most \in Nat
    BY FS_CardinalityType
  <2> HIDE DEF most, at
  <2>2. n \in 0..most
    BY <2>1, ChainLengthIs
  <2> HIDE DEF n
  <2> QED BY <2>1, <2>2
<1> HIDE DEF n, at, most
<1>3. Fine
  <2> HIDE DEF Fine, words, sects
  <2>1. CASE ~Fine
    <3>1. read = Failed
      BY <1>1, <2>1
    <3> QED BY <3>1 DEF Failed
  <2> QED BY <2>1
<1>4. read = ReadAs(words, sects)
  <2> HIDE DEF Fine, words, sects
  <2> QED BY <1>1, <1>3
<1>5. read.sects = sects
  <2> HIDE DEF words, sects
  <2> QED BY <1>4 DEF ReadAs
<1>6. Len(sects) = n /\ DOMAIN sects = 1..n /\ \A i \in 1..n : sects[i] = at[i - 1]
  <2>1. sects \in [1..n -> {at[i - 1] : i \in 1..n}]
    OBVIOUS
  <2>2. Len(sects) = n
    <3> HIDE DEF sects
    <3> QED BY <1>2, <2>1, IsSequence
  <2> QED BY <2>2
<1>7. \A i \in 1..n : sects[i] \in ToSet(sects)
  <2> HIDE DEF sects
  <2> QED BY <1>6 DEF ToSet
<1> HIDE DEF sects
<1> QED BY <1>2, <1>5, <1>6, <1>7

\* The directory stream, when none of its sectors is rewritten.
LEMMA DirectoryKept ==
  ASSUME NEW f, NEW g, NEW s, Rewritten(f, g, s), NEW table, IsFiniteSet(DOMAIN table), NEW first,
         NEW read, read = OpenUnknown(f.disk, SectorWords, table, first),
         read.ok, s \notin ToSet(read.sects)
  PROVE  OpenUnknown(g.disk, SectorWords, table, first) = read
<1> DEFINE d == f.disk
           e == g.disk
           most == Cardinality(DOMAIN table)
           at == Walk(table, first, most)
           n == ChainLength(table, at, most, FALSE)
           Words(x) == FlattenSeq([i \in 1..n |-> x[at[i - 1]]])
           sects == [i \in 1..n |-> at[i - 1]]
           Fine(x) == /\ most = 0 => first = ENDOFCHAIN
                      /\ \A i \in 0..(n - 1) : SectorOk(table, x, SectorWords, at[i])
                      /\ EndsAt(at, n)
           r(x) == OpenUnknown(x, SectorWords, table, first)
<1>1. r(e) = IF Fine(e) THEN ReadAs(Words(e), sects) ELSE Failed
  BY DEF OpenUnknown
<1>2. DOMAIN e = DOMAIN d /\ \A x \in DOMAIN d : x # s => e[x] = d[x]
  BY DEF Rewritten
<1>10. n \in Nat
  <2>1. most \in Nat
    BY FS_CardinalityType
  <2> HIDE DEF most, at
  <2>2. n \in 0..most
    BY <2>1, ChainLengthIs
  <2> HIDE DEF n
  <2> QED BY <2>1, <2>2
<1>11. read = IF Fine(d) THEN ReadAs(Words(d), sects) ELSE Failed
  BY DEF OpenUnknown
<1> HIDE DEF n, at, most, r
<1>12. Fine(d)
  <2> HIDE DEF Fine, Words, sects
  <2>1. CASE ~Fine(d)
    <3>1. read = Failed
      BY <1>11, <2>1
    <3> QED BY <3>1 DEF Failed
  <2> QED BY <2>1
<1>13. read = ReadAs(Words(d), sects)
  <2> HIDE DEF Fine, Words, sects
  <2> QED BY <1>11, <1>12
<1>14. read.sects = sects
  <2> HIDE DEF Words, sects
  <2> QED BY <1>13 DEF ReadAs
<1>15. Len(sects) = n /\ \A i \in 1..n : sects[i] = at[i - 1]
  <2>1. sects \in [1..n -> {at[i - 1] : i \in 1..n}]
    OBVIOUS
  <2>2. Len(sects) = n
    <3> HIDE DEF sects
    <3> QED BY <1>10, <2>1, IsSequence
  <2> QED BY <2>2
<1>3. /\ n \in Nat /\ read = ReadAs(Words(d), sects)
      /\ Fine(d)
      /\ \A i \in 1..n : read.sects[i] \in ToSet(read.sects) /\ read.sects[i] = at[i - 1]
  <2>1. \A i \in 1..Len(read.sects) : read.sects[i] \in ToSet(read.sects)
    <3>1. read = OpenUnknown(d, SectorWords, table, first)
      OBVIOUS
    <3> HIDE DEF d
    <3> QED BY <3>1, UnknownSects
  <2> HIDE DEF Fine, Words, sects
  <2> QED BY <1>10, <1>12, <1>13, <1>14, <1>15, <2>1
<1> HIDE DEF d, e
<1>4. \A i \in 0..(n - 1) : at[i] # s /\ at[i] \in DOMAIN d /\ e[at[i]] = d[at[i]]
  <2> SUFFICES ASSUME NEW i \in 0..(n - 1)
               PROVE  at[i] # s /\ at[i] \in DOMAIN d /\ e[at[i]] = d[at[i]]
    OBVIOUS
  <2>1. i + 1 \in 1..n /\ (i + 1) - 1 = i
    BY <1>3
  <2>2. at[i] \in ToSet(read.sects)
    BY <1>3, <2>1
  <2>3. at[i] # s
    BY <2>2
  <2>4. at[i] \in DOMAIN d
    BY <1>3 DEF SectorOk
  <2> QED BY <1>2, <2>3, <2>4
<1>5. Words(e) = Words(d)
  <2>1. \A i \in 1..n : i - 1 \in 0..(n - 1)
    BY <1>3
  <2>2. [i \in 1..n |-> e[at[i - 1]]] = [i \in 1..n |-> d[at[i - 1]]]
    BY <1>4, <2>1
  <2> QED BY <2>2
<1>6. Fine(e)
  BY <1>2, <1>3, <1>4 DEF SectorOk
<1> HIDE DEF Fine, Words, sects
<1>7. r(e) = read
  BY <1>1, <1>3, <1>5, <1>6
<1> QED BY <1>7 DEF r, e

\* So the entries of the file stay the same, and where they lead.
LEMMA LeadsKept ==
  ASSUME NEW f, NEW g, NEW s, GoodFile(f), Leads(f), Rewritten(f, g, s), s \notin Leading(f)
  PROVE  /\ ChainsOf(g) = ChainsOf(f) /\ TableOf(g) = TableOf(f)
         /\ FolderOf(g) = FolderOf(f) /\ Leads(g)
         /\ \A e : WritePath(g, e) = WritePath(f, e)
<1>1. /\ DifatOk(f.disk, f.header) /\ DirectoryOf(f).ok
      /\ \A x \in ToSet(FatSectors(f.disk, f.header)) : Readable(f.disk, x)
  BY DEF Leads
<1>2. /\ s \notin ToSet(DifatChain(f.disk, f.header))
      /\ s \notin ToSet(FatSectors(f.disk, f.header))
      /\ s \notin ToSet(DirectoryOf(f).sects)
  BY DEF Leading
<1>3. /\ DifatChain(g.disk, g.header) = DifatChain(f.disk, f.header)
      /\ DifatOk(g.disk, g.header)
  BY <1>1, <1>2, DifatKept
<1>4. /\ FatSectors(g.disk, g.header) = FatSectors(f.disk, f.header)
      /\ ChainsOf(g) = ChainsOf(f) /\ TableOf(g) = TableOf(f)
      /\ \A x \in ToSet(FatSectors(g.disk, g.header)) : Readable(g.disk, x)
  BY <1>1, <1>2, TablesKept
<1>5. IsFiniteSet(DOMAIN TableOf(f))
  <2>1. PICK words \in Seq(Nat) : TableOf(f) = Array(words, Cardinality(DOMAIN f.disk))
    BY TablesAre
  <2>2. Cardinality(DOMAIN f.disk) \in Nat
    BY FS_CardinalityType DEF GoodFile, IsDisk
  <2>3. \E m \in Nat : DOMAIN TableOf(f) = 0..(m - 1)
    BY <2>1, <2>2, ArrayHas
  <2> QED BY <2>3, FS_Interval
<1>6. DirectoryOf(g) = DirectoryOf(f) /\ Len(DirectoryOf(f).sects) \in Nat
      /\ \A i \in 1..Len(DirectoryOf(f).sects) : DirectoryOf(f).sects[i] \in ToSet(DirectoryOf(f).sects)
  <2>1. /\ DirectoryOf(f) = OpenUnknown(f.disk, SectorWords, TableOf(f), f.header.sectDirStart)
        /\ DirectoryOf(g) = OpenUnknown(g.disk, SectorWords, TableOf(f), f.header.sectDirStart)
    BY <1>4 DEF DirectoryOf, Rewritten
  <2> DEFINE read == DirectoryOf(f)
             table == TableOf(f)
             first == f.header.sectDirStart
  <2>2. read = OpenUnknown(f.disk, SectorWords, table, first) /\ IsFiniteSet(DOMAIN table)
        /\ Rewritten(f, g, s)
    BY <1>5, <2>1
  <2>3. read.ok
    BY <1>1
  <2>4. s \notin ToSet(read.sects)
    BY <1>2
  <2> HIDE DEF read, table, first
  <2>5. OpenUnknown(g.disk, SectorWords, table, first) = read
    BY <2>2, <2>3, <2>4, DirectoryKept
  <2>6. Len(read.sects) \in Nat /\ \A i \in 1..Len(read.sects) : read.sects[i] \in ToSet(read.sects)
    BY <2>2, <2>3, UnknownSects
  <2> QED BY <2>1, <2>5, <2>6 DEF read, table, first
<1>7. FolderOf(g) = FolderOf(f)
  <2> DEFINE r == DirectoryOf(f)
             all(x) == [i \in 1..Len(r.sects) |-> EntriesOf(x, r.sects[i])]
             n == (Len(r.words) * DirPerSector) \div SectorWords
  <2>1. \A i \in 1..Len(r.sects) : r.sects[i] # s
    BY <1>2, <1>6
  <2>2. \A i \in 1..Len(r.sects) : EntriesOf(g.dirs, r.sects[i]) = EntriesOf(f.dirs, r.sects[i])
    BY <2>1 DEF Rewritten
  <2>3. all(g.dirs) = all(f.dirs)
    BY <2>2
  <2>4. /\ FolderOf(g) = Array(FlattenSeq(all(g.dirs)), n)
        /\ FolderOf(f) = Array(FlattenSeq(all(f.dirs)), n)
    BY <1>6 DEF FolderOf, Folder
  <2> HIDE DEF all, n
  <2> QED BY <2>3, <2>4
<1>8. \A e : WritePath(g, e) = WritePath(f, e)
  BY <1>4 DEF WritePath
<1>9. Leading(g) = Leading(f)
  BY <1>3, <1>4, <1>6 DEF Leading
<1>10. Leads(g)
  BY <1>3, <1>4, <1>6, <1>7, <1>8, <1>9 DEF Leads
<1> QED BY <1>4, <1>7, <1>8, <1>10

\* A well laid stream stays so: a rewritten sector is a whole one.
LEMMA LaidKept ==
  ASSUME NEW f, NEW g, NEW s, Rewritten(f, g, s), ChainsOf(g) = ChainsOf(f),
         NEW first, NEW size \in Nat, LaidOn(f, first, size)
  PROVE  LaidOn(g, first, size)
<1> DEFINE d == f.disk
           e == g.disk
           n  == CeilDiv(size, SectorWords)
           at == Walk(ChainsOf(f), first, n)
           Whole(x, i) == \/ Len(x[at[i]]) = SectorWords
                          \/ /\ i = n - 1 /\ at[i] = Cardinality(DOMAIN x) - 1
                             /\ size <= i * SectorWords + Len(x[at[i]])
<1>1. /\ at[n] = ENDOFCHAIN
      /\ \A i \in 0..(n - 1) : at[i] \in DOMAIN ChainsOf(f) /\ at[i] \in DOMAIN d /\ Whole(d, i)
  BY DEF LaidOn, Laid
<1>2. LaidOn(g, first, size) <=>
        /\ at[n] = ENDOFCHAIN
        /\ \A i \in 0..(n - 1) : at[i] \in DOMAIN ChainsOf(f) /\ at[i] \in DOMAIN e /\ Whole(e, i)
  BY DEF LaidOn, Laid
<1>3. /\ DOMAIN e = DOMAIN d /\ \A x \in DOMAIN d : x # s => e[x] = d[x]
      /\ s \in DOMAIN d => Len(e[s]) = SectorWords
  BY DEF Rewritten
<1> HIDE DEF d, e, at, n
<1>4. \A i \in 0..(n - 1) : Whole(e, i)
  <2> SUFFICES ASSUME NEW i \in 0..(n - 1) PROVE Whole(e, i)
    OBVIOUS
  <2>1. CASE at[i] = s
    BY <1>1, <1>3, <2>1
  <2>2. CASE at[i] # s
    <3>1. e[at[i]] = d[at[i]]
      BY <1>1, <1>3, <2>2
    <3> QED BY <1>1, <1>3, <3>1
  <2> QED BY <2>1, <2>2
<1> HIDE DEF Whole
<1> QED BY <1>1, <1>2, <1>3, <1>4

\* What is at places of which none is in the rewritten sector.
LEMMA WordsSame ==
  ASSUME NEW f, NEW g, NEW s, Rewritten(f, g, s), NEW n \in Nat, NEW places, Len(places) = n,
         \A i \in 1..n : places[i][1] \in DOMAIN f.disk /\ places[i][1] # s
  PROVE  WordsAt(g.disk, places) = WordsAt(f.disk, places)
<1>1. \A x : WordsAt(x, places) = [i \in 1..n |-> x[places[i][1]][places[i][2]]]
  BY DEF WordsAt
<1>2. \A i \in 1..n : g.disk[places[i][1]] = f.disk[places[i][1]]
  BY DEF Rewritten
<1>3. [i \in 1..n |-> g.disk[places[i][1]][places[i][2]]]
        = [i \in 1..n |-> f.disk[places[i][1]][places[i][2]]]
  BY <1>2
<1> QED BY <1>1, <1>3

\* The directory of a file holds entries.
LEMMA FolderHas ==
  ASSUME NEW f, GoodFile(f), Leads(f)
  PROVE  FolderOf(f) \in [DOMAIN FolderOf(f) -> Entry] /\ FolderOf(f)[0] \in Entry
<1> DEFINE d == f.disk
           t == TableOf(f)
           first == f.header.sectDirStart
           r == OpenUnknown(d, SectorWords, t, first)
<1>1. \A s \in DOMAIN d : d[s] \in Seq(Nat)
  BY DEF GoodFile, IsDisk
<1>2. IsFiniteSet(DOMAIN t)
  <2>1. PICK words \in Seq(Nat) : TableOf(f) = Array(words, Cardinality(DOMAIN f.disk))
    BY TablesAre
  <2>2. Cardinality(DOMAIN f.disk) \in Nat
    BY FS_CardinalityType DEF GoodFile, IsDisk
  <2>3. \E m \in Nat : DOMAIN TableOf(f) = 0..(m - 1)
    BY <2>1, <2>2, ArrayHas
  <2> QED BY <2>3, FS_Interval
<1>3. FolderOf(f) = Folder(f.dirs, r) /\ IsDirs(f.dirs) /\ 0 \in DOMAIN FolderOf(f)
  BY DEF FolderOf, DirectoryOf, GoodFile, Leads
<1> HIDE DEF d, t, first
<1>4. r.words \in Seq(Nat) /\ Len(r.sects) \in Nat
  BY <1>1, <1>2, OpenUnknownIs
<1> HIDE DEF r
<1>5. FolderOf(f) \in [DOMAIN FolderOf(f) -> Entry]
  BY <1>3, <1>4, FolderIs
<1> QED BY <1>3, <1>5

\* The sectors a stream is in.
LEMMA BigHome ==
  ASSUME NEW f, NEW e \in Entry, ~InMini(e), LaidOn(f, e.start, e.size), GoodFile(f)
  PROVE  \A i \in 1..e.size : SpotsOn(f, e.start, e.size)[i][1] \in Home(f, e)
<1> DEFINE p == SpotsOn(f, e.start, e.size)
<1>1. e.size \in Nat
  BY DEF Entry
<1>2. DOMAIN p = 1..e.size
  BY <1>1, FilePlaces
<1>3. Home(f, e) = {x[1] : x \in ToSet(p)}
  BY DEF Home, Places
<1> HIDE DEF p
<1>4. \A i \in 1..e.size : p[i] \in ToSet(p)
  <2>1. Len(p) = e.size
    BY <1>1, FilePlaces DEF p
  <2> QED BY <2>1 DEF ToSet
<1> QED BY <1>3, <1>4 DEF p

\* Places are a sequence.
LEMMA SpotsSeq ==
  ASSUME NEW f, GoodFile(f), NEW first, NEW size \in Nat, LaidOn(f, first, size)
  PROVE  SpotsOn(f, first, size) \in Seq({SpotsOn(f, first, size)[i] : i \in 1..size})
<1> DEFINE n  == CeilDiv(size, SectorWords)
           at == Walk(ChainsOf(f), first, n)
           p == [i \in 1..size |-> <<at[(i - 1) \div SectorWords], ((i - 1) % SectorWords) + 1>>]
<1>1. SpotsOn(f, first, size) = p
  BY DEF SpotsOn, Spots
<1>2. p \in [1..size -> {p[i] : i \in 1..size}]
  OBVIOUS
<1> HIDE DEF p
<1>3. p \in Seq({p[i] : i \in 1..size})
  BY <1>2, IsSequence
<1> QED BY <1>1, <1>3

LEMMA MiniHome ==
  ASSUME NEW f, NEW e \in Entry, InMini(e), MiniTableLaid(f), MiniStoreLaid(f),
         GoodFile(f), Leads(f)
  PROVE  /\ \A i \in 1..(f.header.csectMiniFat * SectorWords) : MiniTableSpots(f)[i][1] \in Home(f, e)
         /\ \A i \in 1..FolderOf(f)[0].size : MiniStoreSpots(f)[i][1] \in Home(f, e)
<1> DEFINE n == f.header.csectMiniFat * SectorWords
           m == FolderOf(f)[0].size
           a == MiniTableSpots(f)
           b == MiniStoreSpots(f)
           S == {a[i] : i \in 1..n} \cup {b[i] : i \in 1..m}
<1>1. n \in Nat /\ m \in Nat
  <2>1. f.header.csectMiniFat \in Nat /\ SectorWords \in Nat
    BY SizeAssumption DEF GoodFile, IsHeader
  <2>2. FolderOf(f)[0] \in Entry
    BY FolderHas
  <2> QED BY <2>1, <2>2 DEF Entry
<1>2. a = SpotsOn(f, f.header.MiniFatStart, n) /\ LaidOn(f, f.header.MiniFatStart, n)
      /\ b = SpotsOn(f, FolderOf(f)[0].start, m) /\ LaidOn(f, FolderOf(f)[0].start, m)
  BY DEF MiniTableSpots, MiniStoreSpots, MiniTableLaid, MiniStoreLaid
<1>3. Home(f, e) = {x[1] : x \in ToSet(a \o b)}
  BY DEF Home
<1> HIDE DEF n, m, a, b
<1>4. Len(a) = n /\ Len(b) = m
  BY <1>1, <1>2, FilePlaces
<1>5. a \in Seq({a[i] : i \in 1..n}) /\ b \in Seq({b[i] : i \in 1..m})
  BY <1>1, <1>2, SpotsSeq
<1>6. a \in Seq(S) /\ b \in Seq(S)
  BY <1>1, <1>4, <1>5
<1> HIDE DEF S
<1>7. /\ \A i \in 1..n : i \in 1..Len(a \o b) /\ (a \o b)[i] = a[i]
      /\ \A i \in 1..m : n + i \in 1..Len(a \o b) /\ (a \o b)[n + i] = b[i]
  BY <1>1, <1>4, <1>6
<1>8. (\A i \in 1..n : a[i] \in ToSet(a \o b)) /\ (\A i \in 1..m : b[i] \in ToSet(a \o b))
  <2> DEFINE c == a \o b
  <2>1. c \in Seq(S)
    BY <1>6
  <2>2. \A i \in 1..Len(c) : c[i] \in ToSet(c)
    <3> HIDE DEF c
    <3> QED BY <2>1 DEF ToSet
  <2> HIDE DEF c
  <2> QED BY <1>7, <2>2 DEF c
<1> QED BY <1>3, <1>8 DEF n, m, a, b

\* The words of a mini sector are words of the ministream.
LEMMA MiniSectorHas ==
  ASSUME NEW W \in Seq(Nat), NEW m \in DOMAIN MiniSectors(W), NEW o \in 1..Len(MiniSectors(W)[m])
  PROVE  m * MiniWords + o \in 1..Len(W) /\ MiniSectors(W)[m][o] = W[m * MiniWords + o]
<1> DEFINE L == Len(W)
           n == CeilDiv(L, MiniWords)
           z == m * MiniWords
           to == IF z + MiniWords < L THEN z + MiniWords ELSE L
<1>1. L \in Nat /\ MiniWords \in Nat \ {0}
  BY SizeAssumption
<1>2. n \in Nat /\ n * MiniWords < L + MiniWords
  BY <1>1, CeilDivIs
<1>3. DOMAIN MiniSectors(W) = 0..(n - 1)
  BY DEF MiniSectors
<1> HIDE DEF n
<1>4. m \in 0..(n - 1) /\ m \in Nat
  BY <1>3
<1>5. (m + 1) * MiniWords = z + MiniWords /\ z \in Nat
  BY <1>1, <1>4
<1>6. z < L
  <2>1. m + 1 <= n
    BY <1>2, <1>4
  <2>2. (m + 1) * MiniWords <= n * MiniWords
    BY <1>1, <1>2, <1>4, <2>1
  <2>3. n * MiniWords \in Nat
    BY <1>1, <1>2
  <2> QED BY <1>1, <1>2, <1>5, <2>2, <2>3
<1>7. MiniSectors(W)[m] = SubSeq(W, z + 1, to)
  <2>1. MiniSectors(W)[m] = SubSeq(W, z + 1, IF (m + 1) * MiniWords < L THEN (m + 1) * MiniWords ELSE L)
    BY <1>3, <1>4 DEF MiniSectors
  <2> QED BY <1>5, <2>1
<1> HIDE DEF z
<1>8. to \in 0..L /\ to \in Nat
  BY <1>1, <1>5
<1> HIDE DEF to
<1>9. SubSeq(W, z + 1, to) = [i \in 1..(to - (z + 1) + 1) |-> W[i + (z + 1) - 1]]
      /\ Len(SubSeq(W, z + 1, to)) = IF z + 1 <= to THEN to - (z + 1) + 1 ELSE 0
  BY <1>5, <1>8
<1>10. z + 1 <= to
  <2> DEFINE l == Len(SubSeq(W, z + 1, to))
  <2>1. o \in 1..l
    BY <1>7
  <2>2. ~(z + 1 <= to) => l = 0
    BY <1>9
  <2> HIDE DEF l
  <2> QED BY <2>1, <2>2
<1>11. o \in 1..(to - z)
  <2>1. o \in 1..Len(SubSeq(W, z + 1, to))
    BY <1>7
  <2> QED BY <1>5, <1>8, <1>9, <1>10, <2>1
<1>12. MiniSectors(W)[m][o] = W[o + (z + 1) - 1] /\ o + (z + 1) - 1 = z + o
  BY <1>5, <1>7, <1>8, <1>9, <1>11
<1>13. z + o \in 1..L
  BY <1>5, <1>8, <1>11
<1>14. MiniSectors(W)[m][o] = W[z + o]
  BY <1>12, Zenon
<1> QED BY <1>13, <1>14, Zenon DEF z

\* The places of a small stream are in a ministream of that many words.
LEMMA MiniPlaces ==
  ASSUME NEW f, NEW e \in Entry, InMini(e), StreamLaid(f, e), GoodFile(f), Leads(f)
  PROVE  LET W == WordsAt(f.disk, MiniStoreSpots(f))
             p == Spots(MiniWords, MiniChains(f), e.start, e.size) IN
         \A i \in 1..e.size :
           /\ p[i][1] * MiniWords + p[i][2] \in 1..Len(W)
           /\ MiniSectors(W)[p[i][1]][p[i][2]] = W[p[i][1] * MiniWords + p[i][2]]
<1> DEFINE W == WordsAt(f.disk, MiniStoreSpots(f))
           source == MiniSectors(W)
           p == Spots(MiniWords, MiniChains(f), e.start, e.size)
<1>1. Laid(source, MiniWords, MiniChains(f), e.start, e.size) /\ MiniStoreLaid(f)
  BY DEF StreamLaid, MiniStore
<1>2. e.size \in Nat /\ FolderOf(f)[0].size \in Nat /\ MiniWords \in Nat \ {0}
  BY FolderHas, SizeAssumption DEF Entry
<1>3. W \in Seq(Nat)
  BY <1>1, <1>2, WordsAtIs DEF MiniStoreLaid, MiniStoreSpots
<1> HIDE DEF W
<1>4. \A s \in DOMAIN source : Len(source[s]) \in Nat
  <2>1. \A s \in DOMAIN source : source[s] \in Seq(Nat)
    BY <1>3, MiniSectorsIs
  <2> HIDE DEF source
  <2> QED BY <2>1
<1>5. \A i \in 1..e.size : p[i][1] \in DOMAIN source /\ p[i][2] \in 1..Len(source[p[i][1]])
  <2> HIDE DEF source
  <2> QED BY <1>1, <1>2, <1>4, LaidPlaces
<1> HIDE DEF p
<1>6. ASSUME NEW i \in 1..e.size
      PROVE  /\ p[i][1] * MiniWords + p[i][2] \in 1..Len(W)
             /\ source[p[i][1]][p[i][2]] = W[p[i][1] * MiniWords + p[i][2]]
  <2> DEFINE m == p[i][1]
             o == p[i][2]
  <2>1. m \in DOMAIN source /\ o \in 1..Len(source[m])
    BY <1>5
  <2> HIDE DEF m, o
  <2>2. m * MiniWords + o \in 1..Len(W) /\ source[m][o] = W[m * MiniWords + o]
    BY <1>3, <2>1, MiniSectorHas
  <2> QED BY <2>2 DEF m, o
<1> QED BY <1>6 DEF W, p

\* They are places of the ministream.
LEMMA MiniPlacesAre ==
  ASSUME NEW f, NEW e \in Entry, InMini(e), StreamLaid(f, e), GoodFile(f), Leads(f)
  PROVE  LET p == Spots(MiniWords, MiniChains(f), e.start, e.size) IN
         /\ Len(Places(f, e)) = e.size
         /\ \A i \in 1..e.size :
              /\ p[i][1] * MiniWords + p[i][2] \in 1..FolderOf(f)[0].size
              /\ Places(f, e)[i] = MiniStoreSpots(f)[p[i][1] * MiniWords + p[i][2]]
<1> DEFINE W == WordsAt(f.disk, MiniStoreSpots(f))
           p == Spots(MiniWords, MiniChains(f), e.start, e.size)
           q == [i \in 1..e.size |-> MiniStoreSpots(f)[p[i][1] * MiniWords + p[i][2]]]
<1>1. MiniStoreLaid(f)
  BY DEF StreamLaid
<1>2. e.size \in Nat /\ FolderOf(f)[0].size \in Nat
  BY FolderHas DEF Entry
<1>3. Len(W) = FolderOf(f)[0].size
  BY <1>1, <1>2, WordsAtIs DEF MiniStoreLaid, MiniStoreSpots
<1>4. \A i \in 1..e.size : p[i][1] * MiniWords + p[i][2] \in 1..Len(W)
  BY MiniPlaces
<1>5. Places(f, e) = q
  BY DEF Places
<1> HIDE DEF p
<1>6. q \in [1..e.size -> {q[i] : i \in 1..e.size}] /\ DOMAIN q = 1..e.size
      /\ \A i \in 1..e.size : q[i] = MiniStoreSpots(f)[p[i][1] * MiniWords + p[i][2]]
  OBVIOUS
<1> HIDE DEF q, W
<1>7. Len(q) = e.size
  BY <1>2, <1>6, IsSequence
<1> QED BY <1>3, <1>4, <1>5, <1>6, <1>7 DEF p

\* The mini table and the ministream, when neither is written to.
LEMMA MiniKept ==
  ASSUME NEW f, NEW g, NEW s, GoodFile(f), Leads(f), Rewritten(f, g, s), s \notin Leading(f),
         NEW e \in Entry, InMini(e), MiniTableLaid(f), MiniStoreLaid(f), s \notin Home(f, e)
  PROVE  /\ MiniTableSpots(g) = MiniTableSpots(f) /\ MiniStoreSpots(g) = MiniStoreSpots(f)
         /\ MiniTableLaid(g) /\ MiniStoreLaid(g)
         /\ WordsAt(g.disk, MiniTableSpots(f)) = WordsAt(f.disk, MiniTableSpots(f))
         /\ WordsAt(g.disk, MiniStoreSpots(f)) = WordsAt(f.disk, MiniStoreSpots(f))
<1> DEFINE n == f.header.csectMiniFat * SectorWords
           m == FolderOf(f)[0].size
           first == f.header.MiniFatStart
           root == FolderOf(f)[0].start
<1>1. n \in Nat /\ m \in Nat
  <2>1. f.header.csectMiniFat \in Nat /\ SectorWords \in Nat
    BY SizeAssumption DEF GoodFile, IsHeader
  <2> QED BY <2>1, FolderHas DEF Entry
<1>2. ChainsOf(g) = ChainsOf(f) /\ FolderOf(g) = FolderOf(f) /\ g.header = f.header
  BY LeadsKept DEF Rewritten
<1>3. LaidOn(f, first, n) /\ LaidOn(f, root, m)
  BY DEF MiniTableLaid, MiniStoreLaid
<1>4. MiniTableSpots(f) = SpotsOn(f, first, n) /\ MiniStoreSpots(f) = SpotsOn(f, root, m)
  BY DEF MiniTableSpots, MiniStoreSpots
<1>5. MiniTableSpots(g) = MiniTableSpots(f) /\ MiniStoreSpots(g) = MiniStoreSpots(f)
  BY <1>2 DEF MiniTableSpots, MiniStoreSpots, SpotsOn
<1>6. (MiniTableLaid(g) <=> LaidOn(g, first, n)) /\ (MiniStoreLaid(g) <=> LaidOn(g, root, m))
  BY <1>2 DEF MiniTableLaid, MiniStoreLaid
<1>7. /\ \A i \in 1..n : MiniTableSpots(f)[i][1] \in Home(f, e)
      /\ \A i \in 1..m : MiniStoreSpots(f)[i][1] \in Home(f, e)
  BY MiniHome
<1> HIDE DEF n, m, first, root
<1>8. LaidOn(g, first, n) /\ LaidOn(g, root, m)
  BY <1>1, <1>2, <1>3, LaidKept
<1>9. WordsAt(g.disk, MiniTableSpots(f)) = WordsAt(f.disk, MiniTableSpots(f))
  <2> DEFINE p == MiniTableSpots(f)
  <2>3. Len(SpotsOn(f, first, n)) = n
        /\ \A i \in 1..n : SpotsOn(f, first, n)[i][1] \in DOMAIN f.disk
    BY <1>1, <1>3, FilePlaces
  <2>1. Len(p) = n /\ \A i \in 1..n : p[i][1] \in DOMAIN f.disk
    BY <1>4, <2>3
  <2>2. \A i \in 1..n : p[i][1] # s
    BY <1>7
  <2> HIDE DEF p
  <2>4. WordsAt(g.disk, p) = WordsAt(f.disk, p)
    BY <1>1, <2>1, <2>2, WordsSame
  <2> QED BY <2>4 DEF p
<1>10. WordsAt(g.disk, MiniStoreSpots(f)) = WordsAt(f.disk, MiniStoreSpots(f))
  <2> DEFINE p == MiniStoreSpots(f)
  <2>3. Len(SpotsOn(f, root, m)) = m
        /\ \A i \in 1..m : SpotsOn(f, root, m)[i][1] \in DOMAIN f.disk
    BY <1>1, <1>3, FilePlaces
  <2>1. Len(p) = m /\ \A i \in 1..m : p[i][1] \in DOMAIN f.disk
    BY <1>4, <2>3
  <2>2. \A i \in 1..m : p[i][1] # s
    BY <1>7
  <2> HIDE DEF p
  <2>4. WordsAt(g.disk, p) = WordsAt(f.disk, p)
    BY <1>1, <2>1, <2>2, WordsSame
  <2> QED BY <2>4 DEF p
<1> QED BY <1>5, <1>6, <1>8, <1>9, <1>10

\* A small stream stays where it is.
LEMMA SmallKept ==
  ASSUME NEW f, NEW g, NEW s, GoodFile(f), Leads(f), Rewritten(f, g, s), s \notin Leading(f),
         NEW e \in Entry, InMini(e), StreamLaid(f, e), s \notin Home(f, e)
  PROVE  /\ StreamLaid(g, e) /\ Places(g, e) = Places(f, e) /\ Home(g, e) = Home(f, e)
         /\ WordsAt(g.disk, Places(f, e)) = WordsAt(f.disk, Places(f, e))
<1>1. MiniTableLaid(f) /\ MiniStoreLaid(f)
      /\ Laid(MiniStore(f), MiniWords, MiniChains(f), e.start, e.size)
  BY DEF StreamLaid
<1>2. /\ MiniTableSpots(g) = MiniTableSpots(f) /\ MiniStoreSpots(g) = MiniStoreSpots(f)
      /\ MiniTableLaid(g) /\ MiniStoreLaid(g)
      /\ WordsAt(g.disk, MiniTableSpots(f)) = WordsAt(f.disk, MiniTableSpots(f))
      /\ WordsAt(g.disk, MiniStoreSpots(f)) = WordsAt(f.disk, MiniStoreSpots(f))
  BY <1>1, MiniKept
<1>3. MiniChains(g) = MiniChains(f) /\ MiniStore(g) = MiniStore(f)
  BY <1>2 DEF MiniChains, MiniStore
<1>4. StreamLaid(g, e)
  BY <1>1, <1>2, <1>3 DEF StreamLaid
<1>5. Places(g, e) = Places(f, e)
  BY <1>2, <1>3 DEF Places
<1>6. Home(g, e) = Home(f, e)
  BY <1>2 DEF Home
<1>7. WordsAt(g.disk, Places(f, e)) = WordsAt(f.disk, Places(f, e))
  <2> DEFINE q == Places(f, e)
             m == FolderOf(f)[0].size
             b == MiniStoreSpots(f)
             p == Spots(MiniWords, MiniChains(f), e.start, e.size)
  <2>1. m \in Nat /\ e.size \in Nat
    BY FolderHas DEF Entry
  <2>2. /\ Len(q) = e.size
        /\ \A i \in 1..e.size : p[i][1] * MiniWords + p[i][2] \in 1..m
                                /\ q[i] = b[p[i][1] * MiniWords + p[i][2]]
    BY MiniPlacesAre
  <2>3. \A i \in 1..m : b[i][1] \in DOMAIN f.disk
    BY <1>1, <2>1, FilePlaces DEF MiniStoreSpots, MiniStoreLaid
  <2>4. \A i \in 1..m : b[i][1] # s
    BY <1>1, MiniHome
  <2> HIDE DEF q, m, b, p
  <2>5. \A i \in 1..e.size : q[i][1] \in DOMAIN f.disk /\ q[i][1] # s
    BY <2>2, <2>3, <2>4
  <2>6. WordsAt(g.disk, q) = WordsAt(f.disk, q)
    BY <2>1, <2>2, <2>5, WordsSame
  <2> QED BY <2>6 DEF q
<1> QED BY <1>4, <1>5, <1>6, <1>7

\* A big stream too; its words are the same if none of its own sectors is
\* written to.
LEMMA BigKept ==
  ASSUME NEW f, NEW g, NEW s, GoodFile(f), Leads(f), Rewritten(f, g, s), s \notin Leading(f),
         NEW e \in Entry, ~InMini(e), StreamLaid(f, e)
  PROVE  /\ StreamLaid(g, e) /\ Places(g, e) = Places(f, e) /\ Home(g, e) = Home(f, e)
         /\ s \notin Home(f, e) => WordsAt(g.disk, Places(f, e)) = WordsAt(f.disk, Places(f, e))
<1> DEFINE p == SpotsOn(f, e.start, e.size)
<1>1. LaidOn(f, e.start, e.size) /\ e.size \in Nat
  BY DEF StreamLaid, Entry
<1>2. ChainsOf(g) = ChainsOf(f)
  BY LeadsKept
<1>3. StreamLaid(g, e)
  BY <1>1, <1>2, LaidKept DEF StreamLaid
<1>4. Places(f, e) = p /\ Places(g, e) = p
  BY <1>2 DEF Places, SpotsOn
<1>5. Home(g, e) = Home(f, e)
  BY <1>4 DEF Home
<1>6. Len(p) = e.size /\ \A i \in 1..e.size : p[i][1] \in DOMAIN f.disk
  BY <1>1, FilePlaces
<1>7. \A i \in 1..e.size : p[i][1] \in Home(f, e)
  BY <1>1, BigHome
<1> HIDE DEF p
<1>8. s \notin Home(f, e) => WordsAt(g.disk, p) = WordsAt(f.disk, p)
  <2> SUFFICES ASSUME s \notin Home(f, e) PROVE WordsAt(g.disk, p) = WordsAt(f.disk, p)
    OBVIOUS
  <2>1. \A i \in 1..e.size : p[i][1] # s
    BY <1>7
  <2> QED BY <1>1, <1>6, <2>1, WordsSame
<1> QED BY <1>3, <1>4, <1>5, <1>8

\* A stream of the file f that no damage reaches.
Held(f, sid) == Leads(f) /\ sid \in DOMAIN FolderOf(f) /\ Undamaged(f, sid)

\* It stays one when a sector is written that leads nowhere, and that is not
\* one of the mini table or the ministream it is in.
LEMMA HeldKept ==
  ASSUME NEW f, NEW g, NEW s, NEW sid, GoodFile(f), Held(f, sid), Rewritten(f, g, s),
         s \notin Leading(f), InMini(FolderOf(f)[sid]) => s \notin Home(f, FolderOf(f)[sid])
  PROVE  /\ Held(g, sid)
         /\ Places(g, FolderOf(f)[sid]) = Places(f, FolderOf(f)[sid])
         /\ s \notin Home(f, FolderOf(f)[sid]) =>
              WordsAt(g.disk, Places(f, FolderOf(f)[sid]))
                = WordsAt(f.disk, Places(f, FolderOf(f)[sid]))
<1> DEFINE e == FolderOf(f)[sid]
<1>1. Leads(f) /\ sid \in DOMAIN FolderOf(f) /\ Undamaged(f, sid)
  BY DEF Held
<1>2. FolderOf(g) = FolderOf(f) /\ Leads(g) /\ \A x : WritePath(g, x) = WritePath(f, x)
  BY <1>1, LeadsKept
<1>3. e \in Entry
  BY <1>1, FolderHas
<1>4. /\ e.type = "stream" /\ sid # NOSTREAM /\ StreamLaid(f, e)
      /\ \A x \in DOMAIN FolderOf(f) \ {sid} : WritePath(f, FolderOf(f)[x]) \cap Home(f, e) = {}
  BY <1>1 DEF Undamaged
<1>5. InMini(e) => s \notin Home(f, e)
  OBVIOUS
<1> DEFINE Same == StreamLaid(g, e) /\ Places(g, e) = Places(f, e) /\ Home(g, e) = Home(f, e)
           Stays == s \notin Home(f, e) => WordsAt(g.disk, Places(f, e)) = WordsAt(f.disk, Places(f, e))
<1>6. Same /\ Stays
  <2> HIDE DEF e
  <2>1. CASE InMini(e)
    BY <1>1, <1>3, <1>4, <1>5, <2>1, SmallKept
  <2>2. CASE ~InMini(e)
    BY <1>1, <1>3, <1>4, <2>2, BigKept
  <2> QED BY <2>1, <2>2
<1>7. Undamaged(g, sid) <=>
        /\ e.type = "stream" /\ sid # NOSTREAM /\ StreamLaid(g, e)
        /\ \A x \in DOMAIN FolderOf(f) \ {sid} : WritePath(f, FolderOf(f)[x]) \cap Home(g, e) = {}
  BY <1>2 DEF Undamaged
<1> HIDE DEF e
<1>8. Undamaged(g, sid)
  BY <1>4, <1>6, <1>7
<1>9. Held(g, sid)
  BY <1>1, <1>2, <1>8 DEF Held
<1> QED BY <1>6, <1>9 DEF e

-----------------------------------------------------------------------------
(* Reading a stream that no damage reaches.                                *)

\* A ministream has fewer mini sectors than there are marks.
LEMMA MiniStoreFits ==
  ASSUME NEW f, GoodFile(f), Leads(f), MiniStoreLaid(f)
  PROVE  CeilDiv(FolderOf(f)[0].size, MiniWords) \in Nat
         /\ CeilDiv(FolderOf(f)[0].size, MiniWords) <= FREESECT
<1> DEFINE d == f.disk
           t == TableOf(f)
           R == FolderOf(f)[0].size
           first == FolderOf(f)[0].start
           r == OpenKnown(d, SectorWords, t, first, R)
           C == Cardinality(DOMAIN t)
           n == CeilDiv(R, SectorWords)
           N == CeilDiv(R, MiniWords)
<1>1. R \in Nat /\ SectorWords \in Nat \ {0} /\ MiniWords \in Nat \ {0}
  BY FolderHas, SizeAssumption DEF Entry
<1>2. r = ReadAs(WordsAt(d, SpotsOn(f, first, R)), r.sects)
  BY <1>1, FileRead DEF MiniStoreLaid
<1>3. IsDisk(d) /\ \A s \in DOMAIN d : d[s] \in Seq(Nat)
  BY DEF GoodFile, IsDisk
<1>4. IsTable(t, d)
  <2>1. FatSectors(d, f.header) \in Seq(Nat)
    BY FatSectorsIs DEF GoodFile, Leads
  <2>2. \A i \in 1..Len(FatSectors(d, f.header)) : Readable(d, FatSectors(d, f.header)[i])
    <3> DEFINE a == FatSectors(d, f.header)
    <3>1. \A s \in ToSet(a) : Readable(d, s)
      BY DEF Leads
    <3>2. a \in Seq(Nat)
      BY <2>1
    <3> HIDE DEF a
    <3>3. \A i \in 1..Len(a) : a[i] \in ToSet(a)
      BY <3>2 DEF ToSet
    <3>4. \A i \in 1..Len(a) : Readable(d, a[i])
      BY <3>1, <3>3
    <3> QED BY <3>4 DEF a
  <2> QED BY <1>3, <2>1, <2>2, FatIs DEF TableOf
<1> HIDE DEF d, t, R, first
<1>5. ENDOFCHAIN \notin DOMAIN t /\ C \in Nat /\ C * SectorWords <= FREESECT
  BY <1>3, <1>4, TableIs
<1> HIDE DEF C
<1>6. r.ok
  <2> HIDE DEF r
  <2> QED BY <1>2 DEF ReadAs
<1>7. n <= C
  BY <1>1, <1>3, <1>5, <1>6, OpenKnownIs DEF C
<1>8. n \in Nat /\ R <= n * SectorWords
  BY <1>1, CeilDivIs
<1> HIDE DEF n
<1>9. R <= FREESECT
  <2>1. n * SectorWords <= C * SectorWords
    BY <1>1, <1>5, <1>7, <1>8
  <2>2. n * SectorWords \in Nat /\ C * SectorWords \in Nat
    BY <1>1, <1>5, <1>8
  <2> QED BY <1>1, <1>5, <1>8, <2>1, <2>2 DEF FREESECT
<1>10. N \in Nat /\ N * MiniWords < R + MiniWords
  BY <1>1, CeilDivIs
<1> HIDE DEF N
<1>11. N <= R
  <2>1. N >= R + 1 => N * MiniWords >= (R + 1) * MiniWords
    BY <1>1, <1>10
  <2>2. (R + 1) * MiniWords = R * MiniWords + MiniWords /\ R * MiniWords >= R
    BY <1>1
  <2>3. N * MiniWords \in Nat /\ R * MiniWords \in Nat
    BY <1>1, <1>10
  <2> QED BY <1>1, <1>10, <2>1, <2>2, <2>3
<1>12. N <= FREESECT
  BY <1>1, <1>9, <1>10, <1>11 DEF FREESECT
<1> QED BY <1>10, <1>12 DEF N, R

\* The words of a small stream are those at its places.
LEMMA SmallRead ==
  ASSUME NEW f, GoodFile(f), Leads(f), NEW e \in Entry, InMini(e), StreamLaid(f, e),
         NEW W, W = WordsAt(f.disk, MiniStoreSpots(f)),
         NEW T, T = WordsAt(f.disk, MiniTableSpots(f)),
         NEW r, r = OpenKnown(MiniSectors(W), MiniWords,
                              Array(T, CeilDiv(FolderOf(f)[0].size, MiniWords)), e.start, e.size)
  PROVE  r = ReadAs(WordsAt(f.disk, Places(f, e)), r.sects)
<1> DEFINE R == FolderOf(f)[0].size
           N == CeilDiv(R, MiniWords)
           n == f.header.csectMiniFat * SectorWords
           source == MiniSectors(W)
           first == e.start
           size == e.size
           p == Spots(MiniWords, MiniChains(f), first, size)
<1>1. R \in Nat /\ n \in Nat /\ MiniWords \in Nat \ {0} /\ size \in Nat
  <2>1. f.header.csectMiniFat \in Nat /\ SectorWords \in Nat /\ MiniWords \in Nat \ {0}
    BY SizeAssumption DEF GoodFile, IsHeader
  <2> QED BY <2>1, FolderHas DEF Entry
<1>2. /\ MiniTableLaid(f) /\ MiniStoreLaid(f)
      /\ Laid(source, MiniWords, MiniChains(f), first, size)
  BY DEF StreamLaid, MiniStore
<1>3. W \in Seq(Nat) /\ Len(W) = R
  BY <1>1, <1>2, WordsAtIs DEF MiniStoreLaid, MiniStoreSpots
<1>4. T \in Seq(Nat)
  BY <1>1, <1>2, WordsAtIs DEF MiniTableLaid, MiniTableSpots
<1>5. MiniChains(f) = Array(T, Len(T))
  BY DEF MiniChains
<1>6. N \in Nat /\ N <= FREESECT
  BY <1>2, MiniStoreFits
<1>7. DOMAIN source = 0..(N - 1)
  BY <1>3 DEF MiniSectors
<1>8. \A s \in DOMAIN source : source[s] \in Seq(Nat)
  BY <1>3, MiniSectorsIs
<1>9. r = OpenKnown(source, MiniWords, Array(T, N), first, size)
  OBVIOUS
<1>10. \A i \in 1..size : p[i][1] * MiniWords + p[i][2] \in 1..Len(W)
         /\ source[p[i][1]][p[i][2]] = W[p[i][1] * MiniWords + p[i][2]]
  BY MiniPlaces
<1>11. /\ Len(Places(f, e)) = size
       /\ \A i \in 1..size : Places(f, e)[i] = MiniStoreSpots(f)[p[i][1] * MiniWords + p[i][2]]
  BY MiniPlacesAre
<1>12. Len(p) = size
  <2>1. SpotsAlong(p, Walk(MiniChains(f), first, CeilDiv(size, MiniWords)), MiniWords, size)
    BY <1>1, SpotsAre, Zenon
  <2> QED BY <2>1, Zenon DEF SpotsAlong
<1>13. Len(MiniStoreSpots(f)) = R
  BY <1>1, <1>2, FilePlaces DEF MiniStoreLaid, MiniStoreSpots
<1> HIDE DEF source, first, size, N, p
<1>14. r = ReadAs(WordsAt(source, p), r.sects)
  <2>1. Laid(source, MiniWords, Array(T, Len(T)), first, size)
    BY <1>2, <1>5
  <2> DEFINE r1 == OpenKnown(source, MiniWords, Array(T, N), first, size)
             p1 == Spots(MiniWords, Array(T, Len(T)), first, size)
  <2>2. r1 = ReadAs(WordsAt(source, p1), r1.sects)
    <3>1. MiniWords \in Nat \ {0} /\ size \in Nat
      BY <1>1
    <3>2. Sectors(source, N)
      BY <1>6, <1>7, <1>8 DEF Sectors
    <3>3. ReadsPlaces(source, N, MiniWords, T, first, size)
      BY <1>4, <2>1, <3>1, <3>2, LaidIsRead
    <3> QED BY <3>3 DEF ReadsPlaces
  <2>3. p = p1
    BY <1>5 DEF p
  <2> HIDE DEF r1, p1
  <2> QED BY <1>9, <2>2, <2>3 DEF r1
<1>15. WordsAt(source, p) = WordsAt(f.disk, Places(f, e))
  <2>1. WordsAt(source, p) = [i \in 1..size |-> source[p[i][1]][p[i][2]]]
    BY <1>12 DEF WordsAt
  <2> DEFINE q == Places(f, e)
             b == MiniStoreSpots(f)
  <2>2. WordsAt(f.disk, q) = [i \in 1..size |-> f.disk[q[i][1]][q[i][2]]]
    BY <1>11 DEF WordsAt
  <2>3. \A o \in 1..R : W[o] = f.disk[b[o][1]][b[o][2]]
    BY <1>1, <1>13, WordsAre
  <2>4. \A i \in 1..size : q[i] = b[p[i][1] * MiniWords + p[i][2]]
    BY <1>11
  <2> HIDE DEF q, b, R
  <2>5. ASSUME NEW i \in 1..size PROVE source[p[i][1]][p[i][2]] = f.disk[q[i][1]][q[i][2]]
    <3> DEFINE o == p[i][1] * MiniWords + p[i][2]
    <3>1. o \in 1..R /\ source[p[i][1]][p[i][2]] = W[o] /\ q[i] = b[o]
      BY <1>3, <1>10, <2>4
    <3> HIDE DEF o
    <3> QED BY <2>3, <3>1
  <2> QED BY <2>1, <2>2, <2>5 DEF q
<1> QED BY <1>14, <1>15

LEMMA FileIs ==
  ASSUME FileInv
  PROVE  GoodFile(File) /\ File.disk = disk /\ File.header = header /\ File.dirs = dirs
BY DEF FileInv, GoodFile, File

\* The cache of the mini table and the ministream, whether they are read now
\* or have been.
MiniHeld(m) ==
  /\ m.words = WordsAt(disk, MiniStoreSpots(File))
  /\ m.fat = Array(WordsAt(disk, MiniTableSpots(File)), CeilDiv(FolderOf(File)[0].size, MiniWords))

LEMMA MiniReadHeld ==
  ASSUME FileInv, Leads(File), fat = TableOf(File), entries[0] = FolderOf(File)[0],
         MiniTableLaid(File), MiniStoreLaid(File), mini.loaded => MiniHeld(mini)
  PROVE  MiniRead.loaded /\ MiniHeld(MiniRead)
<1> DEFINE f == File
           n == header.csectMiniFat * SectorWords
           root == FolderOf(f)[0]
           R == root.size
           table == OpenKnown(disk, SectorWords, fat, header.MiniFatStart, n)
           store == OpenKnown(disk, SectorWords, fat, root.start, R)
           T == WordsAt(disk, MiniTableSpots(f))
           W == WordsAt(disk, MiniStoreSpots(f))
<1>1. GoodFile(f) /\ f.disk = disk /\ f.header = header /\ Leads(f)
  BY FileIs
<1>2. n \in Nat /\ R \in Nat
  <2>1. header.csectMiniFat \in Nat /\ SectorWords \in Nat
    BY SizeAssumption DEF FileInv, IsHeader
  <2> HIDE DEF f
  <2> QED BY <1>1, <2>1, FolderHas DEF Entry
<1>3. MiniRead = IF mini.loaded THEN mini
                 ELSE IF ~table.ok THEN NoMini
                 ELSE IF ~store.ok THEN NoMini
                 ELSE [loaded |-> TRUE, words |-> store.words, fat |-> MiniFat(table, R)]
  BY DEF MiniRead, MiniFatStream
<1>4. fat = TableOf(f) /\ LaidOn(f, header.MiniFatStart, n) /\ LaidOn(f, root.start, R)
      /\ T = WordsAt(disk, SpotsOn(f, header.MiniFatStart, n))
      /\ W = WordsAt(disk, SpotsOn(f, root.start, R))
  BY <1>1 DEF MiniTableLaid, MiniStoreLaid, MiniTableSpots, MiniStoreSpots
<1> HIDE DEF f, n, R, T, W
<1>5. table = ReadAs(T, table.sects)
  <2> DEFINE r1 == OpenKnown(f.disk, SectorWords, TableOf(f), header.MiniFatStart, n)
  <2>1. r1 = ReadAs(WordsAt(f.disk, SpotsOn(f, header.MiniFatStart, n)), r1.sects)
    BY <1>1, <1>2, <1>4, FileRead
  <2>2. table = r1
    BY <1>1, <1>4
  <2> HIDE DEF r1, table
  <2> QED BY <1>1, <1>4, <2>1, <2>2
<1>6. store = ReadAs(W, store.sects)
  <2> DEFINE r1 == OpenKnown(f.disk, SectorWords, TableOf(f), root.start, R)
  <2>1. r1 = ReadAs(WordsAt(f.disk, SpotsOn(f, root.start, R)), r1.sects)
    BY <1>1, <1>2, <1>4, FileRead
  <2>2. store = r1
    BY <1>1, <1>4
  <2> HIDE DEF r1, store
  <2> QED BY <1>1, <1>4, <2>1, <2>2
<1> HIDE DEF table, store
<1>7. table.ok /\ table.words = T /\ store.ok /\ store.words = W
  BY <1>5, <1>6 DEF ReadAs
<1>8. MiniFat(table, R) = Array(T, CeilDiv(R, MiniWords))
  BY <1>7 DEF MiniFat
<1>9. \A m : MiniHeld(m) <=> m.words = W /\ m.fat = Array(T, CeilDiv(R, MiniWords))
  BY DEF MiniHeld, f, R, T, W
<1>10. CASE mini.loaded
  BY <1>3, <1>10
<1>11. CASE ~mini.loaded
  <2>1. MiniRead = [loaded |-> TRUE, words |-> W, fat |-> Array(T, CeilDiv(R, MiniWords))]
    BY <1>3, <1>7, <1>8, <1>11
  <2>2. MiniRead.loaded /\ MiniRead.words = W /\ MiniRead.fat = Array(T, CeilDiv(R, MiniWords))
    BY <2>1
  <2> QED BY <1>9, <2>2
<1> QED BY <1>10, <1>11

\* What is read of a stream that no damage reaches.
LEMMA HeldRead ==
  ASSUME FileInv, NEW sid \in DOMAIN entries, Held(File, sid), fat = TableOf(File),
         entries[0] = FolderOf(File)[0], entries[sid] = FolderOf(File)[sid],
         InMini(FolderOf(File)[sid]) /\ mini.loaded => MiniHeld(mini)
  PROVE  /\ Reads(sid).ok /\ Reads(sid).words = WordsAt(disk, Places(File, FolderOf(File)[sid]))
         /\ InMini(FolderOf(File)[sid]) => MiniHeld(MiniRead)
<1> DEFINE f == File
           e == FolderOf(f)[sid]
           r == Reads(sid)
<1>1. GoodFile(f) /\ f.disk = disk /\ Leads(f) /\ sid \in DOMAIN FolderOf(f) /\ StreamLaid(f, e)
  BY FileIs DEF Held, Undamaged
<1>2. e \in Entry /\ e.size \in Nat
  <2>1. e \in Entry
    <3> HIDE DEF f
    <3> QED BY <1>1, FolderHas
  <2> QED BY <2>1 DEF Entry
<1>3. CASE ~InMini(e)
  <2>1. r = OpenKnown(f.disk, SectorWords, TableOf(f), e.start, e.size)
    BY <1>1, <1>3 DEF Reads
  <2>2. LaidOn(f, e.start, e.size) /\ Places(f, e) = SpotsOn(f, e.start, e.size)
    BY <1>1, <1>3 DEF StreamLaid, Places
  <2> HIDE DEF f, e, r
  <2> DEFINE r1 == OpenKnown(f.disk, SectorWords, TableOf(f), e.start, e.size)
  <2>3. r1 = ReadAs(WordsAt(f.disk, SpotsOn(f, e.start, e.size)), r1.sects)
    BY <1>1, <1>2, <2>2, FileRead
  <2> HIDE DEF r1
  <2>4. r1.ok /\ r1.words = WordsAt(disk, Places(f, e))
    BY <1>1, <2>2, <2>3 DEF ReadAs
  <2>5. r = r1
    BY <2>1 DEF r1
  <2> QED BY <1>3, <2>4, <2>5 DEF f, e, r
<1>4. CASE InMini(e)
  <2> DEFINE W == WordsAt(f.disk, MiniStoreSpots(f))
             T == WordsAt(f.disk, MiniTableSpots(f))
             R == FolderOf(f)[0].size
  <2>1. MiniRead.loaded /\ MiniHeld(MiniRead)
    BY <1>1, <1>4, MiniReadHeld DEF StreamLaid
  <2>2. MiniRead.words = W /\ MiniRead.fat = Array(T, CeilDiv(R, MiniWords))
    BY <1>1, <2>1 DEF MiniHeld
  <2>3. r = OpenKnown(MiniSectors(W), MiniWords, Array(T, CeilDiv(R, MiniWords)), e.start, e.size)
    BY <1>4, <2>1, <2>2 DEF Reads
  <2> HIDE DEF f, e, r
  <2>4. r = ReadAs(WordsAt(f.disk, Places(f, e)), r.sects)
    BY <1>1, <1>2, <1>4, <2>3, SmallRead
  <2>5. r.ok /\ r.words = WordsAt(disk, Places(f, e))
    BY <1>1, <2>4 DEF ReadAs
  <2> QED BY <2>1, <2>5 DEF f, e, r
<1> QED BY <1>3, <1>4

-----------------------------------------------------------------------------
(* Writing a stream that no damage reaches.                                *)

\* The part a place is in.
LEMMA PartOf ==
  ASSUME NEW b \in Nat \ {0}, NEW k \in Nat \ {0}, NEW i \in Nat
  PROVE  (k - 1) \div b = i <=> i * b < k /\ k <= (i + 1) * b
<1> DEFINE q == (k - 1) \div b
           r == (k - 1) % b
<1>1. q \in Int /\ r \in 0..(b - 1) /\ k - 1 = b * q + r
  OBVIOUS
<1> HIDE DEF q, r
<1>2. b * q = q * b /\ (q + 1) * b = q * b + b /\ (i + 1) * b = i * b + b
      /\ q * b \in Int /\ i * b \in Int
  BY <1>1
<1>3. q * b < k /\ k <= q * b + b
  BY <1>1, <1>2
<1>4. q < i => (q + 1) * b <= i * b
  BY <1>1
<1>5. q > i => (i + 1) * b <= q * b
  BY <1>1
<1>6. CASE q = i
  BY <1>2, <1>3, <1>6 DEF q
<1>7. CASE q < i
  BY <1>1, <1>2, <1>3, <1>4, <1>7 DEF q
<1>8. CASE q > i
  BY <1>1, <1>2, <1>3, <1>5, <1>8 DEF q
<1> QED BY <1>1, <1>6, <1>7, <1>8

\* The chain of a well laid stream in the table write_stream follows.
LEMMA FileChain ==
  ASSUME NEW f, GoodFile(f), Leads(f), NEW first, NEW size \in Nat, LaidOn(f, first, size)
  PROVE  LET n  == CeilDiv(size, SectorWords)
             to == Walk(TableOf(f), first, n) IN
         /\ \A i \in 0..(n - 1) : to[i] \in DOMAIN TableOf(f) /\ to[i] \in DOMAIN f.disk
         /\ \A i, j \in 0..(n - 1) : to[i] = to[j] => i = j
         /\ \A i \in 0..n : Walk(ChainsOf(f), first, n)[i] = to[i]
         /\ to[n] = ENDOFCHAIN
<1> DEFINE d == f.disk
           N == Cardinality(DOMAIN d)
           n == CeilDiv(size, SectorWords)
<1>1. IsDisk(d)
  BY DEF GoodFile
<1>2. PICK words \in Seq(Nat) : ChainsOf(f) = Array(words, Len(words)) /\ TableOf(f) = Array(words, N)
  BY TablesAre
<1> DEFINE all == Array(words, Len(words))
           table == Array(words, N)
           at == Walk(all, first, n)
           to == Walk(table, first, n)
<1>3. Laid(d, SectorWords, all, first, size) /\ SectorWords \in Nat \ {0}
  BY <1>2, SizeAssumption DEF LaidOn
<1>4. N \in Nat /\ DOMAIN d = 0..(N - 1) /\ N <= FREESECT
  <2> HIDE DEF d
  <2> QED BY <1>1, DiskIs
<1>5. /\ \A i \in 0..n : to[i] = at[i]
      /\ \A i \in 0..(n - 1) : at[i] \in DOMAIN table /\ at[i] \in DOMAIN d
      /\ \A i, j \in 0..(n - 1) : at[i] = at[j] => i = j
      /\ at[n] = ENDOFCHAIN
  <2> HIDE DEF d, N
  <2> QED BY <1>3, <1>4, LaidChain
<1>6. n \in Nat
  BY <1>3, CeilDivIs
<1> HIDE DEF n, all, table, at, to, d
<1>7. \A i \in 0..(n - 1) : i \in 0..n
  BY <1>6
<1>8. n \in 0..n
  BY <1>6
<1>9. /\ \A i \in 0..(n - 1) : to[i] \in DOMAIN table /\ to[i] \in DOMAIN d
      /\ \A i, j \in 0..(n - 1) : to[i] = to[j] => i = j
      /\ \A i \in 0..n : at[i] = to[i]
      /\ to[n] = ENDOFCHAIN
  BY <1>5, <1>7, <1>8
<1>10. TableOf(f) = table /\ ChainsOf(f) = all
  BY <1>2 DEF table, all
<1> QED BY <1>9, <1>10 DEF at, to, n, d

\* The words a sector of the data gets.
LEMMA Padding ==
  ASSUME NEW data \in Seq(Nat), NEW i \in Nat, NEW k \in 1..Len(data),
         (k - 1) \div SectorWords = i
  PROVE  Padded(DataSector(data, i))[((k - 1) % SectorWords) + 1] = data[k]
<1> DEFINE L == Len(data)
           r == (k - 1) % SectorWords
           from == i * SectorWords
           to == IF from + SectorWords < L THEN from + SectorWords ELSE L
           part == SubSeq(data, from + 1, to)
<1>1. SectorWords \in Nat \ {0} /\ L \in Nat /\ k \in Nat \ {0} /\ k <= L
  BY SizeAssumption
<1>2. r \in 0..(SectorWords - 1) /\ k - 1 = SectorWords * i + r
  <2> DEFINE q == (k - 1) \div SectorWords
  <2>1. r \in 0..(SectorWords - 1) /\ k - 1 = SectorWords * q + r
    BY <1>1
  <2>2. q = i
    OBVIOUS
  <2> HIDE DEF q, r
  <2> QED BY <2>1, <2>2
<1>3. from \in Nat /\ SectorWords * i = from /\ (i + 1) * SectorWords = from + SectorWords
  BY <1>1
<1>4. DataSector(data, i) = part
  <2>1. DataSector(data, i) = SubSeq(data, from + 1,
          IF (i + 1) * SectorWords < L THEN (i + 1) * SectorWords ELSE L)
    BY DEF DataSector
  <2> QED BY <1>3, <2>1
<1> HIDE DEF r, from
<1>5. to \in 0..L /\ r + 1 \in 1..(to - from) /\ k = from + (r + 1)
  BY <1>1, <1>2, <1>3
<1> HIDE DEF to
<1>6. part \in Seq(Nat) /\ Len(part) = to - from /\ part[r + 1] = data[k]
  <2>1. part \in Seq(Nat) /\ Len(part) = IF from + 1 <= to THEN to - (from + 1) + 1 ELSE 0
    <3>1. from + 1 \in Nat \ {0} /\ to \in 0..Len(data)
      BY <1>3, <1>5
    <3> QED BY <3>1, PartIs
  <2>2. part = [j \in 1..(to - (from + 1) + 1) |-> data[j + (from + 1) - 1]]
    BY <1>3, <1>5
  <2>3. r + 1 \in 1..(to - (from + 1) + 1) /\ (r + 1) + (from + 1) - 1 = k
    BY <1>1, <1>3, <1>5
  <2>4. part[r + 1] = data[k]
    BY <2>2, <2>3
  <2>5. Len(part) = to - from
    BY <1>3, <1>5, <2>1
  <2> QED BY <2>1, <2>4, <2>5
<1> HIDE DEF part
<1> DEFINE zeros == [j \in 1..(SectorWords - Len(part)) |-> 0]
<1>7. to - from <= SectorWords
  <2>1. from \in Nat /\ L \in Nat /\ SectorWords \in Nat
    BY <1>1, <1>3
  <2> HIDE DEF L
  <2> QED BY <2>1 DEF to
<1>8. zeros \in Seq(Nat)
  <2>1. SectorWords - Len(part) \in Nat
    <3>1. from \in Nat /\ to \in Nat /\ SectorWords \in Nat
      BY <1>1, <1>3, <1>5
    <3>2. SectorWords - (to - from) \in Nat
      BY ONLY <1>7, <3>1
    <3> QED BY ONLY <1>6, <3>2
  <2> QED BY <2>1, IsSequence
<1>9. Padded(part) = part \o zeros
  BY DEF Padded
<1> HIDE DEF zeros
<1>10. (part \o zeros)[r + 1] = part[r + 1]
  BY <1>5, <1>6, <1>8
<1> QED BY <1>4, <1>6, <1>9, <1>10 DEF r

\* The i-th part of the words is now that of the data.
PartReplaced(new, old, data, i, size) ==
  /\ DOMAIN new = 1..size
  /\ \A k \in 1..size : new[k] = IF (k - 1) \div SectorWords = i THEN data[k] ELSE old[k]

\* The first i parts are those of the data, and the others as they were.
FrontReplaced(new, old, data, i, size) ==
  \A k \in 1..size : new[k] = IF k <= i * SectorWords THEN data[k] ELSE old[k]

\* The first i parts are those of the data.
FrontIs(old, data, i, size) == \A k \in 1..size : k <= i * SectorWords => old[k] = data[k]

\* A sector written along the chain of a well laid stream changes the words
\* of one part of it, to those of the data.
LEMMA PartWritten ==
  ASSUME NEW f, GoodFile(f), Leads(f), NEW first, NEW size \in Nat, LaidOn(f, first, size),
         NEW data \in Seq(Nat), Len(data) = size,
         NEW i \in Nat, i + 1 <= CeilDiv(size, SectorWords),
         NEW s, s = Walk(TableOf(f), first, CeilDiv(size, SectorWords))[i],
         NEW disk1, disk1 = [f.disk EXCEPT ![s] = Padded(DataSector(data, i))],
         NEW old, old = WordsAt(f.disk, SpotsOn(f, first, size)),
         NEW new, new = WordsAt(disk1, SpotsOn(f, first, size))
  PROVE  PartReplaced(new, old, data, i, size)
<1> DEFINE d == f.disk
           n == CeilDiv(size, SectorWords)
           to == Walk(TableOf(f), first, n)
           p == SpotsOn(f, first, size)
           Q(k) == (k - 1) \div SectorWords
           R(k) == ((k - 1) % SectorWords) + 1
<1>1. n \in Nat /\ SectorWords \in Nat \ {0}
  BY CeilDivIs, SizeAssumption
<1>2. /\ \A j \in 0..(n - 1) : to[j] \in DOMAIN d
      /\ \A j, k \in 0..(n - 1) : to[j] = to[k] => j = k
      /\ \A j \in 0..n : Walk(ChainsOf(f), first, n)[j] = to[j]
  BY FileChain
<1>3. /\ Len(p) = size
      /\ \A k \in 1..size : p[k][1] = Walk(ChainsOf(f), first, n)[Q(k)] /\ p[k][2] = R(k)
  <2> DEFINE t == ChainsOf(f)
             p1 == Spots(SectorWords, t, first, size)
             at == Walk(t, first, CeilDiv(size, SectorWords))
  <2>1. p = p1
    BY DEF SpotsOn
  <2> HIDE DEF p, t
  <2>2. /\ Len(p1) = size
        /\ \A k \in 1..size : /\ p1[k][1] = at[(k - 1) \div SectorWords]
                              /\ p1[k][2] = ((k - 1) % SectorWords) + 1
    <3>1. SpotsAlong(p1, at, SectorWords, size)
      BY <1>1, SpotsAre, Zenon
    <3> QED BY <3>1, Zenon DEF SpotsAlong
  <2> QED BY <2>1, <2>2 DEF t
<1>4. \A k \in 1..size : Q(k) \in 0..(n - 1)
  <2> SUFFICES ASSUME NEW k \in 1..size PROVE Q(k) \in 0..(n - 1)
    OBVIOUS
  <2>1. WordOf(SectorWords, n, k, Q(k), (k - 1) % SectorWords)
    BY <1>1, PlaceIs, Zenon
  <2> QED BY <2>1, Zenon DEF WordOf
<1>5. i \in 0..(n - 1) /\ s = to[i]
  BY <1>1
<1>6. \A k \in 1..size : Q(k) = i => Padded(DataSector(data, i))[R(k)] = data[k]
  BY Padding
<1>7. /\ WordsAt(d, p) = [k \in 1..size |-> d[p[k][1]][p[k][2]]]
      /\ WordsAt(disk1, p) = [k \in 1..size |-> disk1[p[k][1]][p[k][2]]]
  <2> HIDE DEF d, p
  <2> QED BY <1>3 DEF WordsAt
<1> HIDE DEF d, n, to, p, Q, R
<1>8. \A k \in 1..size : p[k][1] = to[Q(k)] /\ p[k][2] = R(k) /\ to[Q(k)] \in DOMAIN d
  <2>1. \A j \in 0..(n - 1) : j \in 0..n
    BY <1>1
  <2> QED BY <1>2, <1>3, <1>4, <2>1
<1>9. ASSUME NEW k \in 1..size
      PROVE  disk1[p[k][1]][p[k][2]] = IF Q(k) = i THEN data[k] ELSE d[p[k][1]][p[k][2]]
  <2>1. CASE Q(k) = i
    <3>1. disk1[s] = Padded(DataSector(data, i))
      BY <1>2, <1>5 DEF d
    <3> QED BY <1>5, <1>6, <1>8, <2>1, <3>1
  <2>2. CASE Q(k) # i
    <3>1. to[Q(k)] # s
      BY <1>2, <1>4, <1>5, <2>2
    <3>2. disk1[to[Q(k)]] = d[to[Q(k)]]
      BY <1>8, <3>1 DEF d
    <3> QED BY <1>8, <2>2, <3>2
  <2> QED BY <2>1, <2>2
<1>10. \A k \in 1..size : WordsAt(d, p)[k] = d[p[k][1]][p[k][2]]
  BY <1>7
<1>11. WordsAt(disk1, p) = [k \in 1..size |-> disk1[p[k][1]][p[k][2]]]
  BY <1>7
<1>12. DOMAIN WordsAt(disk1, p) = 1..size
       /\ \A k \in 1..size : WordsAt(disk1, p)[k] = IF Q(k) = i THEN data[k] ELSE WordsAt(d, p)[k]
  BY <1>9, <1>10, <1>11, ZenonT(60)
<1> QED BY <1>12 DEF d, p, Q, PartReplaced

\* After the sectors up to that one, the front of the stream is that of the
\* data.
LEMMA FrontWritten ==
  ASSUME NEW size \in Nat, NEW data, NEW old, NEW new, NEW i \in Nat,
         FrontIs(old, data, i, size), PartReplaced(new, old, data, i, size)
  PROVE  FrontReplaced(new, old, data, i + 1, size)
<1> DEFINE z == i * SectorWords
           y == (i + 1) * SectorWords
<1>1. SectorWords \in Nat \ {0}
  BY SizeAssumption
<1>2. z \in Nat /\ y \in Nat /\ z < y
  <2>1. y = z + SectorWords
    BY <1>1
  <2> QED BY <1>1, <2>1
<1>3. \A k \in 1..size : (k - 1) \div SectorWords = i <=> z < k /\ k <= y
  <2> TAKE k \in 1..size
  <2>1. k \in Nat \ {0}
    OBVIOUS
  <2> QED BY <1>1, <2>1, PartOf
<1> HIDE DEF z, y
<1>4. \A k \in 1..size : new[k] = IF k <= y THEN data[k] ELSE old[k]
  <2> SUFFICES ASSUME NEW k \in 1..size PROVE new[k] = IF k <= y THEN data[k] ELSE old[k]
    OBVIOUS
  <2>1. new[k] = IF z < k /\ k <= y THEN data[k] ELSE old[k]
    BY <1>3 DEF PartReplaced
  <2>2. k <= z => old[k] = data[k]
    BY DEF z, FrontIs
  <2> QED BY <1>2, <2>1, <2>2
<1> QED BY <1>4 DEF y, FrontReplaced

\* The last of them makes it the whole.
LEMMA LastWritten ==
  ASSUME NEW size \in Nat, NEW i \in Nat, i + 1 = CeilDiv(size, SectorWords)
  PROVE  \A k \in 1..size : k <= (i + 1) * SectorWords
<1> DEFINE y == (i + 1) * SectorWords
<1>1. SectorWords \in Nat \ {0} /\ y \in Nat
  BY SizeAssumption
<1>2. size <= y
  BY <1>1, CeilDivIs
<1> HIDE DEF y
<1>3. \A k \in 1..size : k <= y
  BY <1>1, <1>2
<1> QED BY <1>3 DEF y

\* What write_sect does to the file.
LEMMA SectWritten ==
  ASSUME FileInv, NEW s, NEW data, Len(Padded(data)) = SectorWords, WriteSect(s, data)
  PROVE  /\ Rewritten(File, File', s) /\ sound' = sound
         /\ s \in DOMAIN disk => disk' = [disk EXCEPT ![s] = Padded(data)]
<1> DEFINE g == [header |-> header', disk |-> disk', dirs |-> dirs']
<1>1. File' = g /\ g.header = header' /\ g.disk = disk' /\ g.dirs = dirs'
      /\ File.header = header /\ File.disk = disk /\ File.dirs = dirs
  BY DEF File
<1>2. CASE s \in DOMAIN disk
  <2>1. /\ disk' = [disk EXCEPT ![s] = Padded(data)]
        /\ dirs' = [d \in DOMAIN dirs \ {s} |-> dirs[d]]
        /\ header' = header /\ sound' = sound
    BY <1>2 DEF WriteSect
  <2>2. /\ DOMAIN disk' = DOMAIN disk /\ disk'[s] = Padded(data)
        /\ \A x \in DOMAIN disk : x # s => disk'[x] = disk[x]
    BY <1>2, <2>1
  <2>3. \A x : x # s => EntriesOf(dirs', x) = EntriesOf(dirs, x)
    BY <2>1 DEF EntriesOf
  <2> QED BY <1>1, <2>1, <2>2, <2>3 DEF Rewritten
<1>3. CASE s \notin DOMAIN disk
  BY <1>1, <1>3 DEF WriteSect, Rewritten
<1> QED BY <1>2, <1>3

-----------------------------------------------------------------------------
(* The inductive invariant of the undamaged streams.                       *)

\* They are undamaged in the file as it is now, at the same places.
SoundInv ==
  \A sid \in DOMAIN sound :
    Held(File, sid) /\ sound[sid] = Places(File, FolderOf(File)[sid])

\* The entries are those of the directory; while a file has such streams, the
\* table and the directory in memory are those of the file.
LoadedInv ==
  /\ \A s \in DOMAIN entries : s \in DOMAIN folder /\ entries[s] = folder[s]
  /\ DOMAIN sound # {} /\ pc \in {"root", "walk", "open", "writing"} => fat = TableOf(File)
  /\ DOMAIN sound # {} /\ pc \in {"walk", "open", "writing"} => folder = FolderOf(File)

\* The mini table and the ministream in memory are those of the file.
CacheInv ==
  \A sid \in DOMAIN sound : InMini(FolderOf(File)[sid]) /\ mini.loaded => MiniHeld(mini)

\* write_stream is at the job.i-th sector of the chain of a big stream, of
\* which the words in front of it are written.
JobInv ==
  pc = "writing" =>
    LET e == folder[job.sid] IN
    /\ job.sid \in DOMAIN folder /\ e.type = "stream" /\ ~InMini(e)
    /\ Len(job.data) = e.size
    /\ job.sect = Walk(fat, e.start, CeilDiv(e.size, SectorWords))[job.i]
    /\ job.sid \in DOMAIN sound =>
         FrontIs(WordsAt(disk, sound[job.sid]), job.data, job.i, e.size)

HeldInv == SoundInv /\ LoadedInv /\ CacheInv /\ JobInv

\* The sector written is on the path of the stream that is written.
LEMMA SectOnPath ==
  ASSUME IInv, HeldInv, pc = "writing", NEW sid \in DOMAIN sound
  PROVE  /\ fat = TableOf(File) /\ folder = FolderOf(File) /\ Leads(File)
         /\ job.sid \in DOMAIN FolderOf(File)
         /\ job.sect \notin Leading(File)
         /\ sid # job.sid => job.sect \notin Home(File, FolderOf(File)[sid])
<1> DEFINE f == File
           e == folder[job.sid]
           n == CeilDiv(e.size, SectorWords)
           at == Walk(TableOf(f), e.start, n)
<1>1. fat = TableOf(f) /\ folder = FolderOf(f)
  BY DEF HeldInv, LoadedInv
<1>2. Held(f, sid)
  BY DEF HeldInv, SoundInv
<1>3. /\ job.sid \in DOMAIN folder /\ e.type = "stream" /\ ~InMini(e) /\ Len(job.data) = e.size
      /\ job.sect = at[job.i]
  BY <1>1 DEF HeldInv, JobInv
<1>4. job.i \in Nat /\ job.i + 1 <= n /\ n \in Nat
  <2>1. job.data \in Seq(Nat) /\ job.i \in Nat /\ job.i + 1 <= CeilDiv(Len(job.data), SectorWords)
    BY DEF IInv, CallInv
  <2>2. e.size \in Nat
    BY <1>3, <2>1
  <2> HIDE DEF e
  <2>3. n \in Nat
    BY <2>2, CeilDivIs, SizeAssumption
  <2> QED BY <1>3, <2>1, <2>3
<1>5. job.i \in 0..(n - 1)
  BY <1>4
<1>6. job.sect \in WritePath(f, e)
  <2>1. WritePath(f, e) = {at[i] : i \in 0..(n - 1)}
    BY <1>3 DEF WritePath
  <2> QED BY <1>3, <1>5, <2>1
<1>7. Leads(f) /\ Undamaged(f, sid)
  BY <1>2 DEF Held
<1> HIDE DEF f, n, at
<1>8. WritePath(f, e) \cap Leading(f) = {}
  BY <1>1, <1>3, <1>7 DEF Leads
<1>9. sid # job.sid => WritePath(f, e) \cap Home(f, FolderOf(f)[sid]) = {}
  BY <1>1, <1>3, <1>7 DEF Undamaged
<1> QED BY <1>1, <1>3, <1>6, <1>7, <1>8, <1>9 DEF f

\* The sector is one of the file when the stream is undamaged.
LEMMA WriteIs ==
  ASSUME IInv, WriteSector
  PROVE  /\ pc = "writing" /\ WriteSect(job.sect, DataSector(job.data, job.i))
         /\ job.data \in Seq(Nat) /\ job.i \in Nat
         /\ job.i + 1 <= CeilDiv(Len(job.data), SectorWords)
         /\ Len(Padded(DataSector(job.data, job.i))) = SectorWords
         /\ UNCHANGED <<folder, entries, fat, mini>>
<1>1. /\ pc = "writing" /\ WriteSect(job.sect, DataSector(job.data, job.i))
      /\ UNCHANGED <<folder, entries, fat, mini>>
  BY DEF WriteSector, dirVars, oleVars
<1>2. /\ job.data \in Seq(Nat) /\ job.i \in Nat
      /\ job.i + 1 <= CeilDiv(Len(job.data), SectorWords)
  BY <1>1 DEF IInv, CallInv
<1>3. Len(Padded(DataSector(job.data, job.i))) = SectorWords
  BY <1>2, DataSectorIs
<1> QED BY <1>1, <1>2, <1>3

\* One sector more of a stream: what it does to each of them.
LEMMA StreamWritten ==
  ASSUME IInv, HeldInv, WriteSector, NEW sid \in DOMAIN sound
  PROVE  /\ Held(File, sid)' /\ (sound[sid] = Places(File, FolderOf(File)[sid]))'
         /\ sid # job.sid => WordsAt(disk', sound[sid]) = WordsAt(disk, sound[sid])
<1> DEFINE f == File
           g == [header |-> header', disk |-> disk', dirs |-> dirs']
           s == job.sect
           e == FolderOf(f)[sid]
<1>1. File' = g /\ g.disk = disk' /\ f.disk = disk
  BY DEF File
<1>2. Rewritten(f, g, s) /\ sound' = sound
  BY <1>1, WriteIs, SectWritten DEF IInv
<1>3. /\ Leads(f) /\ job.sid \in DOMAIN FolderOf(f)
      /\ s \notin Leading(f) /\ (sid # job.sid => s \notin Home(f, e))
  BY WriteIs, SectOnPath
<1>4. ~InMini(FolderOf(f)[job.sid])
  BY WriteIs, SectOnPath DEF HeldInv, JobInv
<1>5. Held(f, sid) /\ sound[sid] = Places(f, e) /\ GoodFile(f)
  BY FileIs DEF HeldInv, SoundInv, IInv
<1>6. InMini(e) => s \notin Home(f, e)
  BY <1>3, <1>4
<1> HIDE DEF f, g, s
<1>7. /\ Held(g, sid) /\ Places(g, e) = Places(f, e)
      /\ s \notin Home(f, e) => WordsAt(g.disk, Places(f, e)) = WordsAt(f.disk, Places(f, e))
  BY <1>2, <1>5, <1>6, <1>3, HeldKept
<1>8. FolderOf(g) = FolderOf(f)
  BY <1>2, <1>3, <1>5, LeadsKept
<1>9. Held(File', sid) /\ sound'[sid] = Places(File', FolderOf(File')[sid])
  BY <1>1, <1>2, <1>5, <1>7, <1>8
<1> QED BY <1>1, <1>3, <1>5, <1>7, <1>9

\* And to the one that is written.
LEMMA OwnWritten ==
  ASSUME IInv, HeldInv, WriteSector, job.sid \in DOMAIN sound,
         NEW old, old = WordsAt(disk, sound[job.sid]),
         NEW new, new = WordsAt(disk', sound[job.sid]),
         NEW size, size = folder[job.sid].size
  PROVE  /\ size \in Nat /\ Len(job.data) = size /\ Len(old) = size
         /\ job.sect \in DOMAIN fat
         /\ job.i + 1 \in 1..CeilDiv(size, SectorWords)
         /\ DOMAIN new = 1..size
         /\ FrontReplaced(new, old, job.data, job.i + 1, size)
         /\ job.i + 1 = CeilDiv(size, SectorWords) =>
              \A k \in 1..size : k <= (job.i + 1) * SectorWords
<1> DEFINE f == File
           e == folder[job.sid]
           first == e.start
           n == CeilDiv(size, SectorWords)
           to == Walk(TableOf(f), first, n)
           data == job.data
           i == job.i
           s == job.sect
           p == SpotsOn(f, first, size)
<1>1. /\ data \in Seq(Nat) /\ i \in Nat /\ i + 1 <= CeilDiv(Len(data), SectorWords)
      /\ WriteSect(s, DataSector(data, i)) /\ pc = "writing"
      /\ Len(Padded(DataSector(data, i))) = SectorWords
  BY WriteIs
<1>2. fat = TableOf(f) /\ folder = FolderOf(f) /\ Leads(f) /\ GoodFile(f) /\ f.disk = disk
  BY <1>1, SectOnPath, FileIs DEF IInv
<1>3. /\ ~InMini(e) /\ Len(data) = size /\ s = to[i]
      /\ FrontIs(old, data, i, size)
  BY <1>1, <1>2 DEF HeldInv, JobInv
<1>4. size \in Nat
  BY <1>1, <1>3
<1>5. LaidOn(f, first, size) /\ sound[job.sid] = p
  BY <1>2, <1>3 DEF HeldInv, SoundInv, Held, Undamaged, StreamLaid, Places
<1> HIDE DEF f, e, first, n, to, data, i, s, p
<1>6. n \in Nat /\ i + 1 <= n
  <2>1. n \in Nat
    BY <1>4, CeilDivIs, SizeAssumption DEF n
  <2> QED BY <1>1, <1>3, <2>1 DEF n
<1>7. i \in 0..(n - 1) /\ i + 1 \in 1..n
  BY <1>1, <1>6
<1>8. s \in DOMAIN fat /\ s \in DOMAIN disk
  <2>1. \A j \in 0..(n - 1) : to[j] \in DOMAIN TableOf(f) /\ to[j] \in DOMAIN f.disk
    BY <1>2, <1>4, <1>5, FileChain DEF n, to
  <2> QED BY <1>2, <1>3, <1>7, <2>1
<1>9. disk' = [f.disk EXCEPT ![s] = Padded(DataSector(data, i))]
  BY <1>1, <1>2, <1>8, SectWritten DEF IInv
<1>10. PartReplaced(new, old, data, i, size)
  <2> DEFINE disk1 == disk'
  <2>1. disk1 = [f.disk EXCEPT ![s] = Padded(DataSector(data, i))]
    BY <1>9
  <2>2. i + 1 <= CeilDiv(size, SectorWords) /\ s = Walk(TableOf(f), first, CeilDiv(size, SectorWords))[i]
    BY <1>3, <1>6 DEF n, to
  <2>3. /\ GoodFile(f) /\ Leads(f) /\ size \in Nat /\ LaidOn(f, first, size)
        /\ data \in Seq(Nat) /\ Len(data) = size /\ i \in Nat
    BY <1>1, <1>2, <1>3, <1>4, <1>5
  <2>4. old = WordsAt(f.disk, SpotsOn(f, first, size)) /\ new = WordsAt(disk1, SpotsOn(f, first, size))
    BY <1>2, <1>5 DEF p
  <2> HIDE DEF disk1
  <2> QED BY <2>1, <2>2, <2>3, <2>4, PartWritten
<1>12. Len(old) = size
  <2>1. Len(WordsAt(f.disk, SpotsOn(f, first, size))) = size
    BY <1>2, <1>4, <1>5, WordsAtIs
  <2> QED BY <1>2, <1>5, <2>1 DEF p
<1>13. FrontReplaced(new, old, data, i + 1, size) /\ DOMAIN new = 1..size
  <2>1. FrontReplaced(new, old, data, i + 1, size)
    BY <1>1, <1>3, <1>4, <1>10, FrontWritten
  <2> QED BY <1>10, <2>1 DEF PartReplaced
<1>14. i + 1 = CeilDiv(size, SectorWords) => \A k \in 1..size : k <= (i + 1) * SectorWords
  BY <1>1, <1>4, LastWritten
<1> QED BY <1>3, <1>4, <1>7, <1>8, <1>12, <1>13, <1>14 DEF data, i, s, n

LEMMA InitHeld == ASSUME Init PROVE HeldInv
<1>1. /\ sound = SoundOf(File) /\ pc = "closed" /\ entries = <<>> /\ mini = NoMini
  BY DEF Init
<1>2. SoundInv
  <2> SUFFICES ASSUME NEW sid \in DOMAIN sound
               PROVE  Held(File, sid) /\ sound[sid] = Places(File, FolderOf(File)[sid])
    BY DEF SoundInv
  <2>1. Leads(File)
    <3>1. CASE ~Leads(File)
      <4>1. sound = <<>>
        BY <1>1, <3>1 DEF SoundOf
      <4> QED BY <4>1
    <3> QED BY <3>1
  <2>2. sound = [x \in {y \in DOMAIN FolderOf(File) : Undamaged(File, y)} |->
                   Places(File, FolderOf(File)[x])]
    BY <1>1, <2>1 DEF SoundOf
  <2>3. sid \in {y \in DOMAIN FolderOf(File) : Undamaged(File, y)}
        /\ sound[sid] = Places(File, FolderOf(File)[sid])
    BY <2>2
  <2> QED BY <2>1, <2>3 DEF Held
<1>3. LoadedInv
  <2>1. DOMAIN entries = {}
    BY <1>1
  <2> QED BY <1>1, <2>1 DEF LoadedInv
<1>4. CacheInv
  BY <1>1 DEF CacheInv, NoMini
<1>5. JobInv
  BY <1>1 DEF JobInv
<1> QED BY <1>2, <1>3, <1>4, <1>5 DEF HeldInv

\* A step that leaves the file alone.
LEMMA SoundSame == ASSUME SoundInv, UNCHANGED fileVars PROVE SoundInv' /\ File' = File
BY DEF SoundInv, fileVars, File

LEMMA CacheSame ==
  ASSUME CacheInv, UNCHANGED fileVars, mini' = mini \/ ~mini'.loaded
  PROVE  CacheInv'
BY DEF CacheInv, fileVars, File, MiniHeld

LEMMA LoadedSame ==
  ASSUME LoadedInv, UNCHANGED <<fileVars, fat, folder, entries>>,
         pc' \in {"root", "walk", "open", "writing"} => pc \in {"root", "walk", "open", "writing"},
         pc' \in {"walk", "open", "writing"} => pc \in {"walk", "open", "writing"}
  PROVE  LoadedInv'
BY DEF LoadedInv, fileVars, File

LEMMA JobSame ==
  ASSUME JobInv, UNCHANGED <<fileVars, fat, folder>>, pc' # "writing" \/ (pc' = pc /\ job' = job)
  PROVE  JobInv'
BY DEF JobInv, fileVars

LEMMA HeldSame ==
  ASSUME HeldInv, UNCHANGED <<fileVars, fat, folder, entries>>, mini' = mini \/ ~mini'.loaded,
         pc' \in {"root", "walk", "open", "writing"} => pc \in {"root", "walk", "open", "writing"},
         pc' \in {"walk", "open", "writing"} => pc \in {"walk", "open", "writing"},
         pc' # "writing" \/ (pc' = pc /\ job' = job)
  PROVE  HeldInv'
BY SoundSame, CacheSame, LoadedSame, JobSame DEF HeldInv

LEMMA FailHeld == ASSUME HeldInv, Fail PROVE HeldInv'
BY HeldSame DEF Fail, dirVars, oleVars

LEMMA OpenHeaderHeld == ASSUME HeldInv, OpenHeader PROVE HeldInv'
<1>1. CASE Raises(HeaderDefects)
  BY <1>1, FailHeld DEF OpenHeader
<1>2. CASE ~Raises(HeaderDefects)
  BY <1>2, HeldSame DEF OpenHeader, dirVars
<1> QED BY <1>1, <1>2

LEMMA LoadFatHeld == ASSUME HeldInv, LoadFat PROVE HeldInv'
<1> DEFINE sects == FatSectors(disk, header)
           Bad == \/ ~DifatOk(disk, header)
                  \/ Raises(DifatDefects(header))
                  \/ \E i \in 1..Len(sects) : ~Readable(disk, sects[i])
<1>1. CASE Bad
  BY <1>1, FailHeld DEF LoadFat
<1>2. CASE ~Bad
  <2>1. /\ fat' = Fat(disk, sects) /\ pc' = "root"
        /\ UNCHANGED <<fileVars, dirVars, mini>>
    BY <1>2 DEF LoadFat
  <2>2. SoundInv' /\ File' = File
    BY <2>1, SoundSame DEF HeldInv
  <2>3. CacheInv'
    BY <2>1, CacheSame DEF HeldInv
  <2>4. fat' = TableOf(File)
    BY <2>1 DEF TableOf, File
  <2>5. LoadedInv'
    BY <2>1, <2>2, <2>4 DEF HeldInv, LoadedInv, dirVars
  <2>6. JobInv'
    BY <2>1 DEF JobInv
  <2> QED BY <2>2, <2>3, <2>5, <2>6 DEF HeldInv
<1> QED BY <1>1, <1>2

LEMMA LoadRootHeld == ASSUME HeldInv, LoadRoot PROVE HeldInv'
<1> DEFINE read == OpenUnknown(disk, SectorWords, fat, header.sectDirStart)
           all == Folder(dirs, read)
           Bad == \/ ~read.ok \/ 0 \notin DOMAIN all \/ Raises(EntryDefects(all[0], 0))
<1>1. CASE Bad
  BY <1>1, FailHeld DEF LoadRoot
<1>2. CASE ~Bad
  <2>1. /\ folder' = all /\ 0 \in DOMAIN all /\ entries' = [s \in {0} |-> all[0]]
        /\ pc = "root" /\ pc' = "walk" /\ UNCHANGED <<fileVars, fat, mini>>
    BY <1>2 DEF LoadRoot
  <2>2. SoundInv' /\ File' = File /\ sound' = sound
    BY <2>1, SoundSame DEF HeldInv, fileVars
  <2>3. CacheInv'
    BY <2>1, CacheSame DEF HeldInv
  <2>4. DOMAIN sound # {} => fat = TableOf(File) /\ folder' = FolderOf(File)
    BY <2>1 DEF HeldInv, LoadedInv, FolderOf, DirectoryOf, File
  <2> HIDE DEF all
  <2>5. \A s \in DOMAIN entries' : s \in DOMAIN folder' /\ entries'[s] = folder'[s]
    BY <2>1
  <2>6. LoadedInv'
    BY <2>1, <2>2, <2>4, <2>5 DEF LoadedInv
  <2>7. JobInv'
    BY <2>1 DEF JobInv
  <2> QED BY <2>2, <2>3, <2>6, <2>7 DEF HeldInv
<1> QED BY <1>1, <1>2

LEMMA AppendEnterHeld == ASSUME HeldInv, AppendEnter PROVE HeldInv'
<1>1. CASE Fail
  BY <1>1, FailHeld
<1>2. CASE ~Fail
  <2>1. /\ Top.sid \in DOMAIN folder /\ Load(Top.sid) /\ pc = "walk"
        /\ UNCHANGED <<fileVars, pc, fat, folder, mini, job>>
    BY <1>2 DEF AppendEnter
  <2>2. SoundInv' /\ CacheInv' /\ JobInv' /\ File' = File /\ sound' = sound
    BY <2>1, SoundSame, CacheSame, JobSame DEF HeldInv, fileVars
  <2>3. \A s \in DOMAIN entries' : s \in DOMAIN folder /\ entries'[s] = folder[s]
    <3>1. CASE Top.sid \in DOMAIN entries
      BY <2>1, <3>1 DEF Load, HeldInv, LoadedInv
    <3>2. CASE Top.sid \notin DOMAIN entries
      <4>1. entries' = Put(entries, Top.sid, folder[Top.sid])
        BY <2>1, <3>2 DEF Load
      <4>2. DOMAIN entries' = DOMAIN entries \cup {Top.sid}
            /\ \A s \in DOMAIN entries' : entries'[s] = IF s = Top.sid THEN folder[Top.sid] ELSE entries[s]
        BY <4>1 DEF Put
      <4> QED BY <2>1, <4>2 DEF HeldInv, LoadedInv
    <3> QED BY <3>1, <3>2
  <2>4. LoadedInv'
    BY <2>1, <2>2, <2>3 DEF HeldInv, LoadedInv
  <2> QED BY <2>2, <2>4 DEF HeldInv
<1> QED BY <1>1, <1>2

LEMMA DirectoryHeld == ASSUME HeldInv, Directory PROVE HeldInv'
<1>1. CASE Fail
  BY <1>1, FailHeld
<1>2. CASE ~Fail /\ (AppendNothing \/ AppendEnd \/ BuildNothing)
  <2>1. UNCHANGED <<fileVars, fat, mini, pc, folder, entries, job>>
    BY <1>2 DEF AppendNothing, AppendEnd, BuildNothing, ReturnFrom, oleVars
  <2> QED BY <2>1, HeldSame
<1>3. CASE ~Fail /\ (AppendKid \/ AppendBuild \/ BuildEnter \/ BuildSort)
  <2>1. UNCHANGED <<fileVars, fat, mini, pc, folder, entries, job>>
    BY <1>3 DEF AppendKid, AppendBuild, BuildEnter, BuildSort, oleVars
  <2> QED BY <2>1, HeldSame
<1> QED BY <1>1, <1>2, <1>3, AppendEnterHeld DEF Directory

\* Reading keeps what it reads of the mini table and the ministream.
LEMMA OpenMiniHeld ==
  ASSUME IInv, HeldInv, pc = "open", UNCHANGED <<fileVars, fat, folder, entries, pc>>,
         mini' \in {mini, MiniRead}
  PROVE  HeldInv'
<1>1. SoundInv' /\ LoadedInv' /\ JobInv' /\ File' = File /\ sound' = sound /\ disk' = disk
  <2>1. SoundInv' /\ File' = File /\ sound' = sound /\ disk' = disk
    BY SoundSame DEF HeldInv, fileVars
  <2>2. LoadedInv'
    BY LoadedSame DEF HeldInv
  <2>3. JobInv'
    BY DEF JobInv
  <2> QED BY <2>1, <2>2, <2>3
<1>2. FileInv /\ Loaded /\ 0 \in DOMAIN entries
  BY DEF IInv, DirInv
<1>3. ASSUME NEW sid \in DOMAIN sound, InMini(FolderOf(File)[sid]), mini'.loaded
      PROVE  MiniHeld(mini')
  <2>1. Held(File, sid) /\ fat = TableOf(File) /\ folder = FolderOf(File)
        /\ entries[0] = folder[0] /\ (mini.loaded => MiniHeld(mini))
    BY <1>2, <1>3 DEF HeldInv, SoundInv, LoadedInv, CacheInv
  <2>2. Leads(File) /\ MiniTableLaid(File) /\ MiniStoreLaid(File)
    BY <1>3, <2>1 DEF Held, Undamaged, StreamLaid
  <2>3. MiniHeld(MiniRead)
    BY <1>2, <2>1, <2>2, MiniReadHeld
  <2> QED BY <1>3, <2>1, <2>3
<1>4. CacheInv'
  <2> SUFFICES ASSUME NEW sid \in DOMAIN sound, InMini(FolderOf(File)[sid]), mini'.loaded
               PROVE  MiniHeld(mini)'
    BY <1>1 DEF CacheInv
  <2>1. MiniHeld(mini')
    BY <1>3
  <2> QED BY <1>1, <2>1 DEF MiniHeld
<1> QED BY <1>1, <1>4 DEF HeldInv

LEMMA OpenStreamHeld ==
  ASSUME IInv, HeldInv, NEW path, OpenStream(path) PROVE HeldInv'
<1>1. pc = "open" /\ UNCHANGED <<fileVars, fat, folder, entries, pc>>
  BY DEF OpenStream, dirVars
<1>2. mini' \in {mini, MiniRead}
  BY DEF OpenStream, KeepsMini
<1> QED BY <1>1, <1>2, OpenMiniHeld

LEMMA GetMetadataHeld ==
  ASSUME IInv, HeldInv, NEW s, NEW d, GetMetadata(s, d) PROVE HeldInv'
<1>1. pc = "open" /\ UNCHANGED <<fileVars, fat, folder, entries, pc>>
  BY DEF GetMetadata, dirVars
<1>2. mini' \in {mini, MiniRead}
  BY DEF GetMetadata
<1> QED BY <1>1, <1>2, OpenMiniHeld

LEMMA WriteStreamHeld ==
  ASSUME IInv, HeldInv, NEW path \in Seq(Nat), NEW extra \in {0, 1}, WriteStream(path, extra)
  PROVE  HeldInv'
<1> DEFINE sid == Find(path)
           size == IF Exists(path) THEN entries[sid].size + extra ELSE 0
           Allowed == Exists(path) /\ Writable(entries[sid], size)
<1>1. pc = "open" /\ UNCHANGED <<fileVars, fat, folder, entries, mini>>
  BY DEF WriteStream, dirVars, oleVars
<1>2. CASE ~Allowed
  <2>1. pc' = pc /\ job' = job
    BY <1>2 DEF WriteStream
  <2> QED BY <1>1, <2>1, HeldSame
<1>3. CASE Allowed
  <2> DEFINE data == Data(writes + 1, size)
             e == entries[sid]
  <2>1. /\ job' = [sid |-> sid, sect |-> e.start, i |-> 0, data |-> data]
        /\ pc' = "writing"
    BY <1>3 DEF WriteStream
  <2>2. SoundInv' /\ CacheInv' /\ LoadedInv' /\ sound' = sound
    BY <1>1, <2>1, SoundSame, CacheSame, LoadedSame DEF HeldInv, fileVars
  <2>3. sid \in DOMAIN entries
    BY <1>1, <1>3, FindIs DEF Exists, IInv, DirInv
  <2>4. sid \in DOMAIN folder /\ folder[sid] = e /\ e \in Entry
    BY <2>3 DEF HeldInv, LoadedInv, IInv, DirInv, Loaded
  <2>5. e.type = "stream" /\ size = e.size /\ e.size >= MinisectorCutoff /\ size \in Nat
    BY <1>3, <2>4 DEF Writable, Entry
  <2>6. ~InMini(e)
    BY <2>5, LimitsAssumption DEF InMini
  <2> HIDE DEF size, sid, e
  <2>7. Len(data) = size
    <3>1. writes \in Nat
      BY LimitsAssumption DEF IInv, CallInv
    <3>2. data \in [1..size -> Nat]
      BY <2>5, <3>1 DEF Data
    <3> HIDE DEF data
    <3> QED BY <2>5, <3>2, IsSequence
  <2> HIDE DEF data
  <2>8. /\ job'.sid = sid /\ job'.sect = e.start /\ job'.i = 0 /\ job'.data = data
    BY <2>1
  <2>9. Walk(fat, e.start, CeilDiv(e.size, SectorWords))[0] = e.start
    <3>1. CeilDiv(e.size, SectorWords) \in Nat
      BY <2>5, CeilDivIs, SizeAssumption
    <3> QED BY <3>1, WalkIs
  <2>10. \A w : FrontIs(w, data, 0, e.size)
    <3>1. 0 * SectorWords = 0 /\ \A k \in 1..e.size : ~(k <= 0)
      BY SizeAssumption
    <3> QED BY <3>1 DEF FrontIs
  <2>11. JobInv'
    BY <1>1, <2>2, <2>4, <2>5, <2>6, <2>7, <2>8, <2>9, <2>10 DEF JobInv
  <2> QED BY <2>2, <2>11 DEF HeldInv
<1> QED BY <1>2, <1>3

\* The chain goes on where the table says.
LEMMA NextOnChain ==
  ASSUME NEW t, NEW first, NEW n \in Nat, NEW i \in Nat, i + 1 <= n,
         NEW s, s = Walk(t, first, n)[i], s \in DOMAIN t
  PROVE  Walk(t, first, n)[i + 1] = t[s]
<1>1. Follows(Walk(t, first, n), t, n)
  BY WalkIs
<1>2. i + 1 \in 1..n /\ (i + 1) - 1 = i
  OBVIOUS
<1> QED BY <1>1, <1>2 DEF Follows

LEMMA WriteSectorHeld == ASSUME IInv, HeldInv, WriteSector PROVE HeldInv'
<1> DEFINE e == folder[job.sid]
           n == CeilDiv(e.size, SectorWords)
<1>1. /\ pc = "writing" /\ job.data \in Seq(Nat) /\ job.i \in Nat
      /\ job.i + 1 <= CeilDiv(Len(job.data), SectorWords)
      /\ UNCHANGED <<folder, entries, fat, mini>>
  BY WriteIs
<1>2. sound' = sound /\ Rewritten(File, File', job.sect)
  BY WriteIs, SectWritten DEF IInv
<1>3. SoundInv'
  <2>1. \A sid \in DOMAIN sound : Held(File, sid)' /\ (sound[sid] = Places(File, FolderOf(File)[sid]))'
    BY StreamWritten
  <2> QED BY <1>2, <2>1 DEF SoundInv
<1>4. ASSUME NEW sid \in DOMAIN sound
      PROVE  /\ TableOf(File') = TableOf(File) /\ FolderOf(File') = FolderOf(File)
             /\ fat = TableOf(File) /\ folder = FolderOf(File)
  <2> DEFINE g == [header |-> header', disk |-> disk', dirs |-> dirs']
  <2>1. File' = g
    BY DEF File
  <2>2. GoodFile(File) /\ Leads(File) /\ job.sect \notin Leading(File)
        /\ fat = TableOf(File) /\ folder = FolderOf(File)
    BY <1>1, FileIs, SectOnPath DEF IInv
  <2> HIDE DEF g
  <2>3. TableOf(g) = TableOf(File) /\ FolderOf(g) = FolderOf(File)
    BY <1>2, <2>1, <2>2, LeadsKept
  <2> QED BY <2>1, <2>2, <2>3
<1>5. LoadedInv'
  <2>1. \A s \in DOMAIN entries' : s \in DOMAIN folder' /\ entries'[s] = folder'[s]
    BY <1>1 DEF HeldInv, LoadedInv
  <2> QED BY <1>1, <1>2, <1>4, <2>1 DEF LoadedInv
<1>6. CacheInv'
  <2> SUFFICES ASSUME NEW sid \in DOMAIN sound, InMini(FolderOf(File)[sid]), mini.loaded
               PROVE  MiniHeld(mini)'
    BY <1>1, <1>2, <1>4 DEF CacheInv
  <2> DEFINE f == File
             g == [header |-> header', disk |-> disk', dirs |-> dirs']
             x == FolderOf(f)[sid]
  <2>1. File' = g /\ g.disk = disk' /\ f.disk = disk
    BY DEF File
  <2>2. MiniHeld(mini) /\ Held(f, sid)
    BY DEF HeldInv, CacheInv, SoundInv
  <2>3. ~InMini(FolderOf(f)[job.sid])
    BY <1>1, <1>4 DEF HeldInv, JobInv
  <2>4. GoodFile(f) /\ Leads(f) /\ job.sect \notin Leading(f) /\ job.sect \notin Home(f, x)
    BY <1>1, <2>3, FileIs, SectOnPath DEF IInv
  <2>5. MiniTableLaid(f) /\ MiniStoreLaid(f) /\ InMini(x)
    BY <2>2 DEF Held, Undamaged, StreamLaid
  <2> HIDE DEF f, g
  <2>6. x \in Entry
    BY <2>2, <2>4, FolderHas DEF Held
  <2>7. Rewritten(f, g, job.sect)
    BY <1>2, <2>1 DEF f
  <2> HIDE DEF x
  <2>8. /\ MiniTableSpots(g) = MiniTableSpots(f) /\ MiniStoreSpots(g) = MiniStoreSpots(f)
        /\ WordsAt(g.disk, MiniTableSpots(f)) = WordsAt(f.disk, MiniTableSpots(f))
        /\ WordsAt(g.disk, MiniStoreSpots(f)) = WordsAt(f.disk, MiniStoreSpots(f))
    BY <2>4, <2>5, <2>6, <2>7, MiniKept
  <2>9. FolderOf(g) = FolderOf(f)
    BY <1>4, <2>1 DEF f
  <2> QED BY <1>1, <2>1, <2>2, <2>8, <2>9 DEF MiniHeld, f
<1>7. JobInv'
  <2>1. CASE pc' # "writing"
    BY <2>1 DEF JobInv
  <2>2. CASE pc' = "writing"
    <3>1. /\ job.sect \in DOMAIN fat /\ ~LastSector
          /\ job' = [job EXCEPT !.i = @ + 1, !.sect = NextSector(@)]
      BY <2>2 DEF WriteSector
    <3>2. DOMAIN job = {"sid", "sect", "i", "data"}
      BY <1>1 DEF IInv, CallInv
    <3>3. job'.sid = job.sid /\ job'.data = job.data /\ job'.i = job.i + 1
          /\ job'.sect = fat[job.sect]
      BY <3>1, <3>2 DEF NextSector
    <3>4. /\ job.sid \in DOMAIN folder /\ e.type = "stream" /\ ~InMini(e)
          /\ Len(job.data) = e.size /\ job.sect = Walk(fat, e.start, n)[job.i]
      BY <1>1 DEF HeldInv, JobInv
    <3>5. n \in Nat /\ job.i + 1 <= n
      <4>1. e.size \in Nat
        BY <1>1, <3>4
      <4> HIDE DEF e
      <4> QED BY <1>1, <3>4, <4>1, CeilDivIs, SizeAssumption
    <3> HIDE DEF e, n
    <3>6. Walk(fat, e.start, n)[job.i + 1] = fat[job.sect]
      BY <1>1, <3>1, <3>4, <3>5, NextOnChain
    <3>7. ASSUME job.sid \in DOMAIN sound
          PROVE  FrontIs(WordsAt(disk', sound[job.sid]), job.data, job.i + 1, e.size)
      <4> DEFINE new == WordsAt(disk', sound[job.sid])
                 old == WordsAt(disk, sound[job.sid])
                 size == e.size
      <4>1. old = WordsAt(disk, sound[job.sid]) /\ new = WordsAt(disk', sound[job.sid])
            /\ size = folder[job.sid].size
        BY DEF e
      <4> HIDE DEF new, old, size
      <4>2. FrontReplaced(new, old, job.data, job.i + 1, size)
        BY <3>7, <4>1, OwnWritten
      <4>3. FrontIs(new, job.data, job.i + 1, size)
        BY <4>2 DEF FrontReplaced, FrontIs
      <4> QED BY <4>3 DEF new, size
    <3> QED BY <1>1, <1>2, <3>3, <3>4, <3>6, <3>7 DEF JobInv, e, n
  <2> QED BY <2>1, <2>2
<1> QED BY <1>3, <1>5, <1>6, <1>7 DEF HeldInv

LEMMA ForgetHeld == ASSUME HeldInv, Forget PROVE HeldInv'
<1>1. pc' = "closed" /\ entries' = <<>> /\ mini' = NoMini /\ UNCHANGED fileVars
  BY DEF Forget
<1>2. SoundInv' /\ CacheInv'
  BY <1>1, SoundSame, CacheSame DEF HeldInv, NoMini
<1>3. LoadedInv'
  <2>1. DOMAIN entries' = {}
    BY <1>1
  <2> QED BY <1>1, <2>1 DEF LoadedInv
<1>4. JobInv'
  BY <1>1 DEF JobInv
<1> QED BY <1>2, <1>3, <1>4 DEF HeldInv

LEMMA CallsHeld == ASSUME IInv, HeldInv, Calls PROVE HeldInv'
<1>1. CASE ListDir
  BY <1>1, HeldSame DEF ListDir, dirVars
<1>2. ASSUME pc = "open", NEW path \in Paths, OpenStream(path) PROVE HeldInv'
  BY <1>2, OpenStreamHeld
<1>3. ASSUME pc = "open", NEW path \in Paths, GetSize(path) PROVE HeldInv'
  BY <1>3, HeldSame DEF GetSize, dirVars, oleVars
<1>4. ASSUME pc = "open", NEW path \in Paths, NEW extra \in {0, 1}, WriteStream(path, extra)
      PROVE  HeldInv'
  <2>1. path \in Seq(Nat)
    BY <1>4, PathsAre DEF IInv, DirInv
  <2> QED BY <1>4, <2>1, WriteStreamHeld
<1>5. ASSUME NEW t \in Tables, GetMetadata(t[1], t[2]) PROVE HeldInv'
  BY <1>5, GetMetadataHeld
<1> QED BY <1>1, <1>2, <1>3, <1>4, <1>5 DEF Calls

LEMMA NextHeld == ASSUME IInv, HeldInv, [Next]_vars PROVE HeldInv'
<1>1. CASE UNCHANGED vars
  BY <1>1, HeldSame DEF vars, dirVars, oleVars
<1>2. CASE Opened
  BY <1>2, HeldSame DEF Opened, dirVars, NoMini
<1>3. CASE Close \/ Interrupt
  BY <1>3, ForgetHeld DEF Close, Interrupt
<1> QED BY <1>1, <1>2, <1>3, OpenHeaderHeld, LoadFatHeld, LoadRootHeld, DirectoryHeld,
           CallsHeld, WriteSectorHeld DEF Next

\* The table, the directory and the cache of the program are those of the
\* file, and the streams no damage reaches stay so, whatever is called.
THEOREM UndamagedKept == Spec => []HeldInv
<1>1. Init => HeldInv
  BY InitHeld
<1>2. IInv /\ IInv' /\ HeldInv /\ [Next]_vars => HeldInv'
  BY NextHeld
<1> QED BY <1>1, <1>2, Invariance, PTL DEF Spec

-----------------------------------------------------------------------------
(* Reading, and the store the container promises.                          *)

\* What is read of an undamaged stream is what the file holds.
LEMMA SoundReads ==
  ASSUME IInv, HeldInv, pc = "open", NEW sid \in DOMAIN sound
  PROVE  /\ sid # NOSTREAM
         /\ sid \in DOMAIN entries =>
              /\ entries[sid].type = "stream"
              /\ Reads(sid).ok /\ Reads(sid).words = WordsAt(disk, sound[sid])
<1>1. /\ Held(File, sid) /\ sound[sid] = Places(File, FolderOf(File)[sid])
      /\ fat = TableOf(File) /\ folder = FolderOf(File)
      /\ \A s \in DOMAIN entries : s \in DOMAIN folder /\ entries[s] = folder[s]
      /\ InMini(FolderOf(File)[sid]) /\ mini.loaded => MiniHeld(mini)
  BY DEF HeldInv, SoundInv, LoadedInv, CacheInv
<1>2. FolderOf(File)[sid].type = "stream" /\ sid # NOSTREAM
  BY <1>1 DEF Held, Undamaged
<1>3. FileInv /\ 0 \in DOMAIN entries
  BY DEF IInv, DirInv
<1>4. ASSUME sid \in DOMAIN entries
      PROVE  Reads(sid).ok /\ Reads(sid).words = WordsAt(disk, sound[sid])
  <2>1. entries[0] = FolderOf(File)[0] /\ entries[sid] = FolderOf(File)[sid]
    BY <1>1, <1>3, <1>4
  <2> QED BY <1>1, <1>3, <1>4, <2>1, HeldRead
<1> QED BY <1>1, <1>2, <1>4

\* The answer of openstream.
LEMMA OpenStreamIs ==
  ASSUME IInv, HeldInv, NEW path \in Seq(Nat), OpenStream(path)
  PROVE  /\ result'.call = "read" /\ UNCHANGED <<fileVars, pc>>
         /\ result'.sid \in DOMAIN sound =>
              /\ header.level = FATAL => result'.ok
              /\ result'.ok => result'.words = WordsAt(disk, sound[result'.sid])
<1> DEFINE sid == Find(path)
<1>1. pc = "open" /\ UNCHANGED <<fileVars, pc>>
  BY DEF OpenStream
<1>2. sid \in DOMAIN entries \cup {NOSTREAM}
  BY <1>1, FindIs DEF IInv, DirInv
<1>3. CASE GetType(path) # "stream" \/ Raises(OpenDefects(sid))
  <2>1. result' = [call |-> "read", sid |-> sid, ok |-> FALSE, words |-> <<>>]
    BY <1>3 DEF OpenStream, Raised, Returns
  <2>2. ASSUME sid \in DOMAIN sound, header.level = FATAL PROVE FALSE
    <3>1. sid # NOSTREAM /\ sid \in DOMAIN entries /\ entries[sid].type = "stream"
      BY <1>1, <1>2, <2>2, SoundReads
    <3>2. GetType(path) = "stream"
      BY <3>1 DEF GetType
    <3>3. \A d \in OpenDefects(sid) : d.level = INCORRECT
      <4>1. OpenDefects(sid) \subseteq
              {[level |-> INCORRECT, what |-> "MiniStream larger than MiniFAT"]}
        <5>1. OpenDefects(sid) \subseteq MiniFatDefects(header, entries[0].size)
          BY DEF OpenDefects, MiniDefects
        <5>2. \A h, n : MiniFatDefects(h, n) \subseteq
                {[level |-> INCORRECT, what |-> "MiniStream larger than MiniFAT"]}
          BY DEF MiniFatDefects
        <5> QED BY <5>1, <5>2
      <4> HIDE DEF sid
      <4>2. ASSUME NEW d \in OpenDefects(sid) PROVE d.level = INCORRECT
        <5>1. d = [level |-> INCORRECT, what |-> "MiniStream larger than MiniFAT"]
          BY <4>1
        <5> QED BY <5>1 DEF INCORRECT
      <4> QED BY <4>2
    <3>4. ~Raises(OpenDefects(sid))
      BY <2>2, <3>3 DEF Raises, INCORRECT, FATAL
    <3> QED BY <1>3, <3>2, <3>4
  <2> HIDE DEF sid
  <2> QED BY <1>1, <2>1, <2>2
<1>4. CASE ~(GetType(path) # "stream" \/ Raises(OpenDefects(sid)))
  <2>1. result' = [call |-> "read", sid |-> sid, ok |-> Reads(sid).ok, words |-> Reads(sid).words]
    BY <1>4 DEF OpenStream, Returns
  <2>2. sid \in DOMAIN entries
    BY <1>2, <1>4 DEF GetType
  <2>3. sid \in DOMAIN sound => Reads(sid).ok /\ Reads(sid).words = WordsAt(disk, sound[sid])
    BY <1>1, <2>2, SoundReads
  <2> HIDE DEF sid
  <2> QED BY <1>1, <2>1, <2>3
<1> QED BY <1>3, <1>4

\* The last answer, kept until the next one.
AnswerInv ==
  header.level = FATAL /\ result # NoCall /\ result.call = "read"
    /\ result.sid \in DOMAIN sound => result.ok

\* What a step leaves as the last answer.
LEMMA Answers ==
  ASSUME IInv, [Next]_vars,
         ~(pc = "open" /\ \E path \in Paths : OpenStream(path))
  PROVE  result' = result \/ result' = NoCall \/ result'.call # "read"
<1>1. CASE UNCHANGED vars
  BY <1>1 DEF vars
<1>2. CASE OpenHeader \/ LoadFat \/ LoadRoot \/ Opened
  BY <1>2 DEF OpenHeader, LoadFat, LoadRoot, Opened, Fail
<1>3. CASE Directory
  BY <1>3 DEF Directory, AppendEnter, AppendNothing, AppendKid, AppendBuild, AppendEnd,
              BuildEnter, BuildNothing, BuildSort, ReturnFrom, Fail
<1>4. CASE Close \/ Interrupt
  BY <1>4 DEF Close, Interrupt, Forget
<1>5. CASE ListDir
  BY <1>5 DEF ListDir, Raised, Returns
<1>6. ASSUME NEW path \in Paths, GetSize(path) PROVE result'.call # "read"
  BY <1>6 DEF GetSize, Raised, Returns
<1>7. ASSUME NEW path \in Paths, NEW extra \in {0, 1}, WriteStream(path, extra)
      PROVE  result' = NoCall \/ result'.call # "read"
  BY <1>7 DEF WriteStream, Raised, Returns
<1>8. ASSUME NEW t \in Tables, GetMetadata(t[1], t[2]) PROVE result'.call # "read"
  BY <1>8 DEF GetMetadata, Raised, Returns
<1>9. CASE WriteSector
  BY <1>9 DEF WriteSector, Raised, Returns
<1> QED BY <1>1, <1>2, <1>3, <1>4, <1>5, <1>6, <1>7, <1>8, <1>9 DEF Next, Calls

LEMMA HeaderKept == ASSUME [Next]_vars PROVE header' = header /\ sound' = sound
<1>1. CASE UNCHANGED vars
  BY <1>1 DEF vars, fileVars
<1>2. CASE OpenHeader \/ LoadFat \/ LoadRoot \/ Opened
  BY <1>2 DEF OpenHeader, LoadFat, LoadRoot, Opened, Fail, fileVars
<1>3. CASE Directory
  BY <1>3 DEF Directory, AppendEnter, AppendNothing, AppendKid, AppendBuild, AppendEnd,
              BuildEnter, BuildNothing, BuildSort, ReturnFrom, Fail, fileVars
<1>4. CASE Close \/ Interrupt
  BY <1>4 DEF Close, Interrupt, Forget, fileVars
<1>5. CASE Calls
  BY <1>5 DEF Calls, ListDir, OpenStream, GetSize, WriteStream, GetMetadata, fileVars
<1>6. CASE WriteSector
  BY <1>6 DEF WriteSector, WriteSect
<1> QED BY <1>1, <1>2, <1>3, <1>4, <1>5, <1>6 DEF Next

LEMMA AnswerKept == ASSUME IInv, HeldInv, AnswerInv, [Next]_vars PROVE AnswerInv'
<1>1. CASE pc = "open" /\ \E path \in Paths : OpenStream(path)
  <2>1. PICK path \in Paths : OpenStream(path)
    BY <1>1
  <2>2. path \in Seq(Nat)
    BY <1>1, PathsAre DEF IInv, DirInv
  <2> QED BY <2>1, <2>2, OpenStreamIs DEF AnswerInv, fileVars
<1>2. CASE ~(pc = "open" /\ \E path \in Paths : OpenStream(path))
  BY <1>2, Answers, HeaderKept DEF AnswerInv
<1> QED BY <1>1, <1>2

\* A stream that no damage reaches can be read from every file that is opened
\* leniently, before and after any writes, to it or to other streams.
THEOREM SoundRead == Spec => []SoundReadable
<1>1. Init => AnswerInv
  BY DEF Init, AnswerInv
<1>2. IInv /\ HeldInv /\ AnswerInv /\ [Next]_vars => AnswerInv'
  BY AnswerKept
<1>3. AnswerInv => SoundReadable
  BY DEF AnswerInv, SoundReadable
<1> QED BY <1>1, <1>2, <1>3, Invariance, UndamagedKept, PTL DEF Spec

-----------------------------------------------------------------------------
(* The refinement of StreamStore.                                          *)

\* What the abstract store is writing, and its last answer.
Writing ==
  IF pc = "writing" /\ job.sid \in DOMAIN sound THEN <<job.sid, job.data>> ELSE <<>>

Answer ==
  IF result # NoCall /\ result.call = "read" /\ result.ok /\ result.sid \in DOMAIN sound
  THEN <<result.sid, result.words>> ELSE <<>>

\* A step that reads and writes nothing.
LEMMA Elsewhere ==
  ASSUME UNCHANGED <<disk, sound>>, pc # "writing", pc' # "writing",
         result' = result \/ result' = NoCall \/ result'.call # "read"
  PROVE  [Store!Next]_<<Content, Writing, Answer>>
<1>1. UNCHANGED <<Content, Writing>>
  BY DEF Content, Writing
<1>2. Answer' = Answer \/ Answer' = <<>>
  BY DEF Answer
<1>3. Answer' = <<>> => Store!Other
  BY <1>1 DEF Store!Other, Writing, Answer
<1> QED BY <1>1, <1>2, <1>3 DEF Store!Next

\* openstream reads the stream of the store.
LEMMA ReadsStore ==
  ASSUME IInv, HeldInv, NEW path \in Seq(Nat), OpenStream(path)
  PROVE  [Store!Next]_<<Content, Writing, Answer>>
<1>1. /\ UNCHANGED <<disk, sound, pc>> /\ pc = "open"
      /\ result'.sid \in DOMAIN sound /\ result'.ok =>
           result'.words = WordsAt(disk, sound[result'.sid])
  BY OpenStreamIs DEF fileVars, OpenStream
<1>2. UNCHANGED <<Content, Writing>> /\ Writing = <<>>
  BY <1>1 DEF Content, Writing
<1>3. CASE Answer' = <<>>
  BY <1>2, <1>3 DEF Store!Other, Store!Next, Writing, Answer
<1>4. CASE Answer' # <<>>
  <2>1. /\ result'.ok /\ result'.sid \in DOMAIN sound
        /\ Answer' = <<result'.sid, result'.words>>
    BY <1>1, <1>4 DEF Answer
  <2>2. result'.sid \in DOMAIN Content /\ Answer' = <<result'.sid, Content[result'.sid]>>
    BY <1>1, <2>1 DEF Content
  <2>3. Store!Read(result'.sid)
    BY <1>2, <2>2 DEF Store!Read, Writing, Answer
  <2> QED BY <2>2, <2>3 DEF Store!Next
<1> QED BY <1>3, <1>4

\* An undamaged stream has as many words as its entry says.
LEMMA ContentLen ==
  ASSUME IInv, HeldInv, NEW sid \in DOMAIN sound, ~InMini(FolderOf(File)[sid])
  PROVE  Len(Content[sid]) = FolderOf(File)[sid].size
<1> DEFINE f == File
           e == FolderOf(f)[sid]
<1>1. Held(f, sid) /\ sound[sid] = Places(f, e) /\ GoodFile(f) /\ f.disk = disk
  BY FileIs DEF HeldInv, SoundInv, IInv
<1>2. LaidOn(f, e.start, e.size) /\ sound[sid] = SpotsOn(f, e.start, e.size)
      /\ Leads(f) /\ sid \in DOMAIN FolderOf(f)
  BY <1>1 DEF Held, Undamaged, StreamLaid, Places
<1> HIDE DEF f
<1>3. e.size \in Nat
  <2>1. e \in Entry
    BY <1>1, <1>2, FolderHas
  <2> QED BY <2>1 DEF Entry
<1> HIDE DEF e
<1>4. Len(WordsAt(f.disk, SpotsOn(f, e.start, e.size))) = e.size
  BY <1>1, <1>2, <1>3, WordsAtIs
<1> QED BY <1>1, <1>2, <1>4 DEF Content, f, e

\* write_stream begins to write it.
LEMMA WriteBegins ==
  ASSUME IInv, HeldInv, NEW path \in Seq(Nat), NEW extra \in {0, 1}, WriteStream(path, extra)
  PROVE  [Store!Next]_<<Content, Writing, Answer>>
<1>1. /\ pc = "open" /\ UNCHANGED <<disk, sound>>
      /\ result' = NoCall \/ result'.call # "read"
  BY DEF WriteStream, Raised, Returns, fileVars
<1>2. UNCHANGED Content /\ Writing = <<>> /\ Answer' = <<>>
  BY <1>1 DEF Content, Writing, Answer
<1>3. CASE Writing' = <<>>
  BY <1>2, <1>3 DEF Store!Other, Store!Next, Writing, Answer
<1>4. CASE Writing' # <<>>
  <2>1. pc' = "writing" /\ job'.sid \in DOMAIN sound /\ Writing' = <<job'.sid, job'.data>>
    BY <1>1, <1>4 DEF Writing
  <2>2. HeldInv' /\ IInv'
    BY WriteStreamHeld, WriteStreamInv
  <2>3. Len(job'.data) = Len(Content[job'.sid])
    <3>1. /\ job'.sid \in DOMAIN folder' /\ ~InMini(folder'[job'.sid])
          /\ Len(job'.data) = folder'[job'.sid].size /\ folder' = FolderOf(File)'
      BY <1>1, <2>1, <2>2 DEF HeldInv, JobInv, LoadedInv
    <3>2. FolderOf(File)' = FolderOf(File)
      BY DEF WriteStream, fileVars, File
    <3>3. Len(Content[job'.sid]) = FolderOf(File)[job'.sid].size
      BY <2>1, <3>1, <3>2, ContentLen
    <3> QED BY <3>1, <3>2, <3>3
  <2>4. Writing'[1] = job'.sid /\ Writing'[2] = job'.data
    BY <2>1
  <2>5. Store!Begin(job'.sid)
    BY <1>2, <1>4, <2>3, <2>4 DEF Store!Begin, Writing, Answer
  <2>6. job'.sid \in DOMAIN Content
    BY <2>1 DEF Content
  <2> QED BY <2>5, <2>6 DEF Store!Next
<1> QED BY <1>3, <1>4

\* Each turn of its loop writes as many words more, in front of the others;
\* the last one has written all of them.  Where the stream is damaged, no
\* other one changes.
LEMMA WriteGoesOn ==
  ASSUME IInv, HeldInv, WriteSector
  PROVE  [Store!Next]_<<Content, Writing, Answer>>
<1> DEFINE sid == job.sid
           data == job.data
<1>1. /\ pc = "writing" /\ data \in Seq(Nat) /\ job.i \in Nat
      /\ DOMAIN job = {"sid", "sect", "i", "data"}
  BY WriteIs DEF IInv, CallInv
<1>2. sound' = sound
  BY DEF WriteSector, WriteSect
<1>3. Answer = <<>> /\ Answer' = <<>>
  <2>1. result = NoCall
    BY <1>1 DEF IInv, CallInv
  <2>2. result' = NoCall \/ result'.call # "read"
    BY <2>1 DEF WriteSector, Raised, Returns
  <2> QED BY <2>1, <2>2 DEF Answer
<1>4. ASSUME NEW x \in DOMAIN sound, x # sid PROVE Content'[x] = Content[x]
  <2>1. WordsAt(disk', sound[x]) = WordsAt(disk, sound[x])
    BY <1>4, StreamWritten
  <2> QED BY <1>2, <2>1 DEF Content
<1>5. DOMAIN Content = DOMAIN sound /\ DOMAIN Content' = DOMAIN sound
  BY <1>2 DEF Content
<1>6. pc' = "writing" => job'.sid = sid /\ job'.data = data
  BY <1>1 DEF WriteSector
<1>7. CASE sid \notin DOMAIN sound
  <2>1. Writing = <<>> /\ Writing' = <<>>
    BY <1>2, <1>6, <1>7 DEF Writing
  <2>2. Content' = Content
    <3>1. \A x \in DOMAIN sound : Content'[x] = Content[x]
      BY <1>4, <1>7
    <3>2. Content = [x \in DOMAIN sound |-> Content[x]]
          /\ Content' = [x \in DOMAIN sound |-> Content'[x]]
      BY <1>2 DEF Content
    <3> HIDE DEF sid
    <3> QED BY <3>1, <3>2
  <2>3. Store!Other
    BY <1>3, <2>1, <2>2 DEF Store!Other, Writing, Answer
  <2> QED BY <2>3 DEF Store!Next
<1>8. CASE sid \in DOMAIN sound
  <2> DEFINE old == WordsAt(disk, sound[sid])
             new == WordsAt(disk', sound[sid])
             size == folder[sid].size
             n == CeilDiv(size, SectorWords)
             z == (job.i + 1) * SectorWords
  <2>1. /\ size \in Nat /\ Len(data) = size /\ Len(old) = size
        /\ job.sect \in DOMAIN fat /\ job.i + 1 \in 1..n
        /\ DOMAIN new = 1..size /\ FrontReplaced(new, old, data, job.i + 1, size)
        /\ job.i + 1 = n => \A k \in 1..size : k <= z
    BY <1>8, OwnWritten
  <2>2. \A k \in 1..size : new[k] = IF k <= z THEN data[k] ELSE old[k]
    BY <2>1 DEF FrontReplaced
  <2>3. Writing = <<sid, data>>
    BY <1>1, <1>8 DEF Writing
  <2>4. Content[sid] = old /\ Content'[sid] = new
    BY <1>2, <1>8 DEF Content
  <2>5. new = [k \in 1..size |-> new[k]]
    BY <2>1 DEF WordsAt
  <2>6. ASSUME NEW w, new = w PROVE Content' = [Content EXCEPT ![sid] = w]
    <3>1. Content' = [x \in DOMAIN sound |-> Content'[x]]
      BY <1>2 DEF Content
    <3>2. \A x \in DOMAIN sound : Content'[x] = IF x = sid THEN w ELSE Content[x]
      BY <1>4, <2>4, <2>6
    <3> HIDE DEF sid, new
    <3> QED BY <1>5, <3>1, <3>2
  <2> HIDE DEF old, new, size, sid, data, n
  <2>7. CASE LastSector
    <3>1. job.i + 1 = n
      BY <2>1, <2>7 DEF LastSector, n, data
    <3>2. new = data
      <4>1. \A k \in 1..size : new[k] = data[k]
        BY <2>1, <2>2, <3>1
      <4>2. data = [k \in 1..size |-> data[k]]
        BY <1>1, <2>1
      <4> QED BY <2>5, <4>1, <4>2
    <3>3. pc' = "open"
      BY <2>1, <2>7 DEF WriteSector
    <3>4. Writing' = <<>>
      BY <3>3 DEF Writing
    <3>5. Content' = [Content EXCEPT ![sid] = data]
      BY <2>6, <3>2
    <3>6. Writing # <<>> /\ Writing[1] = sid /\ Writing[2] = data
      BY <2>3
    <3>7. Store!Ends
      BY <1>3, <3>4, <3>5, <3>6 DEF Store!Ends, Writing, Answer
    <3> QED BY <3>7 DEF Store!Next
  <2>8. CASE ~LastSector
    <3> DEFINE k == IF z < size THEN z ELSE size
    <3>1. Writing' = Writing
      <4>1. pc' = "writing"
        BY <1>1, <2>1, <2>8 DEF WriteSector
      <4> QED BY <1>2, <1>6, <1>8, <2>3, <4>1 DEF Writing
    <3>2. Writing # <<>> /\ Writing[1] = sid /\ Writing[2] = data
      BY <2>3
    <3>3. k \in 1..size
      <4>1. size # 0
        <5>1. CASE size = 0
          <6>1. n = 0
            BY <5>1, SizeAssumption DEF n, CeilDiv
          <6> QED BY <2>1, <6>1
        <5> QED BY <5>1
      <4>2. z \in Nat /\ z >= 1
        <5>1. job.i + 1 \in Nat /\ job.i + 1 >= 1 /\ SectorWords \in Nat /\ SectorWords >= 1
          BY <1>1, SizeAssumption
        <5> HIDE DEF z
        <5>2. \A a, b \in Nat : a >= 1 /\ b >= 1 => a * b \in Nat /\ a * b >= 1
          OBVIOUS
        <5> QED BY <5>1, <5>2 DEF z
      <4> HIDE DEF z
      <4> QED BY <2>1, <4>1, <4>2
    <3> DEFINE front == Store!Front(data, k, old)
    <3>4. new = front
      <4>1. front = [j \in 1..size |-> IF j <= k THEN data[j] ELSE old[j]]
        BY <2>1 DEF Store!Front
      <4>2. z \in Nat
        BY <1>1, SizeAssumption
      <4> HIDE DEF z
      <4>3. \A j \in 1..size : j <= k <=> j <= z
        BY <2>1, <4>2
      <4> HIDE DEF k, front
      <4> QED BY <2>2, <2>5, <4>1, <4>3
    <3> HIDE DEF front
    <3>5. Content' = [Content EXCEPT ![sid] = front]
      BY <2>6, <3>4
    <3> HIDE DEF k
    <3>6. Store!Goes
      BY <1>3, <2>1, <2>4, <3>1, <3>2, <3>3, <3>5
         DEF Store!Goes, Store!Put, front, Writing, Answer
    <3> QED BY <3>6 DEF Store!Next
  <2> QED BY <2>7, <2>8
<1> QED BY <1>7, <1>8

\* A write that is interrupted keeps what it had written.
LEMMA WriteStops == ASSUME IInv, Interrupt PROVE [Store!Next]_<<Content, Writing, Answer>>
<1>1. UNCHANGED <<disk, sound>> /\ pc = "writing" /\ pc' = "closed" /\ result' = NoCall
  BY DEF Interrupt, Forget, fileVars
<1>2. UNCHANGED Content /\ Writing' = <<>> /\ Answer' = <<>>
  BY <1>1 DEF Content, Writing, Answer
<1>3. CASE Writing = <<>>
  BY <1>2, <1>3 DEF Store!Other, Store!Next, Writing, Answer
<1>4. CASE Writing # <<>>
  BY <1>2, <1>4 DEF Store!Stops, Store!Next, Writing, Answer
<1> QED BY <1>3, <1>4

LEMMA StoreStep ==
  ASSUME IInv, HeldInv, [Next]_vars PROVE [Store!Next]_<<Content, Writing, Answer>>
<1>1. CASE UNCHANGED vars
  BY <1>1 DEF vars, fileVars, Content, Writing, Answer
<1>2. CASE pc = "open" /\ \E path \in Paths : OpenStream(path)
  <2>1. PICK path \in Paths : OpenStream(path)
    BY <1>2
  <2>2. path \in Seq(Nat)
    BY <1>2, PathsAre DEF IInv, DirInv
  <2> QED BY <2>1, <2>2, ReadsStore
<1>3. CASE ~(pc = "open" /\ \E path \in Paths : OpenStream(path))
  <2>1. result' = result \/ result' = NoCall \/ result'.call # "read"
    BY <1>3, Answers
  <2>2. CASE OpenHeader \/ LoadFat \/ LoadRoot \/ Opened
    <3>1. UNCHANGED <<disk, sound>> /\ pc # "writing" /\ pc' # "writing"
      BY <2>2 DEF OpenHeader, LoadFat, LoadRoot, Opened, Fail, fileVars
    <3> QED BY <2>1, <3>1, Elsewhere
  <2>3. CASE Directory
    <3>1. UNCHANGED <<disk, sound>> /\ pc # "writing" /\ pc' # "writing"
      BY <2>3 DEF Directory, AppendEnter, AppendNothing, AppendKid, AppendBuild, AppendEnd,
                  BuildEnter, BuildNothing, BuildSort, ReturnFrom, Fail, fileVars
    <3> QED BY <2>1, <3>1, Elsewhere
  <2>4. CASE ListDir
    <3>1. UNCHANGED <<disk, sound>> /\ pc # "writing" /\ pc' # "writing"
      BY <2>4 DEF ListDir, fileVars
    <3> QED BY <2>1, <3>1, Elsewhere
  <2>5. ASSUME NEW path \in Paths, GetSize(path)
        PROVE  [Store!Next]_<<Content, Writing, Answer>>
    <3>1. UNCHANGED <<disk, sound>> /\ pc # "writing" /\ pc' # "writing"
      BY <2>5 DEF GetSize, fileVars
    <3> QED BY <2>1, <3>1, Elsewhere
  <2>6. ASSUME NEW t \in Tables, GetMetadata(t[1], t[2])
        PROVE  [Store!Next]_<<Content, Writing, Answer>>
    <3>1. UNCHANGED <<disk, sound>> /\ pc # "writing" /\ pc' # "writing"
      BY <2>6 DEF GetMetadata, fileVars
    <3> QED BY <2>1, <3>1, Elsewhere
  <2>7. ASSUME pc = "open", NEW path \in Paths, NEW extra \in {0, 1}, WriteStream(path, extra)
        PROVE  [Store!Next]_<<Content, Writing, Answer>>
    <3>1. path \in Seq(Nat)
      BY <2>7, PathsAre DEF IInv, DirInv
    <3> QED BY <2>7, <3>1, WriteBegins
  <2>8. CASE WriteSector
    BY <2>8, WriteGoesOn
  <2>9. CASE Close
    <3>1. UNCHANGED <<disk, sound>> /\ pc # "writing" /\ pc' # "writing"
      BY <2>9 DEF Close, Forget, fileVars
    <3> QED BY <2>1, <3>1, Elsewhere
  <2>10. CASE Interrupt
    BY <2>10, WriteStops
  <2> QED BY <1>1, <1>3, <2>2, <2>3, <2>4, <2>5, <2>6, <2>7, <2>8, <2>9, <2>10
          DEF Next, Calls
<1> QED BY <1>2, <1>3

\* A container, whatever the file and the damage in it, is a store of its
\* undamaged streams: reading one gives what the last write_stream left, or
\* had written when it was interrupted, and nothing else changes it.
THEOREM StoreRefined == Spec => StreamsAreStores
<1>1. Init => Store!Init
  BY DEF Init, Store!Init
<1>2. IInv /\ HeldInv /\ [Next]_vars => [Store!Next]_<<Content, Writing, Answer>>
  BY StoreStep
<1>3. IInv /\ HeldInv /\ [Next]_vars =>
        [Store!Next]_<<Content,
                       IF pc = "writing" /\ job.sid \in DOMAIN sound
                       THEN <<job.sid, job.data>> ELSE <<>>,
                       IF result # NoCall /\ result.call = "read" /\ result.ok
                            /\ result.sid \in DOMAIN sound
                       THEN <<result.sid, result.words>> ELSE <<>>>>
  BY <1>2 DEF Writing, Answer
<1> QED BY <1>1, <1>3, Invariance, UndamagedKept, PTL DEF Spec, StreamsAreStores, Store!Spec
=============================================================================
