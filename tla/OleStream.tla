----------------------------- MODULE OleStream -----------------------------
(***************************************************************************)
(* How olefile.py reads sectors: the file allocation table out of the      *)
(* header and the DIFAT sectors, and a stream along a chain of that table. *)
(*                                                                         *)
(* A sector is a sequence of words (32-bit integers of the file); the data *)
(* of streams are words too.  Sizes are counted in words and are scaled    *)
(* down: a sector has SectorWords of them (128 or 1024 in the code), a     *)
(* mini sector MiniWords (16), the header HeaderSlots (109).  Only the     *)
(* last sector of a file may be shorter than SectorWords.                  *)
(***************************************************************************)
EXTENDS Integers, Sequences, FiniteSets, SequencesExt

CONSTANTS SectorWords, MiniWords, HeaderSlots

ASSUME SizeAssumption ==
  /\ SectorWords \in Nat \ {0, 1} /\ HeaderSlots \in Nat \ {0}
  /\ MiniWords \in Nat \ {0} /\ SectorWords % MiniWords = 0

\* Numbers above every sector number.
FREESECT   == 1000
ENDOFCHAIN == 1001
FATSECT    == 1002
DIFSECT    == 1003

EndMarks == {ENDOFCHAIN, FREESECT}
NotAStream == {DIFSECT, FATSECT, ENDOFCHAIN, FREESECT}

\* Defect levels.
UNSURE    == 10
POTENTIAL == 20
INCORRECT == 30
FATAL     == 40

CeilDiv(a, b) == (a + b - 1) \div b

-----------------------------------------------------------------------------
\* What reading gives: the words, and the sectors they were read from.
Failed == [ok |-> FALSE, words |-> <<>>, sects |-> <<>>]

ReadAs(words, sects) == [ok |-> TRUE, words |-> words, sects |-> sects]

\* The sectors a chain visits in n steps.  A number outside the table is an
\* IndexError in the code: the chain stays there and is refused.
Walk(fat, first, n) ==
  LET at[i \in 0..n] ==
        IF i = 0 THEN first
        ELSE IF at[i - 1] \in DOMAIN fat THEN fat[at[i - 1]] ELSE at[i - 1]
  IN  at

\* Mutant: the end of the chain is not looked at once the size is read.
EndsAtAny(at, n) == TRUE

\* The sector after the last one must be the mark of the end.
EndsAt(at, n) == at[n] = ENDOFCHAIN

\* The length of the chain: given by the size, or the first end mark.
ChainLength(fat, at, n, known) ==
  IF known THEN n
  ELSE CHOOSE k \in 0..n : /\ \/ at[k] = ENDOFCHAIN
                              \/ k = n
                           /\ \A i \in 0..(k - 1) : at[i] # ENDOFCHAIN

\* A sector is complete, or the last one the table knows.
SectorOk(fat, source, ssize, s) ==
  /\ s \in DOMAIN fat /\ s \in DOMAIN source
  /\ Len(source[s]) = ssize \/ s = Cardinality(DOMAIN fat) - 1

\* _OleStream(fp, sect, size, ...): a stream of a known size.
OpenKnown(source, ssize, fat, first, size) ==
  LET n  == CeilDiv(size, ssize)
      at == Walk(fat, first, n)
      words == FlattenSeq([i \in 1..n |-> source[at[i - 1]]])
  IN  IF /\ n <= Cardinality(DOMAIN fat)
         /\ size = 0 => first = ENDOFCHAIN
         /\ \A i \in 0..(n - 1) : SectorOk(fat, source, ssize, at[i])
         /\ EndsAt(at, n)
         /\ Len(words) >= size
      THEN ReadAs(SubSeq(words, 1, size), [i \in 1..n |-> at[i - 1]])
      ELSE Failed

\* The same with size 0x7FFFFFFF, as loaddirectory calls it.
OpenUnknown(source, ssize, fat, first) ==
  LET most == Cardinality(DOMAIN fat)
      at == Walk(fat, first, most)
      n  == ChainLength(fat, at, most, FALSE)
  IN  IF /\ most = 0 => first = ENDOFCHAIN
         /\ \A i \in 0..(n - 1) : SectorOk(fat, source, ssize, at[i])
         /\ EndsAt(at, n)
      THEN ReadAs(FlattenSeq([i \in 1..n |-> source[at[i - 1]]]),
                  [i \in 1..n |-> at[i - 1]])
      ELSE Failed

-----------------------------------------------------------------------------
\* getsect: a sector of the file that is complete.
Readable(disk, s) == s \in DOMAIN disk /\ Len(disk[s]) = SectorWords

\* loadfat_sect: the sector numbers in front of the first end mark.
UpToMark(slots) ==
  LET marks == {i \in 1..Len(slots) : slots[i] \in EndMarks}
  IN  IF marks = {} THEN slots
      ELSE SubSeq(slots, 1, (CHOOSE i \in marks : \A j \in marks : i <= j) - 1)

\* loadfat, DIFAT part: the DIFAT sectors, each naming the next one in its
\* last word.
DifatNext(disk) ==
  [s \in {x \in DOMAIN disk : Readable(disk, x)} |-> disk[s][SectorWords]]

DifatWalk(disk, first, n) == Walk(DifatNext(disk), first, n)

DifatCount(h) ==
  (h.csectFat - HeaderSlots + SectorWords - 2) \div (SectorWords - 1)

\* The defects loadfat reports without giving up.
DifatDefects(h) ==
  IF h.csectDif # 0 /\ h.csectFat <= HeaderSlots
  THEN {[level |-> INCORRECT, what |-> "not enough sectors"]} ELSE {}

\* The checks after which loadfat gives up.
DifatOk(disk, h) ==
  LET n  == DifatCount(h)
      at == DifatWalk(disk, h.sectDifStart, n)
  IN  h.csectDif # 0 =>
        /\ h.sectDifStart < Cardinality(DOMAIN disk)
        /\ h.csectDif = n
        /\ \A i \in 0..(n - 1) : Readable(disk, at[i])
        /\ at[n] \in EndMarks

\* The DIFAT sectors, in order.
DifatChain(disk, h) ==
  LET n == IF h.csectDif = 0 THEN 0 ELSE DifatCount(h)
      at == DifatWalk(disk, h.sectDifStart, n)
  IN  [i \in 1..n |-> at[i - 1]]

\* The numbers of the sectors the table is read from, in order.
FatSectors(disk, h) ==
  LET at == DifatChain(disk, h)
  IN  UpToMark(h.slots) \o
      FlattenSeq([i \in 1..Len(at) |->
        UpToMark(SubSeq(disk[at[i]], 1, SectorWords - 1))])

\* A prefix of a sequence as a function from 0, what an array is in Python.
Array(s, n) ==
  [i \in 0..((IF Len(s) < n THEN Len(s) ELSE n) - 1) |-> s[i + 1]]

\* The table as its sectors spell it.  Mutant: the words behind the end of
\* the file are kept.
FatAll(disk, sects) ==
  LET words == FlattenSeq([i \in 1..Len(sects) |-> disk[sects[i]]])
  IN  Array(words, Len(words))

\* Mutant: the header is subtracted twice from the sectors of the file.
FatShort(disk, sects) ==
  Array(FlattenSeq([i \in 1..Len(sects) |-> disk[sects[i]]]),
        Cardinality(DOMAIN disk) - 1)

\* The table holds no more sectors than the file has.
Fat(disk, sects) ==
  Array(FlattenSeq([i \in 1..Len(sects) |-> disk[sects[i]]]),
        Cardinality(DOMAIN disk))

-----------------------------------------------------------------------------
\* loadminifat: the mini table, with as many entries as the ministream has
\* mini sectors.
MiniFatDefects(h, rootSize) ==
  IF CeilDiv(rootSize, MiniWords) > h.csectMiniFat * SectorWords
  THEN {[level |-> INCORRECT, what |-> "MiniStream larger than MiniFAT"]}
  ELSE {}

MiniFatStream(disk, fat, h) ==
  OpenKnown(disk, SectorWords, fat, h.MiniFatStart,
            h.csectMiniFat * SectorWords)

MiniFat(read, rootSize) == Array(read.words, CeilDiv(rootSize, MiniWords))

\* The mini sectors of a ministream.
MiniSectors(words) ==
  [m \in 0..(CeilDiv(Len(words), MiniWords) - 1) |->
     SubSeq(words, m * MiniWords + 1,
            IF (m + 1) * MiniWords < Len(words) THEN (m + 1) * MiniWords
            ELSE Len(words))]

-----------------------------------------------------------------------------
\* write_sect: the data, padded with zeros to a sector.
Padded(data) ==
  data \o [i \in 1..(SectorWords - Len(data)) |-> 0]

\* The i-th sector, from 0, of data to be written; the last is smaller.
DataSector(data, i) ==
  SubSeq(data, i * SectorWords + 1,
         IF (i + 1) * SectorWords < Len(data) THEN (i + 1) * SectorWords
         ELSE Len(data))
=============================================================================
