----------------------------- MODULE MCOleFile -----------------------------
(***************************************************************************)
(* Files for OleFile: one of 12 sectors whose table needs a DIFAT sector,  *)
(* and every file that differs from it by one damaged word of the table,   *)
(* of the mini table or of the header, one damaged link, name, type, start *)
(* or size in the directory, one flaw of an entry, or a last sector cut    *)
(* short.                                                                  *)
(*                                                                         *)
(*   0, 1, 8  the table          9  the DIFAT sector                       *)
(*   2, 3     the directory      5  the mini table    7  the ministream    *)
(*   4, 6     stream 2 (6 words), with a capital name                      *)
(*   10, 11   stream 4 (7 words)      stream 3 (3 words) in the ministream *)
(***************************************************************************)
EXTENDS OleFile

Nothing == 900
E(type, name, left, right, child, start, size) ==
  [type |-> type, name |-> name, left |-> left, right |-> right,
   child |-> child, start |-> start, size |-> size, flaws |-> {}]

Table == <<FATSECT, FATSECT, 3, ENDOFCHAIN, 6, ENDOFCHAIN, ENDOFCHAIN,
           ENDOFCHAIN, FATSECT, DIFSECT, 11, ENDOFCHAIN>>
Words(s) == [i \in 1..4 |-> 100 + 4 * s + i]

GoodDisk == [s \in 0..11 |->
  CASE s = 0 -> SubSeq(Table, 1, 4)
    [] s = 1 -> SubSeq(Table, 5, 8)
    [] s = 8 -> SubSeq(Table, 9, 12)
    [] s = 9 -> <<8, FREESECT, FREESECT, ENDOFCHAIN>>
    [] s = 5 -> <<1, ENDOFCHAIN, FREESECT, FREESECT>>
    [] OTHER -> Words(s)]

\* Storage 1 holds stream 3; the root holds 2, 1 and 4.
GoodDirs == [s \in {2, 3} |->
  IF s = 2 THEN <<E("root", 9, NOSTREAM, NOSTREAM, 1, 7, 4),
                  E("storage", 12, 2, 4, 3, 0, 0),
                  E("stream", 1, NOSTREAM, NOSTREAM, NOSTREAM, 4, 6)>>
  ELSE <<E("stream", 13, NOSTREAM, NOSTREAM, NOSTREAM, 0, 3),
         E("stream", 14, NOSTREAM, NOSTREAM, NOSTREAM, 10, 7),
         EmptyEntry>>]

GoodHeader == [level |-> FATAL, flaws |-> {}, sectDirStart |-> 2,
  MiniFatStart |-> 5, csectMiniFat |-> 1, sectDifStart |-> 9, csectDif |-> 1,
  csectFat |-> 3, slots |-> <<0, 1>>]

Good == [header |-> GoodHeader, disk |-> GoodDisk, dirs |-> GoodDirs]

-----------------------------------------------------------------------------
\* Damage.  50 is a number of no sector and no entry.
Bad == 50
SectorWordsBad == {2, 4, 6, 7, 10, Bad, ENDOFCHAIN, FREESECT}

DiskDamage ==
  {[Good EXCEPT !.disk[s][i] = v] :
     s \in {0, 1, 8}, i \in 1..4, v \in SectorWordsBad}
  \cup {[Good EXCEPT !.disk[5][i] = v] :
          i \in 1..2, v \in {0, 1, Bad, ENDOFCHAIN}}
  \cup {[Good EXCEPT !.disk[9][i] = v] : i \in {1, 2, 4}, v \in {0, 4, 9, Bad, ENDOFCHAIN}}
  \cup {[Good EXCEPT !.disk[11] = SubSeq(@, 1, n)] : n \in {2, 3}}

HeaderDamage ==
  {[Good EXCEPT !.header.sectDirStart = v] : v \in {3, 4, 5, Bad, ENDOFCHAIN}}
  \cup {[Good EXCEPT !.header.MiniFatStart = v] : v \in {2, 7, Bad, ENDOFCHAIN}}
  \cup {[Good EXCEPT !.header.csectMiniFat = v] : v \in {0, 2}}
  \cup {[Good EXCEPT !.header.sectDifStart = v] : v \in {0, 2, Bad}}
  \cup {[Good EXCEPT !.header.csectDif = v] : v \in {0, 2}}
  \cup {[Good EXCEPT !.header.csectFat = v] : v \in {1, 2, 6}}
  \cup {[Good EXCEPT !.header.slots[i] = v] : i \in 1..2, v \in {0, 1, 4, Bad, FREESECT}}
  \cup {[Good EXCEPT !.header.flaws = {l}] : l \in {POTENTIAL, INCORRECT, FATAL}}

EntryDamage ==
  LET At(sid) == <<2 + sid \div 3, 1 + (sid % 3)>>
  IN  {[Good EXCEPT !.dirs[At(sid)[1]][At(sid)[2]].left = v] :
         sid \in 0..4, v \in 0..5 \cup {Bad}}
      \cup {[Good EXCEPT !.dirs[At(sid)[1]][At(sid)[2]].right = v] :
              sid \in 0..4, v \in 0..5 \cup {Bad, NOSTREAM}}
      \cup {[Good EXCEPT !.dirs[At(sid)[1]][At(sid)[2]].child = v] :
              sid \in 0..4, v \in 0..5 \cup {Bad, NOSTREAM}}
      \cup {[Good EXCEPT !.dirs[At(sid)[1]][At(sid)[2]].name = v] :
              sid \in 1..4, v \in {1, 4, 12}}
      \cup {[Good EXCEPT !.dirs[At(sid)[1]][At(sid)[2]].type = v] :
              sid \in 0..4, v \in Kind}
      \cup {[Good EXCEPT !.dirs[At(sid)[1]][At(sid)[2]].start = v] :
              sid \in 0..4, v \in {0, 1, 4, 6, 10, Bad, ENDOFCHAIN}}
      \cup {[Good EXCEPT !.dirs[At(sid)[1]][At(sid)[2]].size = v] :
              sid \in 0..4, v \in {0, 3, 5, 9, 60}}
      \cup {[Good EXCEPT !.dirs[At(sid)[1]][At(sid)[2]].flaws = {l}] :
              sid \in 0..4, l \in {UNSURE, INCORRECT}}

\* Property tables: a negative 16-bit number, a date, a duration, a string;
\* an id given twice; and each with one property that cannot be decoded.
P(id, type, raw) == [id |-> id, type |-> type, raw |-> raw, ok |-> TRUE]
GoodTable == [header |-> TRUE, props |-> <<P(1, "I2", 9), P(2, "FILETIME", 37),
                P(10, "FILETIME", 37), P(1, "BOOL", 6)>>]
Sum == <<11>>
Doc == <<14>>

BadTables == {[GoodTable EXCEPT !.header = FALSE]}
             \cup {[GoodTable EXCEPT !.props[i].ok = FALSE] : i \in 1..4}
PropTables == ({GoodTable} \cup BadTables) \X {GoodTable}
              \cup {GoodTable} \X BadTables

Files == {Good} \cup DiskDamage \cup HeaderDamage \cup EntryDamage
=============================================================================
