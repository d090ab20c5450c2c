------------------------------ MODULE OleFile ------------------------------
(***************************************************************************)
(* An OLE2 container as olefile.py opens, lists, reads and rewrites it.    *)
(*                                                                         *)
(* Opening reads the header, the file allocation table and then the        *)
(* directory: a recursive walk of the children trees of the storages, of   *)
(* which every step is an action here, the recursion being kept in         *)
(* `stack`.  The mini table and the ministream are read when the first     *)
(* small stream is opened and kept.  write_stream replaces a stream sector *)
(* by sector, following the table in memory.                               *)
(*                                                                         *)
(* Files may be damaged: every defect is recorded, or raised when its      *)
(* level reaches the one the caller chose.                                 *)
(*                                                                         *)
(* A directory entry is a record; a sector that is not one of the          *)
(* directory reads as empty entries.  A name is a number whose units digit *)
(* is the letter and whose tens digit tells small letters from capitals,   *)
(* so that < is the order of the characters.                               *)
(***************************************************************************)
EXTENDS OleStream, OleProperties

CONSTANTS
  Images,          \* the files that may be opened
  Levels,          \* raise_defects of the callers
  DirPerSector,    \* directory entries in a sector (4 or 32)
  MinisectorCutoff,
  RecursionLimit,  \* calls Python allows inside each other
  MaxWrites,       \* bound: calls of write_stream
  NOSTREAM,        \* no directory entry
  SummaryPath, DocsumPath, \* the paths of the two streams of metadata
  Tables,          \* what the words of the two may spell
  NoCall           \* no result yet

Kind == {"empty", "storage", "stream", "root", "unknown"}

Entry == [type : Kind, name : Nat, left : Nat, right : Nat, child : Nat,
          start : Nat, size : Nat, flaws : SUBSET Nat]

\* The sectors of a file are numbered from 0; the marks are numbers above them
\* and above those of the mini sectors.
IsDisk(d) ==
  /\ IsFiniteSet(DOMAIN d) /\ DOMAIN d = 0..(Cardinality(DOMAIN d) - 1)
  /\ Cardinality(DOMAIN d) * SectorWords <= FREESECT
  /\ \A s \in DOMAIN d : d[s] \in Seq(Nat) /\ Len(d[s]) \in 1..SectorWords

IsHeader(h) ==
  /\ "level" \in DOMAIN h
  /\ {h.csectFat, h.csectDif, h.csectMiniFat} \subseteq Nat
  /\ h.slots \in Seq(Nat)

IsDirs(d) == \A s \in DOMAIN d : d[s] \in Seq(Entry)

ASSUME ImagesAssumption ==
  \A image \in Images :
    IsHeader(image.header) /\ IsDisk(image.disk) /\ IsDirs(image.dirs)

ASSUME LimitsAssumption ==
  /\ Levels \subseteq Nat /\ MinisectorCutoff \in Nat \ {0} /\ MaxWrites \in Nat
  /\ DirPerSector \in Nat \ {0} /\ RecursionLimit \in Nat \ {0}
  /\ NOSTREAM # 0

ASSUME TablesAssumption ==
  Tables \subseteq PropertyTable \X PropertyTable

EmptyEntry == [type |-> "empty", name |-> 0, left |-> 0, right |-> 0,
               child |-> 0, start |-> 0, size |-> 0, flaws |-> {}]

VARIABLES
  header,     \* the header of the file and the level of the caller
  disk,       \* [sector -> words] of the file
  dirs,       \* [sector -> directory entries] of the file
  sound,      \* history: [sid -> places of its words] of the undamaged streams
  grown,      \* whether a write went past the end of the file
  pc,         \* "closed", "fat", "root", "walk", "open", "writing" or "failed"
  fat,        \* self.fat
  folder,     \* the entries of self.directory_fp
  entries,    \* self.direntries: [sid -> entry], the loaded ones
  kids,       \* [sid -> sequence of sids]
  used,       \* the sids whose `used` is set
  issues,     \* self.parsing_issues
  seen,       \* self._used_streams_fat and self._used_streams_minifat
  stack,      \* the calls of the directory walk, the innermost last
  mini,       \* self.minifat and self.ministream
  job,        \* the write_stream that runs
  writes,     \* number of write_stream calls
  result      \* what the last call returned

fileVars == <<header, disk, dirs, sound, grown>>
dirVars  == <<folder, entries, kids, used, stack>>
oleVars  == <<fat, issues, seen, mini>>
vars == <<fileVars, dirVars, oleVars, pc, job, writes, result>>

NoMini == [loaded |-> FALSE, fat |-> <<>>, words |-> <<>>]
NoJob  == [sid |-> 0, sect |-> 0, i |-> 0, data |-> <<>>]

-----------------------------------------------------------------------------
\* Mutant: a defect must be worse than the chosen level.
RaisesAbove(defects) == \E d \in defects : d.level > header.level

\* _raise_defect: a defect of the chosen level or worse is an exception.
Raises(defects) == \E d \in defects : d.level >= header.level

Record(defects) == issues' = issues \cup {d.what : d \in defects}

Defect(cond, level, what) ==
  IF cond THEN {[level |-> level, what |-> what]} ELSE {}

\* _check_duplicate_stream: the numbers seen already are a defect.
Duplicates(first, inMini) ==
  LET ignored == ~inMini /\ first \in NotAStream
  IN  Defect(~ignored /\ <<inMini, first>> \in seen, INCORRECT,
             "Stream referenced twice")

Fail == /\ pc' = "failed"
        /\ UNCHANGED <<fileVars, dirVars, oleVars, job, writes, result>>

-----------------------------------------------------------------------------
\* open: the header, and the three streams it names itself.
KnownStreams ==
  {header.sectDirStart}
    \cup (IF header.csectMiniFat # 0 THEN {header.MiniFatStart} ELSE {})
    \cup (IF header.csectDif # 0 THEN {header.sectDifStart} ELSE {})

KnownTwice ==
  \/ header.csectMiniFat # 0 /\ header.MiniFatStart = header.sectDirStart
       /\ header.MiniFatStart \notin NotAStream
  \/ header.csectDif # 0 /\ header.sectDifStart \notin NotAStream
       /\ \/ header.sectDifStart = header.sectDirStart
          \/ header.csectMiniFat # 0
               /\ header.sectDifStart = header.MiniFatStart

HeaderDefects ==
  {[level |-> l, what |-> "header"] : l \in header.flaws}
    \cup Defect(KnownTwice, INCORRECT, "Stream referenced twice")

OpenHeader ==
  /\ pc = "closed"
  /\ IF Raises(HeaderDefects) THEN Fail
     ELSE /\ issues' = {d.what : d \in HeaderDefects}
          /\ seen' = {<<FALSE, s>> : s \in KnownStreams \ NotAStream}
          /\ pc' = "fat"
          /\ UNCHANGED <<fileVars, dirVars, fat, mini, job, writes, result>>

\* open, loadfat.
LoadFat ==
  /\ pc = "fat"
  /\ LET sects == FatSectors(disk, header)
     IN  IF \/ ~DifatOk(disk, header)
            \/ Raises(DifatDefects(header))
            \/ \E i \in 1..Len(sects) : ~Readable(disk, sects[i])
         THEN Fail
         ELSE /\ fat' = Fat(disk, sects)
              /\ Record(DifatDefects(header))
              /\ pc' = "root"
              /\ UNCHANGED <<fileVars, dirVars, seen, mini, job, writes,
                             result>>

-----------------------------------------------------------------------------
\* The directory.  The entries a directory sector holds.
EntriesOf(ds, s) ==
  IF s \in DOMAIN ds THEN ds[s]
  ELSE [i \in 1..DirPerSector |-> EmptyEntry]

\* loaddirectory: as many entries as the stream has room for.
Folder(ds, read) ==
  LET all == FlattenSeq([i \in 1..Len(read.sects) |->
                           EntriesOf(ds, read.sects[i])])
  IN  Array(all, (Len(read.words) * DirPerSector) \div SectorWords)

\* Whether a stream of that size is kept in mini sectors.
InMini(e) == e.type = "stream" /\ e.size < MinisectorCutoff

\* _OleDirectoryEntry.__init__.  The flaws of an entry are the levels of what
\* is wrong with its name, which is cut when it is too long, and with the high
\* word of its size, which is left away.
EntryDefects(e, sid) ==
  {[level |-> l, what |-> "entry"] : l \in e.flaws}
    \cup Defect(e.type = "unknown", INCORRECT, "unhandled type")
    \cup Defect(e.type = "root" /\ sid # 0, INCORRECT, "duplicate root")
    \cup Defect(e.type # "root" /\ sid = 0, INCORRECT, "incorrect root")
    \cup Defect(e.type = "storage" /\ e.size # 0, POTENTIAL, "storage with size")
    \cup (IF e.type \in {"root", "stream"} /\ e.size > 0
          THEN Duplicates(e.start, InMini(e)) ELSE {})

SeenAfter(e) ==
  IF /\ e.type \in {"root", "stream"} /\ e.size > 0
     /\ InMini(e) \/ e.start \notin NotAStream
  THEN seen \cup {<<InMini(e), e.start>>} ELSE seen

\* _load_direntry: a second reference to an entry.
ReloadDefects(sid) ==
  Defect(sid \in DOMAIN entries, INCORRECT, "double reference")

Put(f, k, v) == [x \in DOMAIN f \cup {k} |-> IF x = k THEN v ELSE f[x]]

Load(sid) ==
  IF sid \in DOMAIN entries
  THEN /\ Record(ReloadDefects(sid))
       /\ UNCHANGED <<entries, kids, seen>>
  ELSE /\ Record(EntryDefects(folder[sid], sid))
       /\ entries' = Put(entries, sid, folder[sid])
       /\ kids' = Put(kids, sid, <<>>)
       /\ seen' = SeenAfter(folder[sid])

LoadDefects(sid) ==
  IF sid \in DOMAIN entries THEN ReloadDefects(sid)
  ELSE EntryDefects(folder[sid], sid)

\* A call of append_kids or build_storage_tree: which, of which entry, for
\* which storage, and how far it is.
Frame(fn, sid, owner) == [fn |-> fn, sid |-> sid, owner |-> owner, at |-> "enter"]

\* open, loaddirectory: the directory stream and the root entry.
LoadRoot ==
  /\ pc = "root"
  /\ LET read == OpenUnknown(disk, SectorWords, fat, header.sectDirStart)
         all  == Folder(dirs, read)
     IN  IF ~read.ok \/ 0 \notin DOMAIN all THEN Fail
         ELSE IF Raises(EntryDefects(all[0], 0)) THEN Fail
         ELSE /\ folder' = all
              /\ entries' = [s \in {0} |-> all[0]]
              /\ kids' = [s \in {0} |-> <<>>]
              /\ used' = {}
              /\ Record(EntryDefects(all[0], 0))
              /\ seen' = SeenAfter(all[0])
              /\ stack' = <<Frame("build", 0, 0)>>
              /\ pc' = "walk"
              /\ UNCHANGED <<fileVars, fat, mini, job, writes, result>>

Top == stack[Len(stack)]
Return == SubSeq(stack, 1, Len(stack) - 1)
Step(at) == [stack EXCEPT ![Len(stack)].at = at]
Call(at, f) == Append(Step(at), f)

\* One call more than Python allows is a RuntimeError, which open() passes on.
TooDeep == Len(stack) >= RecursionLimit

\* The innermost call returns.
ReturnFrom(at) ==
  /\ pc = "walk" /\ stack # <<>> /\ Top.at = at
  /\ stack' = Return
  /\ UNCHANGED <<fileVars, oleVars, pc, folder, entries, kids, used, job,
                 writes, result>>

-----------------------------------------------------------------------------
\* append_kids up to its call for the left neighbour.
AppendEnter ==
  /\ pc = "walk" /\ stack # <<>> /\ Top.fn = "append" /\ Top.at = "enter"
  /\ Top.sid # NOSTREAM
  /\ IF Top.sid \notin DOMAIN folder THEN Fail
     ELSE IF Raises(LoadDefects(Top.sid)) \/ TooDeep THEN Fail
     ELSE /\ Load(Top.sid)
          /\ stack' = Call("left", Frame("append", entries'[Top.sid].left,
                                         Top.owner))
          /\ UNCHANGED <<fileVars, pc, fat, folder, used, mini, job, writes,
                         result>>

AppendNothing ==
  /\ stack # <<>> /\ Top.fn = "append" /\ Top.sid = NOSTREAM
  /\ ReturnFrom("enter")

Lower(name) == name % 10

\* append_kids between the left and the right neighbour: the child becomes a
\* kid of the storage.
KidDefects(sid, owner) ==
  Defect(\E i \in 1..Len(kids[owner]) :
           Lower(entries[kids[owner][i]].name) = Lower(entries[sid].name),
         INCORRECT, "Duplicate filename")
    \cup Defect(sid \in used, INCORRECT, "referenced more than once")

AppendKid ==
  /\ pc = "walk" /\ stack # <<>> /\ Top.fn = "append" /\ Top.at = "left"
  /\ IF Raises(KidDefects(Top.sid, Top.owner)) \/ TooDeep THEN Fail
     ELSE /\ Record(KidDefects(Top.sid, Top.owner))
          /\ kids' = [kids EXCEPT ![Top.owner] = Append(@, Top.sid)]
          /\ used' = used \cup {Top.sid}
          /\ stack' = Call("right", Frame("append", entries[Top.sid].right,
                                          Top.owner))
          /\ UNCHANGED <<fileVars, pc, fat, seen, folder, entries, mini, job,
                         writes, result>>

\* append_kids: at last the kid's own tree.
AppendBuild ==
  /\ pc = "walk" /\ stack # <<>> /\ Top.fn = "append" /\ Top.at = "right"
  /\ IF TooDeep THEN Fail
     ELSE /\ stack' = Call("kid", Frame("build", Top.sid, Top.sid))
          /\ UNCHANGED <<fileVars, oleVars, pc, folder, entries, kids, used,
                         job, writes, result>>

AppendEnd == ReturnFrom("kid")

\* build_storage_tree: the children, then kids.sort().
BuildEnter ==
  /\ pc = "walk" /\ stack # <<>> /\ Top.fn = "build" /\ Top.at = "enter"
  /\ entries[Top.sid].child # NOSTREAM
  /\ IF TooDeep THEN Fail
     ELSE /\ stack' = Call("sort", Frame("append", entries[Top.sid].child,
                                         Top.sid))
          /\ UNCHANGED <<fileVars, oleVars, pc, folder, entries, kids, used,
                         job, writes, result>>

BuildNothing ==
  /\ stack # <<>> /\ Top.fn = "build" /\ entries[Top.sid].child = NOSTREAM
  /\ ReturnFrom("enter")

Before(a, b) == entries[a].name < entries[b].name

\* A stable sort: an entry goes behind those that are not greater.
Sorted(seq) ==
  LET place(i) == 1 + Cardinality({j \in 1..Len(seq) :
                        \/ Before(seq[j], seq[i])
                        \/ ~Before(seq[i], seq[j]) /\ j < i})
  IN  [k \in 1..Len(seq) |-> seq[CHOOSE i \in 1..Len(seq) : place(i) = k]]

BuildSort ==
  /\ pc = "walk" /\ stack # <<>> /\ Top.fn = "build" /\ Top.at = "sort"
  /\ kids' = [kids EXCEPT ![Top.sid] = Sorted(@)]
  /\ stack' = Return
  /\ UNCHANGED <<fileVars, oleVars, pc, folder, entries, used, job, writes,
                 result>>

\* open returns.
Opened ==
  /\ pc = "walk" /\ stack = <<>>
  /\ mini' = NoMini
  /\ pc' = "open"
  /\ UNCHANGED <<fileVars, dirVars, fat, issues, seen, job, writes, result>>

-----------------------------------------------------------------------------
\* Calls on an open file.  Mutant: names are compared with their case.
FindExact(path) ==
  LET at[i \in 0..Len(path)] ==
        IF i = 0 THEN 0
        ELSE IF at[i - 1] = NOSTREAM THEN NOSTREAM
        ELSE LET row  == kids[at[i - 1]]
                 same == {k \in 1..Len(row) : entries[row[k]].name = path[i]}
             IN  IF same = {} THEN NOSTREAM
                 ELSE row[CHOOSE k \in same : \A l \in same : k <= l]
  IN  at[Len(path)]

\* _find: along the path, the first kid of that name whatever its case; or
\* NOSTREAM, an IOError in the code.
Find(path) ==
  LET at[i \in 0..Len(path)] ==
        IF i = 0 THEN 0
        ELSE IF at[i - 1] = NOSTREAM THEN NOSTREAM
        ELSE LET row  == kids[at[i - 1]]
                 same == {k \in 1..Len(row) :
                            Lower(entries[row[k]].name) = Lower(path[i])}
             IN  IF same = {} THEN NOSTREAM
                 ELSE row[CHOOSE k \in same : \A l \in same : k <= l]
  IN  at[Len(path)]

\* _list: what it shows of a kid, with the paths below it.
Shown(kid, below, streams, storages) ==
  LET here == [path |-> <<entries[kid].name>>, sid |-> kid]
  IN  CASE entries[kid].type = "storage" ->
             (IF storages THEN <<here>> ELSE <<>>) \o
             [i \in 1..Len(below) |->
                [path |-> here.path \o below[i].path, sid |-> below[i].sid]]
        [] entries[kid].type = "stream" -> IF streams THEN <<here>> ELSE <<>>
        [] OTHER -> <<>>

\* _list: the paths below a storage, with the sid each one was listed for.
List(streams, storages) ==
  LET below[d \in 0..RecursionLimit] ==
        [s \in DOMAIN entries |->
           IF d = 0 THEN <<>>
           ELSE FlattenSeq([k \in 1..Len(kids[s]) |->
                  Shown(kids[s][k], below[d - 1][kids[s][k]], streams, storages)])]
  IN  below[RecursionLimit][0]

\* A kid that is neither, of a storage the listing reaches.
ListDefects ==
  LET reached == {0} \cup {r.sid : r \in ToSet(List(FALSE, TRUE))}
  IN  Defect(\E s \in reached : \E k \in 1..Len(kids[s]) :
               entries[kids[s][k]].type \notin {"storage", "stream"},
             INCORRECT, "not a stream nor a storage")

\* The paths a caller asks for: those of the tree, in small letters, and one
\* that does not exist.
Paths ==
  {[i \in 1..Len(r.path) |-> 10 + Lower(r.path[i])] :
     r \in ToSet(List(TRUE, TRUE))} \cup {<<19>>}

Returns(call, sid, ok, words) ==
  result' = [call |-> call, sid |-> sid, ok |-> ok, words |-> words]

Raised(call, sid) == Returns(call, sid, FALSE, <<>>)

\* listdir
ListDir ==
  /\ pc = "open"
  /\ IF Raises(ListDefects)
     THEN Raised("list", 0) /\ UNCHANGED issues
     ELSE Returns("list", 0, TRUE, <<>>) /\ Record(ListDefects)
  /\ UNCHANGED <<fileVars, dirVars, fat, seen, mini, pc, job, writes>>

\* exists, get_type: every exception is an answer.
GetType(path) ==
  IF Find(path) = NOSTREAM THEN "empty" ELSE entries[Find(path)].type

Exists(path) == Find(path) # NOSTREAM

\* get_size: a TypeError for what is not a stream.
GetSize(path) ==
  /\ pc = "open"
  /\ IF GetType(path) = "stream"
     THEN Returns("size", Find(path), TRUE, <<entries[Find(path)].size>>)
     ELSE Raised("size", Find(path))
  /\ UNCHANGED <<fileVars, dirVars, oleVars, pc, job, writes>>

\* _open, for a small stream: the mini table and the ministream, read once.
MiniRead ==
  LET table == MiniFatStream(disk, fat, header)
  IN  IF mini.loaded THEN mini
      ELSE IF ~table.ok THEN NoMini
      ELSE LET store == OpenKnown(disk, SectorWords, fat, entries[0].start,
                                  entries[0].size)
           IN  IF ~store.ok THEN NoMini
               ELSE [loaded |-> TRUE, words |-> store.words,
                     fat |-> MiniFat(table, entries[0].size)]

MiniDefects ==
  IF mini.loaded THEN {} ELSE MiniFatDefects(header, entries[0].size)

\* _open: what it reads, what it keeps, what it reports.
Reads(sid) ==
  IF ~InMini(entries[sid])
  THEN OpenKnown(disk, SectorWords, fat, entries[sid].start, entries[sid].size)
  ELSE IF ~MiniRead.loaded THEN Failed
  ELSE OpenKnown(MiniSectors(MiniRead.words), MiniWords, MiniRead.fat,
                 entries[sid].start, entries[sid].size)

OpenDefects(sid) == IF InMini(entries[sid]) THEN MiniDefects ELSE {}

KeepsMini(sid) == mini' = IF InMini(entries[sid]) THEN MiniRead ELSE mini

\* openstream
OpenStream(path) ==
  /\ pc = "open"
  /\ LET sid == Find(path)
     IN  IF GetType(path) # "stream" \/ Raises(OpenDefects(sid))
         THEN Raised("read", sid) /\ UNCHANGED <<mini, issues>>
         ELSE /\ Record(OpenDefects(sid))
              /\ KeepsMini(sid)
              /\ Returns("read", sid, Reads(sid).ok, Reads(sid).words)
  /\ UNCHANGED <<fileVars, dirVars, fat, seen, pc, job, writes>>

\* OleMetadata.parse_properties on this file.  What the words of the two
\* streams spell is one of Tables; a stream that does not exist has none.
TableDefects(t) ==
  {[level |-> INCORRECT, what |-> d] : d \in PropertyDefects(t)}

Unreadable(path) ==
  \/ GetType(path) # "stream"
  \/ Raises(OpenDefects(Find(path)))
  \/ ~Reads(Find(path)).ok

\* getproperties of one of them gives up; what it records on its way.
GivesUp(path, t) == Exists(path) /\ (Unreadable(path) \/ Raises(TableDefects(t)))

Noted(path, t) ==
  IF GetType(path) # "stream" THEN {}
  ELSE {d \in OpenDefects(Find(path))
              \cup (IF Unreadable(path) THEN {} ELSE TableDefects(t)) :
          ~Raises({d})}

\* Bound: the metadata are asked for before anything else.
GetMetadata(sum, doc) ==
  /\ pc = "open" /\ result = NoCall
  /\ LET s == IF Exists(SummaryPath) THEN sum ELSE NoTable
         d == IF Exists(DocsumPath) THEN doc ELSE NoTable
     IN  IF GivesUp(SummaryPath, s)
         THEN Record(Noted(SummaryPath, s)) /\ Raised("meta", 0)
         ELSE /\ Record(Noted(SummaryPath, s) \cup Noted(DocsumPath, d))
              /\ IF GivesUp(DocsumPath, d) THEN Raised("meta", 0)
                 ELSE Returns("meta", 0, TRUE, <<s, d, Metadata(s, d)>>)
  /\ mini' = IF \E p \in {SummaryPath, DocsumPath} :
                  GetType(p) = "stream" /\ InMini(entries[Find(p)])
             THEN MiniRead ELSE mini
  /\ UNCHANGED <<fileVars, dirVars, fat, seen, pc, job, writes>>

-----------------------------------------------------------------------------
\* write_stream: the data of the n-th call, as long as the caller says.
Data(n, size) == [i \in 1..size |-> 200 + 20 * n + i]

\* Mutant: a small stream is written like the others.
WritableAny(e, size) == e.type = "stream" /\ size = e.size

\* A stream of the same size that is not kept in mini sectors.
Writable(e, size) ==
  /\ e.type = "stream"
  /\ size = e.size
  /\ e.size >= MinisectorCutoff

WriteStream(path, extra) ==
  /\ pc = "open" /\ writes < MaxWrites
  /\ writes' = writes + 1
  /\ LET sid  == Find(path)
         size == IF Exists(path) THEN entries[sid].size + extra ELSE 0
     IN  IF Exists(path) /\ Writable(entries[sid], size)
         THEN /\ job' = [sid |-> sid, sect |-> entries[sid].start, i |-> 0,
                         data |-> Data(writes + 1, size)]
              /\ pc' = "writing"
              /\ result' = NoCall
         ELSE Raised("write", sid) /\ UNCHANGED <<pc, job>>
  /\ UNCHANGED <<fileVars, dirVars, oleVars>>

\* write_sect: nothing asks whether the sector is one of the file.
WriteSect(s, data) ==
  IF s \in DOMAIN disk
  THEN /\ disk' = [disk EXCEPT ![s] = Padded(data)]
       /\ dirs' = [d \in DOMAIN dirs \ {s} |-> dirs[d]]
       /\ UNCHANGED <<header, sound, grown>>
  ELSE /\ grown' = TRUE
       /\ UNCHANGED <<header, disk, dirs, sound>>

\* write_stream follows the table in memory.
NextSector(s) == fat[s]

LastSector == job.i + 1 = CeilDiv(Len(job.data), SectorWords)

\* One turn of the loop of write_stream; the last one looks for the mark of
\* the end of the chain.
WriteSector ==
  /\ pc = "writing"
  /\ WriteSect(job.sect, DataSector(job.data, job.i))
  /\ IF job.sect \notin DOMAIN fat
     THEN Raised("write", job.sid) /\ pc' = "open" /\ job' = NoJob
     ELSE IF LastSector
     THEN /\ Returns("write", job.sid, NextSector(job.sect) = ENDOFCHAIN, job.data)
          /\ pc' = "open" /\ job' = NoJob
     ELSE /\ job' = [job EXCEPT !.i = @ + 1, !.sect = NextSector(@)]
          /\ UNCHANGED <<pc, result>>
  /\ UNCHANGED <<dirVars, oleVars, writes>>

\* close, or the end of the program: a stream being written keeps the sectors
\* written so far.
Forget ==
  /\ pc' = "closed"
  /\ fat' = <<>> /\ folder' = <<>> /\ entries' = <<>> /\ kids' = <<>>
  /\ used' = {} /\ issues' = {} /\ seen' = {} /\ stack' = <<>>
  /\ mini' = NoMini /\ job' = NoJob /\ result' = NoCall
  /\ UNCHANGED <<fileVars, writes>>

\* Bound: a file that a write has grown is not opened again.
Close == pc \in {"open", "failed"} /\ ~grown /\ Forget

Interrupt == pc = "writing" /\ Forget

-----------------------------------------------------------------------------
\* The streams of a file that no damage reaches, and where their words are: a
\* place is a sector and the number of a word in it.  What is here is said of
\* the file, whoever reads it: only the directory is taken as it is read.
File == [header |-> header, disk |-> disk, dirs |-> dirs]

\* The places along a chain.
Spots(ssize, table, first, size) ==
  LET at == Walk(table, first, CeilDiv(size, ssize))
  IN  [i \in 1..size |-> <<at[(i - 1) \div ssize], ((i - 1) % ssize) + 1>>]

WordsAt(source, places) ==
  [i \in 1..Len(places) |-> source[places[i][1]][places[i][2]]]

\* A chain of as many sectors as the size takes, all of them complete but the
\* last, which may be cut by the end of the file behind the stream.
Laid(source, ssize, table, first, size) ==
  LET n  == CeilDiv(size, ssize)
      at == Walk(table, first, n)
  IN  /\ at[n] = ENDOFCHAIN
      /\ \A i \in 0..(n - 1) :
           /\ at[i] \in DOMAIN table /\ at[i] \in DOMAIN source
           /\ \/ Len(source[at[i]]) = ssize
              \/ /\ i = n - 1 /\ at[i] = Cardinality(DOMAIN source) - 1
                 /\ size <= i * ssize + Len(source[at[i]])

TableOf(f) == Fat(f.disk, FatSectors(f.disk, f.header))
ChainsOf(f) == FatAll(f.disk, FatSectors(f.disk, f.header))
DirectoryOf(f) ==
  OpenUnknown(f.disk, SectorWords, TableOf(f), f.header.sectDirStart)
FolderOf(f) == Folder(f.dirs, DirectoryOf(f))

\* A stream of the file itself: the mini table, the ministream, a big stream.
LaidOn(f, first, size) == Laid(f.disk, SectorWords, ChainsOf(f), first, size)
SpotsOn(f, first, size) == Spots(SectorWords, ChainsOf(f), first, size)

MiniTableSpots(f) ==
  SpotsOn(f, f.header.MiniFatStart, f.header.csectMiniFat * SectorWords)
MiniTableLaid(f) ==
  LaidOn(f, f.header.MiniFatStart, f.header.csectMiniFat * SectorWords)
MiniStoreSpots(f) == SpotsOn(f, FolderOf(f)[0].start, FolderOf(f)[0].size)
MiniStoreLaid(f) == LaidOn(f, FolderOf(f)[0].start, FolderOf(f)[0].size)

MiniChains(f) ==
  LET words == WordsAt(f.disk, MiniTableSpots(f)) IN Array(words, Len(words))
MiniStore(f) == MiniSectors(WordsAt(f.disk, MiniStoreSpots(f)))

StreamLaid(f, e) ==
  IF InMini(e)
  THEN /\ MiniTableLaid(f) /\ MiniStoreLaid(f)
       /\ Laid(MiniStore(f), MiniWords, MiniChains(f), e.start, e.size)
  ELSE LaidOn(f, e.start, e.size)

\* The o-th word of mini sector m is a word of the ministream.
Places(f, e) ==
  IF InMini(e)
  THEN LET spots == Spots(MiniWords, MiniChains(f), e.start, e.size)
       IN  [i \in 1..e.size |->
              MiniStoreSpots(f)[spots[i][1] * MiniWords + spots[i][2]]]
  ELSE SpotsOn(f, e.start, e.size)

\* The sectors its words are in, those of the mini table and the ministream
\* included.
Home(f, e) ==
  {p[1] : p \in ToSet(IF InMini(e) THEN MiniTableSpots(f) \o MiniStoreSpots(f)
                      ELSE Places(f, e))}

\* The sectors in which a stream of that entry would be written.
WritePath(f, e) ==
  LET n == CeilDiv(e.size, SectorWords)
      at == Walk(TableOf(f), e.start, n)
  IN  IF e.type = "stream" /\ ~InMini(e) THEN {at[i] : i \in 0..(n - 1)} ELSE {}

\* The sectors that lead to the streams: the table, the DIFAT, the directory.
Leading(f) ==
  ToSet(FatSectors(f.disk, f.header)) \cup ToSet(DifatChain(f.disk, f.header))
    \cup ToSet(DirectoryOf(f).sects)

\* The table and the directory can be read, and no stream runs into them.
Leads(f) ==
  LET all     == FolderOf(f)
      leading == Leading(f)
  IN  /\ DifatOk(f.disk, f.header)
      /\ \A s \in ToSet(FatSectors(f.disk, f.header)) : Readable(f.disk, s)
      /\ DirectoryOf(f).ok /\ 0 \in DOMAIN all
      /\ \A x \in DOMAIN all : WritePath(f, all[x]) \cap leading = {}

\* A stream that is well laid, and that no other one runs into.
Undamaged(f, sid) ==
  LET all  == FolderOf(f)
      home == Home(f, all[sid])
  IN  /\ all[sid].type = "stream" /\ sid # NOSTREAM
      /\ StreamLaid(f, all[sid])
      /\ \A x \in DOMAIN all \ {sid} :
           WritePath(f, all[x]) \cap home = {}

SoundOf(f) ==
  LET all == FolderOf(f)
  IN  IF Leads(f)
      THEN [sid \in {x \in DOMAIN all : Undamaged(f, x)} |->
              Places(f, all[sid])]
      ELSE <<>>

-----------------------------------------------------------------------------
Init ==
  /\ \E image \in Images, level \in Levels :
       /\ header = [image.header EXCEPT !.level = level]
       /\ disk = image.disk
       /\ dirs = image.dirs
  /\ sound = SoundOf(File)
  /\ grown = FALSE /\ pc = "closed"
  /\ fat = <<>> /\ folder = <<>> /\ entries = <<>> /\ kids = <<>>
  /\ used = {} /\ issues = {} /\ seen = {} /\ stack = <<>>
  /\ mini = NoMini /\ job = NoJob /\ writes = 0 /\ result = NoCall

Directory ==
  \/ AppendEnter \/ AppendNothing \/ AppendKid \/ AppendBuild \/ AppendEnd
  \/ BuildEnter \/ BuildNothing \/ BuildSort

Calls ==
  \/ ListDir
  \/ pc = "open" /\ \E path \in Paths :
       \/ OpenStream(path) \/ GetSize(path)
       \/ \E extra \in {0, 1} : WriteStream(path, extra)
  \/ \E t \in Tables : GetMetadata(t[1], t[2])

Next ==
  \/ OpenHeader \/ LoadFat \/ LoadRoot \/ Directory \/ Opened
  \/ Calls \/ WriteSector
  \/ Close \/ Interrupt

Spec == Init /\ [][Next]_vars

-----------------------------------------------------------------------------
\* Every variable keeps its type.
TypeOK ==
  /\ pc \in {"closed", "fat", "root", "walk", "open", "writing", "failed"}
  /\ \A s \in DOMAIN disk : Len(disk[s]) \in 1..SectorWords
  /\ \A sid \in DOMAIN entries : entries[sid].type \in Kind
  /\ DOMAIN kids = DOMAIN entries /\ used \subseteq DOMAIN entries
  /\ DOMAIN fat \subseteq DOMAIN disk
  /\ Len(stack) <= RecursionLimit
  /\ writes \in 0..MaxWrites /\ grown \in BOOLEAN /\ mini.loaded \in BOOLEAN

\* A stream that could be read was read from as many sectors as its size
\* takes, no sector twice: a loop in the table is never mistaken for the
\* stream (_OleStream compares the number of sectors with the place of the end
\* mark for this).  A chain that runs into the sectors of another stream and
\* ends there after the right number of them is taken for the stream.
NoSectorTwice ==
  pc = "open" /\ result # NoCall /\ result.call = "read" /\ result.ok =>
    LET sects == Reads(result.sid).sects
    IN  /\ Cardinality(ToSet(sects)) = Len(sects)
        /\ Len(result.words) = entries[result.sid].size

\* A caller that asked for strict parsing, or whose file gave no issue, has a
\* directory that is a tree: the root is nobody's kid, every other loaded
\* entry is the kid of one storage, once, and no two kids of a storage have
\* the same name in the eyes of _find.
Clean == pc \in {"open", "writing"} /\ (issues = {} \/ header.level = INCORRECT)

KidPlaces(sid) ==
  {p \in UNION {{s} \X (1..Len(kids[s])) : s \in DOMAIN entries} :
     kids[p[1]][p[2]] = sid}

DirectoryIsTree ==
  Clean =>
    /\ KidPlaces(0) = {}
    /\ \A sid \in DOMAIN entries \ {0} : Cardinality(KidPlaces(sid)) = 1
    /\ \A s \in DOMAIN entries : \A i, k \in 1..Len(kids[s]) :
         Lower(entries[kids[s][i]].name) = Lower(entries[kids[s][k]].name) => i = k

\* In such a directory every listed path, in small letters, is found again
\* and is the entry it was listed for.
ListedIsFound ==
  Clean => \A r \in ToSet(List(TRUE, TRUE)) :
             Find([i \in 1..Len(r.path) |-> 10 + Lower(r.path[i])]) = r.sid

\* What the metadata miss is known: getproperties catches what a property that
\* cannot be decoded raises and goes on, and an earlier property of that id, or
\* none, then stands in its place.  A caller that asked for strict parsing, or
\* that finds no such issue recorded, has in every attribute what the last
\* property of its id says, in both streams.
Faithful(t, attributes, kept) ==
  t.header /\ \A a \in DOMAIN attributes :
    \/ /\ \A i \in 1..Len(t.props) : t.props[i].id # a
       /\ attributes[a] = None
    \/ \E i \in 1..Len(t.props) :
         /\ t.props[i].id = a
         /\ \A j \in 1..Len(t.props) : t.props[j].id = a => j <= i
         /\ attributes[a] = Value(t.props[i], a \notin kept)

MetadataLossKnown ==
  pc = "open" /\ result # NoCall /\ result.call = "meta" /\ result.ok
    /\ (INCORRECT >= header.level
         \/ issues \cap {"property", "properties header"} = {}) =>
    /\ Faithful(result.words[1], result.words[3].sum, {EditTime})
    /\ Faithful(result.words[2], result.words[3].doc, {})

-----------------------------------------------------------------------------
\* What the container promises for a stream that no damage reaches: it is a
\* store of its own.
Content == [sid \in DOMAIN sound |-> WordsAt(disk, sound[sid])]

Store == INSTANCE StreamStore WITH
  content <- Content,
  writing <- IF pc = "writing" /\ job.sid \in DOMAIN sound
             THEN <<job.sid, job.data>> ELSE <<>>,
  answer  <- IF result # NoCall /\ result.call = "read" /\ result.ok
                  /\ result.sid \in DOMAIN sound
             THEN <<result.sid, result.words>> ELSE <<>>

\* Reading gives what the last write_stream left, or what it had written when
\* it was interrupted; nothing else changes a stream, not a write to another
\* one, damaged or not, nor closing and opening the file.
StreamsAreStores == Store!Spec

\* A stream no damage reaches can be read from every file that opens
\* leniently and shows it.
SoundReadable ==
  pc = "open" /\ header.level = FATAL /\ result # NoCall
    /\ result.call = "read" /\ result.sid \in DOMAIN sound
    => result.ok
=============================================================================
