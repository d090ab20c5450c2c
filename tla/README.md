# Verification of the Synology DSM system scripts (`/usr/syno`)

The repository is the `/usr/syno` tree of a Synology NAS: configuration, data,
ELF programs, about two hundred scripts and the Python programs of the mail
search.  The ELF programs' sources are not in it.  What the system *decides* is
in two places, and those are what this project models:

* the shell scripts: which server of a cluster serves, when a server may shut
  down, which snapshots are kept;
* the Python programs of `synoce/scripts`: how mail is fetched over IMAP, and
  how a mail (MIME, Outlook, RTF) becomes the text the index gets.

`etc/` is a copy of `etc.defaults/`; lines are quoted from `etc.defaults/`.

## 1. Inventory

### 1.1 Synology High Availability (`etc.defaults/synoha`, `synoha/sbin`)

Two servers, NODE_HOST0 and NODE_HOST1, one active (it runs the services on
DRBD volumes), one passive.  Pacemaker, corosync and DRBD decide and
replicate; the scripts start and stop them, keep what must survive a reboot,
and repair what the cluster stack leaves undecided.

| part | state | operations | interacts with |
|---|---|---|---|
| `rc.ha` start/stop | files of `/var/lib/ha` (previous role, remote shutdown, UPS safe mode, demote error, safe mode) and of `/tmp` | boot: standby, start the stack, wait for the other server by previous role, go online; shutdown: agree on the role to record, standby, stop the stack | the other server through messages and the CIB; `handle_ais.sh` through the files |
| `rc.ha` lock | `/tmp/.ha.rc.lock` | `lock`, `unlock`, the trap | every caller of `rc.ha` |
| `handle_ais.sh` | the same files | one background handler per message of the other server | `rc.ha`, `handler_sb.sh` |
| `handler_sb.sh` | `ha.safemode.info`, `ha.ping.server`, its own lock | split-brain: both servers to standby and into read-only safe mode; ping server: compare who changed the CIB | `handle_ais.sh` on both servers, the boot path of `rc.ha` |
| link loss: `rc.ha bump-cib-epoch` | `ha_has_bumped_admin_epoch`, the constraint RULE_PING_SERVER | called when the ring breaks: keep the passive server from being promoted unless it sees the ping server | the CIB copies of both servers |
| fencing: `handle_too_active` | `.ha.remote.is.fenced`, `.too_active_both_active` | FENCING messages, `DoFenceLocal` | `handle_ais.sh` |
| UPS: `synoups`, `rc.subr` | `/tmp/ups.safemode`, `ha_in_ups_safemode`, safe-shutdown flag | mains failure stops both servers; mains return boots them | `rc.ha`, PASINUPS messages |
| services: `SxxPre.sh`, `SxxPost.sh`, `rc.subr` | paused services, `serv_failed` files | start and stop the services of the active server; monitor them | pacemaker resource agents |
| configuration sync: `confsync/system_sync.lua` | lsyncd events per directory, wait counters | collect changes, rsync them to the passive server, retry | rsync daemon of the other server |
| heartbeat check: `UtilHeartbeatCheck.sh` | rc of pings, interfaces | diagnose the heartbeat link | operator |
| active-active HA: `etc.defaults/synoaha` | role files, monitor pid | the same idea for another model line | its own daemon |

### 1.2 Other parts

| part | what it keeps and does |
|---|---|
| `bin/synosnapschedtask.sh` | one lock file per target, one per task; takes one snapshot for the schedules of a target that fire together, hands it over to replication plans and sends it |
| `etc.defaults/rc.sysv/pgsql.sh` | the PostgreSQL data directory; start, migrate, restore, stop |
| `etc.defaults/rc.sysv/syno-pkg-upgrade.sh` | the package directory during a package upgrade |
| `bin/synoups`, `rc.sysv/ups-usb.sh` | UPS driver and reaction to its events |
| `synodr/sbin` | node database of Snapshot Replication |
| `sbin/config_bootup_check.sh`, `bin/synozram`, other `rc.sysv` scripts | one-shot boot helpers and service wrappers |
| `etc*/openldap`, `usb.map`, `ipsec`, `locale`, `selfcheck`, `share` | data, schemas, third-party tools |

### 1.3 Mail (`synoce/scripts`)

| part | state | operations | interacts with |
|---|---|---|---|
| `olefile.py`: OLE files | the table, the mini table, the directory, the defects met; the file itself | open: header, DIFAT, table, a recursive walk of the directory; find, list, read, `write_stream`, property sets | `msg_parser.py` |
| `config.py`, `tls.py`, `backports/ssl`: connection | the socket and its TLS, capabilities, the cache of OAuth2 tokens | `create_client_from_config`: connect, wrap or `starttls`, login | server, token service |
| `imapclient.py`: session | `tagged_commands`, `untagged_responses`, the idle tag, cached capabilities | a command and its answer, a literal on invitation, idle, give up | `imaplib`, server |
| `_fileobject` of `backports/ssl/core.py` | `_rbuf` | `read`, `readline` | `imaplib` above, the TLS connection below |
| `response_lexer.py`, `response_parser.py`, `response_types.py`, `imap_utf7.py` | none but the stream of records | tokens, tuples, FETCH and SEARCH responses, bodies, folder names | session |
| `rtf2txt.py` | a stack of groups, characters to skip | one token after the other | - |
| `eml_parser.py` | none | the tree of parts to text, file names, addresses | the `email` package |
| `msg_parser.py` | fields kept once they were read | fields on demand, attachments, `save` | `olefile.py`, `email` |
| `livetest.py`, `fixed_offset.py`, `six.py` ... | none | test program, time zones, compatibility | - |

### 1.4 What is hard

* two servers run the same scripts at the same time and learn of each other
  only through messages without acknowledgement and through files;
* a file of `/var/lib/ha` outlives the run that wrote it, a file of `/tmp` does
  not, and a power loss separates any two writes;
* every handler runs in the background, so messages take effect in any order
  and next to a running `rc.ha`;
* almost every wait has a limit, after which the script goes on as if the wait
  had succeeded;
* an IMAP server may say anything about a mailbox at any time, before, between
  and after the lines that answer a command, and a call that was given up is
  answered all the same;
* bytes arrive in pieces that end anywhere, in the middle of a line, of an escape
  or of a literal, and the connection may end there;
* a container or a mail may be damaged in any field, and a program that reads a
  hundred of them must neither take damage for data nor lose a sound one.

### 1.5 What makes each part correct

| part | correctness |
|---|---|
| role record | whoever stops when, the two records never name two active or two passive servers; a server with old data does not serve before it has met the other; a record is used by one boot; every shutdown ends; the cluster comes back |
| `rc.ha` lock | no lock file without its call: the `stop` of a shutdown must never be refused because of a call that is over |
| split brain | at most one server is recorded as the active one; the comparison ends; the one that is recorded does serve; from safe mode only the chosen server serves, and it does |
| link loss | an older CIB never wins over one that was changed while the link was down; a constraint set for the ping server is taken back |
| fencing | at most one server is fenced; both servers do not fence each other |
| UPS | a shutdown on battery that has begun is finished or undone, never both; the passive server comes back after the active one |
| services | `preactive`/`prepassive` flags agree with what runs; a monitor does not start what was stopped on purpose |
| configuration sync | an event is transferred or reported, never lost; one directory's retries do not starve the others |
| snapshot schedule | schedules that fire together share a snapshot; what is handed to a plan is new; a plan misses one only after a failed take; runs do not wait for each other for ever |
| PostgreSQL | after a power loss at any step of a migration the next start finds a usable directory |
| OLE files | the directory is a tree and what it lists is found; a chain that loops is no stream; what no damage reaches is readable and writable as if it were alone; what the metadata miss is raised or recorded |
| IMAP connection | a password or token leaves over the channel that was asked for only; whatever fails, no connection is left open that could be closed |
| IMAP session | a call returns its own answer; an idling client misses nothing and hears nothing twice; a literal is sent when it is invited |
| byte stream, parser | bytes are handed out once and in order; what the caller gets is what the server meant, or an error |
| conversions | the text is the text of the mail and all of it; a mail fails for a cause in it |

## 2. Modules

| module | models | with |
|---|---|---|
| `HARole` | `rc.ha` `start` and `stop`, TSDFLAG / NODE__ON / PASINUPS of `handle_ais.sh`, UPS safe mode of both servers | `MCHARole`, `HARole_proofs` |
| `RcLock` | `lock`, `unlock` and the trap of `rc.ha` | `MCRcLock`, `RcLock_proofs` |
| `HASafeMode` | `handler_sb.sh`, its messages, the safe-mode section of `start` | `MCHASafeMode`, `HASafeMode_proofs` |
| `SnapSched` | `synosnapschedtask.sh` on one target | `MCSnapSched`, `SnapSched_proofs` |
| `OleStream` | tables and chains of `olefile.py`, as operators | `OleFile` |
| `OleProperties` | `getproperties`, `OleMetadata`, as operators | `OleFile` |
| `OleFile` | `OleFileIO`: opening, the directory, finding, reading, writing | `MCOleFile`, `OleFile_proofs` |
| `StreamStore` | *abstract*: named streams of fixed size, writes that may stop half way | implemented by `OleFile` |
| `ImapConnect` | `create_client_from_config`, TLS, login, token cache | `ImapSession`, `ImapSession_proofs` |
| `ImapSession` | the commands of `IMAPClient` on the clients of `ImapConnect` | `MCImap`, `ImapSession_proofs` |
| `BytePipe` | *abstract*: bytes handed out once and in order | implemented by `ByteStream` |
| `ByteStream` | the reading half of `_fileobject` | `ImapResponses`, `ByteStream_proofs` |
| `ResponseParser` | lexer, parser, response types, folder names, as operators | `ImapResponses` |
| `ImapResponses` | composes the two: from the bytes of a response to its values | `MCImapResponses` |
| `MailFields` | addresses, tags, line ends: what both mail scripts share | `EmlParser`, `MsgParser` |
| `Rtf2Txt` | `striprtf` | `MCMailText`, `MailText_proofs` |
| `EmlParser`, `MsgParser` | `extract` of `eml_parser.py`; `Message`, `Attachment`, `save` of `msg_parser.py` | `MCMailText`, `MailText_proofs` |

The `MC` modules hold constants for TLC: symmetry sets, documents, files,
responses written down in every way a server may write them.  `MCMailText` also
composes the three conversions, which share no state: a behaviour is one
document given to its script.  The `_proofs` modules hold theorems.
`ResponseParser` (bodies within bodies) uses `RECURSIVE`; no module with a theorem
reaches it.

The two High Availability modules meet in three places, each stated where it
matters: `rc.ha stop` writes no record while `ha.ping.server` or
`ha.safemode.info` exists (rc.ha:967-971), so that `HARole` leaves those files
out and `HASafeMode` lets a reboot keep the records; a record written by
`HASafeMode` is read by the wait of `start`, which is `CheckRole` in `HARole`
and `WaitOver` / `StartRole` in `HASafeMode`; and both read the role of the
other server from the one CIB that exists while the link is up.

### 2.1 HARole: state and actions

| variable | code |
|---|---|
| `disk` | flag files of `/var/lib/ha`: `previous_role_active`, `previous_role_passive`, `.ha_remote_shutdown`, `ha_in_ups_safemode`, the demote error |
| `tmp` | `.drbd_discard_mydata`, the safe-shutdown flag; the background processes of handlers, which end with power as the files do |
| `on`, `up` | power; corosync and pacemaker running |
| `role`, `standby`, `banned`, `failed` | `synoha --local-role`, `--standby-local`, `--remote-has-constraint`, `--remote-has-failed-crm-op` |
| `start`, `stop` | where the two functions are |
| `sent`, `net` | TSDFLAG messages sent by the running `stop`; messages whose handler has not run |
| `missing` | ghost of DRBD: which server lacks writes the other has |
| `stops`, `boots`, `crashes` | bounds |

`start` is `PowerOn`, `Join`, `CheckRole` or `WaitTimeout` (and `ForcePowerOff`),
`WaitPrepare`, `Forget`, `Discard`, `Online` or `ProcessGone`, `Settle`, in the
order of rc.ha:434-912.  `stop` is `BeginStop` (the guards of rc.ha:967-984),
`PrepareOver` and `PrepareFailed`, `Decide` (the role to record, 1000-1020,
with the two `handle_manually_reboot_sametime_*` functions of 927-966 as
`DecideActive`, `DecidePassive`, `SendFlag`, `FlagSent`, `RemoteGone`),
`StandbyLocal`, `StandbyDone`, `Unload`.  Every message has an action for the
handler; a handler that sleeps (NODE__ON on the active server, PASINUPS) is
split at the sleep.  Messages are a set: they are idempotent, arrive in any
order, and those for a server that is down are lost.

### 2.2 RcLock

`lockFile` is the number in `/tmp/.ha.rc.lock`, `pc` and `kind` the calls.  The
test of the file and its write are two actions, as they are two commands.
`keep`, `early` and `skip` are the three ways the `case` at the end of `rc.ha`
uses the lock.

### 2.3 HASafeMode

A server runs several calls of `handler_sb.sh` (`job`), each through the lock,
the check, and its background part; a step is one command that others can see.
`info` is `info_node.remote`, `answer` the reply to CHK_SAFE, `fromSafe` the
local `BOOT_FROM_SAFEMODE`, `rule` the constraints RULE_SB_ in the CIB,
`chosen` a history of the operator's choices.  The server's own
information goes out through `synoha --cib-nodeinfo-set`, a program without
source: that it arrives as the INFOREQ message which handle_ais.sh:106-112 hands
to `--receive-infoset` is taken from how both scripts use it.

### 2.4 SnapSched

`run` holds the variables of each run of the script, `timeLock`, `targetLock`
and `taskLock` the holders of the three flocks, `touched`, `lastTake` and
`snapName` what the two files of the target say, `failed` a history of takes
that left no name, `now` the clock.  A snapshot's name is the time it was
taken at.

### 2.5 OleStream, OleProperties, OleFile, StreamStore

Sizes are scaled down and counted in words: a sector has 4, a mini sector 2, the
header has 2 slots of the table instead of 109, a sector of the directory has 3
entries.  `header` is the header of the file, with the level of defects its
caller raises; `disk` the words of its sectors, `dirs` those sectors read as
directory entries.  `pc` says how far opening is, `fat`, `folder`, `entries`, `kids`,
`used`, `issues`, `seen` and `mini` are the fields of `OleFileIO`.

The walk of the directory is recursive in the code
(`build_storage_tree`, `append_kids`); its calls are kept in `stack` and each of
its steps is an action (`AppendEnter`, `AppendNothing`, `AppendKid`, `AppendBuild`,
`AppendEnd`, `BuildEnter`, `BuildNothing`, `BuildSort`), so that a loop in the
directory meets Python's limit of recursion as it does in the program.  A chain
of the table is a recursive function (`Walk`).  `write_stream` is one action per
sector (`WriteSector`) and can be cut off between two (`Interrupt`).

`StreamStore` is what a caller relies on; `StreamsAreStores` maps each stream no
damage reaches to a stream of the store: its words in the file, the write under way,
the answer of the last read.  Which streams these are, and where their words lie,
is said of the file and not of the program (`SoundOf`): the table and the directory
can be read, the chain of the stream has as many sectors as its size takes, all
complete but one at the end of the file, behind the last of them is the end mark
(`Laid`), and no stream that could be written has a sector in common with it, with
the table or with the directory (`Undamaged`, `Leads`).  For a stream in mini
sectors the same holds of the mini table, the ministream and the chain of mini
sectors.  The history variable `sound` keeps these places as they were in the
file at first; the program does not read it.

### 2.6 ImapConnect, ImapSession

`at` is where `create_client_from_config` is; one action per call it makes that
may fail (`Connect`, `Wrap`, `Greeting`, `Starttls`, `Upgrade`, `GetToken`, `Login`),
each of which ends in `Shutdown` when it raises.  `channel` is what protects the
connection and `secret` a history of what was sent over which.  `sock` is "broken"
where an ssl connection has failed: `IMAP4_TLS.shutdown` (tls.py:177-180) closes
the file, then calls `shutdown()` of the connection, which raises if it is
broken, and so never comes to `sock.close()` (`CloseSock`).  That exception
replaces the one that led there; the model does not tell exceptions apart.
`early` holds the capabilities a server sends in plain text with its answer to
STARTTLS: `starttls()` clears what the client remembered of them, imaplib keeps
them in `untagged_responses` (`offered`), and `capabilities()` takes the first
there, after the login too.

A session knows commands by the way their result is taken: from the untagged
responses of a type (`search`, `fetch`), with a literal (`text`), from every line
read (`noop`), `select`, `capability`, `idle` with its three calls, `logout`.
`reqs` and `wire` are the two directions of the connection, `tagged` and
`untagged` imaplib's books.  The server answers in order, invites or refuses, and
tells of changes of the message at any time (`Update`).  A call may be given up
at any time (`Timeout`); its answer still comes.

### 2.7 BytePipe, ByteStream, ResponseParser, ImapResponses

The bytes of a connection are numbered, so that a buffer is an interval:
`_rbuf`, or the local buffer of the call under way, holds the bytes from
`start + 1` to `recvd`.  `Call` is `read` or `readline` up to its first `recv`;
`Recv`, `Ends` and `Fail` are the outcomes of a `recv`.  In `BytePipe` an answer
takes the bytes behind the ones taken before, and a call that fails may take some
with it.

`ResponseParser` translates the generators of the lexer and the parser to folds
over the characters and the tokens.  A character stands for its class: a letter,
the digits 0 and 1, and each character the code names.  A number is kept as
`int()` and `text_type()` write it again, without leading zeros (`IntOf`).
`ImapResponses` adds imaplib's `_get_response`, which turns lines and literals
into records.

### 2.8 MailFields, EmlParser, MsgParser, Rtf2Txt

`Rtf2Txt` has one action per token (`NextToken`), by the branch of `striprtf` that
takes it; the text is kept as the positions of the tokens that are written.  A
number is one of a character or not (`InRange`; `MaxChar` is `sys.maxunicode`, the
width Python was built with), and a raw byte beyond ASCII that is written ends the
run when the text is joined or printed.

A string of Python 2 is of bytes or of Unicode (`uni`).  Of the characters beyond
ASCII `u` is one that is Unicode, or in bytes its UTF-8, and `x` a byte that is no
UTF-8; `w` is what decoding such bytes as Latin-1 makes of them.  Which
conversions a string takes follows from its kind and from these: `str` no Unicode
beyond ASCII, a join none beside bytes beyond ASCII (`Mixed`), `json.dumps` no
byte that is not UTF-8.

A mail
of `EmlParser` is the tree of its parts, which `Pullout` takes apart as `pullout`
does (what several parts give is `Gathered`); one of `MsgParser` is a record of
strings, each of which may be there in bytes, in Unicode, in both or damaged.  The
name of a file is of Unicode where it was sent as RFC 2231 says, of bytes otherwise;
the mail's own name and the locale decide whether it can be joined to a path
(`FileOk`).  `Get` is an access of a property and keeps what the property keeps (`cache`);
`Save` is the script, which makes its accesses in the order of `save` over whatever
was read before.

## 3. What the runs check

| run | question | bounds | distinct states |
|---|---|---|---|
| `role_records` | two shutdowns at any two moments: which records do they leave, and is a record used once? `TypeOK`, `OneServes`, `NoRecordWhileRunning` | one power loss, one shutdown and one boot per server, mains failures, failed promotions and demotions, a constraint; 1 send | 7.0 M |
| `role_serial` | a long sequence of legal, single shutdowns and boots: does old data ever serve? `NoSplitBrain` | 3 shutdowns and 3 boots per server, one at a time; failed demotions, dead pacemaker processes; 2 sends | 47 k |
| `role_recovery` | does every shutdown end, and does the cluster come back? `StopEnds`, `Recovers`, under `FairSpec` | one shutdown and one boot per server; failed demotions, a constraint that comes and goes; 2 sends | 13 k |
| `lock_orphan` | does a lock file outlive its call? `NoOrphanLock` | 4 processes, symmetric | 2.7 k |
| `safe_records` | a split brain, once per server: who is recorded, and does the comparison end? `TypeOK`, `NotBothRecordActive`, `RecordsAgree`, `PingEnds`, under `PingSpec` | 2 calls, 1 report per server, one server whose services may not stop | 546 k |
| `safe_choice` | from safe mode: who serves after the operator's choice? `OnlyChosenServes`, `ChoiceServed`, under `FairSafeSpec` | 1 choice, 2 power losses, services that may not stop | 135 k |
| `safe_winner` | violation: the recorded winner does not serve, `WinnerServes` | 1 report | - |
| `snap_shared` | tasks that fire together: `TypeOK`, `Fresh`, `NoSilentMiss`, `TakesApart`, `RunEnds` | 2 runs, a local and a replication task, window 2, clock to 5 | 182 k |
| `ole_file` | what does damage do to a container? `TypeOK`, `NoSectorTwice`, `DirectoryIsTree`, `ListedIsFound`, `SoundReadable`, `MetadataLossKnown`, `StreamsAreStores` | 331 files of 12 sectors and 5 entries: a sound one and those with one damaged word, link, name, type, start or size, or a short last sector; 2 levels of callers; property sets with and without bad properties; 1 write | 216 k |
| `imap_client` | who hears a secret, what is left open, whose answer is it? `SecretsProtected`, `NoStrayConnection`, `OwnAnswer`, `FetchFresh`, `IdleOnce`, `LiteralInvited`, `CapsAfterLogin` | 2 clients one after the other, 5 configurations, 4 certificates, 3 commands, 2 changes, 1 timeout | 4.5 M |
| `imap_responses` | is what the caller gets what the server sent? `Framed`, `ResultIsSent`, `StreamIsPipe` | 376 responses, pieces of up to 3 bytes, connections that end anywhere, 1 failed call, 4 calls of another user | 53 k |
| `mail_text` | is the text of a mail its text? `RtfConverted`, `EmlConverted`, `MsgFresh`, `MsgConverted` | RTF of 5 tokens out of 14; 4928 MIME mails, trees of 3 levels; 304 Outlook mails | 184 k |

Each property of a passing run has a mutant of the code it is about - a dropped
limit, a check that is skipped, a file that is kept, a buffer that is dropped -
defined next to the definition it replaces and marked *Mutant*; the run must find
the property violated with it.  A property that has several parts (`OneServes`,
`RecordsAgree`, `Framed`, `SecretsProtected`, `ResultIsSent`, the conversions) has
several.

### 3.1 Why the bounds are enough

* Two servers are all there are.  One shutdown per server makes the
  simultaneous shutdowns; `role_serial` has three, so that what the first
  leaves on disk meets the third: records and flags last one boot, and the
  bounds let every flag be written, survive, and be read after another cycle.
* TSDFLAG is sent five times in the code.  The handler is idempotent, so that
  what matters is whether it runs before, between or after the sends: two
  sends have all three; `role_records` needs none of it and sends one.
* Two calls of `handler_sb.sh` per server are one for DRBD's report and one for
  RUN_SAFE, or two reports.  `Call` bounds those that run at a time.
* `Window = 2` stands for sixty seconds and the clock ends at 5, which lets a run
  start before, within and after a window, and wait for a take longer than
  one.  Two runs are the taker and the one that shares; the theorems of
  `SnapSched_proofs` hold for any number.
* Where a run says `CHECK_DEADLOCK FALSE` the bounds are used up: the model may
  stop with the servers shut down, or with the clock at its end.
* `Prompt` (a constant, because it is an assumption on time): the commands of
  a script take effect while others sleep.  In `HARole`, that a wait of minutes
  ends after the steps that need milliseconds; in `HASafeMode`, that two
  servers that both wait 60 seconds hear each other.  Of the theorems only
  `RecordsTellApart` and `SomebodyServes` assume it; the runs of `HARole` do, as
  five messages that all arrive after ten minutes would defeat the exchange by
  design.
* `Stuck` is the set of servers whose services may refuse to stop: one in
  `safe_records`, where the other one's success is the case to compare it with,
  both in `safe_choice`.  Calls of `handler_sb.sh` on one server are alike, and a
  new one takes the number `FreeCall` gives it.
* A container of `ole_file` has one damaged field.  Every check of `olefile.py`
  that raises a defect is met by one of them; a second defect in the same file
  adds the states in which both are found.  Which streams the damage of each file
  leaves alone is computed by `SoundOf`, and holds of any file.
* In `imap_client` clients of every configuration connect, log in and fail; those
  of one configuration (`Chatty`) also issue commands, as what a session does with
  its answers does not depend on how it was set up.  Three commands are the one
  given up, the one that meets its late answer and the one after; two changes of
  the message are one before and one after an answer.
* `BufSize = 3` is the least that lets a piece end before, on and after a line
  end; the theorems of `ByteStream_proofs` hold for any size.  Five RTF tokens
  open, mark and close a group around a word and skip a character; the theorem of
  `MailText_proofs` about them holds for any number.

### 3.2 Fairness

`WF` on every step of a script and on every handler: they are processes of a
running server and each has its own schedule.  `WF` on pacemaker's promotions
and demotions, that it does what its scores say; on `PowerOn`, that a server
that is off is switched on again while `MaxBoots` lasts - the only
statement about people, and the recovery properties say "after the servers
are powered on".  `SF` on the two flocks of `SnapSched` that a run waits for,
because the kernel queues those that wait; `flock -n` gets none, as it does
not wait.  Nothing is assumed of mains, of failures, of an operator or of DRBD's
report.

`PingSpec` assumes less: the background handlers of `handler_sb.sh` go on, what a
server publishes arrives and is answered, and a reboot that was asked for
happens.  The comparison has to end by these alone, without a boot, a promotion
or a command of an operator.

The mail programs claim no liveness: they go on when the server or the caller
does, and a server may stay silent.

### 3.3 What violates a statement of the code

**A winner that never serves** (`safe_winner`, handler_sb.sh:294).  The server
that decides first reboots before the other has its information; the other one
times out, enters safe mode and sets a constraint on the winner, which nothing
lifts as the winner has no `ha.safemode.info`.

Others were met on the way and take no run:

* `.ha_remote_shutdown` of an earlier shutdown (rc.ha:679, 958): only NODE__ON
  removes that file, and a passive server that waits in vain for the active one
  and powers off finds the file of the shutdown before.
* Two ping handlers on one server (handler_sb.sh:229): the file that prevents it
  is touched in the background, after the lock has been given back.
* `synosnapschedtask.sh:71` says "3 minutes" where line 78 has 60 seconds; line 17
  uses `SYNODR_PKG_ETC`, which is set nowhere, so that the path of the stopping
  flag is wrong.
* `msg_parser.py` decodes bytes as an IMAP folder name, which changes a body that
  holds `&`; `MsgConverted` leaves such a body out where there is no Unicode
  one (`Ambiguous`).  Each byte becomes the Latin-1 character of its number, so that
  a body in UTF-8 is not the text of the mail; `MsgConverted` says what it is.
* `starttls()` clears the cached capabilities as RFC 2595 asks (imapclient.py:201-203),
  but only the client's own; what a server sent with its answer is reported later,
  where the docstring of `capabilities()` (287-296) has those of the login.
  `CapsAfterLogin` allows that one case and no other.
* A chain that runs into another stream's sectors and has the right length is read
  as the stream (olefile.py:745-788); `NoSectorTwice` is about one stream at a time.
* A folder that a server lists as an atom of digits, `01`, comes back as `1`
  (response_parser.py:219, imapclient.py:445-449), and one called `NIL` as none;
  `ResultIsSent` names both.
* Of a subject in several encoded words `eml_parser.py` keeps the first (124), and
  a broken one, or a Unicode file name beside text beyond ASCII, fails the mail;
  `EmlConverted` lists the causes.
* An ssl connection that breaks during the login stays open (tls.py:177-180);
  `NoStrayConnection` excepts it.

## 4. What is proved

All proofs are for any values of the constants that satisfy the named
assumptions of the modules: two different servers, bounds that are natural
numbers, a "no lock" value that is no process, a positive window, a positive size
of a `recv`, a name on every certificate, tokens of known types.  A container is
any (`ImagesAssumption`, `LimitsAssumption`) whose sectors are numbered from 0
without a gap, number fewer than the marks of the table and hold at least one word
each; "no entry" is not the number of the root, and some size is small enough for
the mini sectors.  Nothing is assumed of the words, links, names or sizes in it.
A text is of any characters, those the code writes among them
(`CharactersAssumption`); an RTF number is any integer, and Python was built with
characters of 16 or of 32 bits (`MaxCharAssumption`).  A MIME mail (`MailsAssumption`, `IsMime`) has any finite
number of parts, nested to any depth, numbered from 1 without a gap as `email`
numbers them; a part without a file name has no text in its place
(`NoNameAssumption`), no name holds a NUL, and white space may surround an address list.  An Outlook
mail (`MessagesAssumption`) is any whose streams are texts, missing or, in Unicode,
damaged; what is missing or damaged is no text (`MissingAssumption`).  The addresses it means are given with it
and written as mail programs write them (`MeansFrom`, `MeansTo`): each alone, in
brackets or behind a name, none holding a comma or a bracket, with "," or ", "
between two; where a stream is damaged they may be any.  A directory with file
names is in the listing.  No assumption is made on which streams there are, on the
tags and marks in them or on the order of the directories.

| theorem | states | by |
|---|---|---|
| `HARole_proofs!TypeCorrect` | types, and no script runs without power | `TypeOK` is inductive, one lemma per group of actions; `Powered` on top of it |
| `HARole_proofs!RecordsServeOnce` | `[]NoRecordWhileRunning` | inductive together with `TypeOK` and `Powered`: a record is written only by a running `stop`, which ends with power only, and the three steps of `Forget` precede every later step of `start`: `RecordsGone` says which of its files are gone after each |
| `HARole_proofs!RecordsTellApart` | `[]OneServes`, under `Prompt`, if no constraint is lifted | `Exchange`, three invariants of two servers that stop: what role each one can still record (`RolesOfShutdown`), who has been told what and who has a flag on its way (`Announced`), who is out of battery (`Battery`); on top of it `ActiveAlone` and `PassiveAlone`, which say for the places in the two shutdowns which records exclude each other |
| `HARole_proofs!SomebodyServes` | `[]NotBothPassive`, under `Prompt` alone | the half of it that needs no assumption on constraints |
| `HARole_proofs!NoDataForked` | `[]NoSplitBrain`, under `Calm`: one shutdown or boot at a time, no power loss, no battery, no failed promotion, no constraint lifted | the record that makes a server wait at its next boot is a baton: `Turns` says who has it in each phase of a shutdown and a boot, that one server waits whenever the data differ, that the other one knows, and that who lacks writes serves only after it has met the other |
| `RcLock_proofs!NoOrphan` | `[]NoOrphanLock` | needs `WritersTrap`: a call that is about to write the file has a trap |
| `HASafeMode_proofs!TypeCorrect` | types | inductive |
| `HASafeMode_proofs!OneStory` | `[]RecordsAgree` | the flag of a raised admin_epoch dates from before the handlers and is lost with a reboot; so a server that has it never told the other that it has not; a server records "active" only if the other told it "not raised" and it has raised; once it has, the other one has nothing to decide |
| `HASafeMode_proofs!OneRecord` | `[]NotBothRecordActive` | not inductive by itself: the same invariant |
| `HASafeMode_proofs!ChosenServesFirst` | `[]OnlyChosenServes` from safe mode, with at most one choice and no new report | `SafeInv`: until the record of the chosen server has been used, the other one is barred by its constraint and has no such record |
| `SnapSched_proofs!TypeCorrect` | types | inductive |
| `SnapSched_proofs!SnapshotsApart` | `TakesApart` | a run that is about to take holds the target's lock and has started a window after the last take (`HoldsTarget`, `Timely`), so nobody else changes it meanwhile |
| `SnapSched_proofs!HandedOverFresh` | `[]Fresh` | the name in the file is the last take or none (`Named`); a run reads it only if that take is recent |
| `SnapSched_proofs!MissExcused` | `[]NoSilentMiss` | a last take without a name has failed or is at work, and who is at work holds the lock that the reader has (`Due`, `Excused`) |
| `ImapSession_proofs!Confidential` | `[]SecretsProtected` | an invariant that says for each step of `create_client_from_config` what protects the channel by then, and that a cached token belongs to the account it is kept under |
| `ImapSession_proofs!NothingLeftOpen` | `[]NoStrayConnection` | the same invariant, which ties the socket to the place in the code; a socket that is left is one of an ssl connection that broke |
| `ImapSession_proofs!OnlyInvited` | `[]LiteralInvited` | `OneInvitation`: the request for an invitation, or the invitation, is the only one on its way, and the call under way waits for it |
| `ImapSession_proofs!AnswersOwn` | `[]OwnAnswer` | `Order` (the books: tags are used and worked off in their order, the call under way has the last one), `Matching` (what is requested or served with the last tag is what the client is in), `Answered` (right before the completion of a search or fetch, on the wire or in the books, stands the answer to it) |
| `ImapSession_proofs!FetchesFresh` | `[]FetchFresh` | the same invariant: the last response about the message when the completion is read is the answer |
| `ImapSession_proofs!CapsOfSession` | `[]CapsAfterLogin` | `CapsKnown`: whatever is remembered, offered, queued or on the wire about capabilities of a logged in client is of the session, or it is what came with the answer to STARTTLS (`early`) |
| `ImapSession_proofs!IdleLosesNothing` | `[]IdleOnce` | `Listens` and `Hears`: what the server told is what was returned, then what `idle_done()` has read, then the lines on the wire up to the completion (`Said`); this needs that a tag has one `idle()` and one DONE (`Once`), that nobody else completes it (`NotYet`), and that the notices follow the invitation (`Invite`); `Heeds` says that it stays so until the next `idle()` is taken up |
| `OleFile_proofs!TypesKept` | `[]TypeOK` | `IInv`, in three parts: the file and its table (`FileInv`), the loaded entries and the calls of the walk (`DirInv`), the call at work (`CallInv`) |
| `OleFile_proofs!SectorsOnce` | `[]NoSectorTwice`, in every file | the table names no sector beyond those of the file (`IsTable`), so none has the number of the end mark; a chain that meets a sector again goes round for ever and cannot have the mark behind its last sector, which `_OleStream` compares |
| `OleFile_proofs!LossKnown` | `[]MetadataLossKnown` | `MetaInv`: the answer of `get_metadata` is made of two tables without a defect, or one of them was raised or recorded; of such a table the last property of an id is the one whose value stays (`FaithfulIs`) |
| `OleFile_proofs!DirectoryTreeKept` | `[]DirectoryIsTree` | `TreeInv`: every loaded entry but the root has one place among the kids or one call of `append_kids` in the stack that will give it one, never both and never two; sorting permutes a row |
| `OleFile_proofs!ListedFound` | `[]ListedIsFound` | by induction over the depth of the listing: as the names of a storage differ in small letters, the first kid `_find` meets is the listed one |
| `OleFile_proofs!UndamagedKept` | `[]HeldInv`: the undamaged streams stay undamaged at the same places, whatever is called | `SoundInv` (they are so in the file as it is now), `LoadedInv` (table and directory in memory are those of the file), `CacheInv` (so are the mini table and the ministream, if read), `JobInv` (`write_stream` is on the chain of a big stream of the directory, and has written what is in front); a sector that is written is none of those that lead to the streams (`LeadsKept`), and none of an undamaged stream but the written one (`HeldKept`) |
| `OleFile_proofs!SoundRead` | `[]SoundReadable`, in every file | `HeldRead`: along a well laid chain `_OleStream` reads the words at the places of the stream, from the disk or from the mini sectors; the one defect it may report is not raised to a lenient caller |
| `OleFile_proofs!StoreRefined` | `OleFile` implements `StreamStore` | `HeldInv`; a turn of `write_stream` puts the words of one part of the stream (`PartWritten`), those in front were put before, and the last turn has put all of them (`LastWritten`) |
| `ByteStream_proofs!Framing` | `[]Framed` | `Pending`: the buffer of a call that waits does not hold its answer yet |
| `ByteStream_proofs!StreamRefinesPipe` | `ByteStream` implements `BytePipe` | each step maps to a step of the pipe or a stutter; `Pending` bounds what an answer takes |
| `MailText_proofs!Converted` | `[]RtfConverted` | `Nested`, which says what each level of the stack stands for in the document, and `Skips`, the same for the characters to skip; both by cases of the token |
| `MailText_proofs!FieldsFresh` | `[]MsgFresh` | `Faithful`: what is kept of the header, of an address and of the attachments is what the file says, and nothing is kept of an address that could not be read; an access that ends well keeps it so, and a broken list of attachments is kept by one only that ends the script |
| `MailText_proofs!TagsRemoved` | what `remove_tags` leaves of any text is the text outside its tags | by induction over the text behind the tags taken so far (`Induct`): the first `<` with a `>` behind it begins a tag, no character in front of it is in one, and the same holds of what is behind it |
| `MailText_proofs!TextSaved` | `[]TextKept`, a part of `MsgConverted` | `Faithful`, so that `save` gets what the file says; `TagsRemoved` for the body, which is the text of the mail or its bytes as Latin-1 (`Latin`); each attachment is listed at the first entry of its directory (`Dirs` as a recursive function) |
| `MailText_proofs!OnlyFaultyRefused` | `[]RefusedForCause`, a part of `MsgConverted` | each of the accesses of `save` and each of its conversions fails for one of the named causes only, bytes and Unicode beyond ASCII being told apart field by field; a text without tags and marks that decoding changes is written as it is |
| `MailText_proofs!MailsConverted` | `[]MsgConverted` | `TextSaved`, `OnlyFaultyRefused`; the commas of a list cut it into its entries, as no name or address has one (`SplitCat`, `Cuts`), and each piece gives its name and its address (`PieceSays`), so `format_mail` says what the list does, also of `to` and `cc` in one (`FormatList`, `FormatTwo`); read the other way, a text of ASCII comes of entries of ASCII only (`EntriesHold`), so that nothing of a faulty mail is written; `Kept` says what may be in a `Message` |
| `MailText_proofs!EmlsConverted` | `[]EmlConverted` | `pullout` has one value for each part, as paths are bounded (`PullExists`); it gathers what the leaves give in their order, first along the parts of one multipart, then from the deepest level up (`PartComes`, `PulloutGathers`), and that order is the one the leaves stand in (`OrderedIs`); stripping a text before its tags are removed moves no tag (`StripTags`); `TagsRemoved` for the body, `FormatList` and `FormatTwo` for the header |

Refinements: `BytePipe` by `ByteStream` (`StreamIsPipe`) and `StreamStore` by
`OleFile` (`StreamsAreStores`) are both checked and proved.

The conditions of `NoDataForked` are not for the proof's sake: with one power
loss, one failed promotion or two shutdowns that overlap, TLC finds `NoSplitBrain`
violated in the model of `role_serial`.  The records name who was active last;
they cannot tell a server that was cut off from one that left in order.

Model-checked only:

* `ResultIsSent`: about `RECURSIVE` operators, the lexer and the parser of
  responses.  The induction theorems of the library cannot be used (their parameter
  is an operator); `ImapSession_proofs`, `OleFile_proofs` and `MailText_proofs`
  derive an induction over sets of numbers from the well-foundedness of `<`
  (`Induct`) and with it that a recursive function exists (`RecursionExists`),
  which `Kept`, `Walk`, `Find`, `List`, `RemoveTags`, `Split`, `Dirs` and `Pullout`
  need.  The parsers are larger;
* liveness: `StopEnds`, `Recovers`, `PingEnds`, `ChoiceServed`, `RunEnds`, as
  fairness and `ENABLED` are out of the prover's reach.

## 5. What is assumed, and what is left out

* Pacemaker promotes any server that is online, unconstrained and without a
  failed operation while the other one is not active; drbd.d/global_common.conf
  sets no fencing, so that old data does not stop it.
* One CIB: which of two copies wins when two servers that were apart join is
  HALink's subject (below).  The link never fails in `HARole` and is back for
  good in `HASafeMode`; there, pacemaker does not fail over to a passive server
  while the handlers run.
* In `role_recovery` the one shutdown of a server comes before its one boot, so
  that a shutdown which overlaps the background part of the server's own boot
  (rc.ha:842, which `stop` does not end) is not in a liveness run;
  `role_records` has it.
* Two calls of `rc.ha` that hold the lock can run together: the test and the
  write are two commands, and calls that take no lock remove it.  `RcLock` shows
  it in its actions; the code promises no exclusion but the refusal of a call
  that sees the file.
* In `HASafeMode` the check of a call, the fork of its background part and its
  exit are one step; the program that waits for services to come online and its
  kill, and the unbinding of a server without `ha.conf`, are left out.
* In `SnapSched` a program that fails prints no name; a switchover of the plan
  while a run is at work and the checks of the installation are left out; a
  reboot empties `/tmp` and with it every file the model has.
* Binding, unbinding and upgrades of a cluster keep the flags the scripts test
  for (`$SYNO_HA_UPG`, ...) away from both modules.
* An IMAP server keeps to the protocol: it answers commands in their order, sends
  one SEARCH response per successful search, and FETCH notices under the keys a
  requested FETCH has.  `email`, `imaplib`, the TLS library and `json` are
  external and modelled by what the scripts use of them.
* Left out of `imapclient`: `sort`, `thread`, `append`, the normalisation of search
  criteria, `oauth_login`, the file of the configuration; of the byte stream, its
  writing half, which `imaplib` does not use; of the parser, dates, envelopes and
  the base64 within folder names; of `olefile.py`, its dump and command line; of
  `msg_parser.py`, `saveRaw` and `dump`, which the script does not call.
* Not modelled, with the reason for each, are the components marked so in
  `PROJECT.json`: ELF programs have no source here; the wrappers of services and
  network tools assemble command lines; `livetest.py` is a test program and
  `six.py` a compatibility library.

## 6. Plan

1. `HARole`, `RcLock`, `HASafeMode`, `SnapSched` and the mail programs: done, as
   above.
2. `HALink`: `bump-cib-epoch` (rc.ha:1408-1430),
   `set_ping_server_constraint` / `unset_ping_server_constraint`
   (rc.subr:939-951), two copies of the CIB with an admin_epoch that merge when
   the link is back.  The initial states of `HASafeMode` (who has raised the
   epoch) become its final states.  Fencing and the `preactive` /
   `prepassive` flags of `SxxPre.sh` and `SxxPost.sh` follow in it.
3. `ConfSync`: the events, delays and retries of `system_sync.lua`.
4. `Ups` (`synoups`: mains failure and return on one server) and `Pgsql`
   (migration of the database directory under power loss).
5. Composition: an abstract specification, *at most one server serves, and a
   server that lacks writes does not*, which `HARole` (for serial shutdowns) and
   `HASafeMode` are shown to implement under a refinement mapping.
6. Proofs: the parser of responses (`ResultIsSent`), with recursive functions in the
   place of its operators; the safety invariants of the new modules.
7. Mail: `append`, `sort` and `thread`, dates and envelopes.
