---------------------------- MODULE ImapSession ----------------------------
(***************************************************************************)
(* The commands of IMAPClient (imapclient.py) on the client ImapConnect    *)
(* hands out: what is sent, what is read until the command ends, and which *)
(* of the lines read belong to its result.                                 *)
(*                                                                         *)
(* A command is taken as the kind of call it is: "search" and "fetch" for  *)
(* the two ways a result is taken from the untagged responses, "text" for  *)
(* a command with a literal, "noop" (and expunge) for the ones that return *)
(* every line they read, "select", "capability", "idle", "check", "done"   *)
(* and "logout".  A line arrives whole (ByteStream models the rest).       *)
(*                                                                         *)
(* External: the server, which answers in order and changes its message at *)
(* any time, and imaplib: tagged_commands, untagged_responses.             *)
(***************************************************************************)
EXTENDS ImapConnect

CONSTANTS
  Chatty,       \* bound: the configurations whose clients issue commands
  MaxCalls,     \* bound: commands of a client
  MaxUpdates,   \* bound: changes of the message
  MaxTimeouts   \* bound: calls that are given up

VARIABLES
  call,      \* the call under way: [op, tag, mode, got]
  tag,       \* the last tag used
  reqs,      \* what the client sent and the server has not read
  wire,      \* lines the server sent and the client has not read
  tagged,    \* tagged_commands: [tag -> completion]
  untagged,  \* untagged_responses, oldest first
  idleTag,   \* _idle_tag
  idling,    \* the client is between idle() and idle_done()
  seen,      \* lines returned since idle()
  result,    \* what the last call came to
  data,      \* the server's message: its version
  srv,       \* the command the server is in: [op, tag]
  told,      \* lines sent while the server idled
  late,      \* calls given up
  forsaken,  \* a call that waited for an invitation was given up
  uninvited  \* a literal was sent on an invitation that was not for it

sessVars == <<call, tag, reqs, wire, tagged, untagged, idleTag, idling, seen,
              result, data, srv, told, late, forsaken, uninvited>>

vars == <<connVars, sessVars>>

client == <<call, tag, tagged, untagged, idleTag, idling, seen, result, late,
            forsaken, uninvited>>
server == <<data, srv, told>>

NoCall == [op |-> "none", tag |-> 0, mode |-> "none", got |-> <<>>]
NoServe == [op |-> "none", tag |-> 0]
NoResult == [op |-> "none", ok |-> TRUE, of |-> 0, val |-> <<>>, asked |-> 0]

Line(kind, typ, t, v) == [kind |-> kind, typ |-> typ, tag |-> t, val |-> v]
Untagged(typ, t, v) == Line("untagged", typ, t, v)
Completes(t, ok) == Line("tagged", IF ok THEN "OK" ELSE "NO", t, data)
Invites(t) == Line("continuation", "+", t, 0)

LineTypes == {"OK", "NO", "+", "search", "fetch", "exists", "capability", "bye"}

\* The lines of some types, in their order; Kept of the first k of them.
Kept(lines, types) ==
  LET Of[k \in 0..Len(lines)] ==
        IF k = 0 THEN <<>>
        ELSE IF lines[k].typ \in types THEN Append(Of[k - 1], lines[k])
        ELSE Of[k - 1]
  IN Of[Len(lines)]

OfType(lines, typ) == Kept(lines, {typ})
WithoutType(lines, typ) == Kept(lines, LineTypes \ {typ})

-----------------------------------------------------------------------------
\* The calls.  _raw_command and imaplib's _command take a new tag; SELECT
\* drops the untagged responses there are.
Modes == [search |-> "complete", fetch |-> "complete", select |-> "complete",
          capability |-> "complete", text |-> "invite", noop |-> "consume",
          idle |-> "idle", logout |-> "complete"]

Issue(op) ==
  /\ tag' = tag + 1
  /\ call' = [op |-> op, tag |-> tag + 1, mode |-> Modes[op], got |-> <<>>]
  /\ reqs' = Append(reqs, [op |-> op, tag |-> tag + 1])
  /\ tagged' = [t \in 1..(tag + 1) |-> IF t <= tag THEN tagged[t] ELSE "none"]

\* Mutant: the capabilities of the connection are good for ever.
KnownCapsConn == IF cached # NoCaps THEN cached ELSE connCaps

\* capabilities(): the ones remembered, the ones that came with some answer of
\* the server, or those of the connection if nobody is logged in.
KnownCaps ==
  LET came == OfType(untagged, "capability") IN
  IF cached # NoCaps THEN cached
  ELSE IF offered # NoCaps THEN offered
  ELSE IF came # <<>> THEN came[1].val
  ELSE IF state = "AUTH" THEN NoCaps
  ELSE connCaps

CanCall == at = "ready" /\ conf \in Chatty /\ call = NoCall /\ tag < MaxCalls

\* search and gmail_search (_raw_command_untagged), a search whose criteria
\* hold eight bit characters ("text"), fetch, noop and expunge
\* (_consume_until_tagged_response), capabilities() that must ask, logout.
Command(op) ==
  /\ CanCall /\ ~idling
  /\ op = "capability" => KnownCaps = NoCaps
  /\ Issue(op)
  /\ untagged' = IF op = "select" THEN <<>> ELSE untagged
  /\ offered' = IF op = "select" THEN NoCaps ELSE offered
  /\ UNCHANGED <<conf, at, sock, channel, cert, made, started, state, connCaps,
                 cached, early, tokens, secret, clients, wire, idleTag, idling,
                 seen, result, server, late, forsaken, uninvited>>

\* idle().
Idle ==
  /\ CanCall /\ ~idling
  /\ Issue("idle")
  /\ idleTag' = tag + 1
  /\ UNCHANGED <<connVars, wire, untagged, idling, seen, result, server, late,
                 forsaken, uninvited>>

\* idle_done(): DONE has no tag of its own.
IdleDone ==
  /\ at = "ready" /\ call = NoCall /\ idling
  /\ call' = [op |-> "done", tag |-> idleTag, mode |-> "consume", got |-> <<>>]
  /\ reqs' = Append(reqs, [op |-> "done", tag |-> idleTag])
  /\ UNCHANGED <<connVars, tag, wire, tagged, untagged, idleTag, idling, seen,
                 result, server, late, forsaken, uninvited>>

\* capabilities() without a question to the server; only those of the
\* connection are not kept.
Capabilities ==
  /\ CanCall /\ ~idling /\ KnownCaps # NoCaps
  /\ result' = [NoResult EXCEPT !.op = "capability", !.val = KnownCaps]
  /\ cached' = IF offered = NoCaps /\ OfType(untagged, "capability") = <<>>
               THEN cached ELSE KnownCaps
  /\ UNCHANGED <<conf, at, sock, channel, cert, made, started, state, connCaps,
                 offered, early, tokens, secret, clients, call, tag, reqs,
                 wire, tagged, untagged, idleTag, idling, seen, server, late,
                 forsaken, uninvited>>

-----------------------------------------------------------------------------
\* Results.
Ends(op, ok, of, val, asked) ==
  /\ call' = NoCall
  /\ result' = [op |-> op, ok |-> ok, of |-> of, val |-> val, asked |-> asked]
  /\ idling' = (idling /\ op # "done")

Fails == Ends(call.op, FALSE, call.tag, <<>>, 0)

\* Mutant: every line there is counts.
OneListAny(lines) == lines # <<>>

\* parse_message_list: the responses must be a single one.
OneList(lines) == Len(lines) = 1

\* Mutant: the first response wins.
MergedFirst(lines) == lines[1].val

\* parse_fetch_response: the responses of a message are merged, a later one
\* over an earlier one.
Merged(lines) == lines[Len(lines)].val

\* The end of a call that waited for its completion (_command_complete,
\* _checkok, _untagged_response).  q: the untagged responses.
Complete(st, asked, q) ==
  LET mine == OfType(q, IF call.op = "text" THEN "search" ELSE call.op) IN
  CASE call.op = "logout" ->
         /\ Ends("logout", st = "OK", call.tag, <<>>, 0)
         /\ untagged' = q
    [] call.op # "logout" /\ st = "NO" ->
         Fails /\ untagged' = q
    [] call.op \in {"search", "text"} /\ st = "OK" ->
         /\ untagged' = WithoutType(q, "search")
         /\ IF OneList(mine) THEN Ends(call.op, TRUE, call.tag, mine, 0)
            ELSE Fails
    [] call.op = "fetch" /\ st = "OK" ->
         /\ untagged' = WithoutType(q, "fetch")
         /\ IF mine = <<>> THEN Fails
            ELSE Ends("fetch", TRUE, call.tag, Merged(mine), asked)
    [] call.op = "capability" /\ st = "OK" ->
         /\ untagged' = WithoutType(q, "capability")
         /\ IF mine = <<>> THEN Fails
            ELSE Ends("capability", TRUE, call.tag, mine[1].val, 0)
    [] call.op = "select" /\ st = "OK" ->
         Ends("select", TRUE, call.tag, OfType(q, "exists"), 0)
         /\ untagged' = q

-----------------------------------------------------------------------------
\* imaplib's _get_response: a completion is filed under its tag, everything
\* else that is not an invitation under its type.
Filed(l) == IF l.kind = "tagged" THEN [tagged EXCEPT ![l.tag] = l.typ] ELSE tagged
Queued(l) == IF l.kind = "untagged" THEN Append(untagged, l) ELSE untagged

\* _get_tagged_response.
ReadComplete(l) ==
  /\ call.mode = "complete"
  /\ IF Filed(l)[call.tag] # "none"
     THEN Complete(l.typ, l.val, Queued(l))
     ELSE /\ untagged' = Queued(l)
          /\ UNCHANGED <<call, result, idling>>
  /\ UNCHANGED <<reqs, seen, uninvited>>

\* Mutant: one line is read, whatever it says.
InvitedAtOnce(l) == TRUE

\* _send_literal: what ends the wait for the invitation.
Invited(l) == l.kind = "continuation"

\* _send_literal.
ReadInvite(l) ==
  /\ call.mode = "invite"
  /\ untagged' = Queued(l)
  /\ IF Filed(l)[call.tag] # "none" THEN Fails /\ UNCHANGED <<reqs, uninvited>>
     ELSE IF Invited(l)
     THEN /\ reqs' = Append(reqs, [op |-> "literal", tag |-> call.tag])
          /\ call' = [call EXCEPT !.mode = "complete"]
          /\ uninvited' = (uninvited \/ l.tag # call.tag)
          /\ UNCHANGED <<result, idling>>
     ELSE UNCHANGED <<call, result, idling, reqs, uninvited>>
  /\ UNCHANGED seen

\* Mutant: the lines read are not returned.
ConsumedNone(l) == call.got

\* _consume_until_tagged_response: what it collects.
Consumed(l) == Append(call.got, l)

\* _consume_until_tagged_response: of noop, expunge and idle_done.  A line it
\* cannot parse, a late completion or invitation, ends it.
ReadConsume(l) ==
  /\ call.mode = "consume"
  /\ untagged' = Queued(l)
  /\ IF Filed(l)[call.tag] # "none"
     THEN /\ Ends(call.op, l.typ = "OK", call.tag, call.got, 0)
          /\ seen' = IF call.op = "done" THEN seen \o call.got ELSE seen
     ELSE IF l.kind = "untagged"
     THEN /\ call' = [call EXCEPT !.got = Consumed(l)]
          /\ UNCHANGED <<result, idling, seen>>
     ELSE Fails /\ UNCHANGED seen
  /\ UNCHANGED <<reqs, uninvited>>

\* idle(): the first line must be the invitation.
ReadIdle(l) ==
  /\ call.mode = "idle"
  /\ untagged' = Queued(l)
  /\ IF l.kind = "continuation"
     THEN /\ call' = NoCall /\ idling' = TRUE /\ seen' = <<>>
          /\ result' = [NoResult EXCEPT !.op = "idle", !.of = call.tag]
     ELSE Fails /\ UNCHANGED seen
  /\ UNCHANGED <<reqs, uninvited>>

\* A call that fails before its invitation has come leaves it to others.
Forsakes == call.mode \in {"idle", "invite"} /\ call' = NoCall /\ ~result'.ok

\* The client reads a line.  imaplib shuts the connection down when a logout
\* ends.
Read ==
  /\ at = "ready" /\ call # NoCall /\ wire # <<>>
  /\ LET l == Head(wire) IN
       /\ wire' = Tail(wire)
       /\ tagged' = Filed(l)
       /\ ReadComplete(l) \/ ReadInvite(l) \/ ReadConsume(l) \/ ReadIdle(l)
  /\ IF call.op = "logout" /\ call' = NoCall
     THEN at' = "none" /\ CloseSock
     ELSE UNCHANGED <<at, sock>>
  /\ forsaken' = (forsaken \/ Forsakes)
  \* _save_capabilities
  /\ cached' = IF call.op = "capability" /\ call' = NoCall /\ result'.ok
               THEN result'.val ELSE cached
  /\ UNCHANGED <<conf, channel, cert, made, started, state, connCaps, offered,
                 early, tokens, secret, clients, tag, idleTag, server, late>>

\* idle_check(): the lines that are there, past imaplib's books.
IdleCheck ==
  /\ at = "ready" /\ call = NoCall /\ idling
  /\ \E n \in 1..Len(wire) :
       LET lines == SubSeq(wire, 1, n) IN
         IF \A k \in 1..n : lines[k].kind = "untagged"
         THEN /\ wire' = SubSeq(wire, n + 1, Len(wire))
              /\ seen' = seen \o lines
              /\ result' = [NoResult EXCEPT !.op = "check", !.val = lines]
         ELSE /\ \A k \in 1..(n - 1) : lines[k].kind = "untagged"
              /\ wire' = SubSeq(wire, n + 1, Len(wire))
              /\ seen' = seen
              /\ result' = [NoResult EXCEPT !.op = "check", !.ok = FALSE]
  \* the application stops idling on an error
  /\ idling' = result'.ok
  /\ UNCHANGED <<connVars, call, tag, reqs, tagged, untagged, idleTag, server,
                 late, forsaken, uninvited>>

\* A socket timeout.  The command stays in tagged_commands.
Timeout ==
  /\ at = "ready" /\ call # NoCall /\ late < MaxTimeouts
  /\ Fails
  /\ late' = late + 1
  /\ forsaken' = (forsaken \/ Forsakes)
  /\ IF call.op = "logout" THEN at' = "none" /\ CloseSock
     ELSE UNCHANGED <<at, sock>>
  /\ UNCHANGED <<conf, channel, cert, made, started, state, connCaps, cached,
                 offered, early, tokens, secret, clients, tag, reqs, wire,
                 tagged, untagged, idleTag, seen, server, uninvited>>

-----------------------------------------------------------------------------
\* The server: it answers one request after the other.
Say(lines) == wire' = wire \o lines

Answers(r) ==
  CASE r.op = "search"  -> <<Untagged("search", r.tag, data)>>
    [] r.op = "literal" -> <<Untagged("search", r.tag, data)>>
    [] r.op = "fetch"   -> <<Untagged("fetch", r.tag, data)>>
    [] r.op = "select"  -> <<Untagged("exists", r.tag, data)>>
    [] r.op = "capability" ->
         <<Untagged("capability", r.tag, CapsOf(channel, TRUE))>>
    [] r.op = "logout"  -> <<Untagged("bye", r.tag, 0)>>
    [] OTHER            -> <<>>

Serve ==
  /\ at = "ready" /\ reqs # <<>>
  /\ LET r == Head(reqs) IN
       /\ reqs' = Tail(reqs)
       /\ CASE srv.op = "idle" ->            \* DONE, or anything else
                 /\ Say(<<Completes(srv.tag, r.op = "done")>>)
                 /\ srv' = NoServe /\ UNCHANGED told
            [] srv.op = "text" /\ r.op = "literal" ->
                 /\ Say(Answers(r) \o <<Completes(srv.tag, TRUE)>>)
                 /\ srv' = NoServe /\ UNCHANGED told
            [] srv.op = "text" /\ r.op # "literal" ->  \* taken as the text
                 /\ Say(<<Completes(srv.tag, FALSE)>>)
                 /\ srv' = NoServe /\ UNCHANGED told
            [] srv.op = "none" /\ r.op \in {"idle", "text"} ->
                 \/ /\ Say(<<Invites(r.tag)>>)
                    /\ srv' = r
                    /\ told' = IF r.op = "idle" THEN <<>> ELSE told
                 \/ /\ Say(<<Completes(r.tag, FALSE)>>)
                    /\ UNCHANGED <<srv, told>>
            [] srv.op = "none" /\ r.op \in {"done", "literal"} ->
                 UNCHANGED <<wire, srv, told>>   \* makes no sense to it
            [] OTHER ->
                 /\ \/ Say(Answers(r) \o <<Completes(r.tag, TRUE)>>)
                    \/ /\ r.op # "logout" /\ Say(<<Completes(r.tag, FALSE)>>)
                 /\ UNCHANGED <<srv, told>>
  /\ UNCHANGED <<connVars, client, data>>

\* Another client changes the message; the server tells of it.
Update ==
  /\ at = "ready" /\ conf \in Chatty /\ data < MaxUpdates
  /\ data' = data + 1
  /\ LET l == Untagged("fetch", 0, data + 1) IN
       /\ Say(<<l>>)
       /\ told' = IF srv.op = "idle" THEN Append(told, l) ELSE told
  /\ UNCHANGED <<connVars, client, reqs, srv>>

-----------------------------------------------------------------------------
SessInit ==
  /\ call = NoCall /\ tag = 0 /\ reqs = <<>> /\ wire = <<>> /\ tagged = <<>>
  /\ untagged = <<>> /\ idleTag = 0 /\ idling = FALSE /\ seen = <<>>
  /\ result = NoResult /\ data = 0 /\ srv = NoServe /\ told = <<>> /\ late = 0
  /\ forsaken = FALSE /\ uninvited = FALSE

\* A new client has a session of its own.
NewClient ==
  /\ Create
  /\ call' = NoCall /\ tag' = 0 /\ reqs' = <<>> /\ wire' = <<>>
  /\ tagged' = <<>> /\ untagged' = <<>> /\ idleTag' = 0 /\ idling' = FALSE
  /\ seen' = <<>> /\ result' = NoResult /\ data' = 0 /\ srv' = NoServe
  /\ told' = <<>> /\ late' = 0 /\ forsaken' = FALSE
  /\ uninvited' = FALSE

Init == ConnInit /\ SessInit

Kinds == {"search", "text", "fetch", "noop", "select", "capability", "logout"}

Next ==
  \/ NewClient
  \/ Connecting /\ UNCHANGED sessVars
  \/ \E op \in Kinds : Command(op)
  \/ Idle \/ IdleDone \/ IdleCheck \/ Capabilities
  \/ Read \/ Timeout
  \/ Serve \/ Update

Spec == Init /\ [][Next]_vars

-----------------------------------------------------------------------------
AreLines(q) ==
  \A k \in 1..Len(q) :
    /\ q[k].kind \in {"tagged", "untagged", "continuation"}
    /\ q[k].typ \in LineTypes
    /\ q[k].tag \in 0..tag

\* The variables have their types, and the tags in use are the ones given out.
TypeOK ==
  /\ conf \in Configs /\ cert \in Certs /\ at \in Where
  /\ sock \in {"none", "open", "closed", "broken"}
  /\ tag \in 0..MaxCalls /\ DOMAIN tagged = 1..tag
  /\ \A t \in 1..tag : tagged[t] \in {"none", "OK", "NO"}
  /\ AreLines(wire) /\ AreLines(untagged) /\ AreLines(seen)
  /\ AreLines(told) /\ AreLines(call.got)
  /\ \A k \in 1..Len(reqs) : reqs[k].tag \in 1..tag
  /\ idleTag \in 0..tag /\ call.tag \in 0..tag /\ srv.tag \in 0..tag
  /\ data \in 0..MaxUpdates /\ late \in 0..MaxTimeouts

\* What a search returns is the server's answer to that very command, also
\* when the answer to one that was given up comes in late
\* (_raw_command_untagged, parse_message_list).
OwnAnswer ==
  result.op \in {"search", "text"} /\ result.ok =>
    \A k \in 1..Len(result.val) : result.val[k].tag = result.of

\* fetch() returns the message as it was when the server answered, however
\* many answers and notices about it were read before
\* (_untagged_response, parse_fetch_response).
FetchFresh == result.op = "fetch" /\ result.ok => result.val = result.asked

\* idle_check() and idle_done() return every line the server sent while it
\* idled, once and in order.
IdleOnce ==
  result.op = "done" /\ result.ok /\ srv.op # "idle" => seen = told

\* A literal is sent on the invitation for it, unless a call that waited for
\* one failed before it came: idle() does on any other line, and every call
\* on a timeout (_send_literal).
LiteralInvited == uninvited => forsaken

\* The capabilities a logged in client reports are those of the session it is
\* in, not the ones of the connection before STARTTLS or LOGIN; unless the
\* server sent a CAPABILITY with its answer to STARTTLS, which may then be
\* taken for them (starttls, capabilities).
CapsAfterLogin ==
  result.op = "capability" /\ result.ok /\ state = "AUTH" =>
    \/ result.val = CapsOf(channel, TRUE)
    \/ early # NoCaps /\ result.val = early
=============================================================================
