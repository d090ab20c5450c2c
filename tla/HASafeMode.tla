----------------------------- MODULE HASafeMode -----------------------------
(***************************************************************************)
(* Split brain of a two-node High Availability cluster.                    *)
(*                                                                         *)
(* After a link loss in which both servers were active, DRBD runs          *)
(* `handler_sb.sh pingserver` on each server, once per volume.  The        *)
(* handler stops the services of both servers and compares which of them   *)
(* raised the CIB's admin_epoch while the link was down: the one that did  *)
(* records that it was active, the other that it was passive, and both     *)
(* reboot.  When that does not tell them apart the servers enter the       *)
(* read-only safe mode together (`handler_sb.sh safemode`, a RUN_SAFE      *)
(* message to the other server) and an operator chooses.  A server that    *)
(* boots with the file of safe mode leaves it if it finds a record, and    *)
(* otherwise asks the other server (CHK_SAFE, RLY_SAFE).                   *)
(*                                                                         *)
(* Modelled: handler_sb.sh, the handlers of handle_ais.sh it relies on,    *)
(* the part of rc.ha start that looks at safe mode.  External: DRBD's      *)
(* report, how pacemaker stops and starts services, the operator's         *)
(* --set-sb-role.                                                          *)
(* The link is up throughout, so that there is one CIB; waiting for the    *)
(* other server and the shutdown by an operator are those of HARole.       *)
(***************************************************************************)
EXTENDS Naturals, FiniteSets

CONSTANTS
  node0, node1,  \* NODE_HOST0, NODE_HOST1
  Call,          \* the calls of handler_sb.sh a server can run at a time
  NoCall,        \* the lock file does not exist
  MaxReports,    \* DRBD's reports, per server: one for each volume
  MaxCrashes,    \* power losses, in all
  MaxChoices,    \* the operator's choices of an active server, in all
  Stuck,         \* where a handler may find services that do not stop
  Prompt         \* whether two servers that both wait hear of each other

Node == {node0, node1}

ASSUME NodeAssumption == node0 # node1
ASSUME CallAssumption == NoCall \notin Call
ASSUME BoundAssumption ==
  /\ MaxReports \in Nat /\ MaxCrashes \in Nat
  /\ MaxChoices \in Nat /\ Stuck \subseteq Node /\ Prompt \in BOOLEAN

DiskFlag == {"safemode", "prev_active", "prev_passive"}
TmpFlag  == {"ping", "bumped"}
Record   == {"prev_active", "prev_passive"}

\* A server in safe mode has its volumes mounted read-only.
Role == {"none", "active", "passive", "safe"}

\* What a call does: pingserver, safemode, or safemode --boot; and where it
\* is.  "fallback" is start_handle_sb called by a pingserver call, which no
\* longer holds the lock.
What == {"ping", "safe", "boot"}
At   == {"free", "lock", "write", "check", "fallback", "touch", "forget",
         "send", "standby", "clear", "wait"}

StartPc == {"none", "safemode", "ask", "role"}

\* INFOREQ messages carry NODE_BUMPED_ADMIN_EPOCH.
Message == [type : {"RUN_SAFE", "CHK_SAFE", "RLY_TRUE", "RLY_FALSE", "SBSROLE",
                    "INFO_YES", "INFO_NO"},
            to : Node]

VARIABLES
  disk,       \* flag files of /var/lib/ha
  tmp,        \* flag files of /tmp
  info,       \* the other server's NODE_BUMPED_ADMIN_EPOCH in info_node.remote
  lock,       \* the call whose number the lock file of handler_sb.sh holds
  job,        \* the calls of handler_sb.sh
  on,         \* the servers that run
  rebooting,  \* the servers on which reboot was called
  start,      \* program counter of rc.ha start
  fromSafe,   \* the servers whose rc.ha start has BOOT_FROM_SAFEMODE
  answer,     \* the reply to CHK_SAFE
  role,       \* the role of each server
  rule,       \* the servers with a constraint RULE_SB_ in the CIB
  net,        \* messages whose handler has not run
  chosen,     \* the servers the operator has made active
  reports, crashes   \* counts of what the bounds limit

files  == <<disk, tmp, info, lock>>
boot   == <<start, fromSafe, answer>>
power  == <<on, rebooting>>
crm    == <<role, rule>>
counts == <<reports, crashes, chosen>>
vars   == <<files, job, boot, power, crm, net, counts>>

-----------------------------------------------------------------------------
Other(n) == IF n = node0 THEN node1 ELSE node0

Touch(f, n, flag)   == [f EXCEPT ![n] = @ \cup {flag}]
Remove(f, n, flags) == [f EXCEPT ![n] = @ \ flags]

NoJob == [what |-> "ping", at |-> "free"]
Job(what, at) == [what |-> what, at |-> at]
Goto(n, c, at) == job' = [job EXCEPT ![n][c].at = at]
Ends(n, c) == job' = [job EXCEPT ![n][c] = NoJob]

\* A call begins.  Calls are alike, so it does not matter which free one it is.
FreeCall(n) == CHOOSE c \in Call : job[n][c] = NoJob
Run(n, what) ==
  \E c \in Call : /\ job[n][c] = NoJob /\ c = FreeCall(n)
                  /\ job' = [job EXCEPT ![n][c] = Job(what, "lock")]

\* crm_node --mesg: nobody keeps a message for a server that is down.
Send(type, to) ==
  IF to \in on THEN net \cup {[type |-> type, to |-> to]} ELSE net

\* What a power-off leaves of server n.
\* Mutant: the flag of a raised admin_epoch survives it.
OffKeepsTmp(n) ==
  /\ on' = on \ {n}
  /\ rebooting' = rebooting \ {n}
  /\ tmp' = [tmp EXCEPT ![n] = @ \ {"ping"}]
  /\ info' = [info EXCEPT ![n] = "none"]
  /\ lock' = [lock EXCEPT ![n] = NoCall]
  /\ job' = [job EXCEPT ![n] = [c \in Call |-> NoJob]]
  /\ start' = [start EXCEPT ![n] = "none"]
  /\ fromSafe' = fromSafe \ {n}
  /\ answer' = [answer EXCEPT ![n] = "unknown"]
  /\ role' = [role EXCEPT ![n] = "none"]
  /\ net' = {m \in net : m.to # n}

Off(n) ==
  /\ on' = on \ {n}
  /\ rebooting' = rebooting \ {n}
  /\ tmp' = [tmp EXCEPT ![n] = {}]
  /\ info' = [info EXCEPT ![n] = "none"]
  /\ lock' = [lock EXCEPT ![n] = NoCall]
  /\ job' = [job EXCEPT ![n] = [c \in Call |-> NoJob]]
  /\ start' = [start EXCEPT ![n] = "none"]
  /\ fromSafe' = fromSafe \ {n}
  /\ answer' = [answer EXCEPT ![n] = "unknown"]
  /\ role' = [role EXCEPT ![n] = "none"]
  /\ net' = {m \in net : m.to # n}

\* The link is back, both servers are active, and either may have raised the
\* admin_epoch while it was down.
Init ==
  /\ disk = [n \in Node |-> {}]
  /\ tmp \in [Node -> {{}, {"bumped"}}]
  /\ info = [n \in Node |-> "none"]
  /\ lock = [n \in Node |-> NoCall]
  /\ job = [n \in Node |-> [c \in Call |-> NoJob]]
  /\ on = Node
  /\ rebooting = {}
  /\ start = [n \in Node |-> "none"]
  /\ fromSafe = {}
  /\ answer = [n \in Node |-> "unknown"]
  /\ role = [n \in Node |-> "active"]
  /\ rule = {}
  /\ net = {}
  /\ reports = [n \in Node |-> 0]
  /\ crashes = 0
  /\ chosen = {}

-----------------------------------------------------------------------------
(***************************************************************************)
(* handler_sb.sh: the lock, then one of its actions in the background.     *)
(***************************************************************************)
\* lock(): [ -f "$SB_FLOCK" ].
LockTest(n, c) ==
  /\ job[n][c].at = "lock"
  /\ IF lock[n] = NoCall THEN Goto(n, c, "write") ELSE Ends(n, c)
  /\ UNCHANGED <<files, boot, power, crm, net, counts>>

\* lock(): trap, echo "$$ $1" > "$SB_FLOCK".
LockWrite(n, c) ==
  /\ job[n][c].at = "write"
  /\ lock' = [lock EXCEPT ![n] = c]
  /\ Goto(n, c, "check")
  /\ UNCHANGED <<disk, tmp, info, boot, power, crm, net, counts>>

\* The files that tell start_handle_ping and start_handle_sb of an earlier call.
Handled(n, what) ==
  \/ what = "ping" /\ "ping" \in tmp[n]
  \/ what = "safe" /\ "safemode" \in disk[n]

\* start_handle_ping, start_handle_sb: the check and the fork.  With the fork
\* the call of handler_sb.sh exits, and its trap removes the lock.
Check(n, c) ==
  /\ job[n][c].at = "check"
  /\ IF Handled(n, job[n][c].what) THEN Ends(n, c) ELSE Goto(n, c, "touch")
  /\ lock' = [lock EXCEPT ![n] = NoCall]
  /\ UNCHANGED <<disk, tmp, info, boot, power, crm, net, counts>>

\* start_handle_sb as the last resort of start_handle_ping.
Fallback(n, c) ==
  /\ job[n][c].at = "fallback"
  /\ IF Handled(n, "safe")
     THEN Ends(n, c)
     ELSE job' = [job EXCEPT ![n][c] = Job("safe", "touch")]
  /\ UNCHANGED <<files, boot, power, crm, net, counts>>

(***************************************************************************)
(* start_handle_ping.                                                      *)
(***************************************************************************)
PingTouch(n, c) ==
  /\ job[n][c] = Job("ping", "touch")
  /\ tmp' = Touch(tmp, n, "ping")
  /\ Goto(n, c, "standby")
  /\ UNCHANGED <<disk, info, lock, boot, power, crm, net, counts>>

\* What standby leaves of the services of the servers ms: nothing.
Stopped(ms) ==
  [m \in Node |-> IF m \in ms /\ role[m] # "safe" THEN "none" ELSE role[m]]

\* Whether a resource of the servers ms is still located somewhere.
StillLocated(ms) == \E m \in ms : role[m] \in {"active", "passive"}

PingStandby(n, c) ==
  /\ job[n][c] = Job("ping", "standby")
  /\ role' = Stopped(Node)
  /\ Goto(n, c, "clear")
  /\ UNCHANGED <<files, boot, power, rule, net, counts>>

PingStandbyFailed(n, c) ==
  /\ n \in Stuck
  /\ job[n][c] = Job("ping", "standby") /\ StillLocated(Node)
  /\ Goto(n, c, "fallback")
  /\ UNCHANGED <<files, boot, power, crm, net, counts>>

\* rm -f $CIB_INFO_NODE_REMOTE.
\* Mutant: the file is emptied instead.
PingEmpty(n, c) ==
  /\ job[n][c] = Job("ping", "clear")
  /\ info' = [info EXCEPT ![n] = ""]
  /\ Goto(n, c, "wait")
  /\ UNCHANGED <<disk, tmp, lock, boot, power, crm, net, counts>>

PingClear(n, c) ==
  /\ job[n][c] = Job("ping", "clear")
  /\ info' = [info EXCEPT ![n] = "none"]
  /\ Goto(n, c, "wait")
  /\ UNCHANGED <<disk, tmp, lock, boot, power, crm, net, counts>>

\* The server's own NODE_BUMPED_ADMIN_EPOCH.
\* Mutant: the flag file is looked for in the wrong directory.
BumpedMisread(n) == "no"

Bumped(n) == IF "bumped" \in tmp[n] THEN "yes" ELSE "no"

\* synoha --cib-nodeinfo-set: run every second by the wait below until the file
\* of the other server is there, by send_cib_info, and on a server in a role.
PublishInfo(n) ==
  /\ n \in on
  /\ \/ role[n] # "none"
     \/ info[n] = "none" /\ \E c \in Call : job[n][c] = Job("ping", "wait")
  /\ info[Other(n)] # Bumped(n)
  /\ net' = Send(IF Bumped(n) = "yes" THEN "INFO_YES" ELSE "INFO_NO", Other(n))
  /\ UNCHANGED <<files, job, boot, power, crm, counts>>

\* What still can bring n the other server's information.
Informed(n) ==
  \/ \E type \in {"INFO_YES", "INFO_NO"} : [type |-> type, to |-> n] \in net
  \/ \E c \in Call : job[Other(n)][c] \in {Job("ping", "clear"), Job("ping", "wait")}

\* The wait of 60 seconds for the file is over.
\* Mutant: the wait has no limit.
PingWaitsOn(n, c) == FALSE

PingTimeout(n, c) ==
  /\ job[n][c] = Job("ping", "wait") /\ info[n] = "none"
  /\ Prompt => ~Informed(n)
  /\ Goto(n, c, "fallback")
  /\ UNCHANGED <<files, boot, power, crm, net, counts>>

\* Who raised the admin_epoch is active, the other one passive.
\* Mutant: the other server's flag decides alone.
DecideByRemote(n, c) ==
  /\ job[n][c] = Job("ping", "wait") /\ info[n] # "none"
  /\ disk' = Touch(disk, n, IF info[n] = "yes" THEN "prev_passive" ELSE "prev_active")
  /\ rebooting' = rebooting \cup {n}
  /\ Ends(n, c)
  /\ UNCHANGED <<tmp, info, lock, boot, on, crm, net, counts>>

PingDecide(n, c) ==
  /\ job[n][c] = Job("ping", "wait") /\ info[n] # "none"
  /\ IF info[n] = Bumped(n)
     THEN Goto(n, c, "fallback") /\ UNCHANGED <<disk, rebooting>>
     ELSE /\ disk' = Touch(disk, n, IF info[n] = "yes" THEN "prev_passive"
                                                       ELSE "prev_active")
          /\ rebooting' = rebooting \cup {n}
          /\ Ends(n, c)
  /\ UNCHANGED <<tmp, info, lock, boot, on, crm, net, counts>>

(***************************************************************************)
(* start_handle_sb.                                                        *)
(***************************************************************************)
SbTouch(n, c) ==
  /\ job[n][c].what \in {"safe", "boot"} /\ job[n][c].at = "touch"
  /\ disk' = Touch(disk, n, "safemode")
  /\ Goto(n, c, "forget")
  /\ UNCHANGED <<tmp, info, lock, boot, power, crm, net, counts>>

SbForget(n, c) ==
  /\ job[n][c].at = "forget"
  /\ disk' = Remove(disk, n, Record)
  /\ Goto(n, c, IF job[n][c].what = "boot" THEN "standby" ELSE "send")
  /\ UNCHANGED <<tmp, info, lock, boot, power, crm, net, counts>>

\* synoha --remote-run-safemode.
SbSend(n, c) ==
  /\ job[n][c].at = "send"
  /\ net' = Send("RUN_SAFE", Other(n))
  /\ Goto(n, c, "standby")
  /\ UNCHANGED <<files, boot, power, crm, counts>>

\* standby_and_set_constraint: at boot for the local server only.
Scope(n, what) == IF what = "boot" THEN {n} ELSE Node

SbStandby(n, c) ==
  LET ms == Scope(n, job[n][c].what) IN
  /\ job[n][c].what \in {"safe", "boot"} /\ job[n][c].at = "standby"
  /\ rule' = rule \cup ms
  /\ role' = [Stopped(ms) EXCEPT ![n] = "safe"]
  /\ Ends(n, c)
  /\ UNCHANGED <<files, boot, power, net, counts>>

\* "Standby failed, force reboot".
SbStandbyFailed(n, c) ==
  LET ms == Scope(n, job[n][c].what) IN
  /\ n \in Stuck
  /\ job[n][c].what \in {"safe", "boot"} /\ job[n][c].at = "standby"
  /\ StillLocated(ms)
  /\ rule' = rule \cup ms
  /\ Off(n)
  /\ UNCHANGED <<disk, counts>>

HandlerStep(n, c) ==
  \/ LockTest(n, c) \/ LockWrite(n, c) \/ Check(n, c) \/ Fallback(n, c)
  \/ PingTouch(n, c) \/ PingStandby(n, c) \/ PingClear(n, c)
  \/ PingTimeout(n, c) \/ PingDecide(n, c)
  \/ SbTouch(n, c) \/ SbForget(n, c) \/ SbSend(n, c) \/ SbStandby(n, c)

-----------------------------------------------------------------------------
(***************************************************************************)
(* handle_ais.sh.                                                          *)
(***************************************************************************)
Receive(n, type) ==
  /\ n \in on
  /\ [type |-> type, to |-> n] \in net

Consumed(n, type) == net \ {[type |-> type, to |-> n]}

RunSafe(n) ==
  /\ Receive(n, "RUN_SAFE")
  /\ IF "safemode" \in disk[n] THEN UNCHANGED job ELSE Run(n, "safe")
  /\ net' = Consumed(n, "RUN_SAFE")
  /\ UNCHANGED <<files, boot, power, crm, counts>>

ChkSafe(n) ==
  /\ Receive(n, "CHK_SAFE")
  /\ LET reply == IF "safemode" \in disk[n] THEN "RLY_TRUE" ELSE "RLY_FALSE" IN
     net' = Consumed(n, "CHK_SAFE") \cup
            (Send(reply, Other(n)) \ net)
  /\ UNCHANGED <<files, job, boot, power, crm, counts>>

RlySafe(n) ==
  /\ \E type \in {"RLY_TRUE", "RLY_FALSE"} :
       /\ Receive(n, type)
       /\ answer' = [answer EXCEPT ![n] = IF type = "RLY_TRUE" THEN "true" ELSE "false"]
       /\ net' = Consumed(n, type)
  /\ UNCHANGED <<files, job, start, fromSafe, power, crm, counts>>

\* synoha --receive-infoset.
\* Mutant: the value is taken for a server that has raised nothing.
InfosetMisread(n) ==
  /\ \E type \in {"INFO_YES", "INFO_NO"} :
       /\ Receive(n, type)
       /\ info' = [info EXCEPT ![n] = "no"]
       /\ net' = Consumed(n, type)
  /\ UNCHANGED <<disk, tmp, lock, job, boot, power, crm, counts>>

InfosetReq(n) ==
  /\ \E type \in {"INFO_YES", "INFO_NO"} :
       /\ Receive(n, type)
       /\ info' = [info EXCEPT ![n] = IF type = "INFO_YES" THEN "yes" ELSE "no"]
       /\ net' = Consumed(n, type)
  /\ UNCHANGED <<disk, tmp, lock, job, boot, power, crm, counts>>

\* synoha --set-sb-role passive.
\* Mutant: both servers get the role of the sender.
SbSetSameRole(n) ==
  /\ Receive(n, "SBSROLE")
  /\ disk' = Touch(disk, n, "prev_active")
  /\ rebooting' = rebooting \cup {n}
  /\ net' = Consumed(n, "SBSROLE")
  /\ UNCHANGED <<tmp, info, lock, job, boot, on, crm, counts>>

SbSetRole(n) ==
  /\ Receive(n, "SBSROLE")
  /\ disk' = Touch(disk, n, "prev_passive")
  /\ rebooting' = rebooting \cup {n}
  /\ net' = Consumed(n, "SBSROLE")
  /\ UNCHANGED <<tmp, info, lock, job, boot, on, crm, counts>>

AisHandler(n) ==
  RunSafe(n) \/ ChkSafe(n) \/ RlySafe(n) \/ InfosetReq(n) \/ SbSetRole(n)

-----------------------------------------------------------------------------
(***************************************************************************)
(* rc.ha start, from the start of pacemaker on.                            *)
(***************************************************************************)
PowerOn(n) ==
  /\ n \notin on
  /\ on' = on \cup {n}
  /\ start' = [start EXCEPT ![n] = "safemode"]
  /\ UNCHANGED <<files, job, rebooting, fromSafe, answer, crm, net, counts>>

\* rc.ha stop touches no record while ha.ping.server or ha.safemode.info is
\* there, and every reboot modelled here finds one of them.
Reboot(n) ==
  /\ n \in rebooting
  /\ Off(n)
  /\ UNCHANGED <<disk, rule, counts>>

\* The safe mode section of start().
StartNormal(n) ==
  /\ start[n] = "safemode" /\ "safemode" \notin disk[n]
  /\ start' = [start EXCEPT ![n] = "role"]
  /\ UNCHANGED <<files, job, fromSafe, answer, power, crm, net, counts>>

\* A record ends safe mode; the server that becomes active lifts its constraint.
\* Mutant: it does not.
StartKeepsRule(n) ==
  /\ start[n] = "safemode" /\ "safemode" \in disk[n]
  /\ disk[n] \cap Record # {}
  /\ disk' = Remove(disk, n, {"safemode"})
  /\ fromSafe' = fromSafe \cup {n}
  /\ start' = [start EXCEPT ![n] = "role"]
  /\ UNCHANGED <<tmp, info, lock, job, answer, power, crm, net, counts>>

StartRecorded(n) ==
  /\ start[n] = "safemode" /\ "safemode" \in disk[n]
  /\ disk[n] \cap Record # {}
  /\ rule' = IF "prev_active" \in disk[n] THEN rule \ {n} ELSE rule
  /\ disk' = Remove(disk, n, {"safemode"})
  /\ fromSafe' = fromSafe \cup {n}
  /\ start' = [start EXCEPT ![n] = "role"]
  /\ UNCHANGED <<tmp, info, lock, job, answer, power, role, net, counts>>

\* synoha --check-remote-in-safemode: the question ...
StartAsk(n) ==
  /\ start[n] = "safemode" /\ "safemode" \in disk[n]
  /\ disk[n] \cap Record = {}
  /\ fromSafe' = fromSafe \cup {n}
  /\ answer' = [answer EXCEPT ![n] = "unknown"]
  /\ net' = Send("CHK_SAFE", Other(n))
  /\ start' = [start EXCEPT ![n] = "ask"]
  /\ UNCHANGED <<files, job, power, crm, counts>>

\* ... and what the answer, or its absence, leads to.
StartAnswered(n) ==
  /\ start[n] = "ask"
  /\ IF answer[n] = "false"
     THEN /\ disk' = Touch(disk, n, "prev_passive")
          /\ start' = [start EXCEPT ![n] = "role"]
          /\ UNCHANGED job
     ELSE /\ Run(n, "boot")
          /\ start' = [start EXCEPT ![n] = "none"]
          /\ UNCHANGED disk
  /\ UNCHANGED <<tmp, info, lock, fromSafe, answer, power, crm, net, counts>>

\* The wait for the other server, by record: a server that was passive waits
\* for an active one, or for one that cannot become active.
WaitOver(n) ==
  \/ "prev_passive" \notin disk[n]
  \/ "prev_active" \in disk[n]
  \/ role[Other(n)] = "active"
  \/ Other(n) \in rule /\ n \notin fromSafe

\* The records are forgotten and the server goes online: pacemaker makes it
\* active unless the other one is or a constraint forbids it.
StartRole(n) ==
  LET serve == role[Other(n)] # "active" /\ n \notin rule IN
  /\ start[n] = "role" /\ WaitOver(n)
  /\ disk' = Remove(disk, n, Record)
  /\ role' = [role EXCEPT ![n] = IF serve THEN "active"
                                ELSE IF @ = "safe" THEN "safe" ELSE "passive"]
  /\ rule' = IF serve /\ n \in fromSafe THEN rule \ {Other(n)} ELSE rule
  /\ start' = [start EXCEPT ![n] = "none"]
  /\ UNCHANGED <<tmp, info, lock, job, fromSafe, answer, power, net, counts>>

\* The wait is over without an active server: power off, back into safe mode
\* if the server came from there.
StartTimeout(n) ==
  /\ start[n] = "role" /\ ~WaitOver(n)
  /\ disk' = IF n \in fromSafe THEN Touch(disk, n, "safemode") ELSE disk
  /\ Off(n)
  /\ UNCHANGED <<rule, counts>>

StartStep(n) ==
  \/ StartNormal(n) \/ StartRecorded(n) \/ StartAsk(n) \/ StartAnswered(n)
  \/ StartRole(n) \/ StartTimeout(n)

-----------------------------------------------------------------------------
(***************************************************************************)
(* The environment.                                                        *)
(***************************************************************************)
\* DRBD finds a volume that both servers have written.
DrbdReport(n) ==
  /\ on = Node /\ \A m \in Node : role[m] = "active"
  /\ reports[n] < MaxReports
  /\ Run(n, "ping")
  /\ reports' = [reports EXCEPT ![n] = @ + 1]
  /\ UNCHANGED <<files, boot, power, crm, net, crashes, chosen>>

\* Both servers are in safe mode, their handlers have ended and nothing has been
\* decided.
BothSafe ==
  /\ rebooting = {}
  /\ \A n \in Node :
       /\ role[n] = "safe" /\ disk[n] \cap Record = {}
       /\ \A c \in Call : job[n][c] = NoJob

\* The operator makes n the active server (synoha --set-sb-role).
OperatorChoice(n) ==
  /\ Cardinality(chosen) < MaxChoices /\ BothSafe
  /\ disk' = Touch(disk, n, "prev_active")
  /\ net' = Send("SBSROLE", Other(n))
  /\ rebooting' = rebooting \cup {n}
  /\ chosen' = chosen \cup {n}
  /\ UNCHANGED <<tmp, info, lock, job, boot, on, crm, reports, crashes>>

Crash(n) ==
  /\ n \in on /\ crashes < MaxCrashes
  /\ Off(n)
  /\ crashes' = crashes + 1
  /\ UNCHANGED <<disk, rule, reports, chosen>>

Environment(n) == DrbdReport(n) \/ OperatorChoice(n) \/ Crash(n)

Next ==
  \E n \in Node :
    \/ \E c \in Call : \/ HandlerStep(n, c)
                       \/ PingStandbyFailed(n, c) \/ SbStandbyFailed(n, c)
    \/ AisHandler(n) \/ PowerOn(n) \/ Reboot(n) \/ StartStep(n)
    \/ PublishInfo(n) \/ Environment(n)

Spec == Init /\ [][Next]_vars

\* Every script runs on; the environment need do nothing.
Fairness ==
  \A n \in Node :
    /\ \A c \in Call : WF_vars(HandlerStep(n, c))
    /\ WF_vars(RunSafe(n)) /\ WF_vars(ChkSafe(n)) /\ WF_vars(RlySafe(n))
    /\ WF_vars(SbSetRole(n)) /\ WF_vars(InfosetReq(n)) /\ WF_vars(PublishInfo(n))
    /\ WF_vars(PowerOn(n)) /\ WF_vars(Reboot(n)) /\ WF_vars(StartStep(n))

FairSpec == Spec /\ Fairness

\* What the comparison has to rely on: calls run on, a reboot happens, and what
\* the servers publish arrives.
PingFairness ==
  \A n \in Node :
    /\ \A c \in Call : WF_vars(HandlerStep(n, c))
    /\ WF_vars(PublishInfo(n)) /\ WF_vars(InfosetReq(n)) /\ WF_vars(Reboot(n))

PingSpec == Spec /\ PingFairness

\* Safe mode: the services are stopped, both servers have the file, and neither
\* a record nor a handler is left.
InitSafe ==
  /\ disk = [n \in Node |-> {"safemode"}]
  /\ tmp \in [Node -> SUBSET TmpFlag]
  /\ info \in [Node -> {"none", "yes", "no"}]
  /\ lock = [n \in Node |-> NoCall]
  /\ job = [n \in Node |-> [c \in Call |-> NoJob]]
  /\ on = Node
  /\ rebooting = {}
  /\ start = [n \in Node |-> "none"]
  /\ fromSafe = {}
  /\ answer = [n \in Node |-> "unknown"]
  /\ role = [n \in Node |-> "safe"]
  /\ rule = Node
  /\ net = {}
  /\ reports = [n \in Node |-> 0]
  /\ crashes = 0
  /\ chosen = {}

SafeSpec == InitSafe /\ [][Next]_vars

FairSafeSpec == SafeSpec /\ Fairness

-----------------------------------------------------------------------------
\* The variables have their types.
TypeOK ==
  /\ disk \in [Node -> SUBSET DiskFlag]
  /\ tmp \in [Node -> SUBSET TmpFlag]
  /\ info \in [Node -> {"none", "yes", "no"}]
  /\ lock \in [Node -> Call \cup {NoCall}]
  /\ job \in [Node -> [Call -> [what : What, at : At]]]
  /\ on \subseteq Node /\ rebooting \subseteq Node /\ fromSafe \subseteq Node
  /\ start \in [Node -> StartPc]
  /\ answer \in [Node -> {"unknown", "true", "false"}]
  /\ role \in [Node -> Role]
  /\ rule \subseteq Node
  /\ net \subseteq Message
  /\ reports \in [Node -> 0..MaxReports]
  /\ crashes \in 0..MaxCrashes /\ chosen \subseteq Node

\* However the handlers of the two servers overlap, lose messages, are cut off by
\* a reboot or give way to safe mode, the servers never both keep the record that
\* sends a server online at once: at most one of them discards no data.
NotBothRecordActive == \E n \in Node : "prev_active" \notin disk[n]

\* The invariant behind it.  The flag of a raised admin_epoch dates from before
\* the handlers and is lost with a reboot, ...
BumpedUp == \A n \in Node : "bumped" \in tmp[n] => n \in on /\ start[n] = "none"

\* ... so a server that has it never told the other one that it has not, ...
BumpedTold ==
  \A n \in Node : "bumped" \in tmp[n] =>
    /\ info[Other(n)] # "no"
    /\ [type |-> "INFO_NO", to |-> Other(n)] \notin net

\* ... and one that finds the other recorded as active has nothing to decide.
PingPending(n) ==
  \E c \in Call : job[n][c].what = "ping" /\ job[n][c].at # "free"

RecordUndisputed ==
  \A n \in Node : "prev_active" \in disk[n] /\ "bumped" \in tmp[Other(n)] =>
    ~PingPending(Other(n)) /\ role[Other(n)] # "active"

\* The flag, what the other server was told and what is recorded agree, whatever
\* messages are under way and whichever handler is cut off.
RecordsAgree == BumpedUp /\ BumpedTold /\ RecordUndisputed

\* In safe mode, whatever reboots and whoever is up: the server that serves first
\* is the one the operator chose.  Reboots without an answer from the other
\* server, and a choice that reaches only one server, change nothing of that.
OnlyChosenServes ==
  \A n \in Node : role[n] = "active" =>
    \/ n \in chosen
    \/ \E c \in chosen : "prev_active" \notin disk[c]

\* The comparison of who raised the admin_epoch does end: with a reboot or in
\* safe mode, never with services stopped and nobody at work.
PingEnds ==
  \A n \in Node : n \in on /\ "ping" \in tmp[n] ~>
     "ping" \notin tmp[n] \/ "safemode" \in disk[n]

\* A choice does end safe mode, even if power fails on the way or the other server
\* never hears of it: a server serves, the chosen one first (OnlyChosenServes).
ChoiceServed == \A n \in Node : n \in chosen ~> \E m \in Node : role[m] = "active"

\* "Local has bumped admin_epoch, let's be active" (handler_sb.sh:293): a server
\* with that record becomes active, or waits for the operator in safe mode.
WinnerServes ==
  \A n \in Node : "prev_active" \in disk[n] ~>
     role[n] = "active" \/ "safemode" \in disk[n]
=============================================================================
