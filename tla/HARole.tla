------------------------------- MODULE HARole -------------------------------
(***************************************************************************)
(* The role record of a two-node Synology High Availability cluster.       *)
(*                                                                         *)
(* rc.ha stop writes, in a file that survives a power cycle, whether the   *)
(* server left the cluster as the active or as the passive one; rc.ha      *)
(* start reads that file at the next boot and either takes the services at *)
(* once (previous_role_active) or first waits for the other server         *)
(* (previous_role_passive).  Two servers that stop at about the same time  *)
(* tell each other with TSDFLAG messages, which handle_ais.sh turns into   *)
(* the .ha_remote_shutdown file and which a NODE__ON message takes back.   *)
(*                                                                         *)
(* Modelled: start() and stop() of rc.ha, the message handlers they rely   *)
(* on, the entry of both servers into UPS safe mode.  External: whom       *)
(* pacemaker promotes, what DRBD replicates.  The link between the servers *)
(* never fails here and neither server is being bound, unbound or          *)
(* upgraded; the split-brain handler has a module of its own, so the files *)
(* ha.safemode.info and ha.ping.server never exist in this one.            *)
(***************************************************************************)
EXTENDS Naturals, FiniteSets

CONSTANTS
  node0, node1,   \* NODE_HOST0, NODE_HOST1
  Env,            \* the environment events that may happen
  MaxStops,       \* operator shutdowns, per server
  MaxBoots,       \* boots, per server
  MaxCrashes,     \* power losses, in all
  ShutdownSends,  \* TSDFLAG messages per shutdown (5 in the code)
  Serial,         \* operators stop one server of a settled cluster at a time
  Prompt          \* a command finishes while the other scripts sleep

Node == {node0, node1}

\* ups: mains power fails; fail: a promotion fails; demote: a demotion fails;
\* constraint, lift: a location constraint is set, removed; procdead: a process
\* of pacemaker dies during a boot.
EnvEvent == {"ups", "fail", "demote", "constraint", "lift", "procdead"}

ASSUME NodeAssumption == node0 # node1
ASSUME BoundAssumption ==
  /\ Env \subseteq EnvEvent
  /\ MaxStops \in Nat /\ MaxBoots \in Nat /\ MaxCrashes \in Nat
  /\ ShutdownSends \in Nat \ {0}
  /\ Serial \in BOOLEAN /\ Prompt \in BOOLEAN

(***************************************************************************)
(* Files.  disk holds the flags of /var/lib/ha, tmp those of /tmp.         *)
(***************************************************************************)
DiskFlag == {"prev_active", "prev_passive", "remote_shutdown", "ups_safe",
             "demote_error"}
TmpFlag  == {"discard", "safe_shutdown"}

\* Background processes, kept with the files of /tmp as both end with power:
\* a NODE__ON handler that waits, a PASINUPS handler that waits, and
\* check_active_in_ups_safemode in its two loops.
Process  == {"online_wait", "ups_wait", "until_down", "until_back"}

Role == {"Unknown", "Passive", "Prepare", "Preactive", "Active"}

\* Where rc.ha start and rc.ha stop are; "none" when they do not run.
StartPc == {"none", "join", "role", "prepare", "forget", "forget_passive",
            "forget_ups", "discard", "online", "settle", "poweroff"}
StopPc  == {"none", "prepare", "decide", "send_active", "wait_remote",
            "send_passive", "standby", "demote", "unload"}

Message == [type : {"TSDFLAG", "NODE__ON", "PASINUPS"}, to : Node]

VARIABLES
  disk,     \* persistent flag files of each server
  tmp,      \* volatile flag files and background processes of each server
  on,       \* the servers that have power
  up,       \* the servers whose corosync and pacemaker run
  role,     \* what synoha --local-role prints
  standby,  \* the servers in standby, in the CIB
  banned,   \* the servers a location constraint keeps from being active
  failed,   \* the servers with a failed crm operation
  start,    \* program counter of rc.ha start
  stop,     \* program counter of rc.ha stop
  sent,     \* TSDFLAG messages sent by the running rc.ha stop
  net,      \* messages whose handler has not run
  missing,  \* the servers that lack writes the other one has on disk
  stops,    \* operator shutdowns so far, per server
  boots,    \* boots so far, per server
  crashes   \* power losses so far

vars == <<disk, tmp, on, up, role, standby, banned, failed, start, stop,
          sent, net, missing, stops, boots, crashes>>

files == <<disk, tmp>>
crm   == <<on, up, role, standby, banned, failed>>
counts == <<stops, boots, crashes>>
env   == <<missing, stops, boots, crashes>>

-----------------------------------------------------------------------------
Other(n) == IF n = node0 THEN node1 ELSE node0

Touch(f, n, flag)   == [f EXCEPT ![n] = @ \cup {flag}]
Remove(f, n, flags) == [f EXCEPT ![n] = @ \ flags]
Goto(pc, n, label)  == [pc EXCEPT ![n] = label]

\* synoha --remote-role: a server outside the cluster has no role to show.
RemoteRole(n) == IF Other(n) \in up THEN role[Other(n)] ELSE "Unknown"

\* crm_node --mesg: nobody keeps a message for a server that is down.
Send(n, type) ==
  IF Other(n) \in up THEN net \cup {[type |-> type, to |-> Other(n)]} ELSE net

\* Some script is at a command it runs at once, or a handler has yet to run.
Hurried ==
  \/ net # {}
  \/ \E n \in Node :
       \/ stop[n] \in {"decide", "standby"}
       \/ stop[n] \in {"send_active", "send_passive"} /\ sent[n] = 0

\* The end of a sleep of some seconds, and of a wait of some minutes
\* (MAX_HA_SERV_START_FAST_SEC, MAX_HA_SERV_STOP_SEC, MAX_HA_PASSIVE_ONLY).
\* Mutant: the waits have no limit.
Slept == Prompt => ~Hurried

WaitedNever == FALSE

Waited == Prompt =>
  /\ ~Hurried
  /\ \A n \in Node :
       /\ stop[n] \notin {"send_active", "send_passive"}
       /\ n \in on => "online_wait" \notin tmp[n] /\ "ups_wait" \notin tmp[n]

-----------------------------------------------------------------------------
(***************************************************************************)
(* Power.  A server that loses power loses its processes and its /tmp.     *)
(***************************************************************************)
\* Mutant: a server without power remains a member of the cluster.
StackDownStaysMember(n) ==
  /\ up' = up
  /\ role' = [role EXCEPT ![n] = "Unknown"]

StackDown(n) ==
  /\ up' = up \ {n}
  /\ role' = [role EXCEPT ![n] = "Unknown"]

Off(n) ==
  /\ on' = on \ {n}
  /\ StackDown(n)
  /\ start' = Goto(start, n, "none")
  /\ stop' = Goto(stop, n, "none")
  /\ sent' = [sent EXCEPT ![n] = 0]
  /\ net' = {m \in net : m.to # n}

Crash(n) ==
  /\ crashes < MaxCrashes
  /\ n \in on
  /\ Off(n)
  /\ tmp' = [tmp EXCEPT ![n] = {}]
  /\ crashes' = crashes + 1
  /\ UNCHANGED <<disk, standby, banned, failed, missing, stops, boots>>

(***************************************************************************)
(* start(), up to the start of pacemaker: the volatile flags are gone, a   *)
(* demote error of the last run is forgotten, and the server is put in     *)
(* standby in its own CIB ("standby always").                              *)
(***************************************************************************)
PowerOn(n) ==
  /\ n \notin on
  /\ boots[n] < MaxBoots
  /\ Serial => /\ stop[Other(n)] = "none" /\ net = {}
               /\ Other(n) \in on => "ups_wait" \notin tmp[Other(n)]
  /\ boots' = [boots EXCEPT ![n] = @ + 1]
  /\ on' = on \cup {n}
  /\ tmp' = [tmp EXCEPT ![n] = {}]
  /\ disk' = Remove(disk, n, {"demote_error"})
  /\ standby' = standby \cup {n}
  /\ start' = Goto(start, n, "join")
  /\ UNCHANGED <<up, role, banned, failed, stop, sent, net, missing, stops,
                 crashes>>

\* drbd_start, corosync_start and pacemaker_start.  DRBD brings a server that
\* lacks writes up to date when it meets the other, unless both lack some.
Join(n) ==
  /\ start[n] = "join"
  /\ Slept
  /\ up' = up \cup {n}
  /\ role' = [role EXCEPT ![n] = "Passive"]
  /\ missing' = IF Other(n) \in up /\ missing # Node THEN {} ELSE missing
  /\ start' = Goto(start, n, "role")
  /\ UNCHANGED <<files, on, standby, banned, failed, stop, sent, net, counts>>

(***************************************************************************)
(* "wait remote if previous role is passive", at most 30 minutes.          *)
(***************************************************************************)
\* Mutant: a server whose last role was passive does not wait.
MustWaitNever(n) == FALSE

MustWait(n) == "prev_active" \notin disk[n] /\ "prev_passive" \in disk[n]

WaitIsOver(n) ==
  \/ RemoteRole(n) = "Active"
  \/ role[n] \in {"Active", "Preactive"}
  \/ Other(n) \in banned \cup failed

CheckRole(n) ==
  /\ start[n] = "role"
  /\ MustWait(n) => WaitIsOver(n)
  /\ Slept
  /\ start' = Goto(start, n, "prepare")
  /\ UNCHANGED <<files, crm, stop, sent, net, env>>

\* The reboot or shutdown that a script, a handler or an operator asks for;
\* asked for twice it happens once (SYNO_HA_STOPPING).  stop() leaves the role
\* alone after a failed demotion, and lets a promotion under way finish.
\* t is the value of tmp the rest of the caller leaves.
BeginStop(n, t) ==
  \/ /\ stop[n] # "none"
     /\ stop' = stop /\ tmp' = t
  \/ /\ stop[n] = "none"
     /\ stop' = Goto(stop, n,
          CASE "demote_error" \in disk[n] -> "unload"
            [] "demote_error" \notin disk[n] /\ role[n] = "Prepare"
               /\ n \notin standby -> "prepare"
            [] OTHER -> "decide")
     /\ tmp' = Remove(t, n, {"discard"})

\* enter_ups_safemode: the shutdown, and check_active_in_ups_safemode.
EnterSafemode(n, t) ==
  BeginStop(n, Touch(Touch(t, n, "safe_shutdown"), n, "until_down"))

\* No active server came: enter UPS safe mode again, or power off.
WaitTimeout(n) ==
  /\ start[n] = "role"
  /\ MustWait(n) /\ ~WaitIsOver(n)
  /\ Waited
  /\ \/ /\ "ups_safe" \in disk[n]
        /\ start' = Goto(start, n, "none")
        /\ EnterSafemode(n, tmp)
     \/ /\ "ups_safe" \notin disk[n]
        /\ start' = Goto(start, n, "poweroff")
        /\ BeginStop(n, tmp)
  /\ UNCHANGED <<disk, crm, sent, net, env>>

\* poweroff -f, when the shutdown has not finished in 5 minutes.
ForcePowerOff(n) ==
  /\ start[n] = "poweroff"
  /\ Waited
  /\ Off(n)
  /\ tmp' = [tmp EXCEPT ![n] = {}]
  /\ UNCHANGED <<disk, standby, banned, failed, env>>

\* "wait remote not prepare, maybe remote is starting to active"; the loop
\* has a limit of 20 minutes, and a server that was active skips it.
WaitPrepare(n) ==
  /\ start[n] = "prepare"
  /\ \/ "prev_active" \in disk[n]
     \/ RemoteRole(n) \notin {"Prepare", "Preactive"}
     \/ Waited
  /\ start' = Goto(start, n, "forget")
  /\ UNCHANGED <<files, crm, stop, sent, net, env>>

\* The record has served: rm -f of its files, one after the other.
ForgetFlag(n, here, flag, next) ==
  /\ start[n] = here
  /\ disk' = Remove(disk, n, {flag})
  /\ start' = Goto(start, n, next)
  /\ UNCHANGED <<tmp, crm, stop, sent, net, env>>

\* Mutant: the passive record stays.
ForgetActive(n) ==
  \/ ForgetFlag(n, "forget", "prev_active", "forget_ups")
  \/ ForgetFlag(n, "forget_ups", "ups_safe", "discard")

Forget(n) ==
  \/ ForgetFlag(n, "forget", "prev_active", "forget_passive")
  \/ ForgetFlag(n, "forget_passive", "prev_passive", "forget_ups")
  \/ ForgetFlag(n, "forget_ups", "ups_safe", "discard")

\* A server that finds the other one active gives up its own writes.  The standby
\* that follows is the one of PowerOn again.
Discard(n) ==
  /\ start[n] = "discard"
  /\ tmp' = IF RemoteRole(n) = "Active" THEN Touch(tmp, n, "discard") ELSE tmp
  /\ missing' = IF RemoteRole(n) = "Active" THEN {} ELSE missing
  /\ start' = Goto(start, n, "online")
  /\ UNCHANGED <<disk, crm, stop, sent, net, counts>>

Online(n) ==
  /\ start[n] = "online"
  /\ Slept
  /\ failed' = IF "discard" \in tmp[n] THEN failed ELSE failed \ {n}
  /\ standby' = standby \ {n}
  /\ start' = Goto(start, n, "settle")
  /\ UNCHANGED <<files, on, up, role, banned, stop, sent, net, env>>

\* A process of pacemaker is gone before the server goes online: reboot.
ProcessGone(n) ==
  /\ "procdead" \in Env
  /\ start[n] = "online"
  /\ start' = Goto(start, n, "none")
  /\ BeginStop(n, tmp)
  /\ UNCHANGED <<disk, crm, sent, net, env>>

\* synoha --wait-crm-done, then the NODE__ON message and the end of start().
Settle(n) ==
  /\ start[n] = "settle"
  /\ role[n] \in {"Active", "Passive"}
  /\ net' = Send(n, "NODE__ON")
  /\ start' = Goto(start, n, "none")
  /\ UNCHANGED <<files, crm, stop, sent, env>>

-----------------------------------------------------------------------------
(***************************************************************************)
(* stop()                                                                  *)
(***************************************************************************)
\* A promotion under way ends, fails, or takes more than 20 minutes.
PrepareOver(n) ==
  /\ stop[n] = "prepare"
  /\ role[n] # "Prepare" \/ Waited
  /\ stop' = Goto(stop, n, "decide")
  /\ UNCHANGED <<files, crm, start, sent, net, env>>

PrepareFailed(n) ==
  /\ stop[n] = "prepare" /\ role[n] = "Prepare" /\ n \in failed
  /\ standby' = standby \cup {n}
  /\ UNCHANGED <<files, on, up, role, banned, failed, start, stop, sent, net,
                 env>>

\* "set prev role ...", then standby.
Record(n, flag) ==
  /\ disk' = Touch(disk, n, flag)
  /\ stop' = Goto(stop, n, "standby")

DecideActive(n) ==
  \/ /\ "ups_safe" \in disk[n]
     /\ Record(n, "prev_passive")
  \/ /\ "ups_safe" \notin disk[n]
     /\ \/ RemoteRole(n) # "Passive"
        \/ Other(n) \in banned
        \/ "safe_shutdown" \in tmp[n]
     /\ Record(n, "prev_active")
  \/ /\ "ups_safe" \notin disk[n]
     /\ RemoteRole(n) = "Passive" /\ Other(n) \notin banned
     /\ "safe_shutdown" \notin tmp[n]
     /\ stop' = Goto(stop, n, IF "remote_shutdown" \in disk[n]
                              THEN "wait_remote" ELSE "send_active")
     /\ UNCHANGED disk

DecidePassive(n) ==
  IF "remote_shutdown" \in disk[n]
  THEN Record(n, "prev_active")
  ELSE stop' = Goto(stop, n, "send_passive") /\ UNCHANGED disk

Decide(n) ==
  /\ stop[n] = "decide"
  /\ IF role[n] = "Active" THEN DecideActive(n) ELSE DecidePassive(n)
  /\ UNCHANGED <<tmp, crm, start, sent, net, env>>

\* send_shutdown_flag: ShutdownSends times, two seconds apart.
SendFlag(n) ==
  /\ stop[n] \in {"send_active", "send_passive"}
  /\ sent[n] < ShutdownSends
  /\ sent[n] = 0 \/ Slept
  /\ net' = Send(n, "TSDFLAG")
  /\ sent' = [sent EXCEPT ![n] = @ + 1]
  /\ UNCHANGED <<files, crm, start, stop, env>>

\* The active server looks again whether the other one announced a shutdown.
\* Mutants: no server does; the passive one does too.
LooksAgainNever(n) == FALSE
LooksAgainBoth(n) == "remote_shutdown" \in disk[n]

SeesFlagAfterSending(n) ==
  stop[n] = "send_active" /\ "remote_shutdown" \in disk[n]

FlagSent(n) ==
  /\ stop[n] \in {"send_active", "send_passive"}
  /\ sent[n] = ShutdownSends
  /\ Slept
  /\ IF SeesFlagAfterSending(n)
     THEN stop' = Goto(stop, n, "wait_remote") /\ UNCHANGED disk
     ELSE Record(n, "prev_passive")
  /\ sent' = [sent EXCEPT ![n] = 0]
  /\ UNCHANGED <<tmp, crm, start, net, env>>

\* wait_remote_shutdown, at most 10 minutes.
RemoteGone(n) ==
  /\ stop[n] = "wait_remote"
  /\ Other(n) \notin up \/ Waited
  /\ Record(n, "prev_active")
  /\ UNCHANGED <<tmp, crm, start, sent, net, env>>

StandbyLocal(n) ==
  /\ stop[n] = "standby"
  /\ standby' = standby \cup {n}
  /\ stop' = Goto(stop, n, "demote")
  /\ UNCHANGED <<files, on, up, role, banned, failed, start, sent, net, env>>

\* "finish standby, last chance let remote enter UPS safemode"
StandbyDone(n) ==
  /\ stop[n] = "demote"
  /\ Slept
  /\ role[n] \in {"Passive", "Unknown"} \/ "demote_error" \in disk[n]
  /\ net' = IF "ups_safe" \notin disk[n] /\ "safe_shutdown" \in tmp[n]
            THEN Send(n, "PASINUPS") ELSE net
  /\ stop' = Goto(stop, n, "unload")
  /\ UNCHANGED <<files, crm, start, sent, env>>

\* What stays of a server that halts in UPS safe mode instead of going down.
Halted == {"safe_shutdown", "until_down", "until_back"}

\* Stop pacemaker, corosync and DRBD (or, after a failed demotion, do not) and
\* go down.
Unload(n) ==
  /\ stop[n] = "unload"
  /\ Slept
  /\ Off(n)
  /\ tmp' = [tmp EXCEPT ![n] = IF "safe_shutdown" \in @ THEN @ \cap Halted ELSE {}]
  /\ UNCHANGED <<disk, standby, banned, failed, env>>

-----------------------------------------------------------------------------
(***************************************************************************)
(* handle_ais.sh.  Every handler runs in the background, so messages take  *)
(* effect in any order.                                                    *)
(***************************************************************************)
Received(m) == net' = net \ {m}

HandleShutdownFlag(m) ==
  /\ m.type = "TSDFLAG"
  /\ Received(m)
  /\ disk' = Touch(disk, m.to, "remote_shutdown")
  /\ UNCHANGED <<tmp, crm, start, stop, sent, env>>

\* The active server first waits for the CIB files of the other server, at
\* most two minutes, and only then removes the flag.
HandleNodeOnline(m) ==
  /\ m.type = "NODE__ON"
  /\ Received(m)
  /\ IF role[m.to] = "Active"
     THEN tmp' = Touch(tmp, m.to, "online_wait") /\ UNCHANGED disk
     ELSE disk' = Remove(disk, m.to, {"remote_shutdown"}) /\ UNCHANGED tmp
  /\ UNCHANGED <<crm, start, stop, sent, env>>

NodeOnlineReady(n) ==
  /\ n \in on /\ "online_wait" \in tmp[n]
  /\ tmp' = Remove(tmp, n, {"online_wait"})
  /\ disk' = Remove(disk, n, {"remote_shutdown"})
  /\ UNCHANGED <<crm, start, stop, sent, net, env>>

HandleEnterUps(m) ==
  /\ m.type = "PASINUPS"
  /\ Received(m)
  /\ IF "ups_safe" \in disk[m.to]
     THEN UNCHANGED files
     ELSE /\ disk' = Touch(disk, m.to, "ups_safe")
          /\ tmp' = Touch(tmp, m.to, "ups_wait")
  /\ UNCHANGED <<crm, start, stop, sent, env>>

\* Three seconds later.
EnterUpsSafemode(n) ==
  /\ n \in on /\ "ups_wait" \in tmp[n]
  /\ Slept
  /\ EnterSafemode(n, Remove(tmp, n, {"ups_wait"}))
  /\ UNCHANGED <<disk, crm, start, sent, net, env>>

\* check_active_in_ups_safemode, which goes on in a server that has halted:
\* wait until the active server is down ...
ActiveDown(n) ==
  /\ {"safe_shutdown", "until_down"} \subseteq tmp[n]
  /\ Other(n) \notin on
  /\ tmp' = Touch(Remove(tmp, n, {"until_down"}), n, "until_back")
  /\ UNCHANGED <<disk, crm, start, stop, sent, net, env>>

\* ... and until it answers again, then reboot.
ActiveBack(n) ==
  /\ "until_back" \in tmp[n]
  /\ Other(n) \in on
  /\ disk' = Remove(disk, n, {"ups_safe"})
  /\ \/ n \in on /\ BeginStop(n, Remove(tmp, n, {"safe_shutdown", "until_back"}))
     \/ n \notin on /\ tmp' = [tmp EXCEPT ![n] = {}] /\ stop' = stop
  /\ UNCHANGED <<crm, start, sent, net, env>>

-----------------------------------------------------------------------------
(***************************************************************************)
(* Shutdowns asked for from outside the scripts.  rc.ha holds its lock     *)
(* until start() has started pacemaker, and the server's own shutdown      *)
(* cannot run stop() before.                                               *)
(***************************************************************************)
Settled(n) ==
  \/ n \notin on
  \/ /\ n \in up /\ start[n] = "none" /\ stop[n] = "none"
     /\ "online_wait" \notin tmp[n] /\ net = {}

MayStop(n) ==
  /\ n \in up /\ stop[n] = "none" /\ start[n] # "poweroff"
  /\ stops[n] < MaxStops
  /\ Serial => \A m \in Node : Settled(m)
  /\ stops' = [stops EXCEPT ![n] = @ + 1]

OperatorStop(n) ==
  /\ MayStop(n)
  /\ BeginStop(n, tmp)
  /\ UNCHANGED <<disk, crm, start, sent, net, missing, boots, crashes>>

\* UPSSafeMode of synoups: only the active server runs upsmon.
UpsBattery(n) ==
  /\ "ups" \in Env
  /\ role[n] = "Active" /\ start[n] = "none"
  /\ "safe_shutdown" \notin tmp[n]
  /\ MayStop(n)
  /\ net' = Send(n, "PASINUPS")
  /\ BeginStop(n, Touch(tmp, n, "safe_shutdown"))
  /\ UNCHANGED <<disk, crm, start, sent, missing, boots, crashes>>

-----------------------------------------------------------------------------
(***************************************************************************)
(* Pacemaker and DRBD (external).  Pacemaker promotes any server that is   *)
(* online, unconstrained and without a failed operation while the other    *)
(* one is not active; drbd.d/global_common.conf sets no fencing, so old    *)
(* data does not stop it.                                                  *)
(***************************************************************************)
Taking == {"Prepare", "Preactive", "Active"}

Promote(n) ==
  /\ n \in up \ (standby \cup banned \cup failed)
  /\ role[n] = "Passive" /\ RemoteRole(n) \notin Taking
  /\ \E r \in {"Prepare", "Preactive"} : role' = [role EXCEPT ![n] = r]
  /\ UNCHANGED <<files, on, up, standby, banned, failed, start, stop, sent,
                 net, env>>

PromoteDone(n) ==
  /\ role[n] \in {"Prepare", "Preactive"}
  /\ n \notin standby \cup failed
  /\ Slept
  /\ role' = [role EXCEPT ![n] = "Active"]
  /\ UNCHANGED <<files, on, up, standby, banned, failed, start, stop, sent,
                 net, env>>

PromoteFailed(n) ==
  /\ "fail" \in Env
  /\ role[n] \in {"Prepare", "Preactive"} /\ n \notin failed
  /\ failed' = failed \cup {n}
  /\ UNCHANGED <<files, on, up, role, standby, banned, start, stop, sent,
                 net, env>>

Demote(n) ==
  /\ role[n] \in Taking
  /\ n \in standby \cup failed /\ "demote_error" \notin disk[n]
  /\ role' = [role EXCEPT ![n] = "Passive"]
  /\ UNCHANGED <<files, on, up, standby, banned, failed, start, stop, sent,
                 net, env>>

DemoteFailed(n) ==
  /\ "demote" \in Env
  /\ role[n] = "Active" /\ n \in standby /\ "demote_error" \notin disk[n]
  /\ disk' = Touch(disk, n, "demote_error")
  /\ UNCHANGED <<tmp, crm, start, stop, sent, net, env>>

\* A constraint on the passive server, such as the one of the ping server.
Constrain(n) ==
  /\ "constraint" \in Env
  /\ n \in up \ banned /\ RemoteRole(n) = "Active" /\ stop[n] = "none"
  /\ banned' = banned \cup {n}
  /\ UNCHANGED <<files, on, up, role, standby, failed, start, stop, sent,
                 net, env>>

Unconstrain(n) ==
  /\ "lift" \in Env
  /\ n \in up \cap banned
  /\ banned' = banned \ {n}
  /\ UNCHANGED <<files, on, up, role, standby, failed, start, stop, sent,
                 net, env>>

Write(n) ==
  /\ role[n] = "Active" /\ Other(n) \notin up
  /\ missing' = missing \cup {Other(n)}
  /\ UNCHANGED <<files, crm, start, stop, sent, net, counts>>

-----------------------------------------------------------------------------
\* A bound cluster that runs, node0 active.
Init ==
  /\ disk = [n \in Node |-> {}]
  /\ tmp = [n \in Node |-> {}]
  /\ on = Node /\ up = Node
  /\ role = [n \in Node |-> IF n = node0 THEN "Active" ELSE "Passive"]
  /\ standby = {} /\ banned = {} /\ failed = {}
  /\ start = [n \in Node |-> "none"]
  /\ stop = [n \in Node |-> "none"]
  /\ sent = [n \in Node |-> 0]
  /\ net = {}
  /\ missing = {}
  /\ stops = [n \in Node |-> 0]
  /\ boots = [n \in Node |-> 0]
  /\ crashes = 0

StartStep(n) ==
  \/ Join(n) \/ CheckRole(n) \/ WaitTimeout(n) \/ WaitPrepare(n) \/ Forget(n)
  \/ Discard(n) \/ Online(n) \/ Settle(n)

StopStep(n) ==
  \/ PrepareOver(n) \/ PrepareFailed(n) \/ Decide(n) \/ SendFlag(n)
  \/ FlagSent(n) \/ RemoteGone(n) \/ StandbyLocal(n) \/ StandbyDone(n)
  \/ Unload(n)

Handler(m) == HandleShutdownFlag(m) \/ HandleNodeOnline(m) \/ HandleEnterUps(m)

DelayedHandler(n) ==
  \/ NodeOnlineReady(n) \/ EnterUpsSafemode(n)
  \/ ActiveDown(n) \/ ActiveBack(n)

Pacemaker(n) ==
  \/ Promote(n) \/ PromoteDone(n) \/ Demote(n)

Environment(n) ==
  \/ Crash(n) \/ ForcePowerOff(n) \/ ProcessGone(n) \/ OperatorStop(n)
  \/ UpsBattery(n) \/ PromoteFailed(n) \/ DemoteFailed(n) \/ Constrain(n)
  \/ Unconstrain(n) \/ Write(n)

Next ==
  \/ \E n \in Node :
       \/ PowerOn(n) \/ StartStep(n) \/ StopStep(n) \/ DelayedHandler(n)
       \/ Pacemaker(n) \/ Environment(n)
  \/ \E m \in net : Handler(m)

Spec == Init /\ [][Next]_vars

(***************************************************************************)
(* A script that can go on goes on, a handler runs, pacemaker promotes and *)
(* demotes, and a server that is off is powered on again while its boots   *)
(* last.  Nothing is assumed of the environment.                           *)
(***************************************************************************)
Fairness ==
  \A n \in Node :
    /\ WF_vars(PowerOn(n))
    /\ WF_vars(StartStep(n))
    /\ WF_vars(StopStep(n))
    /\ WF_vars(DelayedHandler(n))
    /\ WF_vars(Pacemaker(n))
    /\ WF_vars(\E m \in net : m.to = n /\ Handler(m))

FairSpec == Spec /\ Fairness

-----------------------------------------------------------------------------
(***************************************************************************)
(* Properties                                                              *)
(***************************************************************************)
\* Every variable keeps its type, and a server whose cluster stack runs has
\* power.
TypeOK ==
  /\ disk \in [Node -> SUBSET DiskFlag]
  /\ tmp \in [Node -> SUBSET (TmpFlag \cup Process)]
  /\ on \in SUBSET Node /\ up \in SUBSET on
  /\ role \in [Node -> Role]
  /\ standby \in SUBSET Node /\ banned \in SUBSET Node /\ failed \in SUBSET Node
  /\ start \in [Node -> StartPc] /\ stop \in [Node -> StopPc]
  /\ sent \in [Node -> 0..ShutdownSends]
  /\ net \in SUBSET Message
  /\ missing \in SUBSET Node
  /\ stops \in [Node -> 0..MaxStops] /\ boots \in [Node -> 0..MaxBoots]
  /\ crashes \in 0..MaxCrashes

\* A server without power runs neither rc.ha start nor rc.ha stop.
Powered == \A n \in Node \ on : start[n] = "none" /\ stop[n] = "none"

PrevRole == {"prev_active", "prev_passive"}

\* Once "rm -f $SYNO_HA_PREV_PASSIVE" is over, and until it begins to stop, a
\* server has no record of its last role on disk: after a power loss the next
\* boot sees "prev role unknown", never a role of an earlier run.
NoRecordWhileRunning ==
  \A n \in on :
    stop[n] = "none"
      /\ start[n] \notin {"join", "role", "prepare", "forget",
                          "forget_passive", "poweroff"}
    => disk[n] \cap PrevRole = {}

\* Until a server has lost power or booted again, what is recorded comes from
\* the shutdowns alone.
OnlyShutDown == crashes = 0 /\ \A n \in Node : boots[n] = 0

\* Two servers that stop at any moments, both, do not both record
\* previous_role_active: both would take the services at the next boot
\* (the TSDFLAG exchange of handle_manually_reboot_sametime_*).
NotBothActive ==
  OnlyShutDown => ~ \A n \in Node : n \notin on /\ "prev_active" \in disk[n]

\* Nor do both record only previous_role_passive: each would wait for the
\* other for half an hour and power off again, with nobody to serve.
NotBothPassive ==
  OnlyShutDown => ~ \A n \in Node : n \notin on /\ MustWait(n)

\* The records that two shutdowns leave tell the servers apart.
OneServes == NotBothActive /\ NotBothPassive

\* Not both servers hold writes that the other one lacks: the one with old
\* data waits at boot until the one with the new data has been active.
NoSplitBrain == missing # Node

\* Every shutdown ends: no wait of stop() waits for one that waits for it.
StopEnds == \A n \in Node : stop[n] # "none" ~> stop[n] = "none"

\* After the last shutdown, when the servers are powered on again, in any
\* order and at any moment, one of them becomes active and remains so.
Recovers == <>[](\E n \in Node : role[n] = "Active")
=============================================================================
