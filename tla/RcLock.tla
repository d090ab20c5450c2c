------------------------------- MODULE RcLock -------------------------------
(***************************************************************************)
(* The lock of rc.ha: /tmp/.ha.rc.lock, one per server.                    *)
(*                                                                         *)
(* Every call of rc.ha runs `lock $1 || exit $?` first.  Three kinds of    *)
(* calls are told apart:                                                   *)
(*   keep   start, stop, status, ...: hold the lock until they exit;       *)
(*   early  hotplug-usb-ups, ups-safemode, get-ha-debug-info-pre, ...:     *)
(*          call unlock before their work;                                 *)
(*   skip   bump-cib-epoch, set-disk-io-scheduler-to-deadline: lock()      *)
(*          returns at once and sets no trap, yet they too call unlock; so *)
(*          does the part of start that is still running when start has    *)
(*          exited, if it finds a cluster process dead (rc.ha:819).        *)
(* The file is tested and written in two commands, the trap that removes   *)
(* it at exit is set in between, and neither unlock nor the trap looks     *)
(* whose lock it removes.  A reboot ends all calls and empties /tmp, which *)
(* is the initial state; a call killed by SIGKILL is not modelled.         *)
(***************************************************************************)
CONSTANTS
  Proc,    \* the processes that may call rc.ha on a server
  NoLock   \* /tmp/.ha.rc.lock does not exist

ASSUME LockAssumption == NoLock \notin Proc

Kind == {"keep", "early", "skip"}
Pc   == {"idle", "lock", "write", "unlock", "body"}

VARIABLES
  lockFile,  \* the process whose number RC_FLOCK holds
  pc,        \* where each call is
  kind       \* the kind of each process's last call

vars == <<lockFile, pc, kind>>

Goto(p, label) == pc' = [pc EXCEPT ![p] = label]

Init ==
  /\ lockFile = NoLock
  /\ pc = [p \in Proc |-> "idle"]
  /\ kind \in [Proc -> Kind]

\* rc.ha is called.
Call(p, k) ==
  /\ pc[p] = "idle"
  /\ kind' = [kind EXCEPT ![p] = k]
  /\ Goto(p, "lock")
  /\ UNCHANGED lockFile

\* lock(): the two actions that skip the lock.
LockSkipped(p) ==
  /\ pc[p] = "lock" /\ kind[p] = "skip"
  /\ Goto(p, "unlock")
  /\ UNCHANGED <<lockFile, kind>>

\* lock(): [ -f "$RC_FLOCK" ].  The call that finds the file exits at once,
\* before it has set the trap.
LockTest(p) ==
  /\ pc[p] = "lock" /\ kind[p] # "skip"
  /\ Goto(p, IF lockFile = NoLock THEN "write" ELSE "idle")
  /\ UNCHANGED <<lockFile, kind>>

\* lock(): trap, echo "$$ $1" > "$RC_FLOCK".
LockWrite(p) ==
  /\ pc[p] = "write"
  /\ lockFile' = p
  /\ Goto(p, IF kind[p] = "early" THEN "unlock" ELSE "body")
  /\ UNCHANGED kind

\* unlock(), called by an action before its work.
Unlock(p) ==
  /\ pc[p] = "unlock"
  /\ lockFile' = NoLock
  /\ Goto(p, "body")
  /\ UNCHANGED kind

\* start gives the lock back before it waits for a reboot.
UnlockInside(p) ==
  /\ pc[p] = "body" /\ kind[p] = "keep"
  /\ lockFile' = NoLock
  /\ UNCHANGED <<pc, kind>>

\* exit, which runs the trap if there is one.
\* Mutant: the trap does not name EXIT.
ExitWithoutTrap(p) ==
  /\ pc[p] = "body"
  /\ lockFile' = lockFile
  /\ Goto(p, "idle")
  /\ UNCHANGED kind

Exit(p) ==
  /\ pc[p] = "body"
  /\ lockFile' = IF kind[p] = "skip" THEN lockFile ELSE NoLock
  /\ Goto(p, "idle")
  /\ UNCHANGED kind

\* INT, TERM or ABRT: the trap removes the file and does not exit, so that the
\* call goes on; without a trap the call ends.
Signal(p) ==
  /\ pc[p] \in {"unlock", "body"}
  /\ IF kind[p] = "skip"
     THEN Goto(p, "idle") /\ UNCHANGED lockFile
     ELSE lockFile' = NoLock /\ UNCHANGED pc
  /\ UNCHANGED kind

Next ==
  \E p \in Proc :
    \/ \E k \in Kind : Call(p, k)
    \/ LockSkipped(p) \/ LockTest(p) \/ LockWrite(p)
    \/ Unlock(p) \/ UnlockInside(p) \/ Exit(p) \/ Signal(p)

Spec == Init /\ [][Next]_vars

-----------------------------------------------------------------------------
\* The variables have their types.
TypeOK ==
  /\ lockFile \in Proc \cup {NoLock}
  /\ pc \in [Proc -> Pc]
  /\ kind \in [Proc -> Kind]

\* However calls overlap, lose the lock to each other or are interrupted, the
\* lock file never outlives the call whose number it holds: rc.ha stop at
\* shutdown is never refused on account of a call that is over.
NoOrphanLock ==
  lockFile # NoLock => /\ pc[lockFile] \in {"unlock", "body"}
                       /\ kind[lockFile] # "skip"
=============================================================================
