------------------------------ MODULE SnapSched ------------------------------
(***************************************************************************)
(* Scheduled snapshots of one target: synosnapschedtask.sh.                *)
(*                                                                         *)
(* The scheduler runs the script once for each task that is due.  The      *)
(* tasks of one target that fire together share one snapshot: the first    *)
(* run that gets the lock of the target takes it and leaves its name in    *)
(* the locked file, the others wait and read the name there.  A            *)
(* replication task hands the snapshot over to its plan and sends it.      *)
(*                                                                         *)
(* Three files are locked with flock: the target's, a second one that      *)
(* serialises the test of the first, and one for each task.  A lock ends   *)
(* with the block that took it or with the run.  Two targets share         *)
(* nothing, so one is modelled.                                            *)
(*                                                                         *)
(* External: the programs that take and send snapshots and start the       *)
(* tasks; a program that fails prints no name.  Left out: a switchover of  *)
(* the plan while a run is at work, the checks of the installation before  *)
(* the first lock.                                                         *)
(***************************************************************************)
EXTENDS Integers

CONSTANTS
  Run,          \* the runs of the script there can be at a time
  NoRun,        \* nobody has the lock
  Task,         \* the tasks of the target: one file SCHEDULE_TYPE.ID.task each
  Kind,         \* SCHEDULE_TYPE of each task
  Window,       \* the 60 seconds, in ticks of the clock
  MaxTime       \* the bound of the clock

\* "systemdr" is "replication" with other programs.
ScheduleType == {"local", "replication", "systemdr_local_task"}

ASSUME RunAssumption == NoRun \notin Run
ASSUME TaskAssumption == Task # {} /\ Kind \in [Task -> ScheduleType]
ASSUME WindowAssumption == Window \in Nat \ {0}
ASSUME BoundAssumption == MaxTime \in Nat

\* What the target is to its replication plan; a target without one is an origin.
Side == {"origin", "recovery"}

Pc == {"idle", "time", "target", "touch", "task", "try", "presend", "wait",
       "decide", "take", "taking", "add", "send"}

VARIABLES
  now,         \* the clock; it starts at Window, long after the year 1970
  side,        \* what is_origin_target and is_recovery_target say
  run,         \* the runs of the script, with their variables
  timeLock, targetLock, taskLock,   \* who has the locks
  touched,     \* the time stamp of the target's .time file
  lastTake,    \* last_take in the target's file
  snapName,    \* snap_name in the target's file, 0 for none
  failed       \* history: the takes that left no name

locks == <<timeLock, targetLock, taskLock>>
file  == <<touched, lastTake, snapName, failed>>
env   == <<now, side>>
vars  == <<run, locks, file, env>>

\* start is START_SEC, name SNAPSHOT_NAME (a snapshot is known by the time it was
\* taken, 0 is the empty string), taken whether TAKEN is "Y".
Idle ==
  [pc |-> "idle", task |-> CHOOSE t \in Task : TRUE, start |-> 0, name |-> 0,
   taken |-> FALSE]

Init ==
  /\ now = Window
  /\ side \in Side
  /\ run = [r \in Run |-> Idle]
  /\ timeLock = NoRun /\ targetLock = NoRun
  /\ taskLock = [t \in Task |-> NoRun]
  /\ touched = 0 /\ lastTake = 0 /\ snapName = 0
  /\ failed = {}

-----------------------------------------------------------------------------
At(r, label) == run[r].pc = label
Goto(r, label) == run' = [run EXCEPT ![r].pc = label]

KindOf(r) == Kind[run[r].task]

\* The end of a run: flock leaves no lock behind.
Exit(r) ==
  /\ run' = [run EXCEPT ![r] = Idle]
  /\ taskLock' = [t \in Task |-> IF taskLock[t] = r THEN NoRun ELSE taskLock[t]]

\* The block in which try_take ran ends, with SNAPSHOT_NAME set to snap.
LeaveTarget(r, snap) ==
  /\ targetLock' = NoRun
  /\ IF KindOf(r) = "local"
     THEN Exit(r)
     ELSE /\ run' = [run EXCEPT ![r].name = snap,
                                ![r].pc = IF run[r].taken THEN "presend" ELSE "add"]
          /\ UNCHANGED taskLock

-----------------------------------------------------------------------------
(***************************************************************************)
(* The check for a previous task on the same target.                       *)
(***************************************************************************)
Start(r, t) ==
  /\ At(r, "idle")
  /\ run' = [run EXCEPT ![r] = [Idle EXCEPT !.pc = "time", !.task = t, !.start = now]]
  /\ UNCHANGED <<locks, file, env>>

\* flock 3 on the .time file.
LockTime(r) ==
  /\ At(r, "time") /\ timeLock = NoRun
  /\ timeLock' = r
  /\ Goto(r, "target")
  /\ UNCHANGED <<targetLock, taskLock, file, env>>

\* flock -n 4 on the target's file succeeds; the .time file gets its stamp ...
TargetFree(r) ==
  /\ At(r, "target") /\ targetLock = NoRun
  /\ targetLock' = r
  /\ touched' = now
  /\ Goto(r, "touch")
  /\ UNCHANGED <<timeLock, taskLock, lastTake, snapName, failed, env>>

\* ... and both locks are free again.
LeaveCheck(r) ==
  /\ At(r, "touch")
  /\ timeLock' = NoRun /\ targetLock' = NoRun
  /\ Goto(r, "task")
  /\ UNCHANGED <<taskLock, file, env>>

\* It fails.  The run goes on to wait, or is refused (exit 2) when the target has
\* not been found free in the last 60 seconds.
TargetBusy(r) ==
  /\ At(r, "target") /\ targetLock # NoRun
  /\ timeLock' = NoRun
  /\ IF run[r].start > touched + Window
     THEN Exit(r)
     ELSE Goto(r, "task") /\ UNCHANGED taskLock
  /\ UNCHANGED <<targetLock, file, env>>

\* flock -n on the task's own file; exit 3 when a run of the task has it.
LockTask(r) ==
  /\ At(r, "task")
  /\ IF taskLock[run[r].task] = NoRun
     THEN /\ taskLock' = [taskLock EXCEPT ![run[r].task] = r]
          /\ Goto(r, IF KindOf(r) = "replication" THEN "try" ELSE "wait")
     ELSE Exit(r)
  /\ UNCHANGED <<timeLock, targetLock, file, env>>

(***************************************************************************)
(* local_task and replication_task.                                        *)
(***************************************************************************)
\* replication_task: flock -n on the target's file.  When another run has it, what
\* was taken before is sent first.
\* Mutant: that run counts as having taken a snapshot.
TryTargetTakenAnyway(r) ==
  /\ At(r, "try")
  /\ run' = [run EXCEPT ![r].taken = TRUE,
                        ![r].pc = IF targetLock = NoRun THEN "decide" ELSE "presend"]
  /\ targetLock' = IF targetLock = NoRun THEN r ELSE targetLock
  /\ UNCHANGED <<timeLock, taskLock, file, env>>

TryTarget(r) ==
  /\ At(r, "try")
  /\ IF targetLock = NoRun
     THEN /\ targetLock' = r
          /\ run' = [run EXCEPT ![r].taken = TRUE, ![r].pc = "decide"]
     ELSE Goto(r, "presend") /\ UNCHANGED targetLock
  /\ UNCHANGED <<timeLock, taskLock, file, env>>

\* try_pre_send: what it sends, and whether it fails, changes nothing here.
PreSend(r) ==
  /\ At(r, "presend")
  /\ Goto(r, IF run[r].taken THEN "add" ELSE "wait")
  /\ UNCHANGED <<locks, file, env>>

\* flock 3 on the target's file.
\* Mutant: the block is entered without the lock.
LockTargetNot(r) ==
  /\ At(r, "wait")
  /\ Goto(r, "decide")
  /\ UNCHANGED <<locks, file, env>>

LockTarget(r) ==
  /\ At(r, "wait") /\ targetLock = NoRun
  /\ targetLock' = r
  /\ Goto(r, "decide")
  /\ UNCHANGED <<timeLock, taskLock, file, env>>

(***************************************************************************)
(* try_take, with the target's lock.                                       *)
(***************************************************************************)
\* The last take began less than 60 seconds before this run, or after it while
\* this run was waiting.
Recent(r) == run[r].start < lastTake + Window

\* On the recovery side nothing is taken.
SkipTake(r) ==
  /\ At(r, "decide") /\ side = "recovery"
  /\ LeaveTarget(r, 0)
  /\ UNCHANGED <<timeLock, file, env>>

\* Another run's snapshot will do.
Reuse(r) ==
  /\ At(r, "decide") /\ side = "origin" /\ Recent(r)
  /\ LeaveTarget(r, snapName)
  /\ UNCHANGED <<timeLock, file, env>>

DecideTake(r) ==
  /\ At(r, "decide") /\ side = "origin" /\ ~Recent(r)
  /\ Goto(r, "take")
  /\ UNCHANGED <<locks, file, env>>

\* echo "last_take" `date +%s` > ${TARGET_LOCK_NAME}: nothing else is left in it.
\* Mutant: the line is appended (>>).
BeginTakeAppends(r) ==
  /\ At(r, "take")
  /\ lastTake' = now
  /\ Goto(r, "taking")
  /\ UNCHANGED <<locks, touched, snapName, failed, env>>

BeginTake(r) ==
  /\ At(r, "take")
  /\ lastTake' = now
  /\ snapName' = 0
  /\ Goto(r, "taking")
  /\ UNCHANGED <<locks, touched, failed, env>>

TakeDone(r) ==
  /\ At(r, "taking")
  /\ snapName' = lastTake
  /\ LeaveTarget(r, lastTake)
  /\ UNCHANGED <<timeLock, touched, lastTake, failed, env>>

\* The program fails and the function returns.
\* Mutants: with the return value written as a name; without leaving the locked
\* block.
TakeFailedNamed(r) ==
  /\ At(r, "taking")
  /\ failed' = failed \cup {lastTake}
  /\ snapName' = -1
  /\ LeaveTarget(r, 0)
  /\ UNCHANGED <<timeLock, touched, lastTake, env>>

TakeFailedKeepsLock(r) ==
  /\ At(r, "taking")
  /\ failed' = failed \cup {lastTake}
  /\ Goto(r, "wait")
  /\ UNCHANGED <<locks, touched, lastTake, snapName, env>>

TakeFailed(r) ==
  /\ At(r, "taking")
  /\ failed' = failed \cup {lastTake}
  /\ LeaveTarget(r, 0)
  /\ UNCHANGED <<timeLock, touched, lastTake, snapName, env>>

\* The state of a LUN cannot be read: exit 52, with the snapshot taken but its
\* name written nowhere.
TakeExit(r) ==
  /\ At(r, "taking")
  /\ failed' = failed \cup {lastTake}
  /\ targetLock' = NoRun
  /\ Exit(r)
  /\ UNCHANGED <<timeLock, touched, lastTake, snapName, env>>

(***************************************************************************)
(* add_pending_snap and try_send.                                          *)
(***************************************************************************)
AddPending(r) ==
  /\ At(r, "add")
  /\ IF KindOf(r) = "replication"
     THEN Goto(r, "send") /\ UNCHANGED taskLock
     ELSE Exit(r)
  /\ UNCHANGED <<timeLock, targetLock, file, env>>

\* The plan does not take the snapshot: exit 60 or 61.
AddFailed(r) ==
  /\ At(r, "add") /\ (side = "recovery" \/ run[r].name # 0)
  /\ Exit(r)
  /\ UNCHANGED <<timeLock, targetLock, file, env>>

\* Sent, or exit 63.
Send(r) ==
  /\ At(r, "send")
  /\ Exit(r)
  /\ UNCHANGED <<timeLock, targetLock, file, env>>

Take(r) ==
  SkipTake(r) \/ Reuse(r) \/ DecideTake(r) \/ BeginTake(r) \/ TakeDone(r)
  \/ TakeFailed(r) \/ TakeExit(r)

Step(r) ==
  \/ LockTime(r) \/ TargetFree(r) \/ LeaveCheck(r) \/ TargetBusy(r) \/ LockTask(r)
  \/ TryTarget(r) \/ PreSend(r) \/ LockTarget(r) \/ Take(r)
  \/ AddPending(r) \/ AddFailed(r) \/ Send(r)

-----------------------------------------------------------------------------
Tick ==
  /\ now < MaxTime
  /\ now' = now + 1
  /\ UNCHANGED <<run, locks, file, side>>

Next ==
  \/ \E r \in Run : Step(r) \/ \E t \in Task : Start(r, t)
  \/ Tick

Spec == Init /\ [][Next]_vars

\* Programs end; a lock that becomes free again and again is given to every run
\* that waits for it, as the kernel keeps them in a queue.
Fairness ==
  \A r \in Run :
    WF_vars(Step(r)) /\ SF_vars(LockTime(r)) /\ SF_vars(LockTarget(r))

FairSpec == Spec /\ Fairness

-----------------------------------------------------------------------------
\* The variables have their types.
TypeOK ==
  /\ now \in Nat /\ side \in Side
  /\ run \in [Run -> [pc : Pc, task : Task, start : Nat, name : Nat, taken : BOOLEAN]]
  /\ timeLock \in Run \cup {NoRun} /\ targetLock \in Run \cup {NoRun}
  /\ taskLock \in [Task -> Run \cup {NoRun}]
  /\ touched \in Nat /\ lastTake \in Nat /\ snapName \in Nat
  /\ failed \subseteq Nat

\* Tasks that fire together share one snapshot: whoever waits for whom and however
\* long it takes, two snapshots of a target are 60 seconds apart.
TakesApart == [][lastTake' # lastTake => lastTake' >= lastTake + Window]_vars

\* ... and it is new: what a run hands over to its plan was not taken more than 60
\* seconds before the run started, also after takes that failed.
Fresh ==
  \A r \in Run : At(r, "add") /\ run[r].name # 0 => run[r].name + Window > run[r].start

\* A run that has nothing to hand over has met a failed take that was recent when
\* it started: nothing else leaves it without a snapshot.
NoSilentMiss ==
  \A r \in Run :
    At(r, "add") /\ side = "origin" /\ run[r].name = 0 =>
      \E f \in failed : f + Window > run[r].start

\* Every run ends.
RunEnds == \A r \in Run : ~At(r, "idle") ~> At(r, "idle")
=============================================================================
