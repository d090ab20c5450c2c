--------------------------- MODULE SnapSched_proofs ---------------------------
(***************************************************************************)
(* Scheduled snapshots of a target, for every number of runs and tasks,    *)
(* every window and every length of the takes: two snapshots are a window  *)
(* apart, what is handed over is new, and nothing is handed over only      *)
(* after a failed take.                                                    *)
(***************************************************************************)
EXTENDS SnapSched, TLAPS

RunState == [pc : Pc, task : Task, start : Nat, name : Nat, taken : BOOLEAN]

LEMMA IdleType ==
  Idle \in RunState /\ Idle.pc = "idle" /\ Idle.name = 0 /\ Idle.start = 0 /\ ~Idle.taken
  BY TaskAssumption DEF Idle, RunState, Pc

\* What the steps of a run do to its own state, and that they leave the others'.
LEMMA RunStep ==
  ASSUME TypeOK, NEW r \in Run
  PROVE  /\ run[r] \in RunState
         /\ \A label \in Pc : Goto(r, label) =>
              /\ run' \in [Run -> RunState]
              /\ run'[r] = [run[r] EXCEPT !.pc = label]
         /\ Exit(r) => /\ run' \in [Run -> RunState] /\ run'[r] = Idle
                       /\ taskLock' \in [Task -> Run \cup {NoRun}]
         /\ \A snap \in Nat : LeaveTarget(r, snap) =>
              /\ run' \in [Run -> RunState]
              /\ taskLock' \in [Task -> Run \cup {NoRun}]
              /\ run'[r] \in
                   {Idle, [run[r] EXCEPT !.name = snap,
                                         !.pc = IF run[r].taken THEN "presend" ELSE "add"]}
<1>1. run[r] \in RunState /\ run \in [Run -> RunState]
  BY DEF TypeOK, RunState
<1>2. \A label \in Pc : [run[r] EXCEPT !.pc = label] \in RunState
  BY <1>1 DEF RunState
<1>3. \A label \in Pc : Goto(r, label) =>
         run' \in [Run -> RunState] /\ run'[r] = [run[r] EXCEPT !.pc = label]
  BY <1>1, <1>2 DEF Goto
<1>4. Exit(r) => /\ run' \in [Run -> RunState] /\ run'[r] = Idle
                 /\ taskLock' \in [Task -> Run \cup {NoRun}]
  BY <1>1, IdleType DEF Exit, TypeOK
<1>5. ASSUME NEW snap \in Nat, LeaveTarget(r, snap)
      PROVE  /\ run' \in [Run -> RunState]
             /\ taskLock' \in [Task -> Run \cup {NoRun}]
             /\ run'[r] \in
                  {Idle, [run[r] EXCEPT !.name = snap,
                                        !.pc = IF run[r].taken THEN "presend" ELSE "add"]}
  <2>1. CASE KindOf(r) = "local"
    BY <1>4, <1>5, <2>1 DEF LeaveTarget
  <2>2. CASE KindOf(r) # "local"
    <3> DEFINE s == [run[r] EXCEPT !.name = snap,
                                   !.pc = IF run[r].taken THEN "presend" ELSE "add"]
    <3>1. s \in RunState
      BY <1>1 DEF RunState, Pc
    <3>2. run' = [run EXCEPT ![r] = s] /\ taskLock' = taskLock
      BY <1>5, <2>2 DEF LeaveTarget
    <3> QED BY <1>1, <3>1, <3>2 DEF TypeOK
  <2> QED BY <2>1, <2>2
<1> QED BY <1>1, <1>3, <1>4, <1>5

LEMMA OthersStep ==
  ASSUME TypeOK, NEW r \in Run, Step(r), NEW q \in Run, q # r
  PROVE  run'[q] = run[q]
  BY DEF Step, Take, LockTime, TargetFree, LeaveCheck, TargetBusy, LockTask, TryTarget,
     PreSend, LockTarget, SkipTake, Reuse, DecideTake, BeginTake, TakeDone, TakeFailed,
     TakeExit, AddPending, AddFailed, Send, Goto, Exit, LeaveTarget, TypeOK

LEMMA TypeInit == Init => TypeOK
  BY IdleType, WindowAssumption DEF Init, TypeOK, RunState

LEMMA TypeStep == TypeOK /\ [Next]_vars => TypeOK'
<1> SUFFICES ASSUME TypeOK, [Next]_vars PROVE TypeOK'
  OBVIOUS
<1>t. TypeOK' <=>
        /\ now' \in Nat /\ side' \in Side
        /\ run' \in [Run -> RunState]
        /\ timeLock' \in Run \cup {NoRun} /\ targetLock' \in Run \cup {NoRun}
        /\ taskLock' \in [Task -> Run \cup {NoRun}]
        /\ touched' \in Nat /\ lastTake' \in Nat /\ snapName' \in Nat
        /\ failed' \subseteq Nat
  BY DEF TypeOK, RunState
<1>1. ASSUME NEW r \in Run, NEW t \in Task, Start(r, t) PROVE TypeOK'
  <2>1. [Idle EXCEPT !.pc = "time", !.task = t, !.start = now] \in RunState
    BY IdleType DEF RunState, Pc, TypeOK
  <2> QED BY <1>1, <1>t, <2>1 DEF Start, TypeOK, RunState, locks, file, env
<1>2. ASSUME NEW r \in Run, Step(r) PROVE TypeOK'
  <2>r. run[r] \in RunState
    BY RunStep
  <2>1. CASE LockTime(r) \/ TargetFree(r) \/ LeaveCheck(r)
    BY <1>t, <2>1, RunStep DEF LockTime, TargetFree, LeaveCheck, TypeOK, Pc, file, env
  <2>2. CASE TargetBusy(r) \/ LockTask(r)
    <3>1. CASE TargetBusy(r)
      BY <1>t, <3>1, RunStep DEF TargetBusy, TypeOK, Pc, file, env
    <3>2. CASE LockTask(r) /\ ~Exit(r)
      <4>1. run' \in [Run -> RunState]
        BY <3>2, RunStep DEF LockTask, Pc
      <4>2. taskLock' \in [Task -> Run \cup {NoRun}]
        BY <3>2 DEF LockTask, TypeOK
      <4> QED BY <1>t, <3>2, <4>1, <4>2 DEF LockTask, TypeOK, file, env
    <3>3. CASE LockTask(r) /\ Exit(r)
      BY <1>t, <3>3, RunStep DEF LockTask, TypeOK, file, env
    <3> QED BY <2>2, <3>1, <3>2, <3>3
  <2>3. CASE TryTarget(r)
    <3>1. [run[r] EXCEPT !.taken = TRUE, !.pc = "decide"] \in RunState
      BY <2>r DEF RunState, Pc
    <3>2. run' \in [Run -> RunState]
      BY <2>3, <3>1, RunStep DEF TryTarget, TypeOK, RunState, Pc
    <3> QED BY <1>t, <2>3, <3>2 DEF TryTarget, TypeOK, file, env
  <2>4. CASE PreSend(r) \/ LockTarget(r) \/ DecideTake(r) \/ BeginTake(r)
    <3>1. run' \in [Run -> RunState]
      BY <2>4, RunStep DEF PreSend, LockTarget, DecideTake, BeginTake, Pc
    <3>2. CASE PreSend(r) \/ DecideTake(r)
      BY <1>t, <3>1, <3>2 DEF PreSend, DecideTake, TypeOK, locks, file, env
    <3>3. CASE LockTarget(r)
      BY <1>t, <3>1, <3>3 DEF LockTarget, TypeOK, file, env
    <3>4. CASE BeginTake(r)
      BY <1>t, <3>1, <3>4 DEF BeginTake, TypeOK, locks, env
    <3> QED BY <2>4, <3>2, <3>3, <3>4
  <2>5. CASE SkipTake(r) \/ Reuse(r) \/ TakeDone(r) \/ TakeFailed(r)
    BY <1>t, <2>5, RunStep
       DEF SkipTake, Reuse, TakeDone, TakeFailed, LeaveTarget, TypeOK, file, env
  <2>6. CASE TakeExit(r) \/ AddPending(r) \/ AddFailed(r) \/ Send(r)
    BY <1>t, <2>6, RunStep
       DEF TakeExit, AddPending, AddFailed, Send, TypeOK, Pc, file, env
  <2> QED BY <1>2, <2>1, <2>2, <2>3, <2>4, <2>5, <2>6 DEF Step, Take
<1>3. CASE Tick
  BY <1>3, <1>t DEF Tick, TypeOK, RunState, locks, file
<1>4. CASE UNCHANGED vars
  BY <1>4, <1>t DEF vars, TypeOK, RunState, locks, file, env
<1> QED BY <1>1, <1>2, <1>3, <1>4 DEF Next

\* Every variable of SnapSched keeps its type.
THEOREM TypeCorrect == Spec => []TypeOK
<1> QED BY TypeInit, TypeStep, PTL DEF Spec
-----------------------------------------------------------------------------
(***************************************************************************)
(* The inductive invariant: who has the target's lock, what the file says, *)
(* and how old both are for each run.                                      *)
(***************************************************************************)
Timely(q) ==
  /\ run[q].start <= now
  /\ run[q].pc # "idle" => run[q].start >= Window

HoldsTarget(q) == run[q].pc \in {"touch", "decide", "take", "taking"} => targetLock = q

Untried(q) == run[q].pc \in {"idle", "time", "target", "touch", "task", "try"} => ~run[q].taken

\* A run that takes a snapshot found none in the window, and has the newest one.
Due(q) ==
  /\ run[q].pc = "take" => lastTake + Window <= run[q].start
  /\ run[q].pc = "taking" => run[q].start <= lastTake /\ lastTake >= Window

Named(q) == run[q].name # 0 => run[q].name + Window > run[q].start

Missed(q) ==
  /\ side = "origin" /\ run[q].name = 0
  /\ \/ run[q].pc = "add"
     \/ run[q].pc = "presend" /\ run[q].taken

Excused(q) == Missed(q) => \E f \in failed : f + Window > run[q].start

RunInv(q) == Timely(q) /\ HoldsTarget(q) /\ Untried(q) /\ Due(q) /\ Named(q) /\ Excused(q)

\* The file names the last snapshot, unless it failed or is being taken.
FileInv ==
  /\ lastTake <= now /\ Window <= now
  /\ snapName # 0 => snapName = lastTake
  /\ lastTake # 0 /\ snapName = 0 =>
       lastTake \in failed \/ \E q \in Run : run[q].pc = "taking"

Inv == (\A q \in Run : RunInv(q)) /\ FileInv

\* Without the target's lock no run changes what the lock guards.
LEMMA Guarded ==
  ASSUME TypeOK, NEW r \in Run, Step(r), HoldsTarget(r)
  PROVE  targetLock \notin {r, NoRun} =>
           targetLock' = targetLock /\ lastTake' = lastTake /\ snapName' = snapName
<1> SUFFICES ASSUME targetLock \notin {r, NoRun}
             PROVE  targetLock' = targetLock /\ lastTake' = lastTake /\ snapName' = snapName
  OBVIOUS
<1>1. CASE LockTime(r) \/ TargetBusy(r) \/ LockTask(r) \/ TryTarget(r) \/ PreSend(r)
  BY <1>1 DEF LockTime, TargetBusy, LockTask, TryTarget, PreSend, locks, file
<1>2. CASE TargetFree(r) \/ LeaveCheck(r) \/ LockTarget(r) \/ Take(r)
  BY <1>2 DEF HoldsTarget, At, TargetFree, LeaveCheck, LockTarget, Take, SkipTake, Reuse,
     DecideTake, BeginTake, TakeDone, TakeFailed, TakeExit
<1>3. CASE AddPending(r) \/ AddFailed(r) \/ Send(r)
  BY <1>3 DEF AddPending, AddFailed, Send, file
<1> QED BY <1>1, <1>2, <1>3 DEF Step

LEMMA History ==
  ASSUME NEW r \in Run, Step(r)
  PROVE  now' = now /\ side' = side /\ failed \subseteq failed'
  BY DEF Step, Take, LockTime, TargetFree, LeaveCheck, TargetBusy, LockTask, TryTarget,
     PreSend, LockTarget, SkipTake, Reuse, DecideTake, BeginTake, TakeDone, TakeFailed,
     TakeExit, AddPending, AddFailed, Send, file, env

\* A step of one run keeps the invariant of the others ...
LEMMA OthersInv ==
  ASSUME TypeOK, Inv, NEW r \in Run, Step(r), NEW q \in Run, q # r
  PROVE  RunInv(q)'
<1>1. run'[q] = run[q] /\ now' = now /\ side' = side /\ failed \subseteq failed'
  BY OthersStep, History
<1>2. run[q].pc \in {"touch", "decide", "take", "taking"} =>
        targetLock' = q /\ lastTake' = lastTake
  BY Guarded, RunAssumption DEF Inv, RunInv, HoldsTarget
<1>3. RunInv(q)
  BY DEF Inv
<1>4. Timely(q)' /\ HoldsTarget(q)' /\ Untried(q)' /\ Due(q)' /\ Named(q)'
  BY <1>1, <1>2, <1>3 DEF RunInv, Timely, HoldsTarget, Untried, Due, Named
<1>5. Excused(q)'
  BY <1>1, <1>3 DEF RunInv, Excused, Missed
<1> QED BY <1>4, <1>5 DEF RunInv

LEMMA ExitInv ==
  ASSUME TypeOK, NEW r \in Run, run'[r] = Idle, now' \in Nat
  PROVE  RunInv(r)'
<1>1. Timely(r)' /\ HoldsTarget(r)' /\ Untried(r)' /\ Due(r)' /\ Named(r)' /\ ~Missed(r)'
  BY IdleType DEF Timely, HoldsTarget, Untried, Due, Named, Missed
<1> QED BY <1>1 DEF RunInv, Excused

\* What a run needs to leave the block with the target's lock.
LEMMA LeaveInv ==
  ASSUME TypeOK, Inv, NEW r \in Run, NEW snap \in Nat, LeaveTarget(r, snap),
         run[r].pc \in {"decide", "taking"}, now' = now, side' = side,
         snap # 0 => snap + Window > run[r].start,
         side = "origin" /\ snap = 0 => \E f \in failed' : f + Window > run[r].start
  PROVE  RunInv(r)'
<1> DEFINE s == [run[r] EXCEPT !.name = snap,
                               !.pc = IF run[r].taken THEN "presend" ELSE "add"]
<1>1. run[r] \in RunState /\ run'[r] \in {Idle, s}
  BY RunStep
<1>2. Timely(r)
  BY DEF Inv, RunInv
<1>3. CASE run'[r] = Idle
  BY <1>3, ExitInv DEF TypeOK
<1>4. CASE run'[r] = s
  <2>1. /\ run'[r].start = run[r].start /\ run'[r].name = snap
        /\ run'[r].pc \in {"presend", "add"}
    BY <1>1, <1>4 DEF RunState
  <2>2. Timely(r)' /\ HoldsTarget(r)' /\ Untried(r)' /\ Due(r)' /\ Named(r)'
    BY <1>1, <1>2, <2>1 DEF Timely, HoldsTarget, Untried, Due, Named, RunState
  <2>3. Excused(r)'
    BY <2>1 DEF Excused, Missed
  <2> QED BY <2>2, <2>3 DEF RunInv
<1> QED BY <1>1, <1>3, <1>4

\* ... and its own.
LEMMA OwnInv ==
  ASSUME TypeOK, Inv, NEW r \in Run, Step(r)
  PROVE  RunInv(r)'
<1>1. now' = now /\ side' = side /\ failed \subseteq failed' /\ now \in Nat
  BY History DEF TypeOK
<1>2. run[r] \in RunState /\ RunInv(r) /\ FileInv
  BY RunStep DEF Inv
<1> USE DEF At
<1>3. CASE Exit(r)
  BY <1>1, <1>3, RunStep, ExitInv
<1>4. CASE LockTime(r) \/ TargetFree(r) \/ LeaveCheck(r) \/ TargetBusy(r) \/ LockTask(r)
  <2>1. ~Exit(r) => \E label \in {"target", "touch", "task", "try", "wait"} :
          /\ run'[r] = [run[r] EXCEPT !.pc = label]
          /\ label = "touch" => targetLock' = r
          /\ label \in {"target", "touch", "task", "try"} => ~run[r].taken
          /\ run[r].pc # "idle"
    BY <1>2, <1>4, RunStep
       DEF LockTime, TargetFree, LeaveCheck, TargetBusy, LockTask, Pc, RunInv, Untried
  <2> QED BY <1>1, <1>2, <1>3, <2>1, SMTT(60)
     DEF RunState, RunInv, Timely, HoldsTarget, Untried, Due, Named, Excused, Missed
<1>5. CASE TryTarget(r)
  <2>1. CASE targetLock = NoRun
    <3>1. run'[r] = [run[r] EXCEPT !.taken = TRUE, !.pc = "decide"] /\ targetLock' = r
      BY <1>5, <2>1 DEF TryTarget, TypeOK
    <3> QED BY <1>1, <1>2, <1>5, <3>1
       DEF TryTarget, RunState, RunInv, Timely, HoldsTarget, Untried, Due, Named, Excused,
           Missed
  <2>2. CASE targetLock # NoRun
    <3>1. run'[r] = [run[r] EXCEPT !.pc = "presend"]
      BY <1>5, <2>2, RunStep DEF TryTarget, Pc
    <3> QED BY <1>1, <1>2, <1>5, <3>1
       DEF TryTarget, RunState, RunInv, Timely, HoldsTarget, Untried, Due, Named, Excused,
           Missed
  <2> QED BY <2>1, <2>2
<1>6. CASE PreSend(r)
  <2>1. run'[r] = [run[r] EXCEPT !.pc = IF run[r].taken THEN "add" ELSE "wait"]
    BY <1>6 DEF PreSend, Goto, TypeOK
  <2> QED BY <1>1, <1>2, <1>6, <2>1
     DEF PreSend, RunState, RunInv, Timely, HoldsTarget, Untried, Due, Named, Excused, Missed
<1>7. CASE LockTarget(r) \/ DecideTake(r) \/ BeginTake(r)
  <2>1. CASE LockTarget(r)
    <3>1. run'[r] = [run[r] EXCEPT !.pc = "decide"]
      BY <2>1, RunStep DEF LockTarget, Pc
    <3> QED BY <1>1, <1>2, <2>1, <3>1
       DEF LockTarget, RunState, RunInv, Timely, HoldsTarget, Untried, Due, Named, Excused,
           Missed
  <2>2. CASE DecideTake(r)
    <3>1. run'[r] = [run[r] EXCEPT !.pc = "take"]
      BY <2>2, RunStep DEF DecideTake, Pc
    <3> QED BY <1>1, <1>2, <2>2, <3>1, WindowAssumption
       DEF DecideTake, Recent, RunState, RunInv, Timely, HoldsTarget, Untried, Due, Named,
           Excused, Missed, locks, file, TypeOK
  <2>3. CASE BeginTake(r)
    <3>1. run'[r] = [run[r] EXCEPT !.pc = "taking"]
      BY <2>3, RunStep DEF BeginTake, Pc
    <3> QED BY <1>1, <1>2, <2>3, <3>1, WindowAssumption
       DEF BeginTake, RunState, RunInv, Timely, HoldsTarget, Untried, Due, Named,
           Excused, Missed, locks, FileInv
  <2> QED BY <1>7, <2>1, <2>2, <2>3
<1>8. CASE SkipTake(r)
  BY <1>1, <1>8, LeaveInv DEF SkipTake
<1>9. CASE Reuse(r)
  <2>1. snapName # 0 => snapName + Window > run[r].start
    BY <1>2, <1>9 DEF Reuse, Recent, FileInv
  <2>2. snapName = 0 => \E f \in failed' : f + Window > run[r].start
    <3> SUFFICES ASSUME snapName = 0 PROVE lastTake \in failed
      BY <1>1, <1>9 DEF Reuse, Recent
    <3>1. lastTake # 0
      BY <1>2, <1>9, WindowAssumption DEF Reuse, Recent, RunInv, Timely, RunState
    <3>2. ~\E q \in Run : run[q].pc = "taking"
      BY <1>2, <1>9 DEF Reuse, Inv, RunInv, HoldsTarget
    <3> QED BY <1>2, <3>1, <3>2 DEF FileInv
  <2> QED BY <1>1, <1>9, <2>1, <2>2, LeaveInv DEF Reuse, TypeOK
<1>10. CASE TakeDone(r) \/ TakeFailed(r)
  <2>1. run[r].pc = "taking" /\ lastTake \in Nat /\ lastTake # 0
        /\ run[r].start \in Nat /\ lastTake + Window > run[r].start
    BY <1>2, <1>10, WindowAssumption DEF TakeDone, TakeFailed, RunInv, Due, RunState, TypeOK
  <2>2. CASE TakeDone(r)
    BY <1>1, <2>1, <2>2, LeaveInv DEF TakeDone
  <2>3. CASE TakeFailed(r)
    <3>1. lastTake \in failed'
      BY <2>3 DEF TakeFailed
    <3> QED BY <1>1, <2>1, <2>3, <3>1, LeaveInv DEF TakeFailed
  <2> QED BY <1>10, <2>2, <2>3
<1>11. CASE TakeExit(r) \/ AddFailed(r) \/ Send(r)
  BY <1>3, <1>11 DEF TakeExit, AddFailed, Send
<1>12. CASE AddPending(r)
  <2>1. ~Exit(r) => run'[r] = [run[r] EXCEPT !.pc = "send"]
    BY <1>12, RunStep DEF AddPending, Pc
  <2> QED BY <1>1, <1>2, <1>3, <1>12, <2>1
     DEF AddPending, RunState, RunInv, Timely, HoldsTarget, Untried, Due, Named, Excused,
         Missed
<1> QED BY <1>4, <1>5, <1>6, <1>7, <1>8, <1>9, <1>10, <1>11, <1>12 DEF Step, Take

\* The file: a take ends with a name in it, or in failed.
LEMMA FileStep ==
  ASSUME TypeOK, Inv, NEW r \in Run, Step(r)
  PROVE  FileInv'
<1>1. now' = now /\ failed \subseteq failed' /\ now \in Nat
  BY History DEF TypeOK
<1>2. \A q \in Run : q # r => run'[q] = run[q]
  BY OthersStep
<1>3. FileInv /\ run[r] \in RunState
  BY RunStep DEF Inv
<1> USE DEF At
<1>4. CASE BeginTake(r)
  <2>1. run'[r].pc = "taking" /\ lastTake' = now /\ snapName' = 0
    <3>1. run'[r] = [run[r] EXCEPT !.pc = "taking"]
      BY <1>4, RunStep DEF BeginTake, Pc
    <3>2. run'[r].pc = "taking"
      BY <1>3, <3>1 DEF RunState
    <3>3. lastTake' = now /\ snapName' = 0
      BY <1>4 DEF BeginTake
    <3> QED BY <3>2, <3>3
  <2> QED BY <1>1, <1>3, <2>1 DEF FileInv
<1>5. CASE TakeDone(r)
  BY <1>1, <1>3, <1>5 DEF TakeDone, FileInv
<1>6. CASE TakeFailed(r) \/ TakeExit(r)
  <2>1. lastTake \in failed' /\ lastTake' = lastTake /\ snapName' = snapName
    BY <1>6 DEF TakeFailed, TakeExit
  <2> QED BY <1>1, <1>3, <2>1 DEF FileInv
<1>7. CASE ~BeginTake(r) /\ ~TakeDone(r) /\ ~TakeFailed(r) /\ ~TakeExit(r)
  <2>1. lastTake' = lastTake /\ snapName' = snapName /\ run[r].pc # "taking"
    BY <1>7 DEF Step, Take, LockTime, TargetFree, LeaveCheck, TargetBusy, LockTask,
       TryTarget, PreSend, LockTarget, SkipTake, Reuse, DecideTake, AddPending, AddFailed,
       Send, file
  <2> QED BY <1>1, <1>2, <1>3, <2>1 DEF FileInv
<1> QED BY <1>4, <1>5, <1>6, <1>7

LEMMA InvInit == Init => Inv
<1> SUFFICES ASSUME Init PROVE Inv
  OBVIOUS
<1>1. ASSUME NEW q \in Run PROVE RunInv(q)
  BY <1>1, IdleType, WindowAssumption
     DEF Init, RunInv, Timely, HoldsTarget, Untried, Due, Named, Excused, Missed
<1>2. FileInv
  BY WindowAssumption DEF Init, FileInv
<1> QED BY <1>1, <1>2 DEF Inv

LEMMA InvStep == TypeOK /\ Inv /\ [Next]_vars => Inv'
<1> SUFFICES ASSUME TypeOK, Inv, [Next]_vars PROVE Inv'
  OBVIOUS
<1>1. ASSUME NEW r \in Run, Step(r) PROVE Inv'
  BY <1>1, OthersInv, OwnInv, FileStep DEF Inv
<1>2. ASSUME NEW r \in Run, NEW t \in Task, Start(r, t) PROVE Inv'
  <2> DEFINE s == [Idle EXCEPT !.pc = "time", !.task = t, !.start = now]
  <2>1. /\ run' = [run EXCEPT ![r] = s] /\ run'[r] = s
        /\ now' = now /\ side' = side /\ failed' = failed /\ targetLock' = targetLock
        /\ lastTake' = lastTake /\ snapName' = snapName /\ run[r].pc = "idle"
    BY <1>2 DEF Start, At, locks, file, env, TypeOK
  <2>2. s.pc = "time" /\ s.start = now /\ s.name = 0 /\ ~s.taken
    BY IdleType DEF RunState
  <2>3. RunInv(r)'
    BY <2>1, <2>2
       DEF RunInv, Timely, HoldsTarget, Untried, Due, Named, Excused, Missed, Inv, FileInv,
           TypeOK
  <2>4. ASSUME NEW q \in Run, q # r PROVE RunInv(q)' /\ run'[q] = run[q]
    <3>1. run'[q] = run[q] /\ RunInv(q)
      BY <2>1, <2>4 DEF TypeOK, Inv
    <3> QED BY <2>1, <3>1
       DEF RunInv, Timely, HoldsTarget, Untried, Due, Named, Excused, Missed
  <2>5. FileInv'
    BY <2>1, <2>4 DEF Inv, FileInv
  <2> QED BY <2>3, <2>4, <2>5 DEF Inv
<1>3. CASE Tick
  <2>1. /\ run' = run /\ now' = now + 1 /\ now \in Nat /\ side' = side /\ failed' = failed
        /\ targetLock' = targetLock /\ lastTake' = lastTake /\ snapName' = snapName
    BY <1>3 DEF Tick, locks, file, TypeOK
  <2>2. ASSUME NEW q \in Run PROVE RunInv(q)'
    <3>1. RunInv(q) /\ run[q] \in RunState
      BY RunStep DEF Inv
    <3> QED BY <2>1, <3>1
       DEF RunInv, Timely, HoldsTarget, Untried, Due, Named, Excused, Missed, RunState
  <2>3. FileInv'
    BY <2>1, WindowAssumption DEF Inv, FileInv, TypeOK
  <2> QED BY <2>2, <2>3 DEF Inv
<1>4. CASE UNCHANGED vars
  BY <1>4 DEF vars, locks, file, env, Inv, RunInv, Timely, HoldsTarget, Untried, Due, Named,
     Excused, Missed, FileInv
<1> QED BY <1>1, <1>2, <1>3, <1>4 DEF Next

LEMMA Invariance == Spec => [](TypeOK /\ Inv)
<1>1. Init => TypeOK /\ Inv
  BY TypeInit, InvInit
<1>2. TypeOK /\ Inv /\ [Next]_vars => (TypeOK /\ Inv)'
  BY TypeStep, InvStep
<1> QED BY <1>1, <1>2, PTL DEF Spec

\* However many runs wait for each other, and however long a take lasts, two
\* snapshots of a target are a window apart.
THEOREM SnapshotsApart == Spec => TakesApart
<1>1. TypeOK /\ Inv /\ [Next]_vars =>
        [lastTake' # lastTake => lastTake' >= lastTake + Window]_vars
  <2> SUFFICES ASSUME TypeOK, Inv, Next, lastTake' # lastTake
               PROVE  lastTake' >= lastTake + Window
    BY DEF vars, file
  <2>1. PICK r \in Run : BeginTake(r)
    BY DEF Next, Step, Take, Start, Tick, LockTime, TargetFree, LeaveCheck, TargetBusy,
       LockTask, TryTarget, PreSend, LockTarget, SkipTake, Reuse, DecideTake, TakeDone,
       TakeFailed, TakeExit, AddPending, AddFailed, Send, file
  <2>2. run[r].start <= now /\ lastTake + Window <= run[r].start /\ run[r] \in RunState
    BY <2>1, RunStep DEF BeginTake, At, Inv, RunInv, Timely, Due
  <2> QED BY <2>1, <2>2, WindowAssumption DEF BeginTake, TypeOK, RunState
<1> QED BY <1>1, Invariance, PTL DEF Spec, TakesApart

\* No run hands over a snapshot that was taken more than a window before it
\* started, whatever takes failed in between.
THEOREM HandedOverFresh == Spec => []Fresh
<1>1. TypeOK /\ Inv => Fresh
  BY DEF Inv, RunInv, Named, Fresh
<1> QED BY <1>1, Invariance, PTL

\* Only a take that failed leaves a run without a snapshot to hand over.
THEOREM MissExcused == Spec => []NoSilentMiss
<1>1. TypeOK /\ Inv => NoSilentMiss
  BY DEF Inv, RunInv, Excused, Missed, NoSilentMiss, At
<1> QED BY <1>1, Invariance, PTL

=============================================================================
