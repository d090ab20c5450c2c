--------------------------- MODULE HARole_proofs ---------------------------
(***************************************************************************)
(* Theorems about HARole for any two servers and any bounds.  For any set  *)
(* of environment events and any timing: type correctness, and that a      *)
(* running server keeps no record of the role it had before.  For two      *)
(* shutdowns whose waits are longer than a handler takes (Prompt): that    *)
(* the records tell the servers apart.  For one shutdown or boot at a time *)
(* (Serial), if nothing fails: that the servers never both lack writes of  *)
(* the other one.                                                          *)
(***************************************************************************)
EXTENDS HARole, TLAPS

\* Touch, Remove and Goto keep the type of the function they change.
LEMMA FlagTypes ==
  ASSUME NEW S, NEW f \in [Node -> SUBSET S], NEW n \in Node,
         NEW flag \in S, NEW flags
  PROVE  /\ Touch(f, n, flag) \in [Node -> SUBSET S]
         /\ Remove(f, n, flags) \in [Node -> SUBSET S]
  BY DEF Touch, Remove

LEMMA GotoType ==
  ASSUME NEW S, NEW pc \in [Node -> S], NEW n \in Node, NEW label \in S
  PROVE  Goto(pc, n, label) \in [Node -> S]
  BY DEF Goto

\* A message to the other server is a message.
LEMMA SendType ==
  ASSUME net \in SUBSET Message, NEW n \in Node,
         NEW type \in {"TSDFLAG", "NODE__ON", "PASINUPS"}
  PROVE  Send(n, type) \in SUBSET Message
  BY DEF Send, Message, Other, Node

\* A server that loses power leaves on, up, role and both scripts well typed.
LEMMA OffType ==
  ASSUME TypeOK, NEW n \in Node, Off(n)
  PROVE  /\ on' \in SUBSET Node /\ up' \in SUBSET on'
         /\ role' \in [Node -> Role]
         /\ start' \in [Node -> StartPc] /\ stop' \in [Node -> StopPc]
         /\ sent' \in [Node -> 0..ShutdownSends]
         /\ net' \in SUBSET Message
  BY BoundAssumption DEF TypeOK, Off, StackDown, Role, StartPc, StopPc, Goto

\* A shutdown that begins, or has begun, leaves stop and tmp well typed.
LEMMA BeginStopType ==
  ASSUME TypeOK, NEW n \in Node,
         NEW t \in [Node -> SUBSET (TmpFlag \cup Process)], BeginStop(n, t)
  PROVE  /\ stop' \in [Node -> StopPc]
         /\ tmp' \in [Node -> SUBSET (TmpFlag \cup Process)]
<1>1. CASE stop[n] # "none"
  BY <1>1 DEF TypeOK, BeginStop
<1>2. CASE stop[n] = "none"
  <2>1. PICK label \in {"unload", "prepare", "decide"} :
          stop' = Goto(stop, n, label)
    BY <1>2 DEF BeginStop
  <2>2. tmp' = Remove(t, n, {"discard"})
    BY <1>2 DEF BeginStop
  <2> QED BY <2>1, <2>2 DEF TypeOK, Goto, Remove, StopPc
<1> QED BY <1>1, <1>2

\* After the start of a shutdown rc.ha stop runs, on that server only.
LEMMA StopRuns ==
  ASSUME TypeOK, NEW n \in Node, NEW t, BeginStop(n, t)
  PROVE  stop'[n] # "none" /\ \A m \in Node \ {n} : stop'[m] = stop[m]
<1>1. CASE stop[n] # "none"
  BY <1>1 DEF BeginStop
<1>2. CASE stop[n] = "none"
  <2>1. PICK label \in {"unload", "prepare", "decide"} :
          stop' = Goto(stop, n, label)
    BY <1>2 DEF BeginStop
  <2> QED BY <2>1 DEF TypeOK, Goto
<1> QED BY <1>1, <1>2

(***************************************************************************)
(* Type correctness                                                        *)
(***************************************************************************)
LEMMA TypeInit == Init => TypeOK
  BY NodeAssumption, BoundAssumption
  DEF Init, TypeOK, DiskFlag, TmpFlag, Role, StartPc, StopPc, Message, Node

\* start(), power and the boot.
LEMMA TypeStart ==
  ASSUME TypeOK, Powered, NEW n \in Node, PowerOn(n) \/ StartStep(n)
  PROVE  TypeOK'
<1>1. CASE PowerOn(n)
  BY <1>1, BoundAssumption
  DEF TypeOK, PowerOn, Remove, Goto, StartPc, DiskFlag
<1>2. CASE Join(n)
  <2>1. n \in on
    BY <1>2 DEF Join, Powered
  <2>2. up' \in SUBSET on' /\ missing' \in SUBSET Node
    BY <1>2, <2>1 DEF TypeOK, Join
  <2> QED BY <1>2, <2>2 DEF TypeOK, Join, Goto, StartPc, Role, files, counts
<1>3. CASE CheckRole(n)
  BY <1>3 DEF TypeOK, CheckRole, Goto, StartPc, files, crm, env
<1>4. CASE WaitTimeout(n)
  <2>1. /\ start' \in [Node -> StartPc]
        /\ stop' \in [Node -> StopPc]
        /\ tmp' \in [Node -> SUBSET (TmpFlag \cup Process)]
    <3>1. CASE EnterSafemode(n, tmp) /\ start' = Goto(start, n, "none")
      <4>1. Touch(Touch(tmp, n, "safe_shutdown"), n, "until_down")
              \in [Node -> SUBSET (TmpFlag \cup Process)]
        BY DEF TypeOK, Touch, TmpFlag, Process
      <4> QED BY <3>1, <4>1, BeginStopType DEF EnterSafemode, TypeOK, Goto, StartPc
    <3>2. CASE BeginStop(n, tmp) /\ start' = Goto(start, n, "poweroff")
      <4>1. tmp \in [Node -> SUBSET (TmpFlag \cup Process)]
        BY DEF TypeOK
      <4> QED BY <3>2, <4>1, BeginStopType DEF TypeOK, Goto, StartPc
    <3> QED BY <1>4, <3>1, <3>2 DEF WaitTimeout
  <2> QED BY <1>4, <2>1 DEF TypeOK, WaitTimeout, crm, env
<1>5. CASE WaitPrepare(n)
  BY <1>5 DEF TypeOK, WaitPrepare, Goto, StartPc, files, crm, env
<1>6. CASE Forget(n)
  BY <1>6 DEF TypeOK, Forget, ForgetFlag, Goto, Remove, StartPc, crm, env
<1>7. CASE Discard(n)
  BY <1>7 DEF TypeOK, Discard, Goto, Touch, StartPc, TmpFlag, crm, counts
<1>8. CASE Online(n)
  BY <1>8 DEF TypeOK, Online, Goto, StartPc, files, env
<1>9. CASE Settle(n)
  <2>1. net' \in SUBSET Message
    BY <1>9, SendType DEF TypeOK, Settle
  <2> QED BY <1>9, <2>1 DEF TypeOK, Settle, Goto, StartPc, files, crm, env
<1> QED
  BY <1>1, <1>2, <1>3, <1>4, <1>5, <1>6, <1>7, <1>8, <1>9 DEF StartStep

\* stop().
LEMMA TypeStop ==
  ASSUME TypeOK, NEW n \in Node, StopStep(n)
  PROVE  TypeOK'
<1>1. CASE PrepareOver(n)
  BY <1>1 DEF TypeOK, PrepareOver, Goto, StopPc, files, crm, env
<1>2. CASE PrepareFailed(n)
  BY <1>2 DEF TypeOK, PrepareFailed, files, env
<1>3. CASE Decide(n)
  <2>1. disk' \in [Node -> SUBSET DiskFlag] /\ stop' \in [Node -> StopPc]
    BY <1>3 DEF TypeOK, Decide, DecideActive, DecidePassive, Record, Touch,
       Goto, DiskFlag, StopPc
  <2> QED BY <1>3, <2>1 DEF TypeOK, Decide, crm, env
<1>4. CASE SendFlag(n)
  <2>1. net' \in SUBSET Message
    BY <1>4, SendType DEF TypeOK, SendFlag
  <2>2. sent' \in [Node -> 0..ShutdownSends]
    BY <1>4, BoundAssumption DEF TypeOK, SendFlag
  <2> QED BY <1>4, <2>1, <2>2 DEF TypeOK, SendFlag, files, crm, env
<1>5. CASE FlagSent(n)
  <2>1. disk' \in [Node -> SUBSET DiskFlag] /\ stop' \in [Node -> StopPc]
    BY <1>5 DEF TypeOK, FlagSent, Record, Touch, Goto, DiskFlag, StopPc
  <2>2. sent' \in [Node -> 0..ShutdownSends]
    BY <1>5, BoundAssumption DEF TypeOK, FlagSent
  <2> QED BY <1>5, <2>1, <2>2 DEF TypeOK, FlagSent, crm, env
<1>6. CASE RemoteGone(n)
  BY <1>6 DEF TypeOK, RemoteGone, Record, Touch, Goto, DiskFlag, StopPc, crm, env
<1>7. CASE StandbyLocal(n)
  BY <1>7 DEF TypeOK, StandbyLocal, Goto, StopPc, files, env
<1>8. CASE StandbyDone(n)
  <2>1. net' \in SUBSET Message
    BY <1>8, SendType DEF TypeOK, StandbyDone
  <2> QED BY <1>8, <2>1 DEF TypeOK, StandbyDone, Goto, StopPc, files, crm, env
<1>9. CASE Unload(n)
  <2>1. tmp' \in [Node -> SUBSET (TmpFlag \cup Process)]
    BY <1>9 DEF TypeOK, Unload
  <2> QED BY <1>9, <2>1, OffType DEF TypeOK, Unload, env
<1> QED
  BY <1>1, <1>2, <1>3, <1>4, <1>5, <1>6, <1>7, <1>8, <1>9 DEF StopStep

\* The message handlers and the processes they leave behind.
LEMMA TypeHandler ==
  ASSUME TypeOK, NEW m \in net, Handler(m)
  PROVE  TypeOK'
<1>0. m.to \in Node
  BY DEF TypeOK, Message
<1>1. CASE HandleShutdownFlag(m)
  BY <1>0, <1>1
  DEF TypeOK, HandleShutdownFlag, Received, Touch, DiskFlag, crm, env
<1>2. CASE HandleNodeOnline(m)
  BY <1>0, <1>2
  DEF TypeOK, HandleNodeOnline, Received, Touch, Remove, Process, crm, env
<1>3. CASE HandleEnterUps(m)
  BY <1>0, <1>3
  DEF TypeOK, HandleEnterUps, Received, Touch, DiskFlag, Process, files, crm, env
<1> QED BY <1>1, <1>2, <1>3 DEF Handler

LEMMA TypeDelayed ==
  ASSUME TypeOK, NEW n \in Node, DelayedHandler(n)
  PROVE  TypeOK'
<1>1. CASE NodeOnlineReady(n)
  BY <1>1 DEF TypeOK, NodeOnlineReady, Remove, crm, env
<1>2. CASE EnterUpsSafemode(n)
  <2>1. Touch(Touch(Remove(tmp, n, {"ups_wait"}), n, "safe_shutdown"), n, "until_down")
          \in [Node -> SUBSET (TmpFlag \cup Process)]
    BY DEF TypeOK, Touch, Remove, TmpFlag, Process
  <2>2. /\ stop' \in [Node -> StopPc]
        /\ tmp' \in [Node -> SUBSET (TmpFlag \cup Process)]
    BY <1>2, <2>1, BeginStopType DEF EnterUpsSafemode, EnterSafemode
  <2> QED BY <1>2, <2>2 DEF TypeOK, EnterUpsSafemode, crm, env
<1>3. CASE ActiveDown(n)
  BY <1>3 DEF TypeOK, ActiveDown, Touch, Remove, Process, crm, env
<1>4. CASE ActiveBack(n)
  <2>1. Remove(tmp, n, {"safe_shutdown", "until_back"})
          \in [Node -> SUBSET (TmpFlag \cup Process)]
    BY DEF TypeOK, Remove
  <2>2. /\ stop' \in [Node -> StopPc]
        /\ tmp' \in [Node -> SUBSET (TmpFlag \cup Process)]
    BY <1>4, <2>1, BeginStopType DEF ActiveBack, TypeOK
  <2> QED BY <1>4, <2>2 DEF TypeOK, ActiveBack, Remove, crm, env
<1> QED BY <1>1, <1>2, <1>3, <1>4 DEF DelayedHandler

\* Pacemaker, and everything that comes from outside.
LEMMA TypePacemaker ==
  ASSUME TypeOK, NEW n \in Node, Pacemaker(n)
  PROVE  TypeOK'
<1>1. CASE Promote(n)
  BY <1>1 DEF TypeOK, Promote, Role, files, env
<1>2. CASE PromoteDone(n)
  BY <1>2 DEF TypeOK, PromoteDone, Role, files, env
<1>3. CASE Demote(n)
  BY <1>3 DEF TypeOK, Demote, Role, files, env
<1> QED BY <1>1, <1>2, <1>3 DEF Pacemaker

LEMMA TypeEnvironment ==
  ASSUME TypeOK, NEW n \in Node, Environment(n)
  PROVE  TypeOK'
<1>0. tmp \in [Node -> SUBSET (TmpFlag \cup Process)]
  BY DEF TypeOK
<1>1. CASE Crash(n)
  <2>1. crashes' \in 0..MaxCrashes /\ tmp' \in [Node -> SUBSET (TmpFlag \cup Process)]
    BY <1>1, BoundAssumption DEF TypeOK, Crash
  <2> QED BY <1>1, <2>1, OffType DEF TypeOK, Crash
<1>2. CASE ForcePowerOff(n)
  <2>1. tmp' \in [Node -> SUBSET (TmpFlag \cup Process)]
    BY <1>2 DEF TypeOK, ForcePowerOff
  <2> QED BY <1>2, <2>1, OffType DEF TypeOK, ForcePowerOff, env
<1>3. CASE ProcessGone(n)
  BY <1>3, <1>0, BeginStopType DEF TypeOK, ProcessGone, Goto, StartPc, crm, env
<1>4. CASE OperatorStop(n)
  <2>1. stops' \in [Node -> 0..MaxStops]
    BY <1>4, BoundAssumption DEF TypeOK, OperatorStop, MayStop
  <2> QED BY <1>4, <2>1, <1>0, BeginStopType DEF TypeOK, OperatorStop, crm
<1>5. CASE UpsBattery(n)
  <2>1. stops' \in [Node -> 0..MaxStops]
    BY <1>5, BoundAssumption DEF TypeOK, UpsBattery, MayStop
  <2>2. net' \in SUBSET Message
    BY <1>5, SendType DEF TypeOK, UpsBattery
  <2>3. Touch(tmp, n, "safe_shutdown") \in [Node -> SUBSET (TmpFlag \cup Process)]
    BY <1>0 DEF Touch, TmpFlag
  <2> QED BY <1>5, <2>1, <2>2, <2>3, BeginStopType DEF TypeOK, UpsBattery, crm
<1>6. CASE PromoteFailed(n)
  BY <1>6 DEF TypeOK, PromoteFailed, files, env
<1>7. CASE DemoteFailed(n)
  BY <1>7 DEF TypeOK, DemoteFailed, Touch, DiskFlag, crm, env
<1>8. CASE Constrain(n)
  BY <1>8 DEF TypeOK, Constrain, files, env
<1>9. CASE Unconstrain(n)
  BY <1>9 DEF TypeOK, Unconstrain, files, env
<1>10. CASE Write(n)
  BY <1>10, NodeAssumption DEF TypeOK, Write, Other, Node, files, crm, counts
<1> QED
  BY <1>1, <1>2, <1>3, <1>4, <1>5, <1>6, <1>7, <1>8, <1>9, <1>10 DEF Environment

\* Scripts run only with power: a script begins on a server that has it, and
\* ends when it goes.
LEMMA PoweredStep ==
  ASSUME TypeOK, Powered, Next
  PROVE  Powered'
<1>1. ASSUME NEW n \in Node, Off(n)
      PROVE  Powered'
  BY <1>1 DEF Off, StackDown, Powered, Goto, TypeOK
<1>2. ASSUME NEW n \in Node, PowerOn(n) \/ StartStep(n), ~WaitTimeout(n)
      PROVE  Powered'
  BY <1>2 DEF Powered, TypeOK, PowerOn, StartStep, Join, CheckRole, WaitPrepare,
     Forget, ForgetFlag, Discard, Online, Settle, Goto, files, crm, env, counts
<1>3. ASSUME NEW n \in on, NEW t, BeginStop(n, t), on' = on,
             \A m \in Node \ {n} : start'[m] = start[m]
      PROVE  Powered'
  <2>1. n \in Node
    BY DEF TypeOK
  <2> QED BY <1>3, <2>1, StopRuns DEF Powered, TypeOK
<1>4. ASSUME NEW n \in Node, WaitTimeout(n)
      PROVE  Powered'
  <2>1. n \in on
    BY <1>4 DEF WaitTimeout, Powered
  <2>2. on' = on /\ \A m \in Node \ {n} : start'[m] = start[m]
    BY <1>4 DEF WaitTimeout, TypeOK, Goto, crm
  <2> QED BY <1>3, <1>4, <2>1, <2>2 DEF WaitTimeout, EnterSafemode
<1>5. ASSUME NEW n \in Node, StopStep(n), ~Unload(n)
      PROVE  Powered'
  BY <1>5 DEF Powered, TypeOK, StopStep, PrepareOver, PrepareFailed, Decide,
     DecideActive, DecidePassive, Record, SendFlag, FlagSent, RemoteGone,
     StandbyLocal, StandbyDone, Goto, files, crm, env
<1>6. ASSUME NEW m \in net, Handler(m)
      PROVE  Powered'
  BY <1>6 DEF Powered, Handler, HandleShutdownFlag, HandleNodeOnline,
     HandleEnterUps, crm
<1>7. ASSUME NEW n \in Node, DelayedHandler(n)
      PROVE  Powered'
  <2>1. CASE NodeOnlineReady(n) \/ ActiveDown(n)
    BY <2>1 DEF Powered, NodeOnlineReady, ActiveDown, crm
  <2>2. CASE EnterUpsSafemode(n)
    BY <1>3, <2>2 DEF EnterUpsSafemode, EnterSafemode, crm
  <2>3. CASE ActiveBack(n)
    <3>1. CASE n \in on
      BY <1>3, <2>3, <3>1 DEF ActiveBack, crm
    <3>2. CASE n \notin on
      BY <2>3, <3>2 DEF ActiveBack, Powered, crm
    <3> QED BY <3>1, <3>2
  <2> QED BY <1>7, <2>1, <2>2, <2>3 DEF DelayedHandler
<1>8. ASSUME NEW n \in Node, Pacemaker(n)
      PROVE  Powered'
  BY <1>8 DEF Powered, Pacemaker, Promote, PromoteDone, Demote
<1>9. ASSUME NEW n \in Node, Environment(n)
      PROVE  Powered'
  <2>1. CASE Crash(n) \/ ForcePowerOff(n)
    BY <1>1, <2>1 DEF Crash, ForcePowerOff
  <2>2. CASE ProcessGone(n)
    <3>1. n \in on
      BY <2>2 DEF ProcessGone, Powered
    <3> QED BY <1>3, <2>2, <3>1 DEF ProcessGone, TypeOK, Goto, crm
  <2>3. CASE OperatorStop(n)
    <3>1. n \in on
      BY <2>3 DEF OperatorStop, MayStop, TypeOK
    <3> QED BY <1>3, <2>3, <3>1 DEF OperatorStop, crm
  <2>4. CASE UpsBattery(n)
    <3>1. n \in on
      BY <2>4 DEF UpsBattery, MayStop, TypeOK
    <3> QED BY <1>3, <2>4, <3>1 DEF UpsBattery, crm
  <2>5. CASE \/ PromoteFailed(n) \/ DemoteFailed(n) \/ Constrain(n)
             \/ Unconstrain(n) \/ Write(n)
    BY <2>5 DEF Powered, PromoteFailed, DemoteFailed, Constrain, Unconstrain,
       Write, crm
  <2> QED BY <1>9, <2>1, <2>2, <2>3, <2>4, <2>5 DEF Environment
<1>10. ASSUME NEW n \in Node, Unload(n)
       PROVE  Powered'
  BY <1>1, <1>10 DEF Unload
<1> QED
  BY <1>2, <1>4, <1>5, <1>6, <1>7, <1>8, <1>9, <1>10 DEF Next, StartStep

\* Every variable keeps its type, whatever the bounds.
THEOREM TypeCorrect == Spec => [](TypeOK /\ Powered)
<1>1. Init => TypeOK /\ Powered
  BY TypeInit DEF Init, Powered
<1>2. TypeOK /\ Powered /\ [Next]_vars => TypeOK' /\ Powered'
  <2> SUFFICES ASSUME TypeOK, Powered, [Next]_vars PROVE TypeOK' /\ Powered'
    OBVIOUS
  <2>1. CASE Next
    <3>1. TypeOK'
      BY <2>1, TypeStart, TypeStop, TypeHandler, TypeDelayed, TypePacemaker,
         TypeEnvironment DEF Next
    <3> QED BY <2>1, <3>1, PoweredStep
  <2>2. CASE UNCHANGED vars
    BY <2>2 DEF vars, TypeOK, Powered
  <2> QED BY <2>1, <2>2
<1> QED BY <1>1, <1>2, PTL DEF Spec

(***************************************************************************)
(* The record of the last role.  RecordsGone is inductive: a record is     *)
(* written only while stop() runs, stop() ends only with the power, and    *)
(* start() passes Forget before it can end another way than with a         *)
(* shutdown of its own.                                                    *)
(***************************************************************************)
\* Between the two removals the active record is gone already.
RecordsGone ==
  /\ NoRecordWhileRunning
  /\ \A n \in on : stop[n] = "none" /\ start[n] = "forget_passive"
       => "prev_active" \notin disk[n]

\* Boot: the record goes before the boot can be over.
LEMMA RecordStart ==
  ASSUME TypeOK, Powered, RecordsGone,
         NEW n \in Node, PowerOn(n) \/ StartStep(n)
  PROVE  RecordsGone'
<1>1. CASE PowerOn(n)
  BY <1>1 DEF TypeOK, PowerOn, Remove, Goto,
     RecordsGone, NoRecordWhileRunning, PrevRole
<1>2. CASE Join(n) \/ CheckRole(n) \/ WaitPrepare(n)
  BY <1>2 DEF TypeOK, Join, CheckRole, WaitPrepare, Goto,
     RecordsGone, NoRecordWhileRunning, PrevRole,
     files, crm, env, counts
<1>3. CASE WaitTimeout(n)
  <2>1. \A m \in Node : stop'[m] = "none" => m # n /\ stop[m] = "none"
    BY <1>3, StopRuns DEF WaitTimeout, EnterSafemode
  <2>2. \A m \in Node \ {n} : start'[m] = start[m]
    BY <1>3 DEF WaitTimeout, TypeOK, Goto
  <2> QED BY <1>3, <2>1, <2>2 DEF WaitTimeout,
     RecordsGone, NoRecordWhileRunning, PrevRole, TypeOK, crm
<1>4. CASE Forget(n)
  BY <1>4 DEF TypeOK, Forget, ForgetFlag, Remove, Goto, RecordsGone,
     NoRecordWhileRunning, PrevRole, crm
<1>5. CASE Discard(n) \/ Online(n) \/ Settle(n)
  BY <1>5 DEF TypeOK, Discard, Online, Settle, Goto,
     RecordsGone, NoRecordWhileRunning, PrevRole,
     files, crm, env
<1> QED BY <1>1, <1>2, <1>3, <1>4, <1>5 DEF StartStep

\* stop(): the server that writes a record is stopping, and stays so.
LEMMA RecordStop ==
  ASSUME TypeOK, RecordsGone, NEW n \in Node, StopStep(n)
  PROVE  RecordsGone'
<1>1. CASE Unload(n)
  BY <1>1 DEF TypeOK, Unload, Off, StackDown, Goto,
     RecordsGone, NoRecordWhileRunning, PrevRole
<1>2. CASE ~Unload(n)
  <2>1. /\ on' = on /\ start' = start /\ stop'[n] # "none"
        /\ \A m \in Node \ {n} : disk'[m] = disk[m] /\ stop'[m] = stop[m]
    BY <1>2 DEF StopStep, TypeOK, PrepareOver, PrepareFailed, Decide,
       DecideActive, DecidePassive, Record, SendFlag, FlagSent, RemoteGone,
       StandbyLocal, StandbyDone, Touch, Goto, files, crm, env
  <2> QED BY <2>1 DEF RecordsGone, NoRecordWhileRunning, PrevRole, TypeOK
<1> QED BY <1>1, <1>2

\* A handler touches no record.
LEMMA RecordHandler ==
  ASSUME TypeOK, RecordsGone, NEW m \in net, Handler(m)
  PROVE  RecordsGone'
<1>0. m.to \in Node
  BY DEF TypeOK, Message
<1>1. /\ on' = on /\ start' = start /\ stop' = stop
      /\ \A n \in Node : disk'[n] \cap PrevRole \subseteq disk[n] \cap PrevRole
  BY <1>0 DEF Handler, HandleShutdownFlag, HandleNodeOnline, HandleEnterUps,
     TypeOK, Touch, Remove, PrevRole, files, crm
<1> QED BY <1>1 DEF RecordsGone, NoRecordWhileRunning, PrevRole, TypeOK

LEMMA RecordDelayed ==
  ASSUME TypeOK, RecordsGone, NEW n \in Node, DelayedHandler(n)
  PROVE  RecordsGone'
<1>1. /\ on' = on /\ start' = start
      /\ \A m \in Node : disk'[m] \cap PrevRole \subseteq disk[m] \cap PrevRole
  BY DEF DelayedHandler, NodeOnlineReady, EnterUpsSafemode, ActiveDown,
     ActiveBack, TypeOK, Remove, PrevRole, crm
<1>2. \A m \in Node : stop'[m] = "none" => stop[m] = "none"
  <2>1. CASE stop' = stop
    BY <2>1
  <2>2. CASE \E t : BeginStop(n, t)
    BY <2>2, StopRuns
  <2> QED BY <2>1, <2>2 DEF DelayedHandler, NodeOnlineReady, EnterUpsSafemode,
            EnterSafemode, ActiveDown, ActiveBack
<1> QED BY <1>1, <1>2 DEF RecordsGone, NoRecordWhileRunning, PrevRole, TypeOK

\* Pacemaker touches no file of /var/lib/ha, and the environment no record.
LEMMA RecordOutside ==
  ASSUME TypeOK, RecordsGone, NEW n \in Node,
         Pacemaker(n) \/ Environment(n)
  PROVE  RecordsGone'
<1>1. CASE Crash(n) \/ ForcePowerOff(n)
  BY <1>1 DEF TypeOK, Crash, ForcePowerOff, Off, StackDown, Goto,
     RecordsGone, NoRecordWhileRunning, PrevRole
<1>2. CASE ProcessGone(n) \/ OperatorStop(n) \/ UpsBattery(n)
  <2>1. \A m \in Node : stop'[m] = "none" => m # n /\ stop[m] = "none"
    BY <1>2, StopRuns DEF ProcessGone, OperatorStop, UpsBattery
  <2>2. /\ on' = on /\ disk' = disk
        /\ \A m \in Node \ {n} : start'[m] = start[m]
    BY <1>2 DEF ProcessGone, OperatorStop, UpsBattery, TypeOK, Goto, crm
  <2> QED BY <2>1, <2>2 DEF RecordsGone, NoRecordWhileRunning, PrevRole, TypeOK
<1>3. CASE \/ PromoteFailed(n) \/ DemoteFailed(n) \/ Constrain(n)
           \/ Unconstrain(n) \/ Write(n) \/ Pacemaker(n)
  <2>1. /\ on' = on /\ start' = start /\ stop' = stop
        /\ \A m \in Node : disk'[m] \cap PrevRole \subseteq disk[m] \cap PrevRole
    BY <1>3 DEF PromoteFailed, DemoteFailed, Constrain, Unconstrain, Write,
       Pacemaker, Promote, PromoteDone, Demote, TypeOK, Touch, PrevRole,
       files, crm
  <2> QED BY <2>1 DEF RecordsGone, NoRecordWhileRunning, PrevRole, TypeOK
<1> QED BY <1>1, <1>2, <1>3 DEF Environment

\* However the shutdowns, boots, messages, power losses and failures of two
\* servers interleave, a server that has finished its boot and has not begun to
\* stop keeps no record of an earlier role.
THEOREM RecordsServeOnce == Spec => []NoRecordWhileRunning
<1>1. Init => RecordsGone
  BY DEF Init, RecordsGone, NoRecordWhileRunning, Node
<1>2. TypeOK /\ Powered /\ RecordsGone /\ [Next]_vars => RecordsGone'
  <2> SUFFICES ASSUME TypeOK, Powered, RecordsGone, [Next]_vars
               PROVE  RecordsGone'
    OBVIOUS
  <2>1. CASE Next
    BY <2>1, RecordStart, RecordStop, RecordHandler, RecordDelayed,
       RecordOutside DEF Next
  <2>2. CASE UNCHANGED vars
    BY <2>2 DEF vars, RecordsGone, NoRecordWhileRunning
  <2> QED BY <2>1, <2>2
<1>3. RecordsGone => NoRecordWhileRunning
  BY DEF RecordsGone
<1> QED BY <1>1, <1>2, <1>3, TypeCorrect, PTL DEF Spec

(***************************************************************************)
(* Two shutdowns.  Until a server has booted or lost power, node0 is the   *)
(* one that serves first: node1 can serve, and decide as the active one,   *)
(* only after node0 has recorded its role and given the services up.  A    *)
(* server that decides second knows from the flag of the first that it has *)
(* to record "active"; on battery, from ups_safe that it must not.         *)
(***************************************************************************)
Before  == {"none", "prepare", "decide"}
Sending == {"send_active", "send_passive"}
Leaving == {"standby", "demote", "unload"}

Carried(type, n) == [type |-> type, to |-> n] \in net
Told(n)   == "remote_shutdown" \in disk[n] \/ Carried("TSDFLAG", n)
Warned(n) == "ups_safe" \in disk[n] \/ Carried("PASINUPS", n)

ActiveRecord(n)  == "prev_active" \in disk[n]
PassiveRecord(n) == "prev_passive" \in disk[n]
Gone(n) == n \notin on \/ stop[n] \in {"demote", "unload"}

\* No script of a boot runs, and what only a boot starts is not there.
Alone ==
  /\ up = on
  /\ \A n \in Node :
       /\ start[n] = "none" /\ "online_wait" \notin tmp[n]
       /\ n \in on <=> role[n] # "Unknown"
       /\ "until_back" \in tmp[n] => Other(n) \notin on
       /\ "ups_wait" \in tmp[n] => "ups_safe" \in disk[n]
  /\ \A m \in net : m.type # "NODE__ON"

\* A record is written by the step that leaves the exchange, and once.
Recorded ==
  \A n \in Node :
    /\ n \in on /\ stop[n] \notin Leaving
         => ~ActiveRecord(n) /\ ~PassiveRecord(n)
    /\ ~(ActiveRecord(n) /\ PassiveRecord(n))

\* node0 serves until it has recorded its role, and never again.
FirstServes ==
  /\ node0 \notin failed
  /\ role[node0] \notin {"Prepare", "Preactive"}
  /\ ~Gone(node0) => /\ role[node0] = "Active" /\ node0 \notin standby
                     /\ stop[node0] \notin {"prepare", "send_passive"}
                     /\ "demote_error" \notin disk[node0]
  /\ Gone(node0) => node0 \in standby

\* node1 acts as the active server only after node0.
SecondServes ==
  /\ role[node1] \in Taking \/ stop[node1] \in {"send_active", "wait_remote"}
       => Gone(node0)
  /\ role[node0] \in Taking => role[node1] \notin Taking

\* Who was told, was told by a server that has decided; a server that waits for
\* the other one was told; what was sent has arrived or is on its way.
Announced ==
  \A n \in Node :
    /\ Told(Other(n)) /\ n \in on => stop[n] \notin Before
    /\ n \in on /\ stop[n] = "wait_remote" => "remote_shutdown" \in disk[n]
    /\ stop[n] \notin Sending => sent[n] = 0
    /\ stop[n] \in Sending /\ sent[n] > 0 /\ Other(n) \in on => Told(Other(n))

RolesOfShutdown == Alone /\ Recorded /\ FirstServes /\ SecondServes

\* node1 enters UPS safe mode for a shutdown of node0 on battery, which records
\* "active"; node0 for one of node1, when it has recorded its role.
Battery ==
  /\ Warned(node0) => Gone(node0)
  /\ "safe_shutdown" \in tmp[node1] => "ups_safe" \in disk[node1] \/ Gone(node0)
  /\ "safe_shutdown" \in tmp[node0] =>
       \/ "ups_safe" \in disk[node0]
       \/ /\ ~PassiveRecord(node0)
          /\ node0 \in on => stop[node0] \in {"decide"} \cup Leaving
  /\ Warned(node1) =>
       /\ ~PassiveRecord(node0)
       /\ node0 \in on => stop[node0] \in {"decide"} \cup Leaving
       /\ stop[node0] = "decide" => "safe_shutdown" \in tmp[node0]
  /\ stop[node0] = "decide" /\ "safe_shutdown" \in tmp[node0] /\ node1 \in on
       => Warned(node1)

\* Once a server has recorded "active" the other one cannot: it has not been
\* told and is not active, or is to record "passive" for the sake of the battery.
ActiveAlone ==
  /\ ActiveRecord(node0) =>
       /\ ~ActiveRecord(node1)
       /\ node1 \in on =>
            /\ stop[node1] \notin {"send_active", "wait_remote"}
            /\ stop[node1] \in Before =>
                 /\ ~Told(node1)
                 /\ \/ node1 \in banned /\ role[node1] \notin Taking
                    \/ "ups_safe" \in disk[node1]
                    \/ Carried("PASINUPS", node1) /\ role[node1] # "Active"
  /\ ActiveRecord(node1) /\ node0 \in on =>
       /\ stop[node0] \in {"send_active"} \cup Leaving
       /\ stop[node0] = "send_active" => ~Told(node0)

\* Once a server has recorded "passive" the other one has its flag.
PassiveAlone ==
  /\ PassiveRecord(node0) =>
       /\ ~PassiveRecord(node1)
       /\ node1 \in on =>
            /\ stop[node1] \notin Sending
            /\ stop[node1] \in Before => "remote_shutdown" \in disk[node1]
  /\ PassiveRecord(node1) /\ node0 \in on =>
       (stop[node0] \in {"none", "decide", "send_active"}
          => "remote_shutdown" \in disk[node0])

\* The steps of two shutdowns.
ShutdownStep ==
  \/ \E n \in Node :
       \/ StopStep(n) \/ EnterUpsSafemode(n) \/ ActiveDown(n) \/ Pacemaker(n)
       \/ OperatorStop(n) \/ UpsBattery(n) \/ PromoteFailed(n)
       \/ DemoteFailed(n) \/ Constrain(n) \/ Unconstrain(n) \/ Write(n)
  \/ \E m \in net : HandleShutdownFlag(m) \/ HandleEnterUps(m)
  \/ UNCHANGED vars

\* The roles, step by step of a shutdown.
LEMMA RolesOfShutdownKept ==
  ASSUME TypeOK, Powered, RolesOfShutdown, ShutdownStep
  PROVE  RolesOfShutdown'
<1> USE NodeAssumption DEF Node, Other, TypeOK, Powered, Role, StopPc,
     StartPc, Message, DiskFlag, TmpFlag, Process, Touch, Remove, Goto,
     Before, Sending, Leaving, Taking, RolesOfShutdown, Alone, Recorded,
     FirstServes, SecondServes, Gone, ActiveRecord, PassiveRecord
<1>1. CASE \E n \in Node :
          \/ PrepareOver(n) \/ PrepareFailed(n) \/ StandbyLocal(n)
  BY <1>1, BoundAssumption DEF PrepareOver, files, crm, env, PrepareFailed,
     StandbyLocal
<1>2. CASE \E n \in Node : Decide(n)
  BY <1>2, BoundAssumption DEF Decide, DecideActive, DecidePassive, Record,
     RemoteRole, crm, env
<1>3. CASE \E n \in Node : SendFlag(n)
  BY <1>3, BoundAssumption DEF SendFlag, Send, files, crm, env
<1>4. CASE \E n \in Node : FlagSent(n)
  BY <1>4, BoundAssumption DEF FlagSent, SeesFlagAfterSending, Record, crm,
     env, Slept, Hurried
<1>5. CASE \E n \in Node : RemoteGone(n) \/ StandbyDone(n)
  BY <1>5, BoundAssumption DEF RemoteGone, Record, crm, env, StandbyDone,
     Send, files
<1>6. CASE \E n \in Node : Unload(n)
  BY <1>6, BoundAssumption DEF Unload, Off, StackDown, Halted, env
<1>7. CASE \E n \in Node :
          \/ OperatorStop(n) \/ UpsBattery(n) \/ EnterUpsSafemode(n)
  BY <1>7, BoundAssumption DEF OperatorStop, MayStop, BeginStop, crm,
     UpsBattery, Send, EnterUpsSafemode, EnterSafemode, env
<1>8. CASE \E n \in Node :
          \/ ActiveDown(n) \/ Constrain(n) \/ Unconstrain(n) \/ Write(n)
  BY <1>8, BoundAssumption DEF ActiveDown, crm, env, Constrain, RemoteRole,
     files, Unconstrain, Write, counts
<1>9. CASE \E n \in Node :
          \/ Promote(n) \/ PromoteDone(n) \/ Demote(n) \/ PromoteFailed(n)
          \/ DemoteFailed(n)
  BY <1>9, BoundAssumption DEF Promote, RemoteRole, files, env, PromoteDone,
     Slept, Hurried, Demote, PromoteFailed, DemoteFailed, crm
<1>10. CASE \E m \in net : HandleShutdownFlag(m) \/ HandleEnterUps(m)
  BY <1>10, BoundAssumption DEF HandleShutdownFlag, Received, crm, env,
     HandleEnterUps, files
<1>11. CASE UNCHANGED vars
  BY <1>11 DEF vars
<1> QED
  BY ONLY ShutdownStep, <1>1, <1>2, <1>3, <1>4, <1>5, <1>6, <1>7, <1>8, <1>9, <1>10,
     <1>11
  DEF ShutdownStep, StopStep, Pacemaker

\* A flag is told by a server that has decided, and reaches one that is there.
LEMMA AnnouncedKept ==
  ASSUME TypeOK, Powered, RolesOfShutdown, Announced, ShutdownStep
  PROVE  Announced'
<1> USE NodeAssumption DEF Node, Other, TypeOK, Powered, Role, StopPc,
     StartPc, Message, DiskFlag, TmpFlag, Process, Touch, Remove, Goto,
     Before, Sending, Leaving, Taking, RolesOfShutdown, Alone, Recorded,
     FirstServes, SecondServes, Gone, ActiveRecord, PassiveRecord, Announced,
     Told, Carried
<1>1. CASE \E n \in Node :
          \/ PrepareOver(n) \/ PrepareFailed(n) \/ StandbyLocal(n)
  BY <1>1, BoundAssumption DEF PrepareOver, files, crm, env, PrepareFailed,
     StandbyLocal
<1>2. CASE \E n \in Node : Decide(n)
  BY <1>2, BoundAssumption DEF Decide, DecideActive, DecidePassive, Record,
     RemoteRole, crm, env
<1>3. CASE \E n \in Node : SendFlag(n)
  BY <1>3, BoundAssumption DEF SendFlag, Send, files, crm, env
<1>4. CASE \E n \in Node : FlagSent(n)
  BY <1>4, BoundAssumption DEF FlagSent, SeesFlagAfterSending, Record, crm,
     env, Slept, Hurried
<1>5. CASE \E n \in Node : RemoteGone(n) \/ StandbyDone(n)
  BY <1>5, BoundAssumption DEF RemoteGone, Record, crm, env, StandbyDone,
     Send, files
<1>6. CASE \E n \in Node : Unload(n)
  BY <1>6, BoundAssumption DEF Unload, Off, StackDown, Halted, env
<1>7. CASE \E n \in Node :
          \/ OperatorStop(n) \/ UpsBattery(n) \/ EnterUpsSafemode(n)
  BY <1>7, BoundAssumption DEF OperatorStop, MayStop, BeginStop, crm,
     UpsBattery, Send, EnterUpsSafemode, EnterSafemode, env
<1>8. CASE \E n \in Node :
          \/ ActiveDown(n) \/ Constrain(n) \/ Unconstrain(n) \/ Write(n)
  BY <1>8, BoundAssumption DEF ActiveDown, crm, env, Constrain, RemoteRole,
     files, Unconstrain, Write, counts
<1>9. CASE \E n \in Node :
          \/ Promote(n) \/ PromoteDone(n) \/ Demote(n) \/ PromoteFailed(n)
          \/ DemoteFailed(n)
  BY <1>9, BoundAssumption DEF Promote, RemoteRole, files, env, PromoteDone,
     Slept, Hurried, Demote, PromoteFailed, DemoteFailed, crm
<1>10. CASE \E m \in net : HandleShutdownFlag(m) \/ HandleEnterUps(m)
  BY <1>10, BoundAssumption DEF HandleShutdownFlag, Received, crm, env,
     HandleEnterUps, files
<1>11. CASE UNCHANGED vars
  BY <1>11 DEF vars
<1> QED
  BY ONLY ShutdownStep, <1>1, <1>2, <1>3, <1>4, <1>5, <1>6, <1>7, <1>8, <1>9, <1>10,
     <1>11
  DEF ShutdownStep, StopStep, Pacemaker

\* On battery: the message and the flag of the safe shutdown agree.
LEMMA BatteryKept ==
  ASSUME TypeOK, Powered, RolesOfShutdown, Announced, Battery, ShutdownStep
  PROVE  Battery'
<1> USE NodeAssumption DEF Node, Other, TypeOK, Powered, Role, StopPc,
     StartPc, Message, DiskFlag, TmpFlag, Process, Touch, Remove, Goto,
     Before, Sending, Leaving, Taking, RolesOfShutdown, Alone, Recorded,
     FirstServes, SecondServes, Gone, ActiveRecord, PassiveRecord, Announced,
     Told, Carried, Battery, Warned
<1>1. CASE \E n \in Node :
          \/ PrepareOver(n) \/ PrepareFailed(n) \/ StandbyLocal(n)
  BY <1>1, BoundAssumption DEF PrepareOver, files, crm, env, PrepareFailed,
     StandbyLocal
<1>2. CASE \E n \in Node : Decide(n)
  BY <1>2, BoundAssumption DEF Decide, DecideActive, DecidePassive, Record,
     RemoteRole, crm, env
<1>3. CASE \E n \in Node : SendFlag(n)
  BY <1>3, BoundAssumption DEF SendFlag, Send, files, crm, env
<1>4. CASE \E n \in Node : FlagSent(n)
  BY <1>4, BoundAssumption DEF FlagSent, SeesFlagAfterSending, Record, crm,
     env, Slept, Hurried
<1>5. CASE \E n \in Node : RemoteGone(n) \/ StandbyDone(n)
  BY <1>5, BoundAssumption DEF RemoteGone, Record, crm, env, StandbyDone,
     Send, files
<1>6. CASE \E n \in Node : Unload(n)
  BY <1>6, BoundAssumption DEF Unload, Off, StackDown, Halted, env
<1>7. CASE \E n \in Node :
          \/ OperatorStop(n) \/ UpsBattery(n) \/ EnterUpsSafemode(n)
  BY <1>7, BoundAssumption DEF OperatorStop, MayStop, BeginStop, crm,
     UpsBattery, Send, EnterUpsSafemode, EnterSafemode, env
<1>8. CASE \E n \in Node :
          \/ ActiveDown(n) \/ Constrain(n) \/ Unconstrain(n) \/ Write(n)
  BY <1>8, BoundAssumption DEF ActiveDown, crm, env, Constrain, RemoteRole,
     files, Unconstrain, Write, counts
<1>9. CASE \E n \in Node :
          \/ Promote(n) \/ PromoteDone(n) \/ Demote(n) \/ PromoteFailed(n)
          \/ DemoteFailed(n)
  BY <1>9, BoundAssumption DEF Promote, RemoteRole, files, env, PromoteDone,
     Slept, Hurried, Demote, PromoteFailed, DemoteFailed, crm
<1>10. CASE \E m \in net : HandleShutdownFlag(m) \/ HandleEnterUps(m)
  BY <1>10, BoundAssumption DEF HandleShutdownFlag, Received, crm, env,
     HandleEnterUps, files
<1>11. CASE UNCHANGED vars
  BY <1>11 DEF vars
<1> QED
  BY ONLY ShutdownStep, <1>1, <1>2, <1>3, <1>4, <1>5, <1>6, <1>7, <1>8, <1>9, <1>10,
     <1>11
  DEF ShutdownStep, StopStep, Pacemaker

\* A server that records "active" leaves the other one no way to do so.  Prompt:
\* a promotion ends after a message that is on its way.
LEMMA ActiveAloneKept ==
  ASSUME TypeOK, Powered, RolesOfShutdown, Announced, Battery, ActiveAlone,
         ShutdownStep, Prompt, "lift" \notin Env
  PROVE  ActiveAlone'
<1> USE NodeAssumption DEF Node, Other, TypeOK, Powered, Role, StopPc,
     StartPc, Message, DiskFlag, TmpFlag, Process, Touch, Remove, Goto,
     Before, Sending, Leaving, Taking, RolesOfShutdown, Alone, Recorded,
     FirstServes, SecondServes, Gone, ActiveRecord, PassiveRecord, Announced,
     Told, Carried, Battery, Warned, ActiveAlone
<1>1. CASE \E n \in Node :
          \/ PrepareOver(n) \/ PrepareFailed(n) \/ StandbyLocal(n)
  BY <1>1, BoundAssumption DEF PrepareOver, files, crm, env, PrepareFailed,
     StandbyLocal
<1>2. CASE \E n \in Node : Decide(n)
  BY <1>2, BoundAssumption DEF Decide, DecideActive, DecidePassive, Record,
     RemoteRole, crm, env
<1>3. CASE \E n \in Node : SendFlag(n)
  BY <1>3, BoundAssumption DEF SendFlag, Send, files, crm, env
<1>4. CASE \E n \in Node : FlagSent(n)
  BY <1>4, BoundAssumption DEF FlagSent, SeesFlagAfterSending, Record, crm,
     env, Slept, Hurried
<1>5. CASE \E n \in Node : RemoteGone(n) \/ StandbyDone(n)
  BY <1>5, BoundAssumption DEF RemoteGone, Record, crm, env, StandbyDone,
     Send, files
<1>6. CASE \E n \in Node : Unload(n)
  BY <1>6, BoundAssumption DEF Unload, Off, StackDown, Halted, env
<1>7. CASE \E n \in Node :
          \/ OperatorStop(n) \/ UpsBattery(n) \/ EnterUpsSafemode(n)
  BY <1>7, BoundAssumption DEF OperatorStop, MayStop, BeginStop, crm,
     UpsBattery, Send, EnterUpsSafemode, EnterSafemode, env
<1>8. CASE \E n \in Node :
          \/ ActiveDown(n) \/ Constrain(n) \/ Unconstrain(n) \/ Write(n)
  BY <1>8, BoundAssumption DEF ActiveDown, crm, env, Constrain, RemoteRole,
     files, Unconstrain, Write, counts
<1>9. CASE \E n \in Node :
          \/ Promote(n) \/ PromoteDone(n) \/ Demote(n) \/ PromoteFailed(n)
          \/ DemoteFailed(n)
  BY <1>9, BoundAssumption DEF Promote, RemoteRole, files, env, PromoteDone,
     Slept, Hurried, Demote, PromoteFailed, DemoteFailed, crm
<1>10. CASE \E m \in net : HandleShutdownFlag(m) \/ HandleEnterUps(m)
  BY <1>10, BoundAssumption DEF HandleShutdownFlag, Received, crm, env,
     HandleEnterUps, files
<1>11. CASE UNCHANGED vars
  BY <1>11 DEF vars
<1> QED
  BY ONLY ShutdownStep, <1>1, <1>2, <1>3, <1>4, <1>5, <1>6, <1>7, <1>8, <1>9, <1>10,
     <1>11
  DEF ShutdownStep, StopStep, Pacemaker

\* A server that records "passive" has been heard by the other one, as the wait
\* after the last flag is longer than a handler takes (Prompt).
LEMMA PassiveAloneKept ==
  ASSUME TypeOK, Powered, RolesOfShutdown, Announced, Battery, PassiveAlone,
         ShutdownStep, Prompt
  PROVE  PassiveAlone'
<1> USE NodeAssumption DEF Node, Other, TypeOK, Powered, Role, StopPc,
     StartPc, Message, DiskFlag, TmpFlag, Process, Touch, Remove, Goto,
     Before, Sending, Leaving, Taking, RolesOfShutdown, Alone, Recorded,
     FirstServes, SecondServes, Gone, ActiveRecord, PassiveRecord, Announced,
     Told, Carried, Battery, Warned, PassiveAlone
<1>1. CASE \E n \in Node :
          \/ PrepareOver(n) \/ PrepareFailed(n) \/ StandbyLocal(n)
  BY <1>1, BoundAssumption DEF PrepareOver, files, crm, env, PrepareFailed,
     StandbyLocal
<1>2. CASE \E n \in Node : Decide(n)
  BY <1>2, BoundAssumption DEF Decide, DecideActive, DecidePassive, Record,
     RemoteRole, crm, env
<1>3. CASE \E n \in Node : SendFlag(n)
  BY <1>3, BoundAssumption DEF SendFlag, Send, files, crm, env
<1>4. CASE \E n \in Node : FlagSent(n)
  BY <1>4, BoundAssumption DEF FlagSent, SeesFlagAfterSending, Record, crm,
     env, Slept, Hurried
<1>5. CASE \E n \in Node : RemoteGone(n) \/ StandbyDone(n)
  BY <1>5, BoundAssumption DEF RemoteGone, Record, crm, env, StandbyDone,
     Send, files
<1>6. CASE \E n \in Node : Unload(n)
  BY <1>6, BoundAssumption DEF Unload, Off, StackDown, Halted, env
<1>7. CASE \E n \in Node :
          \/ OperatorStop(n) \/ UpsBattery(n) \/ EnterUpsSafemode(n)
  BY <1>7, BoundAssumption DEF OperatorStop, MayStop, BeginStop, crm,
     UpsBattery, Send, EnterUpsSafemode, EnterSafemode, env
<1>8. CASE \E n \in Node :
          \/ ActiveDown(n) \/ Constrain(n) \/ Unconstrain(n) \/ Write(n)
  BY <1>8, BoundAssumption DEF ActiveDown, crm, env, Constrain, RemoteRole,
     files, Unconstrain, Write, counts
<1>9. CASE \E n \in Node :
          \/ Promote(n) \/ PromoteDone(n) \/ Demote(n) \/ PromoteFailed(n)
          \/ DemoteFailed(n)
  BY <1>9, BoundAssumption DEF Promote, RemoteRole, files, env, PromoteDone,
     Slept, Hurried, Demote, PromoteFailed, DemoteFailed, crm
<1>10. CASE \E m \in net : HandleShutdownFlag(m) \/ HandleEnterUps(m)
  BY <1>10, BoundAssumption DEF HandleShutdownFlag, Received, crm, env,
     HandleEnterUps, files
<1>11. CASE UNCHANGED vars
  BY <1>11 DEF vars
<1> QED
  BY ONLY ShutdownStep, <1>1, <1>2, <1>3, <1>4, <1>5, <1>6, <1>7, <1>8, <1>9, <1>10,
     <1>11
  DEF ShutdownStep, StopStep, Pacemaker

\* While there has been no boot and no power loss, a step is one of a shutdown.
LEMMA ShutdownSteps ==
  ASSUME TypeOK, Powered, OnlyShutDown => Alone, [Next]_vars, OnlyShutDown'
  PROVE  OnlyShutDown /\ ShutdownStep
<1> USE DEF TypeOK, OnlyShutDown
<1>1. crashes <= crashes' /\ \A n \in Node : boots[n] <= boots'[n]
  <2>1. CASE \E n \in Node : PowerOn(n) \/ Crash(n)
    BY <2>1, BoundAssumption DEF PowerOn, Crash
  <2>2. CASE \E n \in Node : StartStep(n) \/ StopStep(n) \/ DelayedHandler(n)
    BY <2>2 DEF StartStep, Join, CheckRole, WaitTimeout, WaitPrepare, Forget, ForgetFlag,
       Discard, Online, Settle, StopStep, PrepareOver, PrepareFailed, Decide,
       SendFlag, FlagSent, RemoteGone, StandbyLocal, StandbyDone, Unload,
       DelayedHandler, NodeOnlineReady, EnterUpsSafemode, ActiveDown, ActiveBack,
       env, counts
  <2>3. CASE \E n \in Node : Pacemaker(n) \/ (Environment(n) /\ ~Crash(n))
    BY <2>3 DEF Pacemaker, Promote, PromoteDone, Demote, Environment,
       ForcePowerOff, ProcessGone, OperatorStop, UpsBattery, PromoteFailed,
       DemoteFailed, Constrain, Unconstrain, Write, env, counts
  <2>4. CASE \E m \in net : Handler(m)
    BY <2>4 DEF Handler, HandleShutdownFlag, HandleNodeOnline, HandleEnterUps, env
  <2>5. CASE UNCHANGED vars
    BY <2>5 DEF vars
  <2> QED BY <2>1, <2>2, <2>3, <2>4, <2>5 DEF Next
<1>2. OnlyShutDown /\ Alone
  BY <1>1, BoundAssumption
<1>3. ~ \E n \in Node :
          \/ PowerOn(n) \/ Crash(n) \/ StartStep(n) \/ NodeOnlineReady(n)
          \/ ActiveBack(n) \/ ForcePowerOff(n) \/ ProcessGone(n)
  <2> SUFFICES ASSUME NEW n \in Node
               PROVE  ~ \/ PowerOn(n) \/ Crash(n) \/ StartStep(n)
                        \/ NodeOnlineReady(n) \/ ActiveBack(n)
                        \/ ForcePowerOff(n) \/ ProcessGone(n)
    OBVIOUS
  <2>1. ~PowerOn(n) /\ ~Crash(n)
    BY <1>2, BoundAssumption DEF PowerOn, Crash
  <2>2. ~StartStep(n) /\ ~ForcePowerOff(n) /\ ~ProcessGone(n)
    BY <1>2 DEF Alone, StartStep, Join, CheckRole, WaitTimeout, WaitPrepare,
       Forget, ForgetFlag, Discard, Online, Settle, ForcePowerOff, ProcessGone
  <2>3. ~NodeOnlineReady(n) /\ ~ActiveBack(n)
    BY <1>2 DEF Alone, NodeOnlineReady, ActiveBack
  <2> QED BY <2>1, <2>2, <2>3
<1>4. ~ \E m \in net : HandleNodeOnline(m)
  BY <1>2 DEF HandleNodeOnline, Alone
<1> QED
  BY <1>2, <1>3, <1>4 DEF Next, ShutdownStep, Environment, DelayedHandler, Handler

\* What the two servers have told each other, for any bounds and any timing.
Exchange == RolesOfShutdown /\ Announced /\ Battery

LEMMA ExchangeInit == Init => Exchange /\ ActiveAlone /\ PassiveAlone
  BY NodeAssumption
  DEF Init, Exchange, RolesOfShutdown, Alone, Recorded, FirstServes,
      SecondServes, Announced, Battery, ActiveAlone, PassiveAlone, Gone, Told,
      Warned, Carried, ActiveRecord, PassiveRecord, Before, Sending, Leaving,
      Taking, Other, Node

LEMMA ExchangeHolds == Spec => [](OnlyShutDown => Exchange)
<1>1. Init => (OnlyShutDown => Exchange)
  BY ExchangeInit
<1>2. /\ TypeOK /\ Powered /\ (OnlyShutDown => Exchange) /\ [Next]_vars
      => (OnlyShutDown => Exchange)'
  <2> SUFFICES ASSUME TypeOK, Powered, OnlyShutDown => Exchange, [Next]_vars,
                      OnlyShutDown'
               PROVE  Exchange'
    OBVIOUS
  <2>1. Exchange /\ ShutdownStep
    BY ShutdownSteps DEF Exchange, RolesOfShutdown
  <2> QED BY <2>1, RolesOfShutdownKept, AnnouncedKept, BatteryKept DEF Exchange
<1> QED BY <1>1, <1>2, TypeCorrect, PTL DEF Spec

\* Two servers that stop, whoever stops when, do not both record only "passive"
\* (the TSDFLAG exchange of handle_manually_reboot_sametime_*), if a handler runs
\* within the seconds a server waits after a flag.
THEOREM SomebodyServes == Prompt => (Spec => []NotBothPassive)
<1> SUFFICES ASSUME Prompt PROVE Spec => []NotBothPassive
  OBVIOUS
<1>1. Init => (OnlyShutDown => PassiveAlone)
  BY ExchangeInit
<1>2. /\ TypeOK /\ Powered /\ (OnlyShutDown => Exchange)
      /\ (OnlyShutDown => PassiveAlone) /\ [Next]_vars
      => (OnlyShutDown => PassiveAlone)'
  <2> SUFFICES ASSUME TypeOK, Powered, OnlyShutDown => Exchange,
                      OnlyShutDown => PassiveAlone, [Next]_vars, OnlyShutDown'
               PROVE  PassiveAlone'
    OBVIOUS
  <2>1. Exchange /\ PassiveAlone /\ ShutdownStep
    BY ShutdownSteps DEF Exchange, RolesOfShutdown
  <2> QED BY <2>1, PassiveAloneKept DEF Exchange
<1>3. (OnlyShutDown => PassiveAlone) => NotBothPassive
  BY DEF PassiveAlone, PassiveRecord, NotBothPassive, MustWait, Node
<1> QED BY <1>1, <1>2, <1>3, TypeCorrect, ExchangeHolds, PTL DEF Spec

\* Nor do both record "active", as long as no constraint is lifted after a
\* server has looked at it: the records of two shutdowns tell the servers apart.
THEOREM RecordsTellApart ==
  Prompt /\ "lift" \notin Env => (Spec => []OneServes)
<1> SUFFICES ASSUME Prompt, "lift" \notin Env PROVE Spec => []OneServes
  OBVIOUS
<1>1. Init => (OnlyShutDown => ActiveAlone)
  BY ExchangeInit
<1>2. /\ TypeOK /\ Powered /\ (OnlyShutDown => Exchange)
      /\ (OnlyShutDown => ActiveAlone) /\ [Next]_vars
      => (OnlyShutDown => ActiveAlone)'
  <2> SUFFICES ASSUME TypeOK, Powered, OnlyShutDown => Exchange,
                      OnlyShutDown => ActiveAlone, [Next]_vars, OnlyShutDown'
               PROVE  ActiveAlone'
    OBVIOUS
  <2>1. Exchange /\ ActiveAlone /\ ShutdownStep
    BY ShutdownSteps DEF Exchange, RolesOfShutdown
  <2> QED BY <2>1, ActiveAloneKept DEF Exchange
<1>3. (OnlyShutDown => ActiveAlone) => NotBothActive
  BY DEF ActiveAlone, ActiveRecord, NotBothActive, Node
<1>4. Spec => []NotBothActive
  BY <1>1, <1>2, <1>3, TypeCorrect, ExchangeHolds, PTL DEF Spec
<1>5. Spec => []NotBothPassive
  BY SomebodyServes
<1>6. NotBothActive /\ NotBothPassive => OneServes
  BY DEF OneServes
<1> QED BY <1>4, <1>5, <1>6, PTL

(***************************************************************************)
(* One shutdown or boot at a time, and nothing fails: no power loss, no    *)
(* battery, no failed promotion, no constraint lifted.  Then the record    *)
(* that makes a server wait at its next boot is a baton: whoever is out of *)
(* service, one server waits and the other one knows it, so that the one   *)
(* with old data never serves before it has met the one with the new data. *)
(* A server that a constraint keeps from being active cannot serve at all. *)
(***************************************************************************)
Calm ==
  /\ Serial /\ MaxCrashes = 0
  /\ Env \cap {"ups", "fail", "lift"} = {}

Booting == {"join", "role", "prepare", "forget", "forget_passive", "forget_ups",
            "discard", "online"}

\* Nothing fails: without crashes, batteries and failed promotions a server that
\* boots or has begun to leave has no role to take, and one serves at most.
NoFailure ==
  /\ failed = {} /\ crashes = 0
  /\ ~(role[node0] \in Taking /\ role[node1] \in Taking)
  /\ \A n \in Node :
       /\ "ups_safe" \notin disk[n]
       /\ tmp[n] \subseteq {"discard", "online_wait"}
       /\ ~Carried("PASINUPS", n)
       /\ n \in up <=> role[n] # "Unknown"
       /\ n \in on /\ n \notin up <=> start[n] = "join"
       /\ start[n] \in Booting \cup {"poweroff"}
            => n \in standby /\ role[n] \notin Taking
       /\ start[n] = "poweroff" => stop[n] # "none"
       /\ stop[n] # "none" => start[n] \in {"none", "poweroff"}
       /\ n \in standby /\ role[n] \in Taking
            => stop[n] \in {"demote", "unload"}
       /\ n \in on /\ "demote_error" \in disk[n]
            => stop[n] \in {"demote", "unload"}

\* A server that is kept from being active is alone in that and lacks what the
\* other one writes.
BannedServesNot ==
  \A n \in banned :
    Other(n) \notin banned /\ role[n] \notin Taking /\ missing \subseteq banned

\* Before the wait of its next boot is over; a record that makes it wait, of a
\* server that has not been told to take the services.
Out(n) == n \notin on \/ start[n] \in {"join", "role", "poweroff"}

Waits(n) ==
  /\ MustWait(n) /\ ~Told(n)
  /\ Out(n) \/ stop[n] \in Leaving

\* A NODE__ON that has not yet taken the flag back.
Pending(n) == Carried("NODE__ON", n) \/ (n \in on /\ "online_wait" \in tmp[n])

\* A member that has booted, but for the last step, and does not stop.
Settles(n) == n \in up /\ start[n] \in {"none", "settle"} /\ stop[n] = "none"

OneWaits == ~(Waits(node0) /\ Waits(node1))

SomeoneWaits == \A n \in Node : Out(n) => Waits(n) \/ Waits(Other(n))

\* Who lacks writes waits, and meets the other one before it can serve.
LackingWaits == (\A n \in missing : Waits(n)) /\ (missing # {} => up # Node)

OnlineSettled ==
  \A n \in Node : Pending(n) =>
    Other(n) \in up /\ start[Other(n)] = "none" /\ stop[Other(n)] = "none"

\* A server that waits has told the other one, which keeps the flag.
WaitingHeard ==
  \A n \in Node : Waits(n) =>
    \/ "remote_shutdown" \in disk[Other(n)]
    \/ Carried("TSDFLAG", Other(n)) /\ Settles(Other(n))

\* A flag is there because the other server waits, or until it is back.
FlagHasReason ==
  \A n \in Node : Told(n) =>
    \/ Waits(Other(n))
    \/ Pending(n)
    \/ Other(n) \in on /\ (start[Other(n)] # "none" \/ stop[Other(n)] # "none")

RecordUnheard ==
  \A n \in Node : MustWait(n) /\ (Out(n) \/ stop[n] \in Leaving) => ~Told(n)

\* A server whose boot has passed the wait is the one that others wait for, or
\* has found the other one at work.
BootMeets ==
  \A n \in Node : start[n] \in Booting \ {"join", "role"} /\ ~Waits(Other(n)) =>
    Settles(Other(n)) /\ ~Told(n)

\* A server decides as the last one, as one that gave up its wait, or as the
\* first one, which has a server at work beside it.
StopMeets ==
  \A n \in Node : n \in on /\ stop[n] \in {"prepare", "decide"} \cup Sending =>
    \/ /\ Waits(Other(n)) /\ "remote_shutdown" \in disk[n]
       /\ stop[n] \notin Sending
    \/ start[n] = "poweroff" /\ Waits(n)
    \/ /\ ~Waits(Other(n)) /\ Settles(Other(n))
       /\ ~Told(n) /\ ~ActiveRecord(n) /\ ~PassiveRecord(n)

NoneHolds == \A n \in Node : stop[n] # "wait_remote"

LeavingWaits ==
  \A n \in Node :
    n \in on /\ stop[n] \in Leaving => Waits(Other(n)) \/ Waits(n)

\* The first one leaves the services to a server at work.
Successor ==
  \A n \in Node :
    Waits(n) /\ stop[n] \in Leaving /\ start[n] = "none" => Settles(Other(n))

GivesUp == \A n \in Node : start[n] = "poweroff" => Waits(n)

FlagOfShutdown ==
  \A n \in Node :
    Carried("TSDFLAG", n) => Other(n) \notin on \/ stop[Other(n)] # "none"

FlagArrives ==
  \A n \in Node :
    IF stop[n] \in Sending
    THEN sent[n] > 0 => Told(Other(n)) \/ start[n] = "poweroff"
    ELSE sent[n] = 0

\* While one server boots or stops, the other one stops only out of its boot.
OneMoves ==
  \A n \in Node :
    stop[Other(n)] # "none" /\ n \in on
      /\ (start[n] # "none" \/ stop[n] # "none")
      => Other(n) \in standby /\ role[Other(n)] \notin Taking

\* Who waits, who knows it, and who moves.
Turns ==
  /\ OneWaits /\ SomeoneWaits /\ LackingWaits /\ OnlineSettled /\ WaitingHeard
  /\ FlagHasReason /\ RecordUnheard /\ BootMeets /\ StopMeets /\ NoneHolds
  /\ LeavingWaits /\ Successor /\ GivesUp /\ FlagOfShutdown /\ FlagArrives
  /\ OneMoves

\* The steps that remain, but for a constraint that is set.
CalmStep ==
  \/ \E n \in Node :
       \/ PowerOn(n) \/ Join(n) \/ CheckRole(n) \/ WaitTimeout(n)
       \/ ProcessGone(n) \/ WaitPrepare(n) \/ Forget(n) \/ Discard(n)
       \/ Online(n) \/ Settle(n) \/ PrepareOver(n) \/ PrepareFailed(n)
       \/ StandbyLocal(n) \/ StandbyDone(n) \/ Decide(n) \/ RemoteGone(n)
       \/ SendFlag(n) \/ FlagSent(n) \/ Unload(n) \/ ForcePowerOff(n)
       \/ OperatorStop(n) \/ Promote(n) \/ PromoteDone(n) \/ Demote(n)
       \/ DemoteFailed(n) \/ Write(n) \/ NodeOnlineReady(n)
  \/ \E m \in net : HandleShutdownFlag(m) \/ HandleNodeOnline(m)
  \/ UNCHANGED vars

LEMMA NoFailureKept ==
  ASSUME TypeOK, Powered, Calm, NoFailure, [Next]_vars
  PROVE  NoFailure'
<1> USE NodeAssumption, BoundAssumption DEF Calm, TypeOK, Powered, Role,
     StopPc, StartPc, Message, DiskFlag, Booting, Taking, Node, Other, Touch,
     Remove, Goto, Send, RemoteRole, BeginStop, EnterSafemode, Off, StackDown,
     Record, Received, files, crm, env, counts, NoFailure, Carried
<1>1. CASE \E n \in Node :
          \/ PowerOn(n) \/ Join(n) \/ CheckRole(n) \/ WaitTimeout(n)
          \/ WaitPrepare(n) \/ Forget(n) \/ Discard(n) \/ Online(n)
          \/ Settle(n)
  BY <1>1 DEF PowerOn, Join, Slept, CheckRole, WaitIsOver, MustWait,
     WaitTimeout, WaitPrepare, Forget, ForgetFlag, Discard, Online, Settle
<1>2. CASE \E n \in Node :
          \/ PrepareOver(n) \/ PrepareFailed(n) \/ Decide(n) \/ SendFlag(n)
          \/ FlagSent(n) \/ RemoteGone(n) \/ StandbyLocal(n) \/ StandbyDone(n)
          \/ Unload(n)
  BY <1>2 DEF PrepareOver, PrepareFailed, Decide, DecideActive, DecidePassive,
     SendFlag, FlagSent, SeesFlagAfterSending, Slept, Hurried, RemoteGone,
     StandbyLocal, StandbyDone, Unload, Halted
<1>3. CASE \E n \in Node :
          \/ NodeOnlineReady(n) \/ EnterUpsSafemode(n) \/ ActiveDown(n)
          \/ ActiveBack(n)
  BY <1>3 DEF NodeOnlineReady, EnterUpsSafemode, ActiveDown, ActiveBack
<1>4. CASE \E n \in Node :
          \/ Crash(n) \/ ForcePowerOff(n) \/ ProcessGone(n) \/ OperatorStop(n)
          \/ UpsBattery(n)
  BY <1>4 DEF Crash, ForcePowerOff, ProcessGone, OperatorStop, MayStop,
     Settled, UpsBattery
<1>5. CASE \E n \in Node :
          \/ Promote(n) \/ PromoteDone(n) \/ Demote(n) \/ PromoteFailed(n)
          \/ DemoteFailed(n) \/ Constrain(n) \/ Unconstrain(n) \/ Write(n)
  BY <1>5 DEF Promote, PromoteDone, Slept, Hurried, Demote, PromoteFailed,
     DemoteFailed, Constrain, Unconstrain, Write
<1>6. CASE \E m \in net :
          \/ HandleShutdownFlag(m) \/ HandleNodeOnline(m) \/ HandleEnterUps(m)
  BY <1>6 DEF HandleShutdownFlag, HandleNodeOnline, HandleEnterUps
<1>7. CASE UNCHANGED vars
  BY <1>7 DEF vars
<1> QED
  BY <1>1, <1>2, <1>3, <1>4, <1>5, <1>6, <1>7
  DEF Next, StartStep, StopStep, DelayedHandler, Pacemaker, Environment, Handler

LEMMA BannedServesNotKept ==
  ASSUME TypeOK, Powered, Calm, NoFailure, BannedServesNot,
         banned = {} => LackingWaits, [Next]_vars
  PROVE  BannedServesNot'
<1> USE NodeAssumption, BoundAssumption DEF TypeOK, Powered, Role, StopPc,
     StartPc, Message, DiskFlag, Booting, Taking, Node, Other, Touch, Remove,
     Goto, Send, RemoteRole, BeginStop, EnterSafemode, Off, StackDown, Record,
     Received, files, crm, env, counts, Calm, NoFailure, Carried,
     BannedServesNot
<1>1. CASE \E n \in Node :
          \/ PowerOn(n) \/ Join(n) \/ CheckRole(n) \/ WaitTimeout(n)
          \/ WaitPrepare(n) \/ Forget(n) \/ Discard(n) \/ Online(n)
          \/ Settle(n)
  BY <1>1 DEF PowerOn, Join, Slept, CheckRole, WaitIsOver, MustWait,
     WaitTimeout, WaitPrepare, Forget, ForgetFlag, Discard, Online, Settle
<1>2. CASE \E n \in Node :
          \/ PrepareOver(n) \/ PrepareFailed(n) \/ Decide(n) \/ SendFlag(n)
          \/ FlagSent(n) \/ RemoteGone(n) \/ StandbyLocal(n) \/ StandbyDone(n)
          \/ Unload(n)
  BY <1>2 DEF PrepareOver, PrepareFailed, Decide, DecideActive, DecidePassive,
     SendFlag, FlagSent, SeesFlagAfterSending, Slept, Hurried, RemoteGone,
     StandbyLocal, StandbyDone, Unload, Halted
<1>3. CASE \E n \in Node :
          \/ NodeOnlineReady(n) \/ EnterUpsSafemode(n) \/ ActiveDown(n)
          \/ ActiveBack(n)
  BY <1>3 DEF NodeOnlineReady, EnterUpsSafemode, ActiveDown, ActiveBack
<1>4. CASE \E n \in Node :
          \/ Crash(n) \/ ForcePowerOff(n) \/ ProcessGone(n) \/ OperatorStop(n)
          \/ UpsBattery(n)
  BY <1>4 DEF Crash, ForcePowerOff, ProcessGone, OperatorStop, MayStop,
     Settled, UpsBattery
<1>5. CASE \E n \in Node :
          \/ Promote(n) \/ PromoteDone(n) \/ Demote(n) \/ PromoteFailed(n)
          \/ DemoteFailed(n) \/ Unconstrain(n)
  BY <1>5 DEF Promote, PromoteDone, Slept, Hurried, Demote, PromoteFailed,
     DemoteFailed, Unconstrain
<1>6. CASE \E n \in Node : Constrain(n)
  BY <1>6 DEF Constrain, LackingWaits
<1>7. CASE \E n \in Node : Write(n)
  BY <1>7 DEF Write
<1>8. CASE \E m \in net :
          \/ HandleShutdownFlag(m) \/ HandleNodeOnline(m) \/ HandleEnterUps(m)
  BY <1>8 DEF HandleShutdownFlag, HandleNodeOnline, HandleEnterUps
<1>9. CASE UNCHANGED vars
  BY <1>9 DEF vars
<1> QED
  BY <1>1, <1>2, <1>3, <1>4, <1>5, <1>6, <1>7, <1>8, <1>9
  DEF Next, StartStep, StopStep, DelayedHandler, Pacemaker, Environment, Handler

LEMMA OneWaitsKept ==
  ASSUME TypeOK, Powered, Calm, NoFailure, banned = {}, OneWaits,
         WaitingHeard, OnlineSettled, CalmStep
  PROVE  OneWaits'
<1> USE NodeAssumption, BoundAssumption DEF Calm, TypeOK, Powered, NoFailure,
     Carried, Role, StopPc, StartPc, Message, DiskFlag, Booting, Sending,
     Leaving, Taking, Node, Other, Touch, Remove, Goto, Send, RemoteRole,
     BeginStop, EnterSafemode, Off, StackDown, Record, Received, files, crm,
     env, counts, OneWaits, Waits, MustWait, Told, Out
<1>1. CASE \E n \in Node :
          \/ PowerOn(n) \/ Join(n) \/ CheckRole(n) \/ WaitTimeout(n)
          \/ ProcessGone(n) \/ WaitPrepare(n) \/ Forget(n) \/ Discard(n)
          \/ Online(n) \/ Settle(n)
  BY <1>1 DEF PowerOn, Join, Slept, CheckRole, WaitIsOver, MustWait,
     WaitTimeout, ProcessGone, WaitPrepare, Forget, ForgetFlag, Discard, Online,
     Settle
<1>2. CASE \E n \in Node :
          \/ PrepareOver(n) \/ PrepareFailed(n) \/ StandbyLocal(n)
          \/ StandbyDone(n) \/ Decide(n) \/ RemoteGone(n) \/ SendFlag(n)
          \/ OperatorStop(n)
  BY <1>2 DEF PrepareOver, PrepareFailed, StandbyLocal, StandbyDone, Decide,
     DecideActive, DecidePassive, RemoteGone, SendFlag, OperatorStop, MayStop,
     Settled
<1>3. CASE \E n \in Node : FlagSent(n) \/ Unload(n) \/ ForcePowerOff(n)
  BY <1>3 DEF FlagSent, SeesFlagAfterSending, Slept, Hurried, Unload, Halted,
     ForcePowerOff, WaitingHeard, Settles
<1>4. CASE \E n \in Node :
          \/ Promote(n) \/ PromoteDone(n) \/ Demote(n) \/ DemoteFailed(n)
          \/ Write(n)
  BY <1>4 DEF Promote, PromoteDone, Slept, Hurried, Demote, DemoteFailed,
     Write
<1>5. CASE \E n \in Node : NodeOnlineReady(n)
  BY <1>5 DEF NodeOnlineReady, OnlineSettled, Pending
<1>6. CASE \E m \in net : HandleShutdownFlag(m)
  BY <1>6 DEF HandleShutdownFlag
<1>7. CASE \E m \in net : HandleNodeOnline(m)
  BY <1>7 DEF HandleNodeOnline, OnlineSettled, Pending
<1>8. CASE UNCHANGED vars
  BY <1>8 DEF vars
<1> QED BY ONLY CalmStep, <1>1, <1>2, <1>3, <1>4, <1>5, <1>6, <1>7, <1>8 DEF CalmStep

LEMMA SomeoneWaitsKept ==
  ASSUME TypeOK, Powered, Calm, NoFailure, banned = {}, SomeoneWaits,
         NoneHolds, StopMeets, LeavingWaits, CalmStep
  PROVE  SomeoneWaits'
<1> USE NodeAssumption, BoundAssumption DEF Calm, TypeOK, Powered, NoFailure,
     Carried, Role, StopPc, StartPc, Message, DiskFlag, Booting, Sending,
     Leaving, Taking, Node, Other, Touch, Remove, Goto, Send, RemoteRole,
     BeginStop, EnterSafemode, Off, StackDown, Record, Received, files, crm,
     env, counts, SomeoneWaits, Waits, MustWait, Told, Out
<1>1. CASE \E n \in Node :
          \/ PowerOn(n) \/ Join(n) \/ CheckRole(n) \/ WaitTimeout(n)
          \/ ProcessGone(n) \/ WaitPrepare(n) \/ Forget(n) \/ Discard(n)
          \/ Online(n) \/ Settle(n)
  BY <1>1 DEF PowerOn, Join, Slept, CheckRole, WaitIsOver, MustWait,
     WaitTimeout, ProcessGone, WaitPrepare, Forget, ForgetFlag, Discard, Online,
     Settle
<1>2. CASE \E n \in Node :
          \/ PrepareOver(n) \/ PrepareFailed(n) \/ StandbyLocal(n)
          \/ StandbyDone(n) \/ Decide(n) \/ FlagSent(n) \/ ForcePowerOff(n)
          \/ OperatorStop(n)
  BY <1>2 DEF PrepareOver, PrepareFailed, StandbyLocal, StandbyDone, Decide,
     DecideActive, DecidePassive, FlagSent, SeesFlagAfterSending, Slept,
     Hurried, ForcePowerOff, OperatorStop, MayStop, Settled
<1>3. CASE \E n \in Node : RemoteGone(n)
  BY <1>3 DEF RemoteGone, NoneHolds
<1>4. CASE \E n \in Node : SendFlag(n)
  BY <1>4 DEF SendFlag, StopMeets, Settles, ActiveRecord, PassiveRecord
<1>5. CASE \E n \in Node : Unload(n)
  BY <1>5 DEF Unload, Halted, LeavingWaits
<1>6. CASE \E n \in Node :
          \/ Promote(n) \/ PromoteDone(n) \/ Demote(n) \/ DemoteFailed(n)
          \/ Write(n) \/ NodeOnlineReady(n)
  BY <1>6 DEF Promote, PromoteDone, Slept, Hurried, Demote, DemoteFailed,
     Write, NodeOnlineReady
<1>7. CASE \E m \in net : HandleShutdownFlag(m) \/ HandleNodeOnline(m)
  BY <1>7 DEF HandleShutdownFlag, HandleNodeOnline
<1>8. CASE UNCHANGED vars
  BY <1>8 DEF vars
<1> QED BY ONLY CalmStep, <1>1, <1>2, <1>3, <1>4, <1>5, <1>6, <1>7, <1>8 DEF CalmStep

LEMMA LackingWaitsKept ==
  ASSUME TypeOK, Powered, Calm, NoFailure, banned = {}, LackingWaits,
         OneWaits, NoneHolds, SomeoneWaits, Successor, CalmStep
  PROVE  LackingWaits'
<1> USE NodeAssumption, BoundAssumption DEF Calm, TypeOK, Powered, NoFailure,
     Carried, Role, StopPc, StartPc, Message, DiskFlag, Booting, Sending,
     Leaving, Taking, Node, Other, Touch, Remove, Goto, Send, RemoteRole,
     BeginStop, EnterSafemode, Off, StackDown, Record, Received, files, crm,
     env, counts, LackingWaits, Waits, MustWait, Told, Out
<1>1. CASE \E n \in Node :
          \/ PowerOn(n) \/ CheckRole(n) \/ WaitTimeout(n) \/ ProcessGone(n)
          \/ WaitPrepare(n) \/ Forget(n) \/ Discard(n) \/ Online(n)
          \/ Settle(n)
  BY <1>1 DEF PowerOn, CheckRole, WaitIsOver, MustWait, WaitTimeout,
     ProcessGone, WaitPrepare, Forget, ForgetFlag, Discard, Online, Settle
<1>2. CASE \E n \in Node : Join(n)
  BY <1>2 DEF Join, Slept, OneWaits
<1>3. CASE \E n \in Node :
          \/ PrepareOver(n) \/ PrepareFailed(n) \/ StandbyLocal(n)
          \/ StandbyDone(n) \/ Decide(n) \/ SendFlag(n) \/ FlagSent(n)
          \/ Unload(n) \/ ForcePowerOff(n) \/ OperatorStop(n)
  BY <1>3 DEF PrepareOver, PrepareFailed, StandbyLocal, StandbyDone, Decide,
     DecideActive, DecidePassive, SendFlag, FlagSent, SeesFlagAfterSending,
     Slept, Hurried, Unload, Halted, ForcePowerOff, OperatorStop, MayStop,
     Settled
<1>4. CASE \E n \in Node : RemoteGone(n)
  BY <1>4 DEF RemoteGone, NoneHolds
<1>5. CASE \E n \in Node :
          \/ Promote(n) \/ PromoteDone(n) \/ Demote(n) \/ DemoteFailed(n)
          \/ NodeOnlineReady(n)
  BY <1>5 DEF Promote, PromoteDone, Slept, Hurried, Demote, DemoteFailed,
     NodeOnlineReady
<1>6. CASE \E n \in Node : Write(n)
  BY <1>6 DEF Write, SomeoneWaits, Successor, Settles
<1>7. CASE \E m \in net : HandleShutdownFlag(m) \/ HandleNodeOnline(m)
  BY <1>7 DEF HandleShutdownFlag, HandleNodeOnline
<1>8. CASE UNCHANGED vars
  BY <1>8 DEF vars
<1> QED BY ONLY CalmStep, <1>1, <1>2, <1>3, <1>4, <1>5, <1>6, <1>7, <1>8 DEF CalmStep

LEMMA OnlineSettledKept ==
  ASSUME TypeOK, Powered, Calm, NoFailure, banned = {}, OnlineSettled,
         CalmStep
  PROVE  OnlineSettled'
<1> USE NodeAssumption, BoundAssumption DEF Calm, TypeOK, Powered, NoFailure,
     Carried, Role, StopPc, StartPc, Message, DiskFlag, Booting, Sending,
     Leaving, Taking, Node, Other, Touch, Remove, Goto, Send, RemoteRole,
     BeginStop, EnterSafemode, Off, StackDown, Record, Received, files, crm,
     env, counts, OnlineSettled, Pending
<1>1. CASE \E n \in Node :
          \/ PowerOn(n) \/ Join(n) \/ CheckRole(n) \/ WaitTimeout(n)
          \/ ProcessGone(n) \/ WaitPrepare(n) \/ Forget(n) \/ Discard(n)
          \/ Online(n) \/ Settle(n)
  BY <1>1 DEF PowerOn, Join, Slept, CheckRole, WaitIsOver, MustWait,
     WaitTimeout, ProcessGone, WaitPrepare, Forget, ForgetFlag, Discard, Online,
     Settle
<1>2. CASE \E n \in Node :
          \/ PrepareOver(n) \/ PrepareFailed(n) \/ StandbyLocal(n)
          \/ StandbyDone(n) \/ Decide(n) \/ RemoteGone(n) \/ SendFlag(n)
          \/ FlagSent(n) \/ Unload(n) \/ ForcePowerOff(n) \/ OperatorStop(n)
  BY <1>2 DEF PrepareOver, PrepareFailed, StandbyLocal, StandbyDone, Decide,
     DecideActive, DecidePassive, RemoteGone, SendFlag, FlagSent,
     SeesFlagAfterSending, Slept, Hurried, Unload, Halted, ForcePowerOff,
     OperatorStop, MayStop, Settled
<1>3. CASE \E n \in Node :
          \/ Promote(n) \/ PromoteDone(n) \/ Demote(n) \/ DemoteFailed(n)
          \/ Write(n) \/ NodeOnlineReady(n)
  BY <1>3 DEF Promote, PromoteDone, Slept, Hurried, Demote, DemoteFailed,
     Write, NodeOnlineReady
<1>4. CASE \E m \in net : HandleShutdownFlag(m) \/ HandleNodeOnline(m)
  BY <1>4 DEF HandleShutdownFlag, HandleNodeOnline
<1>5. CASE UNCHANGED vars
  BY <1>5 DEF vars
<1> QED BY ONLY CalmStep, <1>1, <1>2, <1>3, <1>4, <1>5 DEF CalmStep

LEMMA WaitingHeardKept ==
  ASSUME TypeOK, Powered, Calm, NoFailure, banned = {}, WaitingHeard,
         StopMeets, GivesUp, FlagArrives, RecordUnheard, OnlineSettled,
         CalmStep
  PROVE  WaitingHeard'
<1> USE NodeAssumption, BoundAssumption DEF Calm, TypeOK, Powered, NoFailure,
     Carried, Role, StopPc, StartPc, Message, DiskFlag, Booting, Sending,
     Leaving, Taking, Node, Other, Touch, Remove, Goto, Send, RemoteRole,
     BeginStop, EnterSafemode, Off, StackDown, Record, Received, files, crm,
     env, counts, WaitingHeard, Waits, MustWait, Told, Out, Settles
<1>1. CASE \E n \in Node :
          \/ PowerOn(n) \/ Join(n) \/ CheckRole(n) \/ WaitTimeout(n)
          \/ ProcessGone(n) \/ WaitPrepare(n) \/ Forget(n) \/ Discard(n)
          \/ Online(n) \/ Settle(n)
  BY <1>1 DEF PowerOn, Join, Slept, CheckRole, WaitIsOver, MustWait,
     WaitTimeout, ProcessGone, WaitPrepare, Forget, ForgetFlag, Discard, Online,
     Settle
<1>2. CASE \E n \in Node :
          \/ PrepareOver(n) \/ PrepareFailed(n) \/ StandbyLocal(n)
          \/ StandbyDone(n) \/ Decide(n) \/ RemoteGone(n) \/ SendFlag(n)
          \/ OperatorStop(n)
  BY <1>2 DEF PrepareOver, PrepareFailed, StandbyLocal, StandbyDone, Decide,
     DecideActive, DecidePassive, RemoteGone, SendFlag, OperatorStop, MayStop,
     Settled
<1>3. CASE \E n \in Node : FlagSent(n)
  BY <1>3 DEF FlagSent, SeesFlagAfterSending, Slept, Hurried, StopMeets,
     ActiveRecord, PassiveRecord, GivesUp, FlagArrives
<1>4. CASE \E n \in Node : Unload(n) \/ ForcePowerOff(n)
  BY <1>4 DEF Unload, Halted, ForcePowerOff, RecordUnheard
<1>5. CASE \E n \in Node :
          \/ Promote(n) \/ PromoteDone(n) \/ Demote(n) \/ DemoteFailed(n)
          \/ Write(n)
  BY <1>5 DEF Promote, PromoteDone, Slept, Hurried, Demote, DemoteFailed,
     Write
<1>6. CASE \E n \in Node : NodeOnlineReady(n)
  BY <1>6 DEF NodeOnlineReady, OnlineSettled, Pending, RecordUnheard
<1>7. CASE \E m \in net : HandleShutdownFlag(m)
  BY <1>7 DEF HandleShutdownFlag
<1>8. CASE \E m \in net : HandleNodeOnline(m)
  BY <1>8 DEF HandleNodeOnline, OnlineSettled, Pending, RecordUnheard
<1>9. CASE UNCHANGED vars
  BY <1>9 DEF vars
<1> QED BY ONLY CalmStep, <1>1, <1>2, <1>3, <1>4, <1>5, <1>6, <1>7, <1>8, <1>9
     DEF CalmStep

LEMMA FlagHasReasonKept ==
  ASSUME TypeOK, Powered, Calm, NoFailure, banned = {}, FlagHasReason,
         SomeoneWaits, LeavingWaits, GivesUp, OnlineSettled, FlagOfShutdown,
         CalmStep
  PROVE  FlagHasReason'
<1> USE NodeAssumption, BoundAssumption DEF Calm, TypeOK, Powered, NoFailure,
     Carried, Role, StopPc, StartPc, Message, DiskFlag, Booting, Sending,
     Leaving, Taking, Node, Other, Touch, Remove, Goto, Send, RemoteRole,
     BeginStop, EnterSafemode, Off, StackDown, Record, Received, files, crm,
     env, counts, FlagHasReason, Waits, MustWait, Told, Out, Pending
<1>1. CASE \E n \in Node :
          \/ PowerOn(n) \/ Join(n) \/ CheckRole(n) \/ WaitTimeout(n)
          \/ ProcessGone(n) \/ WaitPrepare(n) \/ Forget(n) \/ Discard(n)
          \/ Online(n)
  BY <1>1 DEF PowerOn, Join, Slept, CheckRole, WaitIsOver, MustWait,
     WaitTimeout, ProcessGone, WaitPrepare, Forget, ForgetFlag, Discard, Online
<1>2. CASE \E n \in Node : Settle(n)
  BY <1>2 DEF Settle, SomeoneWaits
<1>3. CASE \E n \in Node :
          \/ PrepareOver(n) \/ PrepareFailed(n) \/ StandbyLocal(n)
          \/ StandbyDone(n) \/ Decide(n) \/ RemoteGone(n) \/ SendFlag(n)
          \/ FlagSent(n) \/ OperatorStop(n)
  BY <1>3 DEF PrepareOver, PrepareFailed, StandbyLocal, StandbyDone, Decide,
     DecideActive, DecidePassive, RemoteGone, SendFlag, FlagSent,
     SeesFlagAfterSending, Slept, Hurried, OperatorStop, MayStop, Settled
<1>4. CASE \E n \in Node : Unload(n)
  BY <1>4 DEF Unload, Halted, LeavingWaits
<1>5. CASE \E n \in Node : ForcePowerOff(n)
  BY <1>5 DEF ForcePowerOff, GivesUp
<1>6. CASE \E n \in Node :
          \/ Promote(n) \/ PromoteDone(n) \/ Demote(n) \/ DemoteFailed(n)
          \/ Write(n)
  BY <1>6 DEF Promote, PromoteDone, Slept, Hurried, Demote, DemoteFailed,
     Write
<1>7. CASE \E n \in Node : NodeOnlineReady(n)
  BY <1>7 DEF NodeOnlineReady, OnlineSettled, FlagOfShutdown
<1>8. CASE \E m \in net : HandleShutdownFlag(m)
  BY <1>8 DEF HandleShutdownFlag
<1>9. CASE \E m \in net : HandleNodeOnline(m)
  BY <1>9 DEF HandleNodeOnline, OnlineSettled, FlagOfShutdown
<1>10. CASE UNCHANGED vars
  BY <1>10 DEF vars
<1> QED BY ONLY CalmStep, <1>1, <1>2, <1>3, <1>4, <1>5, <1>6, <1>7, <1>8, <1>9, <1>10
     DEF CalmStep

LEMMA RecordUnheardKept ==
  ASSUME TypeOK, Powered, Calm, NoFailure, banned = {}, RecordUnheard,
         OneWaits, StopMeets, CalmStep
  PROVE  RecordUnheard'
<1> USE NodeAssumption, BoundAssumption DEF Calm, TypeOK, Powered, NoFailure,
     Carried, Role, StopPc, StartPc, Message, DiskFlag, Booting, Sending,
     Leaving, Taking, Node, Other, Touch, Remove, Goto, Send, RemoteRole,
     BeginStop, EnterSafemode, Off, StackDown, Record, Received, files, crm,
     env, counts, RecordUnheard, Told, Out, MustWait
<1>1. CASE \E n \in Node :
          \/ PowerOn(n) \/ Join(n) \/ CheckRole(n) \/ WaitTimeout(n)
          \/ ProcessGone(n) \/ WaitPrepare(n) \/ Forget(n) \/ Discard(n)
          \/ Online(n) \/ Settle(n)
  BY <1>1 DEF PowerOn, Join, Slept, CheckRole, WaitIsOver, MustWait,
     WaitTimeout, ProcessGone, WaitPrepare, Forget, ForgetFlag, Discard, Online,
     Settle
<1>2. CASE \E n \in Node :
          \/ PrepareOver(n) \/ PrepareFailed(n) \/ StandbyLocal(n)
          \/ StandbyDone(n) \/ Decide(n) \/ RemoteGone(n) \/ Unload(n)
          \/ ForcePowerOff(n) \/ OperatorStop(n)
  BY <1>2 DEF PrepareOver, PrepareFailed, StandbyLocal, StandbyDone, Decide,
     DecideActive, DecidePassive, RemoteGone, Unload, Halted, ForcePowerOff,
     OperatorStop, MayStop, Settled
<1>3. CASE \E n \in Node : SendFlag(n)
  BY <1>3 DEF SendFlag, OneWaits, Waits, StopMeets, Settles, ActiveRecord,
     PassiveRecord
<1>4. CASE \E n \in Node : FlagSent(n)
  BY <1>4 DEF FlagSent, SeesFlagAfterSending, Slept, Hurried, StopMeets,
     Waits, Settles, ActiveRecord, PassiveRecord
<1>5. CASE \E n \in Node :
          \/ Promote(n) \/ PromoteDone(n) \/ Demote(n) \/ DemoteFailed(n)
          \/ Write(n) \/ NodeOnlineReady(n)
  BY <1>5 DEF Promote, PromoteDone, Slept, Hurried, Demote, DemoteFailed,
     Write, NodeOnlineReady
<1>6. CASE \E m \in net : HandleShutdownFlag(m) \/ HandleNodeOnline(m)
  BY <1>6 DEF HandleShutdownFlag, HandleNodeOnline
<1>7. CASE UNCHANGED vars
  BY <1>7 DEF vars
<1> QED BY ONLY CalmStep, <1>1, <1>2, <1>3, <1>4, <1>5, <1>6, <1>7 DEF CalmStep

LEMMA BootMeetsKept ==
  ASSUME TypeOK, Powered, Calm, NoFailure, banned = {}, BootMeets,
         SomeoneWaits, OneMoves, NoneHolds, CalmStep
  PROVE  BootMeets'
<1> USE NodeAssumption, BoundAssumption DEF Calm, TypeOK, Powered, NoFailure,
     Carried, Role, StopPc, StartPc, Message, DiskFlag, Booting, Sending,
     Leaving, Taking, Node, Other, Touch, Remove, Goto, Send, RemoteRole,
     BeginStop, EnterSafemode, Off, StackDown, Record, Received, files, crm,
     env, counts, BootMeets, Waits, MustWait, Told, Out, Settles
<1>1. CASE \E n \in Node :
          \/ PowerOn(n) \/ Join(n) \/ WaitTimeout(n) \/ ProcessGone(n)
          \/ WaitPrepare(n) \/ Forget(n) \/ Discard(n) \/ Online(n)
          \/ Settle(n)
  BY <1>1 DEF PowerOn, Join, Slept, WaitTimeout, WaitIsOver, MustWait,
     ProcessGone, WaitPrepare, Forget, ForgetFlag, Discard, Online, Settle
<1>2. CASE \E n \in Node : CheckRole(n)
  BY <1>2 DEF CheckRole, WaitIsOver, MustWait, SomeoneWaits, OneMoves
<1>3. CASE \E n \in Node :
          \/ PrepareOver(n) \/ PrepareFailed(n) \/ StandbyLocal(n)
          \/ StandbyDone(n) \/ Decide(n) \/ SendFlag(n) \/ FlagSent(n)
          \/ Unload(n) \/ ForcePowerOff(n) \/ OperatorStop(n)
  BY <1>3 DEF PrepareOver, PrepareFailed, StandbyLocal, StandbyDone, Decide,
     DecideActive, DecidePassive, SendFlag, FlagSent, SeesFlagAfterSending,
     Slept, Hurried, Unload, Halted, ForcePowerOff, OperatorStop, MayStop,
     Settled
<1>4. CASE \E n \in Node : RemoteGone(n)
  BY <1>4 DEF RemoteGone, NoneHolds
<1>5. CASE \E n \in Node :
          \/ Promote(n) \/ PromoteDone(n) \/ Demote(n) \/ DemoteFailed(n)
          \/ Write(n) \/ NodeOnlineReady(n)
  BY <1>5 DEF Promote, PromoteDone, Slept, Hurried, Demote, DemoteFailed,
     Write, NodeOnlineReady
<1>6. CASE \E m \in net : HandleShutdownFlag(m) \/ HandleNodeOnline(m)
  BY <1>6 DEF HandleShutdownFlag, HandleNodeOnline
<1>7. CASE UNCHANGED vars
  BY <1>7, SMTT(30) DEF vars
<1> QED BY ONLY CalmStep, <1>1, <1>2, <1>3, <1>4, <1>5, <1>6, <1>7 DEF CalmStep

LEMMA StopMeetsKept ==
  ASSUME TypeOK, Powered, Calm, NoFailure, banned = {}, StopMeets, OneMoves,
         RecordUnheard, NoRecordWhileRunning, WaitingHeard, BootMeets,
         NoneHolds, OneWaits, SomeoneWaits, FlagHasReason, OnlineSettled,
         CalmStep
  PROVE  StopMeets'
<1> USE NodeAssumption, BoundAssumption DEF Calm, TypeOK, Powered, NoFailure,
     Carried, Role, StopPc, StartPc, Message, DiskFlag, Booting, Sending,
     Leaving, Taking, Node, Other, Touch, Remove, Goto, Send, RemoteRole,
     BeginStop, EnterSafemode, Off, StackDown, Record, Received, files, crm,
     env, counts, StopMeets, Waits, MustWait, Told, Out, Settles,
     ActiveRecord, PassiveRecord
<1>1. CASE \E n \in Node :
          \/ PowerOn(n) \/ Join(n) \/ WaitPrepare(n) \/ Forget(n)
          \/ Discard(n) \/ Online(n) \/ Settle(n)
  BY <1>1 DEF PowerOn, Join, Slept, WaitPrepare, Forget, ForgetFlag, Discard,
     Online, Settle
<1>2. CASE \E n \in Node : CheckRole(n)
  BY <1>2 DEF CheckRole, WaitIsOver, MustWait, OneMoves
<1>3. CASE \E n \in Node : WaitTimeout(n)
  BY <1>3 DEF WaitTimeout, WaitIsOver, MustWait, RecordUnheard
<1>4. CASE \E n \in Node : ProcessGone(n)
  BY <1>4 DEF ProcessGone, NoRecordWhileRunning, PrevRole, WaitingHeard,
     BootMeets
<1>5. CASE \E n \in Node :
          \/ PrepareOver(n) \/ PrepareFailed(n) \/ StandbyLocal(n)
          \/ StandbyDone(n) \/ Decide(n) \/ FlagSent(n) \/ Unload(n)
          \/ ForcePowerOff(n)
  BY <1>5 DEF PrepareOver, PrepareFailed, StandbyLocal, StandbyDone, Decide,
     DecideActive, DecidePassive, FlagSent, SeesFlagAfterSending, Slept,
     Hurried, Unload, Halted, ForcePowerOff
<1>6. CASE \E n \in Node : RemoteGone(n)
  BY <1>6 DEF RemoteGone, NoneHolds
<1>7. CASE \E n \in Node : SendFlag(n)
  BY <1>7 DEF SendFlag, OneWaits
<1>8. CASE \E n \in Node : OperatorStop(n)
  BY <1>8 DEF OperatorStop, MayStop, Settled, NoRecordWhileRunning, PrevRole,
     SomeoneWaits, WaitingHeard, FlagHasReason, Pending
<1>9. CASE \E n \in Node :
          \/ Promote(n) \/ PromoteDone(n) \/ Demote(n) \/ DemoteFailed(n)
          \/ Write(n)
  BY <1>9 DEF Promote, PromoteDone, Slept, Hurried, Demote, DemoteFailed,
     Write
<1>10. CASE \E n \in Node : NodeOnlineReady(n)
  BY <1>10 DEF NodeOnlineReady, OnlineSettled, Pending
<1>11. CASE \E m \in net : HandleShutdownFlag(m)
  BY <1>11 DEF HandleShutdownFlag
<1>12. CASE \E m \in net : HandleNodeOnline(m)
  BY <1>12 DEF HandleNodeOnline, OnlineSettled, Pending
<1>13. CASE UNCHANGED vars
  BY <1>13 DEF vars
<1> QED BY ONLY CalmStep, <1>1, <1>2, <1>3, <1>4, <1>5, <1>6, <1>7, <1>8, <1>9, <1>10, <1>11,
     <1>12, <1>13 DEF CalmStep

LEMMA NoneHoldsKept ==
  ASSUME TypeOK, Powered, Calm, NoFailure, banned = {}, NoneHolds, StopMeets,
         OneMoves, CalmStep
  PROVE  NoneHolds'
<1> USE NodeAssumption, BoundAssumption DEF Calm, TypeOK, Powered, NoFailure,
     Carried, Role, StopPc, StartPc, Message, DiskFlag, Booting, Sending,
     Leaving, Taking, Node, Other, Touch, Remove, Goto, Send, RemoteRole,
     BeginStop, EnterSafemode, Off, StackDown, Record, Received, files, crm,
     env, counts, NoneHolds
<1>1. CASE \E n \in Node :
          \/ PowerOn(n) \/ Join(n) \/ CheckRole(n) \/ WaitTimeout(n)
          \/ ProcessGone(n) \/ WaitPrepare(n) \/ Forget(n) \/ Discard(n)
          \/ Online(n) \/ Settle(n)
  BY <1>1 DEF PowerOn, Join, Slept, CheckRole, WaitIsOver, MustWait,
     WaitTimeout, ProcessGone, WaitPrepare, Forget, ForgetFlag, Discard, Online,
     Settle
<1>2. CASE \E n \in Node :
          \/ PrepareOver(n) \/ PrepareFailed(n) \/ StandbyLocal(n)
          \/ StandbyDone(n) \/ RemoteGone(n) \/ SendFlag(n) \/ Unload(n)
          \/ ForcePowerOff(n) \/ OperatorStop(n)
  BY <1>2 DEF PrepareOver, PrepareFailed, StandbyLocal, StandbyDone,
     RemoteGone, SendFlag, Unload, Halted, ForcePowerOff, OperatorStop,
     MayStop, Settled
<1>3. CASE \E n \in Node : Decide(n)
  BY <1>3 DEF Decide, DecideActive, DecidePassive, StopMeets, Waits, MustWait,
     Told, Out, Settles, ActiveRecord, PassiveRecord, OneMoves
<1>4. CASE \E n \in Node : FlagSent(n)
  BY <1>4 DEF FlagSent, SeesFlagAfterSending, Slept, Hurried, StopMeets,
     Waits, MustWait, Told, Out, Settles, ActiveRecord, PassiveRecord
<1>5. CASE \E n \in Node :
          \/ Promote(n) \/ PromoteDone(n) \/ Demote(n) \/ DemoteFailed(n)
          \/ Write(n) \/ NodeOnlineReady(n)
  BY <1>5 DEF Promote, PromoteDone, Slept, Hurried, Demote, DemoteFailed,
     Write, NodeOnlineReady
<1>6. CASE \E m \in net : HandleShutdownFlag(m) \/ HandleNodeOnline(m)
  BY <1>6 DEF HandleShutdownFlag, HandleNodeOnline
<1>7. CASE UNCHANGED vars
  BY <1>7 DEF vars
<1> QED BY ONLY CalmStep, <1>1, <1>2, <1>3, <1>4, <1>5, <1>6, <1>7 DEF CalmStep

LEMMA LeavingWaitsKept ==
  ASSUME TypeOK, Powered, Calm, NoFailure, banned = {}, LeavingWaits,
         OneMoves, StopMeets, NoneHolds, CalmStep
  PROVE  LeavingWaits'
<1> USE NodeAssumption, BoundAssumption DEF Calm, TypeOK, Powered, NoFailure,
     Carried, Role, StopPc, StartPc, Message, DiskFlag, Booting, Sending,
     Leaving, Taking, Node, Other, Touch, Remove, Goto, Send, RemoteRole,
     BeginStop, EnterSafemode, Off, StackDown, Record, Received, files, crm,
     env, counts, LeavingWaits, Waits, MustWait, Told, Out
<1>1. CASE \E n \in Node :
          \/ PowerOn(n) \/ Join(n) \/ WaitTimeout(n) \/ ProcessGone(n)
          \/ WaitPrepare(n) \/ Forget(n) \/ Discard(n) \/ Online(n)
          \/ Settle(n)
  BY <1>1 DEF PowerOn, Join, Slept, WaitTimeout, WaitIsOver, MustWait,
     ProcessGone, WaitPrepare, Forget, ForgetFlag, Discard, Online, Settle
<1>2. CASE \E n \in Node : CheckRole(n)
  BY <1>2 DEF CheckRole, WaitIsOver, MustWait, OneMoves
<1>3. CASE \E n \in Node :
          \/ PrepareOver(n) \/ PrepareFailed(n) \/ StandbyLocal(n)
          \/ StandbyDone(n) \/ Unload(n) \/ ForcePowerOff(n)
          \/ OperatorStop(n)
  BY <1>3 DEF PrepareOver, PrepareFailed, StandbyLocal, StandbyDone, Unload,
     Halted, ForcePowerOff, OperatorStop, MayStop, Settled
<1>4. CASE \E n \in Node : Decide(n) \/ SendFlag(n) \/ FlagSent(n)
  BY <1>4 DEF Decide, DecideActive, DecidePassive, SendFlag, FlagSent,
     SeesFlagAfterSending, Slept, Hurried, StopMeets, Settles, ActiveRecord,
     PassiveRecord
<1>5. CASE \E n \in Node : RemoteGone(n)
  BY <1>5 DEF RemoteGone, NoneHolds
<1>6. CASE \E n \in Node :
          \/ Promote(n) \/ PromoteDone(n) \/ Demote(n) \/ DemoteFailed(n)
          \/ Write(n) \/ NodeOnlineReady(n)
  BY <1>6 DEF Promote, PromoteDone, Slept, Hurried, Demote, DemoteFailed,
     Write, NodeOnlineReady
<1>7. CASE \E m \in net : HandleShutdownFlag(m) \/ HandleNodeOnline(m)
  BY <1>7 DEF HandleShutdownFlag, HandleNodeOnline
<1>8. CASE UNCHANGED vars
  BY <1>8 DEF vars
<1> QED BY ONLY CalmStep, <1>1, <1>2, <1>3, <1>4, <1>5, <1>6, <1>7, <1>8 DEF CalmStep

LEMMA SuccessorKept ==
  ASSUME TypeOK, Powered, Calm, NoFailure, banned = {}, Successor, StopMeets,
         OnlineSettled, CalmStep
  PROVE  Successor'
<1> USE NodeAssumption, BoundAssumption DEF Calm, TypeOK, Powered, NoFailure,
     Carried, Role, StopPc, StartPc, Message, DiskFlag, Booting, Sending,
     Leaving, Taking, Node, Other, Touch, Remove, Goto, Send, RemoteRole,
     BeginStop, EnterSafemode, Off, StackDown, Record, Received, files, crm,
     env, counts, Successor, Waits, MustWait, Told, Out, Settles
<1>1. CASE \E n \in Node :
          \/ PowerOn(n) \/ Join(n) \/ CheckRole(n) \/ WaitTimeout(n)
          \/ ProcessGone(n) \/ WaitPrepare(n) \/ Forget(n) \/ Discard(n)
          \/ Online(n) \/ Settle(n)
  BY <1>1 DEF PowerOn, Join, Slept, CheckRole, WaitIsOver, MustWait,
     WaitTimeout, ProcessGone, WaitPrepare, Forget, ForgetFlag, Discard, Online,
     Settle
<1>2. CASE \E n \in Node :
          \/ PrepareOver(n) \/ PrepareFailed(n) \/ StandbyLocal(n)
          \/ StandbyDone(n) \/ Decide(n) \/ RemoteGone(n) \/ SendFlag(n)
          \/ Unload(n) \/ ForcePowerOff(n) \/ OperatorStop(n)
  BY <1>2 DEF PrepareOver, PrepareFailed, StandbyLocal, StandbyDone, Decide,
     DecideActive, DecidePassive, RemoteGone, SendFlag, Unload, Halted,
     ForcePowerOff, OperatorStop, MayStop, Settled
<1>3. CASE \E n \in Node : FlagSent(n)
  BY <1>3 DEF FlagSent, SeesFlagAfterSending, Slept, Hurried, StopMeets,
     ActiveRecord, PassiveRecord
<1>4. CASE \E n \in Node :
          \/ Promote(n) \/ PromoteDone(n) \/ Demote(n) \/ DemoteFailed(n)
          \/ Write(n)
  BY <1>4 DEF Promote, PromoteDone, Slept, Hurried, Demote, DemoteFailed,
     Write
<1>5. CASE \E n \in Node : NodeOnlineReady(n)
  BY <1>5 DEF NodeOnlineReady, OnlineSettled, Pending
<1>6. CASE \E m \in net : HandleShutdownFlag(m)
  BY <1>6 DEF HandleShutdownFlag
<1>7. CASE \E m \in net : HandleNodeOnline(m)
  BY <1>7 DEF HandleNodeOnline, OnlineSettled, Pending
<1>8. CASE UNCHANGED vars
  BY <1>8 DEF vars
<1> QED BY ONLY CalmStep, <1>1, <1>2, <1>3, <1>4, <1>5, <1>6, <1>7, <1>8 DEF CalmStep

LEMMA GivesUpKept ==
  ASSUME TypeOK, Powered, Calm, NoFailure, banned = {}, GivesUp,
         RecordUnheard, NoneHolds, OneWaits, StopMeets, CalmStep
  PROVE  GivesUp'
<1> USE NodeAssumption, BoundAssumption DEF Calm, TypeOK, Powered, NoFailure,
     Carried, Role, StopPc, StartPc, Message, DiskFlag, Booting, Sending,
     Leaving, Taking, Node, Other, Touch, Remove, Goto, Send, RemoteRole,
     BeginStop, EnterSafemode, Off, StackDown, Record, Received, files, crm,
     env, counts, GivesUp, Waits, MustWait, Told, Out
<1>1. CASE \E n \in Node :
          \/ PowerOn(n) \/ Join(n) \/ CheckRole(n) \/ ProcessGone(n)
          \/ WaitPrepare(n) \/ Forget(n) \/ Discard(n) \/ Online(n)
          \/ Settle(n)
  BY <1>1 DEF PowerOn, Join, Slept, CheckRole, WaitIsOver, MustWait,
     ProcessGone, WaitPrepare, Forget, ForgetFlag, Discard, Online, Settle
<1>2. CASE \E n \in Node : WaitTimeout(n)
  BY <1>2 DEF WaitTimeout, WaitIsOver, MustWait, RecordUnheard
<1>3. CASE \E n \in Node :
          \/ PrepareOver(n) \/ PrepareFailed(n) \/ StandbyLocal(n)
          \/ StandbyDone(n) \/ Decide(n) \/ FlagSent(n) \/ Unload(n)
          \/ ForcePowerOff(n) \/ OperatorStop(n)
  BY <1>3 DEF PrepareOver, PrepareFailed, StandbyLocal, StandbyDone, Decide,
     DecideActive, DecidePassive, FlagSent, SeesFlagAfterSending, Slept,
     Hurried, Unload, Halted, ForcePowerOff, OperatorStop, MayStop, Settled
<1>4. CASE \E n \in Node : RemoteGone(n)
  BY <1>4 DEF RemoteGone, NoneHolds
<1>5. CASE \E n \in Node : SendFlag(n)
  BY <1>5 DEF SendFlag, OneWaits, StopMeets, Settles, ActiveRecord,
     PassiveRecord
<1>6. CASE \E n \in Node :
          \/ Promote(n) \/ PromoteDone(n) \/ Demote(n) \/ DemoteFailed(n)
          \/ Write(n) \/ NodeOnlineReady(n)
  BY <1>6 DEF Promote, PromoteDone, Slept, Hurried, Demote, DemoteFailed,
     Write, NodeOnlineReady
<1>7. CASE \E m \in net : HandleShutdownFlag(m) \/ HandleNodeOnline(m)
  BY <1>7 DEF HandleShutdownFlag, HandleNodeOnline
<1>8. CASE UNCHANGED vars
  BY <1>8 DEF vars
<1> QED BY ONLY CalmStep, <1>1, <1>2, <1>3, <1>4, <1>5, <1>6, <1>7, <1>8 DEF CalmStep

LEMMA FlagOfShutdownKept ==
  ASSUME TypeOK, Powered, Calm, NoFailure, banned = {}, FlagOfShutdown,
         CalmStep
  PROVE  FlagOfShutdown'
<1> USE NodeAssumption, BoundAssumption DEF Calm, TypeOK, Powered, NoFailure,
     Carried, Role, StopPc, StartPc, Message, DiskFlag, Booting, Sending,
     Leaving, Taking, Node, Other, Touch, Remove, Goto, Send, RemoteRole,
     BeginStop, EnterSafemode, Off, StackDown, Record, Received, files, crm,
     env, counts, FlagOfShutdown
<1>1. CASE \E n \in Node :
          \/ PowerOn(n) \/ Join(n) \/ CheckRole(n) \/ WaitTimeout(n)
          \/ ProcessGone(n) \/ WaitPrepare(n) \/ Forget(n) \/ Discard(n)
          \/ Online(n) \/ Settle(n)
  BY <1>1 DEF PowerOn, Join, Slept, CheckRole, WaitIsOver, MustWait,
     WaitTimeout, ProcessGone, WaitPrepare, Forget, ForgetFlag, Discard, Online,
     Settle
<1>2. CASE \E n \in Node :
          \/ PrepareOver(n) \/ PrepareFailed(n) \/ StandbyLocal(n)
          \/ StandbyDone(n) \/ Decide(n) \/ RemoteGone(n) \/ SendFlag(n)
          \/ FlagSent(n) \/ Unload(n) \/ ForcePowerOff(n) \/ OperatorStop(n)
  BY <1>2 DEF PrepareOver, PrepareFailed, StandbyLocal, StandbyDone, Decide,
     DecideActive, DecidePassive, RemoteGone, SendFlag, FlagSent,
     SeesFlagAfterSending, Slept, Hurried, Unload, Halted, ForcePowerOff,
     OperatorStop, MayStop, Settled
<1>3. CASE \E n \in Node :
          \/ Promote(n) \/ PromoteDone(n) \/ Demote(n) \/ DemoteFailed(n)
          \/ Write(n) \/ NodeOnlineReady(n)
  BY <1>3 DEF Promote, PromoteDone, Slept, Hurried, Demote, DemoteFailed,
     Write, NodeOnlineReady
<1>4. CASE \E m \in net : HandleShutdownFlag(m) \/ HandleNodeOnline(m)
  BY <1>4 DEF HandleShutdownFlag, HandleNodeOnline
<1>5. CASE UNCHANGED vars
  BY <1>5 DEF vars
<1> QED BY ONLY CalmStep, <1>1, <1>2, <1>3, <1>4, <1>5 DEF CalmStep

LEMMA FlagArrivesKept ==
  ASSUME TypeOK, Powered, Calm, NoFailure, banned = {}, FlagArrives,
         StopMeets, OnlineSettled, CalmStep
  PROVE  FlagArrives'
<1> USE NodeAssumption, BoundAssumption DEF Calm, TypeOK, Powered, NoFailure,
     Carried, Role, StopPc, StartPc, Message, DiskFlag, Booting, Sending,
     Leaving, Taking, Node, Other, Touch, Remove, Goto, Send, RemoteRole,
     BeginStop, EnterSafemode, Off, StackDown, Record, Received, files, crm,
     env, counts, FlagArrives, Told
<1>1. CASE \E n \in Node :
          \/ PowerOn(n) \/ Join(n) \/ CheckRole(n) \/ WaitTimeout(n)
          \/ ProcessGone(n) \/ WaitPrepare(n) \/ Forget(n) \/ Discard(n)
          \/ Online(n) \/ Settle(n)
  BY <1>1 DEF PowerOn, Join, Slept, CheckRole, WaitIsOver, MustWait,
     WaitTimeout, ProcessGone, WaitPrepare, Forget, ForgetFlag, Discard, Online,
     Settle
<1>2. CASE \E n \in Node :
          \/ PrepareOver(n) \/ PrepareFailed(n) \/ StandbyLocal(n)
          \/ StandbyDone(n) \/ Decide(n) \/ RemoteGone(n) \/ FlagSent(n)
          \/ OperatorStop(n)
  BY <1>2 DEF PrepareOver, PrepareFailed, StandbyLocal, StandbyDone, Decide,
     DecideActive, DecidePassive, RemoteGone, FlagSent, SeesFlagAfterSending,
     Slept, Hurried, OperatorStop, MayStop, Settled
<1>3. CASE \E n \in Node : SendFlag(n) \/ Unload(n) \/ ForcePowerOff(n)
  BY <1>3 DEF SendFlag, Unload, Halted, ForcePowerOff, StopMeets, Waits,
     MustWait, Out, Settles, ActiveRecord, PassiveRecord
<1>4. CASE \E n \in Node :
          \/ Promote(n) \/ PromoteDone(n) \/ Demote(n) \/ DemoteFailed(n)
          \/ Write(n)
  BY <1>4 DEF Promote, PromoteDone, Slept, Hurried, Demote, DemoteFailed,
     Write
<1>5. CASE \E n \in Node : NodeOnlineReady(n)
  BY <1>5 DEF NodeOnlineReady, OnlineSettled, Pending
<1>6. CASE \E m \in net : HandleShutdownFlag(m)
  BY <1>6 DEF HandleShutdownFlag
<1>7. CASE \E m \in net : HandleNodeOnline(m)
  BY <1>7 DEF HandleNodeOnline, OnlineSettled, Pending
<1>8. CASE UNCHANGED vars
  BY <1>8 DEF vars
<1> QED BY ONLY CalmStep, <1>1, <1>2, <1>3, <1>4, <1>5, <1>6, <1>7, <1>8 DEF CalmStep

LEMMA OneMovesKept ==
  ASSUME TypeOK, Powered, Calm, NoFailure, banned = {}, OneMoves, CalmStep
  PROVE  OneMoves'
<1> USE NodeAssumption, BoundAssumption DEF Calm, TypeOK, Powered, NoFailure,
     Carried, Role, StopPc, StartPc, Message, DiskFlag, Booting, Sending,
     Leaving, Taking, Node, Other, Touch, Remove, Goto, Send, RemoteRole,
     BeginStop, EnterSafemode, Off, StackDown, Record, Received, files, crm,
     env, counts, OneMoves
<1>1. CASE \E n \in Node :
          \/ PowerOn(n) \/ Join(n) \/ CheckRole(n) \/ WaitTimeout(n)
          \/ ProcessGone(n) \/ WaitPrepare(n) \/ Forget(n) \/ Discard(n)
          \/ Online(n) \/ Settle(n)
  BY <1>1 DEF PowerOn, Join, Slept, CheckRole, WaitIsOver, MustWait,
     WaitTimeout, ProcessGone, WaitPrepare, Forget, ForgetFlag, Discard, Online,
     Settle
<1>2. CASE \E n \in Node :
          \/ PrepareOver(n) \/ PrepareFailed(n) \/ StandbyLocal(n)
          \/ StandbyDone(n) \/ Decide(n) \/ RemoteGone(n) \/ SendFlag(n)
          \/ FlagSent(n) \/ Unload(n) \/ ForcePowerOff(n) \/ OperatorStop(n)
  BY <1>2 DEF PrepareOver, PrepareFailed, StandbyLocal, StandbyDone, Decide,
     DecideActive, DecidePassive, RemoteGone, SendFlag, FlagSent,
     SeesFlagAfterSending, Slept, Hurried, Unload, Halted, ForcePowerOff,
     OperatorStop, MayStop, Settled
<1>3. CASE \E n \in Node :
          \/ Promote(n) \/ PromoteDone(n) \/ Demote(n) \/ DemoteFailed(n)
          \/ Write(n) \/ NodeOnlineReady(n)
  BY <1>3 DEF Promote, PromoteDone, Slept, Hurried, Demote, DemoteFailed,
     Write, NodeOnlineReady
<1>4. CASE \E m \in net : HandleShutdownFlag(m) \/ HandleNodeOnline(m)
  BY <1>4 DEF HandleShutdownFlag, HandleNodeOnline
<1>5. CASE UNCHANGED vars
  BY <1>5 DEF vars
<1> QED BY ONLY CalmStep, <1>1, <1>2, <1>3, <1>4, <1>5 DEF CalmStep

\* Nothing fails in a calm cluster.
LEMMA CalmSteps ==
  ASSUME TypeOK, Powered, Calm, NoFailure, [Next]_vars, banned' = {}
  PROVE  banned = {} /\ CalmStep
<1> USE DEF Calm, TypeOK, NoFailure
<1>1. ~ \E n \in Node :
          \/ Crash(n) \/ UpsBattery(n) \/ PromoteFailed(n) \/ Unconstrain(n)
          \/ EnterUpsSafemode(n) \/ ActiveDown(n) \/ ActiveBack(n)
  BY BoundAssumption DEF Crash, UpsBattery, PromoteFailed, Unconstrain,
     EnterUpsSafemode, ActiveDown, ActiveBack
<1>2. ~ \E m \in net : HandleEnterUps(m)
  <2> SUFFICES ASSUME NEW m \in net, HandleEnterUps(m) PROVE FALSE
    OBVIOUS
  <2>1. m = [type |-> "PASINUPS", to |-> m.to] /\ m.to \in Node
    BY DEF HandleEnterUps, Message
  <2> QED BY <2>1 DEF Carried
<1>3. ~ \E n \in Node : Constrain(n)
  BY DEF Constrain
<1>4. CalmStep
  BY <1>1, <1>2, <1>3 DEF Next, CalmStep, StartStep, StopStep, DelayedHandler,
     Pacemaker, Environment, Handler
<1>5. banned = {}
  <2>1. CASE \E n \in Node : PowerOn(n) \/ StartStep(n) \/ StopStep(n)
    BY <2>1 DEF PowerOn, StartStep, Join, CheckRole, WaitTimeout, WaitPrepare,
       Forget, ForgetFlag, Discard, Online, Settle, StopStep, PrepareOver, PrepareFailed,
       Decide, SendFlag, FlagSent, RemoteGone, StandbyLocal, StandbyDone,
       Unload, crm
  <2>2. CASE \E n \in Node : DelayedHandler(n) \/ Pacemaker(n) \/ Environment(n)
    BY <1>1, <1>3, <2>2 DEF DelayedHandler, NodeOnlineReady, Pacemaker,
       Promote, PromoteDone, Demote, Environment, ForcePowerOff, ProcessGone,
       OperatorStop, DemoteFailed, Write, crm
  <2>3. CASE \E m \in net : Handler(m)
    BY <1>2, <2>3 DEF Handler, HandleShutdownFlag, HandleNodeOnline, crm
  <2>4. CASE UNCHANGED vars
    BY <2>4 DEF vars
  <2> QED BY <2>1, <2>2, <2>3, <2>4 DEF Next
<1> QED BY <1>4, <1>5

LEMMA CalmInit == Init => NoFailure /\ BannedServesNot /\ Turns
  BY NodeAssumption
  DEF Init, NoFailure, BannedServesNot, Turns, OneWaits, SomeoneWaits,
     LackingWaits, OnlineSettled, WaitingHeard, FlagHasReason, RecordUnheard,
     BootMeets, StopMeets, NoneHolds, LeavingWaits, Successor, GivesUp,
     FlagOfShutdown, FlagArrives, OneMoves, Waits, MustWait, Told, Carried,
     Out, Pending, Settles, Booting, Sending, Leaving, Taking, Node, Other

\* Two servers never both lack writes of the other one, however often they are
\* shut down and booted one after the other, with demotions that fail, pacemaker
\* processes that die during a boot and waits of any length.
THEOREM NoDataForked == Calm => (Spec => []NoSplitBrain)
<1> SUFFICES ASSUME Calm PROVE Spec => []NoSplitBrain
  OBVIOUS
<1>1. Init => NoFailure /\ BannedServesNot /\ (banned = {} => Turns)
  BY CalmInit
<1>2. /\ TypeOK /\ Powered /\ NoRecordWhileRunning /\ NoFailure
      /\ BannedServesNot /\ (banned = {} => Turns) /\ [Next]_vars
      => (NoFailure /\ BannedServesNot /\ (banned = {} => Turns))'
  <2> SUFFICES ASSUME TypeOK, Powered, NoRecordWhileRunning, NoFailure,
                      BannedServesNot, banned = {} => Turns, [Next]_vars
               PROVE  (NoFailure /\ BannedServesNot /\ (banned = {} => Turns))'
    OBVIOUS
  <2>1. NoFailure' /\ BannedServesNot'
    BY NoFailureKept, BannedServesNotKept DEF Turns
  <2>2. ASSUME banned' = {} PROVE Turns'
    <3>1. banned = {} /\ Turns /\ CalmStep
      BY <2>2, CalmSteps
    <3> QED
      BY <3>1, OneWaitsKept, SomeoneWaitsKept, LackingWaitsKept,
         OnlineSettledKept, WaitingHeardKept, FlagHasReasonKept,
         RecordUnheardKept, BootMeetsKept, StopMeetsKept, NoneHoldsKept,
         LeavingWaitsKept, SuccessorKept, GivesUpKept, FlagOfShutdownKept,
         FlagArrivesKept, OneMovesKept
      DEF Turns
  <2> QED BY <2>1, <2>2
<1>3. BannedServesNot /\ (banned = {} => Turns) => NoSplitBrain
  <2> SUFFICES ASSUME BannedServesNot, banned = {} => Turns
               PROVE  NoSplitBrain
    OBVIOUS
  <2>1. CASE banned = {}
    BY <2>1 DEF Turns, LackingWaits, OneWaits, NoSplitBrain, Node
  <2>2. CASE banned # {}
    <3>1. PICK n \in banned : Other(n) \notin banned /\ missing \subseteq banned
      BY <2>2 DEF BannedServesNot
    <3> QED BY <3>1 DEF NoSplitBrain, Other, Node
  <2> QED BY <2>1, <2>2
<1> QED BY <1>1, <1>2, <1>3, TypeCorrect, RecordsServeOnce, PTL DEF Spec
=============================================================================
