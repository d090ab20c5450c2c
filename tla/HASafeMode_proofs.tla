------------------------- MODULE HASafeMode_proofs -------------------------
(***************************************************************************)
(* After a split brain at most one server records that it was active, for  *)
(* every number of reports, calls, power losses and choices.               *)
(***************************************************************************)
EXTENDS HASafeMode, FiniteSetTheorems, TLAPS

\* What a handler of handler_sb.sh may write into the table of calls.
LEMMA JobStep ==
  ASSUME TypeOK, NEW n \in Node, NEW c \in Call
  PROVE  /\ \A at \in At : Goto(n, c, at) => job' \in [Node -> [Call -> [what : What, at : At]]]
         /\ Ends(n, c) => job' \in [Node -> [Call -> [what : What, at : At]]]
         /\ \A w \in What : Run(n, w) => job' \in [Node -> [Call -> [what : What, at : At]]]
         /\ Off(n) => job' \in [Node -> [Call -> [what : What, at : At]]]
         /\ \A w \in What, at \in At : job' = [job EXCEPT ![n][c] = Job(w, at)] =>
              job' \in [Node -> [Call -> [what : What, at : At]]]
         /\ job[n][c].what \in What /\ job[n][c].at \in At
<1>1. job[n][c] \in [what : What, at : At] /\ job[n] \in [Call -> [what : What, at : At]]
  BY DEF TypeOK
<1>2. ASSUME NEW at \in At, Goto(n, c, at)
      PROVE  job' \in [Node -> [Call -> [what : What, at : At]]]
  <2>1. job' = [job EXCEPT ![n] = [job[n] EXCEPT ![c] = [job[n][c] EXCEPT !.at = at]]]
    BY <1>2 DEF Goto
  <2>2. [job[n][c] EXCEPT !.at = at] \in [what : What, at : At]
    BY <1>1
  <2> QED BY <1>1, <2>1, <2>2 DEF TypeOK
<1>3. NoJob \in [what : What, at : At]
      /\ \A w \in What, at \in At : Job(w, at) \in [what : What, at : At]
  BY DEF NoJob, Job, What, At
<1>4. Ends(n, c) => job' \in [Node -> [Call -> [what : What, at : At]]]
  BY <1>3 DEF Ends, TypeOK
<1>5. \A w \in What : Run(n, w) => job' \in [Node -> [Call -> [what : What, at : At]]]
  BY <1>3 DEF Run, TypeOK, At
<1>6. Off(n) => job' \in [Node -> [Call -> [what : What, at : At]]]
  BY <1>3 DEF Off, TypeOK
<1>7. \A w \in What, at \in At : job' = [job EXCEPT ![n][c] = Job(w, at)] =>
        job' \in [Node -> [Call -> [what : What, at : At]]]
  BY <1>3 DEF TypeOK
<1> QED BY <1>1, <1>2, <1>4, <1>5, <1>6, <1>7

LEMMA OtherServer ==
  ASSUME NEW n \in Node
  PROVE  Other(n) \in Node /\ Other(n) # n /\ Other(Other(n)) = n
  BY NodeAssumption DEF Other, Node

\* Touch and Remove keep the type of the flag files.
LEMMA FlagTypes ==
  ASSUME TypeOK, NEW n \in Node
  PROVE  /\ Touch(disk, n, "safemode") \in [Node -> SUBSET DiskFlag]
         /\ Touch(disk, n, "prev_active") \in [Node -> SUBSET DiskFlag]
         /\ Touch(disk, n, "prev_passive") \in [Node -> SUBSET DiskFlag]
         /\ \A flags : Remove(disk, n, flags) \in [Node -> SUBSET DiskFlag]
         /\ Touch(tmp, n, "ping") \in [Node -> SUBSET TmpFlag]
  BY DEF TypeOK, Touch, Remove, DiskFlag, TmpFlag

LEMMA SendType ==
  ASSUME net \in SUBSET Message, NEW n \in Node,
         NEW type \in {"RUN_SAFE", "CHK_SAFE", "RLY_TRUE", "RLY_FALSE", "SBSROLE",
                       "INFO_YES", "INFO_NO"}
  PROVE  Send(type, n) \in SUBSET Message
  BY DEF Send, Message

LEMMA StoppedType ==
  ASSUME TypeOK, NEW ms
  PROVE  Stopped(ms) \in [Node -> Role]
  BY DEF TypeOK, Stopped, Role

\* A server that loses power leaves everything it forgets well typed.
LEMMA OffType ==
  ASSUME TypeOK, NEW n \in Node, Off(n)
  PROVE  /\ on' \subseteq Node /\ rebooting' \subseteq Node /\ fromSafe' \subseteq Node
         /\ tmp' \in [Node -> SUBSET TmpFlag]
         /\ info' \in [Node -> {"none", "yes", "no"}]
         /\ lock' \in [Node -> Call \cup {NoCall}]
         /\ job' \in [Node -> [Call -> [what : What, at : At]]]
         /\ start' \in [Node -> StartPc]
         /\ answer' \in [Node -> {"unknown", "true", "false"}]
         /\ role' \in [Node -> Role]
         /\ net' \subseteq Message
<1>1. job' \in [Node -> [Call -> [what : What, at : At]]]
  BY DEF TypeOK, Off, NoJob, What, At
<1> QED BY <1>1 DEF TypeOK, Off, StartPc, Role

(***************************************************************************)
(* Type correctness                                                        *)
(***************************************************************************)
LEMMA TypeInit == Init => TypeOK
<1> SUFFICES ASSUME Init PROVE TypeOK
  OBVIOUS
<1>1. job \in [Node -> [Call -> [what : What, at : At]]]
  BY DEF Init, NoJob, What, At
<1>2. reports \in [Node -> 0..MaxReports] /\ crashes \in 0..MaxCrashes
  BY BoundAssumption DEF Init
<1> QED
  BY <1>1, <1>2 DEF Init, TypeOK, DiskFlag, TmpFlag, Role, StartPc

\* handler_sb.sh.
LEMMA TypeHandler ==
  ASSUME TypeOK, NEW n \in Node, NEW c \in Call,
         HandlerStep(n, c) \/ PingStandbyFailed(n, c) \/ SbStandbyFailed(n, c)
  PROVE  TypeOK'
<1>0. \A at \in {"lock", "write", "check", "fallback", "touch", "forget", "send",
                 "standby", "clear", "wait"} : Goto(n, c, at) => job' \in [Node -> [Call -> [what : What, at : At]]]
  <2>1. {"lock", "write", "check", "fallback", "touch", "forget", "send",
         "standby", "clear", "wait"} \subseteq At
    BY DEF At
  <2> QED BY <2>1, JobStep
<1>1. CASE LockTest(n, c) \/ Check(n, c) \/ Fallback(n, c)
  <2>1. job' \in [Node -> [Call -> [what : What, at : At]]]
    <3>1. CASE LockTest(n, c) \/ Check(n, c)
      BY <1>0, <3>1, JobStep DEF LockTest, Check
    <3>2. CASE Fallback(n, c)
      <4>1. "safe" \in What /\ "touch" \in At
        BY DEF What, At
      <4> QED BY <3>2, <4>1, JobStep DEF Fallback
    <3> QED BY <1>1, <3>1, <3>2
  <2> QED BY <1>1, <2>1
     DEF TypeOK, LockTest, Check, Fallback, files, boot, power, crm, counts
<1>2. CASE LockWrite(n, c) \/ PingTouch(n, c) \/ PingClear(n, c)
  <2>1. job' \in [Node -> [Call -> [what : What, at : At]]]
    BY <1>0, <1>2 DEF LockWrite, PingTouch, PingClear
  <2>2. CASE LockWrite(n, c)
    BY <2>1, <2>2 DEF TypeOK, LockWrite, boot, power, crm, counts
  <2>3. CASE PingTouch(n, c)
    BY <2>1, <2>3, FlagTypes DEF TypeOK, PingTouch, boot, power, crm, counts
  <2>4. CASE PingClear(n, c)
    BY <2>1, <2>4 DEF TypeOK, PingClear, boot, power, crm, counts
  <2> QED BY <1>2, <2>2, <2>3, <2>4
<1>3. CASE PingStandby(n, c) \/ PingStandbyFailed(n, c) \/ PingTimeout(n, c)
  <2>1. job' \in [Node -> [Call -> [what : What, at : At]]]
    BY <1>0, <1>3 DEF PingStandby, PingStandbyFailed, PingTimeout
  <2> QED BY <1>3, <2>1, StoppedType
     DEF TypeOK, PingStandby, PingStandbyFailed, PingTimeout, files, boot, power, crm, counts
<1>4. CASE PingDecide(n, c)
  <2>1. job' \in [Node -> [Call -> [what : What, at : At]]]
    BY <1>0, <1>4, JobStep DEF PingDecide
  <2>2. disk' \in [Node -> SUBSET DiskFlag] /\ rebooting' \subseteq Node
    BY <1>4, FlagTypes DEF PingDecide, TypeOK
  <2> QED BY <1>4, <2>1, <2>2 DEF TypeOK, PingDecide, boot, crm, counts
<1>5. CASE SbTouch(n, c) \/ SbForget(n, c) \/ SbSend(n, c)
  <2>1. job' \in [Node -> [Call -> [what : What, at : At]]]
    <3>1. CASE SbForget(n, c)
      <4>1. Goto(n, c, "standby") \/ Goto(n, c, "send")
        BY <3>1 DEF SbForget
      <4> QED BY <1>0, <4>1
    <3> QED BY <1>0, <1>5, <3>1 DEF SbTouch, SbSend
  <2>2. disk' \in [Node -> SUBSET DiskFlag]
    BY <1>5, FlagTypes DEF SbTouch, SbForget, SbSend, TypeOK, files
  <2>3. net' \subseteq Message
    BY <1>5, SendType, OtherServer DEF SbTouch, SbForget, SbSend, TypeOK
  <2> QED BY <1>5, <2>1, <2>2, <2>3
     DEF TypeOK, SbTouch, SbForget, SbSend, files, boot, power, crm, counts
<1>6. CASE SbStandby(n, c) \/ SbStandbyFailed(n, c)
  <2>1. rule' \subseteq Node
    BY <1>6 DEF SbStandby, SbStandbyFailed, Scope, TypeOK
  <2>2. CASE SbStandby(n, c)
    <3>1. job' \in [Node -> [Call -> [what : What, at : At]]]
      BY <2>2, JobStep DEF SbStandby
    <3>2. role' \in [Node -> Role]
      BY <2>2, StoppedType DEF SbStandby, Role
    <3> QED BY <2>1, <2>2, <3>1, <3>2 DEF TypeOK, SbStandby, files, boot, power, counts
  <2>3. CASE SbStandbyFailed(n, c)
    BY <2>1, <2>3, OffType DEF SbStandbyFailed, TypeOK, counts
  <2> QED BY <1>6, <2>2, <2>3
<1> QED BY <1>1, <1>2, <1>3, <1>4, <1>5, <1>6 DEF HandlerStep

\* handle_ais.sh.
LEMMA TypeAis ==
  ASSUME TypeOK, NEW n \in Node, AisHandler(n) \/ PublishInfo(n)
  PROVE  TypeOK'
<1>0. /\ \A type \in {"RUN_SAFE", "CHK_SAFE", "RLY_TRUE", "RLY_FALSE", "SBSROLE",
                      "INFO_YES", "INFO_NO"} : Send(type, Other(n)) \subseteq Message
      /\ \A type : Consumed(n, type) \subseteq Message
  BY SendType, OtherServer DEF TypeOK, Consumed
<1>1. CASE RunSafe(n)
  <2>1. job' \in [Node -> [Call -> [what : What, at : At]]]
    <3>1. CASE Run(n, "safe")
      <4>1. "safe" \in What
        BY DEF What
      <4>2. PICK c \in Call : job[n][c] = NoJob /\ job' = [job EXCEPT ![n][c] = Job("safe", "lock")]
        BY <3>1 DEF Run
      <4> QED BY <3>1, <4>1, <4>2, JobStep
    <3> QED BY <1>1, <3>1 DEF RunSafe, TypeOK
  <2> QED BY <1>0, <1>1, <2>1 DEF TypeOK, RunSafe, files, boot, power, crm, counts
<1>2. CASE ChkSafe(n)
  <2>1. net' \subseteq Message
    BY <1>0, <1>2 DEF ChkSafe
  <2> QED BY <1>2, <2>1 DEF TypeOK, ChkSafe, files, boot, power, crm, counts
<1>3. CASE RlySafe(n)
  <2>1. PICK type \in {"RLY_TRUE", "RLY_FALSE"} :
          /\ answer' = [answer EXCEPT ![n] = IF type = "RLY_TRUE" THEN "true" ELSE "false"]
          /\ net' = Consumed(n, type)
    BY <1>3 DEF RlySafe
  <2>2. answer' \in [Node -> {"unknown", "true", "false"}] /\ net' \subseteq Message
    BY <1>0, <2>1 DEF TypeOK
  <2> QED BY <1>3, <2>2 DEF TypeOK, RlySafe, files, power, crm, counts
<1>4. CASE InfosetReq(n)
  <2>1. PICK type \in {"INFO_YES", "INFO_NO"} :
          /\ info' = [info EXCEPT ![n] = IF type = "INFO_YES" THEN "yes" ELSE "no"]
          /\ net' = Consumed(n, type)
    BY <1>4 DEF InfosetReq
  <2>2. info' \in [Node -> {"none", "yes", "no"}] /\ net' \subseteq Message
    BY <1>0, <2>1 DEF TypeOK
  <2> QED BY <1>4, <2>2 DEF TypeOK, InfosetReq, boot, power, crm, counts
<1>5. CASE SbSetRole(n)
  <2>1. disk' \in [Node -> SUBSET DiskFlag]
    BY <1>5, FlagTypes DEF SbSetRole
  <2> QED BY <1>0, <1>5, <2>1 DEF TypeOK, SbSetRole, boot, crm, counts
<1>6. CASE PublishInfo(n)
  <2>1. net' \subseteq Message
    BY <1>0, <1>6 DEF PublishInfo
  <2> QED BY <1>6, <2>1 DEF TypeOK, PublishInfo, files, boot, power, crm, counts
<1> QED BY <1>1, <1>2, <1>3, <1>4, <1>5, <1>6 DEF AisHandler

\* The boot.
LEMMA TypeStart ==
  ASSUME TypeOK, NEW n \in Node, PowerOn(n) \/ Reboot(n) \/ StartStep(n)
  PROVE  TypeOK'
<1>1. CASE PowerOn(n)
  BY <1>1 DEF TypeOK, PowerOn, StartPc, files, crm, counts
<1>2. CASE Reboot(n)
  BY <1>2, OffType DEF Reboot, TypeOK, counts
<1>3. CASE StartNormal(n)
  BY <1>3 DEF TypeOK, StartNormal, StartPc, files, power, crm, counts
<1>4. CASE StartRecorded(n)
  <2>1. disk' \in [Node -> SUBSET DiskFlag]
    BY <1>4, FlagTypes DEF StartRecorded
  <2> QED BY <1>4, <2>1 DEF TypeOK, StartRecorded, StartPc, power, counts
<1>5. CASE StartAsk(n)
  <2>1. net' \subseteq Message
    BY <1>5, SendType, OtherServer DEF StartAsk, TypeOK
  <2> QED BY <1>5, <2>1 DEF TypeOK, StartAsk, StartPc, files, power, crm, counts
<1>6. CASE StartAnswered(n)
  <2>1. disk' \in [Node -> SUBSET DiskFlag]
    BY <1>6, FlagTypes DEF StartAnswered, TypeOK
  <2>2. job' \in [Node -> [Call -> [what : What, at : At]]]
    <3>1. CASE Run(n, "boot")
      <4>1. "boot" \in What
        BY DEF What
      <4>2. PICK c \in Call : job[n][c] = NoJob /\ job' = [job EXCEPT ![n][c] = Job("boot", "lock")]
        BY <3>1 DEF Run
      <4> QED BY <3>1, <4>1, <4>2, JobStep
    <3> QED BY <1>6, <3>1 DEF StartAnswered, TypeOK
  <2> QED BY <1>6, <2>1, <2>2 DEF TypeOK, StartAnswered, StartPc, power, crm, counts
<1>7. CASE StartRole(n)
  <2>1. disk' \in [Node -> SUBSET DiskFlag]
    BY <1>7, FlagTypes DEF StartRole
  <2>2. role' \in [Node -> Role] /\ rule' \subseteq Node
    BY <1>7 DEF StartRole, TypeOK, Role
  <2> QED BY <1>7, <2>1, <2>2 DEF TypeOK, StartRole, StartPc, power, counts
<1>8. CASE StartTimeout(n)
  <2>1. disk' \in [Node -> SUBSET DiskFlag]
    BY <1>8, FlagTypes DEF StartTimeout, TypeOK
  <2> QED BY <1>8, <2>1, OffType DEF TypeOK, StartTimeout, counts
<1> QED BY <1>1, <1>2, <1>3, <1>4, <1>5, <1>6, <1>7, <1>8 DEF StartStep

\* DRBD, the operator, power.
LEMMA TypeEnvironment ==
  ASSUME TypeOK, NEW n \in Node, Environment(n)
  PROVE  TypeOK'
<1>1. CASE DrbdReport(n)
  <2>1. job' \in [Node -> [Call -> [what : What, at : At]]]
    <3>1. "ping" \in What
      BY DEF What
    <3>2. PICK c \in Call : job[n][c] = NoJob /\ job' = [job EXCEPT ![n][c] = Job("ping", "lock")]
      BY <1>1 DEF DrbdReport, Run
    <3>3. Run(n, "ping")
      BY <1>1 DEF DrbdReport
    <3> QED BY <3>1, <3>2, <3>3, JobStep
  <2>2. reports' \in [Node -> 0..MaxReports]
    BY <1>1, BoundAssumption DEF DrbdReport, TypeOK
  <2> QED BY <1>1, <2>1, <2>2 DEF TypeOK, DrbdReport, files, boot, power, crm
<1>2. CASE OperatorChoice(n)
  <2>1. disk' \in [Node -> SUBSET DiskFlag]
    BY <1>2, FlagTypes DEF OperatorChoice
  <2>2. net' \subseteq Message
    BY <1>2, SendType, OtherServer DEF OperatorChoice, TypeOK
  <2> QED BY <1>2, <2>1, <2>2 DEF TypeOK, OperatorChoice, boot, crm
<1>3. CASE Crash(n)
  <2>1. crashes' \in 0..MaxCrashes
    BY <1>3, BoundAssumption DEF Crash, TypeOK
  <2> QED BY <1>3, <2>1, OffType DEF Crash, TypeOK
<1> QED BY <1>1, <1>2, <1>3 DEF Environment

LEMMA TypeStep == TypeOK /\ [Next]_vars => TypeOK'
<1> SUFFICES ASSUME TypeOK, [Next]_vars PROVE TypeOK'
  OBVIOUS
<1>1. CASE Next
  BY <1>1, TypeHandler, TypeAis, TypeStart, TypeEnvironment DEF Next
<1>2. CASE UNCHANGED vars
  BY <1>2 DEF TypeOK, vars, files, boot, power, crm, counts
<1> QED BY <1>1, <1>2

\* Every variable keeps its type.
THEOREM TypeCorrect == Spec => []TypeOK
  BY TypeInit, TypeStep, PTL DEF Spec

(***************************************************************************)
(* One record.  "At most one server is recorded as active" is not          *)
(* inductive.  It rests on the flag of a raised admin_epoch, which no step *)
(* sets: a server that holds it has not rebooted since the link came back, *)
(* has told nobody that it lacks it, and has no comparison left to make    *)
(* once the other one is recorded as active.                               *)
(***************************************************************************)
RecordInv == BumpedUp /\ BumpedTold /\ RecordUndisputed /\ NotBothRecordActive

\* No step raises the flag, and the server that holds it is not at boot.
LEMMA BumpedStep ==
  ASSUME TypeOK, BumpedUp, Next
  PROVE  /\ BumpedUp'
         /\ \A m \in Node : "bumped" \in tmp'[m] => "bumped" \in tmp[m]
<1> DEFINE Kept == \A m \in Node : "bumped" \in tmp'[m] =>
                     "bumped" \in tmp[m] /\ m \in on' /\ start'[m] = "none"
<1>1. ASSUME NEW n \in Node, Off(n)
      PROVE  Kept
  BY <1>1 DEF Off, TypeOK, BumpedUp
<1>2. ASSUME NEW n \in Node, NEW c \in Call, HandlerStep(n, c) \/ PingStandbyFailed(n, c)
      PROVE  Kept
  <2>1. CASE PingTouch(n, c)
    BY <2>1 DEF PingTouch, Touch, TypeOK, BumpedUp, boot, power
  <2>2. CASE ~PingTouch(n, c)
    BY <1>2, <2>2 DEF HandlerStep, LockTest, LockWrite, Check, Fallback, PingStandby,
       PingStandbyFailed, PingClear, PingTimeout, PingDecide, SbTouch, SbForget, SbSend,
       SbStandby, BumpedUp, files, boot, power
  <2> QED BY <2>1, <2>2
<1>3. ASSUME NEW n \in Node, AisHandler(n) \/ PublishInfo(n)
      PROVE  Kept
  BY <1>3 DEF AisHandler, RunSafe, ChkSafe, RlySafe, InfosetReq, SbSetRole, PublishInfo,
     BumpedUp, files, boot, power
<1>4. ASSUME NEW n \in Node, PowerOn(n)
      PROVE  Kept
  BY <1>4 DEF PowerOn, TypeOK, BumpedUp, files
<1>5. ASSUME NEW n \in Node, StartStep(n), ~StartTimeout(n)
      PROVE  Kept
  <2>1. tmp' = tmp /\ on' = on /\ start[n] # "none" /\ \A m \in Node \ {n} : start'[m] = start[m]
    BY <1>5 DEF StartStep, StartNormal, StartRecorded, StartAsk, StartAnswered, StartRole,
       TypeOK, files, power
  <2> QED BY <2>1 DEF BumpedUp
<1>6. ASSUME NEW n \in Node, DrbdReport(n) \/ OperatorChoice(n)
      PROVE  Kept
  BY <1>6 DEF DrbdReport, OperatorChoice, BumpedUp, files, boot, power
<1>7. Kept
  BY <1>1, <1>2, <1>3, <1>4, <1>5, <1>6
  DEF Next, SbStandbyFailed, Reboot, StartStep, StartTimeout, Crash, Environment
<1> QED BY <1>7 DEF BumpedUp

\* The other server never hears, and holds nothing that says, that the server
\* with the flag has not got it.
LEMMA ToldStep ==
  ASSUME TypeOK, BumpedUp, BumpedTold, Next
  PROVE  BumpedTold'
<1> DEFINE No(m) == [type |-> "INFO_NO", to |-> m]
           NoNews == /\ net' \subseteq net \cup {m \in Message : m.type # "INFO_NO"}
                     /\ \A m \in Node : info'[m] = "no" => info[m] = "no" \/ No(m) \in net
<1>1. NoNews => BumpedTold'
  BY BumpedStep, OtherServer DEF BumpedTold
<1>2. ASSUME NEW n \in Node, Off(n)
      PROVE  NoNews
  BY <1>2 DEF Off, TypeOK
<1>3. ASSUME NEW type \in {"RUN_SAFE", "CHK_SAFE", "RLY_TRUE", "RLY_FALSE", "SBSROLE", "INFO_YES"},
             NEW n \in Node
      PROVE  Send(type, n) \subseteq net \cup {m \in Message : m.type # "INFO_NO"}
  BY <1>3 DEF Send, Message
<1>4. ASSUME NEW n \in Node, NEW c \in Call, HandlerStep(n, c) \/ PingStandbyFailed(n, c)
      PROVE  NoNews
  <2>1. CASE PingClear(n, c)
    BY <2>1 DEF PingClear, TypeOK
  <2>2. CASE SbSend(n, c)
    BY <1>3, <2>2, OtherServer DEF SbSend, files
  <2>3. CASE ~PingClear(n, c) /\ ~SbSend(n, c)
    BY <1>4, <2>3 DEF HandlerStep, LockTest, LockWrite, Check, Fallback, PingTouch,
       PingStandby, PingStandbyFailed, PingTimeout, PingDecide, SbTouch, SbForget,
       SbStandby, files
  <2> QED BY <2>1, <2>2, <2>3
<1>5. ASSUME NEW n \in Node, AisHandler(n)
      PROVE  NoNews
  <2>1. CASE InfosetReq(n)
    <3>1. PICK type \in {"INFO_YES", "INFO_NO"} :
            /\ [type |-> type, to |-> n] \in net
            /\ info' = [info EXCEPT ![n] = IF type = "INFO_YES" THEN "yes" ELSE "no"]
            /\ net' = Consumed(n, type)
      BY <2>1 DEF InfosetReq, Receive
    <3> QED BY <3>1 DEF Consumed, TypeOK
  <2>2. CASE ChkSafe(n)
    BY <1>3, <2>2, OtherServer DEF ChkSafe, Consumed, files
  <2>3. CASE RunSafe(n) \/ RlySafe(n) \/ SbSetRole(n)
    BY <2>3 DEF RunSafe, RlySafe, SbSetRole, Consumed, files
  <2> QED BY <1>5, <2>1, <2>2, <2>3 DEF AisHandler
<1>6. ASSUME NEW n \in Node, PublishInfo(n)
      PROVE  BumpedTold'
  <2>1. tmp' = tmp /\ info' = info
    BY <1>6 DEF PublishInfo, files
  <2>2. CASE "bumped" \in tmp[n]
    <3>1. Bumped(n) = "yes"
      BY <2>2 DEF Bumped
    <3> QED BY <1>1, <1>3, <1>6, <2>1, <3>1, OtherServer DEF PublishInfo
  <2>3. CASE "bumped" \notin tmp[n]
    <3>1. net' \subseteq net \cup {m \in Message : m.to = Other(n)}
      BY <1>6, OtherServer DEF PublishInfo, Send, Message
    <3> QED BY <2>1, <2>3, <3>1, OtherServer DEF BumpedTold, Node
  <2> QED BY <2>2, <2>3
<1>7. ASSUME NEW n \in Node, PowerOn(n) \/ (StartStep(n) /\ ~StartTimeout(n))
      PROVE  NoNews
  BY <1>3, <1>7, OtherServer DEF PowerOn, StartStep, StartNormal, StartRecorded, StartAsk,
     StartAnswered, StartRole, files
<1>8. ASSUME NEW n \in Node, DrbdReport(n) \/ OperatorChoice(n)
      PROVE  NoNews
  BY <1>3, <1>8, OtherServer DEF DrbdReport, OperatorChoice, files
<1> QED
  BY <1>1, <1>2, <1>4, <1>5, <1>6, <1>7, <1>8
  DEF Next, SbStandbyFailed, Reboot, StartStep, StartTimeout, Crash, Environment

\* What a step does to the records: only the comparison and the operator write
\* that a server was active.
LEMMA RecordWritten ==
  ASSUME TypeOK, Next, NEW m \in Node, "prev_active" \in disk'[m], "prev_active" \notin disk[m]
  PROVE  /\ disk' = Touch(disk, m, "prev_active")
         /\ \/ OperatorChoice(m)
            \/ \E c \in Call : PingDecide(m, c) /\ info[m] # Bumped(m) /\ info[m] # "yes"
<1>0. \A n \in Node : /\ disk' # Touch(disk, n, "safemode")
                      /\ disk' # Touch(disk, n, "prev_passive")
                      /\ \A flags : disk' # Remove(disk, n, flags)
  BY DEF Touch, Remove, TypeOK
<1>1. ASSUME NEW n \in Node, NEW c \in Call, HandlerStep(n, c), ~PingDecide(n, c)
      PROVE  FALSE
  <2>1. CASE SbTouch(n, c) \/ SbForget(n, c)
    BY <1>0, <2>1 DEF SbTouch, SbForget
  <2>2. CASE ~SbTouch(n, c) /\ ~SbForget(n, c)
    BY <1>1, <2>2 DEF HandlerStep, LockTest, LockWrite, Check, Fallback, PingTouch, PingStandby,
       PingClear, PingTimeout, SbSend, SbStandby, files
  <2> QED BY <2>1, <2>2
<1>2. ASSUME NEW n \in Node, NEW c \in Call, PingStandbyFailed(n, c) \/ SbStandbyFailed(n, c)
      PROVE  FALSE
  BY <1>2 DEF PingStandbyFailed, SbStandbyFailed, files
<1>3. ASSUME NEW n \in Node, AisHandler(n) \/ PublishInfo(n)
      PROVE  FALSE
  BY <1>0, <1>3 DEF AisHandler, RunSafe, ChkSafe, RlySafe, InfosetReq, SbSetRole, PublishInfo,
     files
<1>4. ASSUME NEW n \in Node, PowerOn(n) \/ Reboot(n) \/ StartStep(n)
      PROVE  FALSE
  <2>1. CASE PowerOn(n) \/ Reboot(n) \/ StartNormal(n) \/ StartAsk(n)
    BY <2>1 DEF PowerOn, Reboot, StartNormal, StartAsk, files
  <2>2. CASE StartRecorded(n) \/ StartRole(n)
    BY <1>0, <2>2 DEF StartRecorded, StartRole
  <2>3. CASE StartAnswered(n)
    BY <1>0, <2>3 DEF StartAnswered
  <2>4. CASE StartTimeout(n)
    BY <1>0, <2>4 DEF StartTimeout
  <2> QED BY <1>4, <2>1, <2>2, <2>3, <2>4 DEF StartStep
<1>5. ASSUME NEW n \in Node, DrbdReport(n) \/ Crash(n)
      PROVE  FALSE
  BY <1>5 DEF DrbdReport, Crash, files
<1>6. ASSUME NEW n \in Node, OperatorChoice(n)
      PROVE  disk' = Touch(disk, m, "prev_active") /\ OperatorChoice(m)
  <2>1. n = m
    BY <1>6 DEF OperatorChoice, Touch, TypeOK
  <2> QED BY <1>6, <2>1 DEF OperatorChoice
<1>7. ASSUME NEW n \in Node, NEW c \in Call, PingDecide(n, c)
      PROVE  /\ disk' = Touch(disk, m, "prev_active")
             /\ PingDecide(m, c) /\ info[m] # Bumped(m) /\ info[m] # "yes"
  <2>1. n = m /\ info[n] # Bumped(n) /\ info[n] # "yes"
    BY <1>7 DEF PingDecide, Touch, TypeOK
  <2> QED BY <1>7, <2>1 DEF PingDecide
<1> QED BY <1>1, <1>2, <1>3, <1>4, <1>5, <1>6, <1>7 DEF Next, Environment

\* The comparison is the work of a handler of reports, and its winner holds the
\* flag that the other server lacks.
LEMMA WinnerAlone ==
  ASSUME TypeOK, BumpedTold, NEW m \in Node, NEW c \in Call,
         PingDecide(m, c), info[m] # Bumped(m), info[m] # "yes"
  PROVE  PingPending(m) /\ "bumped" \in tmp[m] /\ "bumped" \notin tmp[Other(m)]
<1>1. info[m] = "no" /\ Bumped(m) = "yes"
  BY DEF PingDecide, TypeOK, Bumped
<1>2. "bumped" \notin tmp[Other(m)]
  BY <1>1, OtherServer DEF BumpedTold
<1>3. PingPending(m)
  BY DEF PingDecide, PingPending, Job
<1> QED BY <1>1, <1>2, <1>3 DEF Bumped

\* A handler of reports starts only with a report, while both servers are
\* active; and a server becomes active only at boot.
LEMMA PendingStep ==
  ASSUME TypeOK, Next, NEW m \in Node
  PROVE  /\ PingPending(m)' =>
              PingPending(m) \/ (role[m] = "active" /\ \E n \in Node : reports[n] < MaxReports)
         /\ role'[m] = "active" => role[m] = "active" \/ start[m] # "none"
<1> DEFINE Same == role' = role
           NoStart == \A d \in Call : job'[m][d].what = "ping" /\ job'[m][d].at # "free" =>
                         job[m][d].what = "ping" /\ job[m][d].at # "free"
<1>0. job \in [Node -> [Call -> [what : What, at : At]]] /\ role \in [Node -> Role]
  BY DEF TypeOK
<1>1. NoStart => (PingPending(m)' => PingPending(m))
  BY DEF PingPending
<1>2. ASSUME NEW n \in Node, NEW c \in Call, NEW at, Goto(n, c, at), job[n][c].at # "free"
      PROVE  NoStart
  BY <1>0, <1>2 DEF Goto
<1>3. ASSUME NEW n \in Node, NEW c \in Call, Ends(n, c)
      PROVE  NoStart
  BY <1>0, <1>3 DEF Ends, NoJob
<1>4. ASSUME NEW n \in Node, NEW what \in {"safe", "boot"}, Run(n, what)
      PROVE  NoStart
  BY <1>0, <1>4 DEF Run, Job
<1>5. ASSUME NEW n \in Node, Off(n)
      PROVE  NoStart /\ (role'[m] = "active" => role[m] = "active")
  BY <1>0, <1>5 DEF Off, NoJob
<1>6. ASSUME NEW n \in Node, NEW c \in Call, HandlerStep(n, c) \/ PingStandbyFailed(n, c)
      PROVE  NoStart /\ (role'[m] = "active" => role[m] = "active")
  <2>1. NoStart
    <3>1. CASE Fallback(n, c)
      <4>1. job[n][c].at = "fallback" /\ (Ends(n, c) \/ job' = [job EXCEPT ![n][c] = Job("safe", "touch")])
        BY <3>1 DEF Fallback
      <4>2. CASE job' = [job EXCEPT ![n][c] = Job("safe", "touch")]
        <5>1. job' = [job EXCEPT ![n] = [job[n] EXCEPT ![c] = Job("safe", "touch")]]
          BY <4>2
        <5>2. job[n] \in [Call -> [what : What, at : At]]
          BY <1>0
        <5>3. \A k \in Node, d \in Call : job'[k][d] = job[k][d] \/ job'[k][d] = Job("safe", "touch")
          BY <1>0, <5>1, <5>2
        <5> QED BY <5>3 DEF Job
      <4> QED BY <1>3, <4>1, <4>2
    <3>2. CASE ~Fallback(n, c)
      <4>1. (job[n][c].at # "free" /\ \E at : Goto(n, c, at)) \/ Ends(n, c)
        BY <1>6, <3>2 DEF HandlerStep, LockTest, LockWrite, Check, PingTouch, PingStandby,
           PingStandbyFailed, PingClear, PingTimeout, PingDecide, SbTouch, SbForget, SbSend,
           SbStandby, Job
      <4> QED BY <1>2, <1>3, <4>1
    <3> QED BY <3>1, <3>2
  <2>2. role'[m] = "active" => role[m] = "active"
    BY <1>0, <1>6 DEF HandlerStep, LockTest, LockWrite, Check, Fallback, PingTouch, PingStandby,
       PingStandbyFailed, PingClear, PingTimeout, PingDecide, SbTouch, SbForget, SbSend,
       SbStandby, Stopped, crm
  <2> QED BY <2>1, <2>2
<1>7. ASSUME NEW n \in Node, AisHandler(n) \/ PublishInfo(n)
      PROVE  NoStart /\ Same
  BY <1>4, <1>7 DEF AisHandler, RunSafe, ChkSafe, RlySafe, InfosetReq, SbSetRole, PublishInfo, crm
<1>8. ASSUME NEW n \in Node, PowerOn(n) \/ (StartStep(n) /\ ~StartTimeout(n))
      PROVE  NoStart /\ (role'[m] = "active" => role[m] = "active" \/ start[m] # "none")
  <2>1. NoStart
    BY <1>4, <1>8 DEF PowerOn, StartStep, StartNormal, StartRecorded, StartAsk, StartAnswered,
       StartRole
  <2>2. role'[m] = "active" => role[m] = "active" \/ start[m] # "none"
    BY <1>0, <1>8 DEF PowerOn, StartStep, StartNormal, StartRecorded, StartAsk, StartAnswered,
       StartRole, crm
  <2> QED BY <2>1, <2>2
<1>9. ASSUME NEW n \in Node, DrbdReport(n)
      PROVE  Same /\ role[m] = "active" /\ reports[n] < MaxReports
  BY <1>9 DEF DrbdReport, crm
<1>10. ASSUME NEW n \in Node, OperatorChoice(n)
       PROVE  NoStart /\ Same
  BY <1>10 DEF OperatorChoice, crm
<1> QED
  BY <1>1, <1>5, <1>6, <1>7, <1>8, <1>9, <1>10
  DEF Next, SbStandbyFailed, Reboot, StartStep, StartTimeout, Crash, Environment

LEMMA UndisputedStep ==
  ASSUME TypeOK, RecordInv, Next
  PROVE  RecordUndisputed'
<1> SUFFICES ASSUME NEW n \in Node, "prev_active" \in disk'[n], "bumped" \in tmp'[Other(n)]
             PROVE  ~PingPending(Other(n))' /\ role'[Other(n)] # "active"
  BY DEF RecordUndisputed
<1>1. Other(n) \in Node /\ "bumped" \in tmp[Other(n)] /\ start[Other(n)] = "none"
  BY OtherServer, BumpedStep DEF RecordInv, BumpedUp
<1>2. ~PingPending(Other(n)) /\ role[Other(n)] # "active"
  <2>1. CASE "prev_active" \in disk[n]
    BY <1>1, <2>1 DEF RecordInv, RecordUndisputed
  <2>2. CASE "prev_active" \notin disk[n]
    <3>1. CASE OperatorChoice(n)
      BY <1>1, <3>1 DEF OperatorChoice, BothSafe, PingPending, NoJob
    <3>2. CASE \E c \in Call : PingDecide(n, c) /\ info[n] # Bumped(n) /\ info[n] # "yes"
      BY <1>1, <3>2, WinnerAlone DEF RecordInv
    <3> QED BY <2>2, <3>1, <3>2, RecordWritten
  <2> QED BY <2>1, <2>2
<1> QED BY <1>1, <1>2, PendingStep

LEMMA RecordStep ==
  ASSUME TypeOK, RecordInv, Next
  PROVE  NotBothRecordActive'
<1> SUFFICES ASSUME NEW m \in Node, "prev_active" \in disk'[m], "prev_active" \notin disk[m]
             PROVE  "prev_active" \notin disk'[Other(m)]
  BY OtherServer DEF RecordInv, NotBothRecordActive
<1>1. Other(m) \in Node /\ Other(m) # m /\ Other(Other(m)) = m
  BY OtherServer
<1>2. "prev_active" \notin disk[Other(m)]
  <2>1. CASE OperatorChoice(m)
    BY <1>1, <2>1 DEF OperatorChoice, BothSafe, Record
  <2>2. CASE \E c \in Call : PingDecide(m, c) /\ info[m] # Bumped(m) /\ info[m] # "yes"
    BY <1>1, <2>2, WinnerAlone DEF RecordInv, RecordUndisputed
  <2> QED BY <2>1, <2>2, RecordWritten
<1> QED BY <1>1, <1>2, RecordWritten DEF Touch, TypeOK

LEMMA RecordsKept == Spec => []RecordInv
<1>1. Init => TypeOK /\ RecordInv
  <2> SUFFICES ASSUME Init PROVE RecordInv
    BY TypeInit
  <2>1. NotBothRecordActive
    BY DEF Init, NotBothRecordActive, Node
  <2> QED BY <2>1, OtherServer
     DEF Init, RecordInv, BumpedUp, BumpedTold, RecordUndisputed
<1>2. TypeOK /\ RecordInv /\ [Next]_vars => TypeOK' /\ RecordInv'
  <2> SUFFICES ASSUME TypeOK, RecordInv, [Next]_vars PROVE RecordInv'
    BY TypeStep
  <2>1. CASE Next
    BY <2>1, BumpedStep, ToldStep, UndisputedStep, RecordStep DEF RecordInv
  <2>2. CASE UNCHANGED vars
    BY <2>2 DEF RecordInv, BumpedUp, BumpedTold, RecordUndisputed, PingPending,
       NotBothRecordActive, vars, files, boot, power, crm
  <2> QED BY <2>1, <2>2
<1> QED BY <1>1, <1>2, PTL DEF Spec

\* At most one of the two servers is ever recorded as the active one, however
\* many reports, calls of the handler, power losses and choices there are.
THEOREM OneRecord == Spec => []NotBothRecordActive
<1>1. RecordInv => NotBothRecordActive
  BY DEF RecordInv
<1> QED BY <1>1, RecordsKept, PTL

\* A server with the flag of a raised admin_epoch has told the other one nothing
\* else, and once the other is recorded as active it has nothing to decide.
THEOREM OneStory == Spec => []RecordsAgree
<1>1. RecordInv => RecordsAgree
  BY DEF RecordInv, RecordsAgree
<1> QED BY <1>1, RecordsKept, PTL

(***************************************************************************)
(* From safe mode.  Until the record of the server the operator chose has  *)
(* been used, the other one is barred by its constraint and has no such    *)
(* record of its own.  No split brain is reported again meanwhile.         *)
(***************************************************************************)
Used == \E c \in chosen : "prev_active" \notin disk[c]
Barred(n) == n \in rule /\ role[n] # "active" /\ "prev_active" \notin disk[n]

SafeInv ==
  /\ \A n \in Node : ~PingPending(n)
  /\ ~Used => \A n \in Node \ chosen : Barred(n)

LEMMA SafeTypeInit == InitSafe => TypeOK
<1> SUFFICES ASSUME InitSafe PROVE TypeOK
  OBVIOUS
<1>1. job \in [Node -> [Call -> [what : What, at : At]]]
  BY DEF InitSafe, NoJob, What, At
<1>2. reports \in [Node -> 0..MaxReports] /\ crashes \in 0..MaxCrashes
  BY BoundAssumption DEF InitSafe
<1>3. disk \in [Node -> SUBSET DiskFlag]
  BY DEF InitSafe, DiskFlag
<1> QED
  BY <1>1, <1>2, <1>3 DEF InitSafe, TypeOK, TmpFlag, Role, StartPc

\* The operator chooses while nobody has a record: if that is the first choice,
\* the other server is barred.
LEMMA ChoiceStep ==
  ASSUME TypeOK, SafeInv, MaxChoices \in {0, 1}, NEW n \in Node, OperatorChoice(n)
  PROVE  ~Used' => \A m \in Node \ chosen' : Barred(m)'
<1>1. chosen = {}
  <2>1. IsFiniteSet({node0, node1})
    <3>1. IsFiniteSet({node0} \cup {node1})
      BY FS_AddElement, FS_Singleton
    <3>2. {node0} \cup {node1} = {node0, node1}
      OBVIOUS
    <3> QED BY <3>1, <3>2
  <2>2. IsFiniteSet(chosen) /\ Cardinality(chosen) \in Nat
    BY <2>1, FS_Subset, FS_CardinalityType DEF TypeOK, Node
  <2>3. Cardinality(chosen) = 0
    BY <2>2 DEF OperatorChoice
  <2> QED BY <2>2, <2>3, FS_EmptySet
<1>2. \A m \in Node : Barred(m)
  BY <1>1 DEF SafeInv, Used
<1>3. chosen' = {n} /\ disk' = Touch(disk, n, "prev_active") /\ UNCHANGED crm
  BY <1>1 DEF OperatorChoice
<1>4. \A m \in Node \ chosen' : disk'[m] = disk[m]
  BY <1>3 DEF Touch, TypeOK
<1> QED BY <1>2, <1>3, <1>4 DEF Barred, crm

\* Nothing but a record or an active server lifts a constraint.
LEMMA RuleStep ==
  ASSUME TypeOK, Next, NEW m \in Node, m \in rule, m \notin rule'
  PROVE  \/ "prev_active" \in disk[m]
         \/ Other(m) \notin rule /\ "prev_active" \notin disk'[Other(m)]
<1>1. ASSUME NEW n \in Node, StartRole(n)
      PROVE  Other(m) \notin rule /\ "prev_active" \notin disk'[Other(m)]
  <2>1. n = Other(m) /\ n \notin rule
    BY <1>1, OtherServer DEF StartRole
  <2>2. "prev_active" \notin disk'[n]
    BY <1>1 DEF StartRole, Remove, Record, TypeOK
  <2> QED BY <2>1, <2>2
<1>2. ASSUME NEW n \in Node, StartRecorded(n)
      PROVE  "prev_active" \in disk[m]
  BY <1>2 DEF StartRecorded
<1>3. ASSUME NEW n \in Node, NEW c \in Call,
             HandlerStep(n, c) \/ PingStandbyFailed(n, c) \/ SbStandbyFailed(n, c)
      PROVE  FALSE
  BY <1>3 DEF HandlerStep, LockTest, LockWrite, Check, Fallback, PingTouch, PingStandby,
     PingStandbyFailed, PingClear, PingTimeout, PingDecide, SbTouch, SbForget, SbSend,
     SbStandby, SbStandbyFailed, crm
<1>4. ASSUME NEW n \in Node, AisHandler(n) \/ PublishInfo(n) \/ Environment(n)
      PROVE  FALSE
  BY <1>4 DEF AisHandler, RunSafe, ChkSafe, RlySafe, InfosetReq, SbSetRole, PublishInfo,
     Environment, DrbdReport, OperatorChoice, Crash, crm
<1>5. ASSUME NEW n \in Node, PowerOn(n) \/ Reboot(n) \/ StartNormal(n) \/ StartAsk(n)
                             \/ StartAnswered(n) \/ StartTimeout(n)
      PROVE  FALSE
  BY <1>5 DEF PowerOn, Reboot, StartNormal, StartAsk, StartAnswered, StartTimeout, crm
<1> QED BY <1>1, <1>2, <1>3, <1>4, <1>5 DEF Next, StartStep

\* A server becomes active only without a constraint.
LEMMA ServeStep ==
  ASSUME TypeOK, Next, NEW m \in Node, role[m] # "active", role'[m] = "active"
  PROVE  m \notin rule
<1>1. ASSUME NEW n \in Node, StartRole(n)
      PROVE  m \notin rule
  BY <1>1 DEF StartRole, TypeOK
<1>2. ASSUME NEW n \in Node, Off(n)
      PROVE  FALSE
  BY <1>2 DEF Off, TypeOK
<1>3. ASSUME NEW n \in Node, NEW c \in Call, HandlerStep(n, c) \/ PingStandbyFailed(n, c)
      PROVE  FALSE
  BY <1>3 DEF HandlerStep, LockTest, LockWrite, Check, Fallback, PingTouch, PingStandby,
     PingStandbyFailed, PingClear, PingTimeout, PingDecide, SbTouch, SbForget, SbSend,
     SbStandby, Stopped, crm, TypeOK
<1>4. ASSUME NEW n \in Node, AisHandler(n) \/ PublishInfo(n) \/ DrbdReport(n) \/ OperatorChoice(n)
      PROVE  FALSE
  BY <1>4 DEF AisHandler, RunSafe, ChkSafe, RlySafe, InfosetReq, SbSetRole, PublishInfo,
     DrbdReport, OperatorChoice, crm
<1>5. ASSUME NEW n \in Node, PowerOn(n) \/ StartNormal(n) \/ StartRecorded(n) \/ StartAsk(n)
                             \/ StartAnswered(n)
      PROVE  FALSE
  BY <1>5 DEF PowerOn, StartNormal, StartRecorded, StartAsk, StartAnswered, crm
<1> QED BY <1>1, <1>2, <1>3, <1>4, <1>5
  DEF Next, SbStandbyFailed, Reboot, StartStep, StartTimeout, Crash, Environment

LEMMA SafeStep ==
  ASSUME TypeOK, SafeInv, MaxReports = 0, MaxChoices \in {0, 1}, Next
  PROVE  SafeInv'
<1>1. \A n \in Node : ~PingPending(n)'
  <2>1. \A n \in Node : ~(reports[n] < MaxReports)
    BY DEF TypeOK
  <2> QED BY <2>1, PendingStep DEF SafeInv
<1>2. ASSUME NEW n \in Node, NEW c \in Call
      PROVE  ~PingDecide(n, c)
  BY DEF SafeInv, PingDecide, PingPending, Job
<1>3. ASSUME ~Used', \A n \in Node : ~OperatorChoice(n)
      PROVE  \A m \in Node \ chosen' : Barred(m)'
  <2>1. chosen' = chosen
    <3>1. ASSUME NEW n \in Node, NEW c \in Call, HandlerStep(n, c) PROVE chosen' = chosen
      BY <3>1 DEF HandlerStep, LockTest, LockWrite, Check, Fallback, PingTouch, PingStandby,
         PingClear, PingTimeout, PingDecide, SbTouch, SbForget, SbSend, SbStandby, counts
    <3>2. ASSUME NEW n \in Node, NEW c \in Call, PingStandbyFailed(n, c) \/ SbStandbyFailed(n, c)
          PROVE  chosen' = chosen
      BY <3>2 DEF PingStandbyFailed, SbStandbyFailed, counts
    <3>3. ASSUME NEW n \in Node, AisHandler(n) \/ PublishInfo(n) PROVE chosen' = chosen
      BY <3>3 DEF AisHandler, RunSafe, ChkSafe, RlySafe, InfosetReq, SbSetRole, PublishInfo, counts
    <3>4. ASSUME NEW n \in Node, PowerOn(n) \/ Reboot(n) \/ StartStep(n) PROVE chosen' = chosen
      BY <3>4 DEF PowerOn, Reboot, StartStep, StartNormal, StartRecorded, StartAsk,
         StartAnswered, StartRole, StartTimeout, counts
    <3>5. ASSUME NEW n \in Node, DrbdReport(n) \/ Crash(n) PROVE chosen' = chosen
      BY <3>5 DEF DrbdReport, Crash
    <3> QED BY <1>3, <3>1, <3>2, <3>3, <3>4, <3>5 DEF Next, Environment
  <2>2. \A m \in Node : "prev_active" \in disk'[m] => "prev_active" \in disk[m]
    BY <1>2, <1>3, RecordWritten
  <2>3. ~Used /\ chosen \subseteq Node
    BY <1>3, <2>1, <2>2 DEF Used, TypeOK
  <2> SUFFICES ASSUME NEW m \in Node \ chosen PROVE Barred(m)'
    BY <2>1
  <2>4. Barred(m)
    BY <2>3 DEF SafeInv
  <2>5. m \in rule'
    <3>1. SUFFICES ASSUME m \notin rule' PROVE FALSE
      OBVIOUS
    <3>2. Other(m) \notin rule /\ "prev_active" \notin disk'[Other(m)]
      BY <2>4, <3>1, RuleStep DEF Barred
    <3>3. Other(m) \in chosen
      BY <2>3, <3>2, OtherServer DEF SafeInv, Barred
    <3> QED BY <1>3, <2>1, <3>2, <3>3 DEF Used
  <2>6. role'[m] # "active"
    BY <2>4, ServeStep DEF Barred
  <2> QED BY <2>2, <2>4, <2>5, <2>6 DEF Barred
<1> QED BY <1>1, <1>3, ChoiceStep DEF SafeInv

\* After a choice of the operator in safe mode, and however often power fails, the
\* first server that serves is the one chosen (set-sb-role, rc.ha start).
THEOREM ChosenServesFirst ==
  MaxReports = 0 /\ MaxChoices \in {0, 1} => (SafeSpec => []OnlyChosenServes)
<1> SUFFICES ASSUME MaxReports = 0, MaxChoices \in {0, 1}
             PROVE  SafeSpec => []OnlyChosenServes
  OBVIOUS
<1>1. InitSafe => TypeOK /\ SafeInv
  BY SafeTypeInit DEF InitSafe, SafeInv, PingPending, NoJob, Barred
<1>2. TypeOK /\ SafeInv /\ [Next]_vars => TypeOK' /\ SafeInv'
  <2> SUFFICES ASSUME TypeOK, SafeInv, [Next]_vars PROVE SafeInv'
    BY TypeStep
  <2>1. CASE Next
    BY <2>1, SafeStep
  <2>2. CASE UNCHANGED vars
    BY <2>2 DEF SafeInv, PingPending, Used, Barred, vars, files, boot, power, crm, counts
  <2> QED BY <2>1, <2>2
<1>3. SafeInv => OnlyChosenServes
  BY DEF SafeInv, Used, Barred, OnlyChosenServes
<1> QED BY <1>1, <1>2, <1>3, PTL DEF SafeSpec
=============================================================================
