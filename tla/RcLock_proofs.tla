--------------------------- MODULE RcLock_proofs ---------------------------
(***************************************************************************)
(* The lock file of rc.ha never outlives its call, for any set of callers. *)
(***************************************************************************)
EXTENDS RcLock, TLAPS

\* Only a call that takes the lock, and therefore sets the trap, gets to write.
WritersTrap == \A p \in Proc : pc[p] = "write" => kind[p] # "skip"

IInv == TypeOK /\ NoOrphanLock /\ WritersTrap

\* A call that writes the file has left the test, and the steps that leave the
\* section all remove the file, their own or another call's.
LEMMA LockStep ==
  ASSUME IInv, NEW p \in Proc,
         \/ \E k \in Kind : Call(p, k)
         \/ LockSkipped(p) \/ LockTest(p) \/ LockWrite(p)
         \/ Unlock(p) \/ UnlockInside(p) \/ Exit(p) \/ Signal(p)
  PROVE  IInv'
<1>1. CASE \E k \in Kind : Call(p, k)
  BY <1>1 DEF IInv, TypeOK, NoOrphanLock, WritersTrap, Call, Goto, Pc, Kind
<1>2. CASE LockSkipped(p) \/ LockTest(p)
  BY <1>2 DEF IInv, TypeOK, NoOrphanLock, WritersTrap, LockSkipped, LockTest, Goto, Pc
<1>3. CASE LockWrite(p)
  BY <1>3, LockAssumption DEF IInv, TypeOK, NoOrphanLock, WritersTrap, LockWrite, Goto, Pc, Kind
<1>4. CASE Unlock(p) \/ UnlockInside(p)
  BY <1>4 DEF IInv, TypeOK, NoOrphanLock, WritersTrap, Unlock, UnlockInside, Goto, Pc
<1>5. CASE Exit(p) \/ Signal(p)
  BY <1>5 DEF IInv, TypeOK, NoOrphanLock, WritersTrap, Exit, Signal, Goto, Pc
<1> QED BY <1>1, <1>2, <1>3, <1>4, <1>5

\* Whatever calls run, and however they are interrupted, the lock file never
\* outlives the call whose number it holds.
THEOREM NoOrphan == Spec => []NoOrphanLock
<1>1. Init => IInv
  BY LockAssumption DEF Init, IInv, TypeOK, NoOrphanLock, WritersTrap, Pc
<1>2. IInv /\ [Next]_vars => IInv'
  <2> SUFFICES ASSUME IInv, [Next]_vars PROVE IInv'
    OBVIOUS
  <2>1. CASE Next
    BY <2>1, LockStep DEF Next
  <2>2. CASE UNCHANGED vars
    BY <2>2 DEF vars, IInv, TypeOK, NoOrphanLock, WritersTrap
  <2> QED BY <2>1, <2>2
<1>3. IInv => NoOrphanLock
  BY DEF IInv
<1> QED BY <1>1, <1>2, <1>3, PTL DEF Spec
=============================================================================
