--------------------------- MODULE HttpTxn_proofs ---------------------------
(***************************************************************************)
(* Theorems about HttpTxn, for every number of transactions and of VMs.    *)
(***************************************************************************)
EXTENDS HttpTxn_refines, TLAPS

USE HttpTxnAssumption DEF HttpTxnAssumption

LEMMA InitType == Init => TypeOK
  BY DEF Init, TypeOK, VMs, Pcs

LEMMA NextType == TypeOK /\ [Next]_vars => TypeOK'
<1> SUFFICES ASSUME TypeOK, [Next]_vars PROVE TypeOK'
  OBVIOUS
<1> USE DEF TypeOK, Pcs, Goto, idVars, lockVars, luaVars, asyncVars
<1>0. CASE UNCHANGED vars
  BY <1>0 DEF vars
<1> SUFFICES ASSUME NEW t \in Txns, Handler(t) \/ Event(t) \/ Environment(t)
             PROVE  TypeOK'
  BY <1>0 DEF Next
<1>1. CASE Arrive(t)
  BY <1>1 DEF Arrive, VMs
<1>2. CASE StartRemap(t)
  BY <1>2 DEF StartRemap, Lock, CanLock
<1>3. CASE \E h \in Hooks : AddHook(t, h)
  BY <1>3 DEF AddHook
<1>4. CASE AddTransform(t)
  BY <1>4 DEF AddTransform
<1>5. CASE KeepCtx(t)
  BY <1>5 DEF KeepCtx, Unlock
<1>6. CASE UndoCtx(t)
  BY <1>6 DEF UndoCtx, CleanChain
<1>7. CASE LeaveRemap(t)
  BY <1>7 DEF LeaveRemap, Unlock
<1>8. CASE \E h \in Hooks : Callout(t, h)
  BY <1>8 DEF Callout
<1>9. CASE ResumeLua(t)
  BY <1>9 DEF ResumeLua, Lock, CanLock
<1>10. CASE ResumeFails(t)
  BY <1>10 DEF ResumeFails, Lock, CanLock
<1>11. CASE \E k \in Kinds : Yield(t, k)
  BY <1>11 DEF Yield, StartOp, Ops, Kinds
<1>12. CASE \E k \in Kinds : StrayOp(t, k)
  BY <1>12 DEF StrayOp, StartOp, Ops, Kinds
<1>13. CASE \E r \in Results : Return(t, r)
  BY <1>13 DEF Return
<1>14. CASE Raise(t)
  BY <1>14 DEF Raise
<1>15. CASE LeaveVM(t)
  BY <1>15 DEF LeaveVM, Unlock
<1>16. CASE Reenable(t)
  BY <1>16 DEF Reenable
<1>17. CASE WaitAsync(t)
  BY <1>17 DEF WaitAsync
<1>18. CASE Close(t)
  BY <1>18 DEF Close, CleanChain
<1>19. CASE Unref(t)
  BY <1>19 DEF Unref
<1>20. CASE SleepOver(t)
  BY <1>20 DEF SleepOver, Quiet
<1>21. CASE LockedOver(t)
  BY <1>21 DEF LockedOver, Quiet
<1>22. CASE EventLock(t)
  BY <1>22 DEF EventLock, Lock, CanLock
<1>23. CASE EventUnlock(t)
  BY <1>23 DEF EventUnlock, Unlock
<1> QED
  BY <1>1, <1>2, <1>3, <1>4, <1>5, <1>6, <1>7, <1>8, <1>9, <1>10, <1>11,
     <1>12, <1>13, <1>14, <1>15, <1>16, <1>17, <1>18, <1>19, <1>20, <1>21, <1>22, <1>23
  DEF Handler, Event, Environment

(* TypeOK is an invariant. *)
THEOREM TypeCorrect == Spec => []TypeOK
  BY InitType, NextType, PTL DEF Spec
-----------------------------------------------------------------------------
(* The lock discipline.  Its inductive invariant is VmExclusive,           *)
(* LockBalanced and FramesNest together: the holder of a VM is known by    *)
(* its frames, and the count of a lock is the number of these frames.      *)
LockInv == VmExclusive /\ LockBalanced /\ FramesNest

LEMMA InitLock == Init => LockInv
  BY DEF Init, LockInv, VmExclusive, LockBalanced, FramesNest, Holds, Locking

LEMMA NextLock == TypeOK /\ LockInv /\ [Next]_vars => LockInv'
<1> SUFFICES ASSUME TypeOK, LockInv, [Next]_vars PROVE LockInv'
  OBVIOUS
<1> USE DEF TypeOK, LockInv, VmExclusive, LockBalanced, FramesNest, Holds, Locking,
            Goto, idVars, lockVars, luaVars, asyncVars
<1>0. CASE UNCHANGED vars
  BY <1>0 DEF vars
<1> SUFFICES ASSUME NEW t \in Txns, Handler(t) \/ Event(t) \/ Environment(t)
             PROVE  LockInv'
  BY <1>0 DEF Next
<1>1. CASE Arrive(t)
  BY <1>1 DEF Arrive
<1>2. CASE StartRemap(t)
  BY <1>2 DEF StartRemap, Lock, CanLock
<1>3. CASE \E h \in Hooks : AddHook(t, h)
  BY <1>3 DEF AddHook
<1>4. CASE AddTransform(t)
  BY <1>4 DEF AddTransform
<1>5. CASE KeepCtx(t)
  BY <1>5 DEF KeepCtx, Unlock
<1>6. CASE UndoCtx(t)
  BY <1>6 DEF UndoCtx, CleanChain
<1>7. CASE LeaveRemap(t)
  BY <1>7 DEF LeaveRemap, Unlock
<1>8. CASE \E h \in Hooks : Callout(t, h)
  BY <1>8 DEF Callout
<1>9. CASE ResumeLua(t)
  BY <1>9 DEF ResumeLua, Lock, CanLock
<1>10. CASE ResumeFails(t)
  BY <1>10 DEF ResumeFails, Lock, CanLock
<1>11. CASE \E k \in Kinds : Yield(t, k)
  BY <1>11 DEF Yield, StartOp, Ops, Kinds
<1>12. CASE \E k \in Kinds : StrayOp(t, k)
  BY <1>12 DEF StrayOp, StartOp, Ops, Kinds
<1>13. CASE \E r \in Results : Return(t, r)
  BY <1>13 DEF Return
<1>14. CASE Raise(t)
  BY <1>14 DEF Raise
<1>15. CASE LeaveVM(t)
  BY <1>15 DEF LeaveVM, Unlock
<1>16. CASE Reenable(t)
  BY <1>16 DEF Reenable
<1>17. CASE WaitAsync(t)
  BY <1>17 DEF WaitAsync
<1>18. CASE Close(t)
  BY <1>18 DEF Close, CleanChain
<1>19. CASE Unref(t)
  BY <1>19 DEF Unref, CanLock
<1>20. CASE SleepOver(t)
  BY <1>20 DEF SleepOver, Quiet
<1>21. CASE LockedOver(t)
  BY <1>21 DEF LockedOver, Quiet
<1>22. CASE EventLock(t)
  BY <1>22 DEF EventLock, Lock, CanLock
<1>23. CASE EventUnlock(t)
  BY <1>23 DEF EventUnlock, Unlock
<1> QED
  BY <1>1, <1>2, <1>3, <1>4, <1>5, <1>6, <1>7, <1>8, <1>9, <1>10, <1>11,
     <1>12, <1>13, <1>14, <1>15, <1>16, <1>17, <1>18, <1>19, <1>20, <1>21, <1>22, <1>23
  DEF Handler, Event, Environment

(* The VM of a transaction is exclusively its own while a frame of it      *)
(* holds the lock, and every lock is left as often as it was taken.        *)
THEOREM LockDiscipline == Spec => [](VmExclusive /\ LockBalanced)
<1>1. TypeOK /\ LockInv => VmExclusive /\ LockBalanced
  BY DEF LockInv
<1> QED
  BY InitType, NextType, InitLock, NextLock, <1>1, PTL DEF Spec

(* The second half by itself: every path of every handler, the failing     *)
(* ones included, unlocks as often as it locked.                           *)
THEOREM LocksLeft == Spec => []LockBalanced
  BY LockDiscipline, PTL
-----------------------------------------------------------------------------
(* Operations under way belong to items of a living context.               *)
LEMMA InitStages == Init => Stages
<1> SUFFICES ASSUME Init, NEW t \in Txns PROVE Stages!(t)
  BY DEF Stages
<1> QED
  BY DEF Init

LEMMA NextStages == TypeOK /\ Stages /\ [Next]_vars => Stages'
<1> SUFFICES ASSUME TypeOK, Stages, [Next]_vars PROVE Stages'
  OBVIOUS
<1> USE DEF TypeOK, Stages, Goto, idVars, lockVars, luaVars, asyncVars
<1>0. CASE UNCHANGED vars
  BY <1>0 DEF vars
<1> SUFFICES ASSUME NEW t \in Txns, Handler(t) \/ Event(t) \/ Environment(t)
             PROVE  Stages'
  BY <1>0 DEF Next
<1>1. CASE Arrive(t)
  BY <1>1 DEF Arrive
<1>2. CASE StartRemap(t)
  BY <1>2 DEF StartRemap, Lock, CanLock
<1>3. CASE \E h \in Hooks : AddHook(t, h)
  BY <1>3 DEF AddHook
<1>4. CASE AddTransform(t)
  BY <1>4 DEF AddTransform
<1>5. CASE KeepCtx(t)
  BY <1>5 DEF KeepCtx, Unlock
<1>6. CASE UndoCtx(t)
  BY <1>6 DEF UndoCtx, CleanChain
<1>7. CASE LeaveRemap(t)
  BY <1>7 DEF LeaveRemap, Unlock
<1>8. CASE \E h \in Hooks : Callout(t, h)
  BY <1>8 DEF Callout
<1>9. CASE ResumeLua(t)
  BY <1>9 DEF ResumeLua, Lock, CanLock
<1>10. CASE ResumeFails(t)
  BY <1>10 DEF ResumeFails, Lock, CanLock
<1>11. CASE \E k \in Kinds : Yield(t, k)
  BY <1>11 DEF Yield, StartOp, Ops, Kinds
<1>12. CASE \E k \in Kinds : StrayOp(t, k)
  BY <1>12 DEF StrayOp, StartOp, Ops, Kinds
<1>13. CASE \E r \in Results : Return(t, r)
  BY <1>13 DEF Return
<1>14. CASE Raise(t)
  BY <1>14 DEF Raise
<1>15. CASE LeaveVM(t)
  BY <1>15 DEF LeaveVM, Unlock
<1>16. CASE Reenable(t)
  BY <1>16 DEF Reenable
<1>17. CASE WaitAsync(t)
  BY <1>17 DEF WaitAsync
<1>18. CASE Close(t)
  BY <1>18 DEF Close, CleanChain
<1>19. CASE Unref(t)
  BY <1>19 DEF Unref, CanLock
<1>20. CASE SleepOver(t)
  BY <1>20 DEF SleepOver, Quiet
<1>21. CASE LockedOver(t)
  BY <1>21 DEF LockedOver, Quiet
<1>22. CASE EventLock(t)
  BY <1>22 DEF EventLock, Lock, CanLock
<1>23. CASE EventUnlock(t)
  BY <1>23 DEF EventUnlock, Unlock
<1> QED
  BY <1>1, <1>2, <1>3, <1>4, <1>5, <1>6, <1>7, <1>8, <1>9, <1>10, <1>11,
     <1>12, <1>13, <1>14, <1>15, <1>16, <1>17, <1>18, <1>19, <1>20, <1>21, <1>22, <1>23
  DEF Handler, Event, Environment

(* No event is ever delivered for an item that was deleted or a context    *)
(* that was destroyed, stray operations included.                          *)
THEOREM NoStaleEvent == Spec => []SchedLive
<1>1. TypeOK /\ Stages => SchedLive
  BY DEF TypeOK, Stages, SchedLive, Alive
<1> QED
  BY InitType, NextType, InitStages, NextStages, <1>1, PTL DEF Spec

(* What the runs check as one inductive invariant.                         *)
THEOREM Inductive == Spec => []IInv
<1>1. TypeOK /\ LockInv /\ Stages => IInv
  BY DEF IInv, LockInv
<1> QED
  BY InitType, NextType, InitLock, NextLock, InitStages, NextStages, <1>1, PTL DEF Spec

-----------------------------------------------------------------------------
(* The coroutine of a context is anchored in the registry of its VM for    *)
(* exactly as long as a handler may resume it.                             *)
LEMMA InitAnchored == Init => CoroutineAnchored
<1> SUFFICES ASSUME Init, NEW t \in Txns PROVE CoroutineAnchored!(t)
  BY DEF CoroutineAnchored
<1>1. ref[t] = FALSE /\ pc[t] = "new"
  BY DEF Init
<1> QED
  BY <1>1

LEMMA NextAnchored ==
  TypeOK /\ Stages /\ CoroutineAnchored /\ [Next]_vars => CoroutineAnchored'
<1> SUFFICES ASSUME TypeOK, Stages, CoroutineAnchored, [Next]_vars PROVE CoroutineAnchored'
  OBVIOUS
<1> USE DEF TypeOK, Stages, CoroutineAnchored, Goto, idVars, lockVars, luaVars, asyncVars
<1>0. CASE UNCHANGED vars
  BY <1>0 DEF vars
<1> SUFFICES ASSUME NEW t \in Txns, Handler(t) \/ Event(t) \/ Environment(t)
             PROVE  CoroutineAnchored'
  BY <1>0 DEF Next
<1>1. CASE Arrive(t)
  BY <1>1 DEF Arrive
<1>2. CASE StartRemap(t)
  BY <1>2 DEF StartRemap, Lock, CanLock
<1>3. CASE \E h \in Hooks : AddHook(t, h)
  BY <1>3 DEF AddHook
<1>4. CASE AddTransform(t)
  BY <1>4 DEF AddTransform
<1>5. CASE KeepCtx(t)
  BY <1>5 DEF KeepCtx, Unlock
<1>6. CASE UndoCtx(t)
  BY <1>6 DEF UndoCtx, CleanChain
<1>7. CASE LeaveRemap(t)
  BY <1>7 DEF LeaveRemap, Unlock
<1>8. CASE \E h \in Hooks : Callout(t, h)
  BY <1>8 DEF Callout
<1>9. CASE ResumeLua(t)
  BY <1>9 DEF ResumeLua, Lock, CanLock
<1>10. CASE ResumeFails(t)
  BY <1>10 DEF ResumeFails, Lock, CanLock
<1>11. CASE \E k \in Kinds : Yield(t, k)
  BY <1>11 DEF Yield, StartOp, Ops, Kinds
<1>12. CASE \E k \in Kinds : StrayOp(t, k)
  BY <1>12 DEF StrayOp, StartOp, Ops, Kinds
<1>13. CASE \E r \in Results : Return(t, r)
  BY <1>13 DEF Return
<1>14. CASE Raise(t)
  BY <1>14 DEF Raise
<1>15. CASE LeaveVM(t)
  BY <1>15 DEF LeaveVM, Unlock
<1>16. CASE Reenable(t)
  BY <1>16 DEF Reenable
<1>17. CASE WaitAsync(t)
  BY <1>17 DEF WaitAsync
<1>18. CASE Close(t)
  BY <1>18 DEF Close, CleanChain
<1>19. CASE Unref(t)
  BY <1>19 DEF Unref, CanLock
<1>20. CASE SleepOver(t)
  BY <1>20 DEF SleepOver, Quiet
<1>21. CASE LockedOver(t)
  BY <1>21 DEF LockedOver, Quiet
<1>22. CASE EventLock(t)
  BY <1>22 DEF EventLock, Lock, CanLock
<1>23. CASE EventUnlock(t)
  BY <1>23 DEF EventUnlock, Unlock
<1> QED
  BY <1>1, <1>2, <1>3, <1>4, <1>5, <1>6, <1>7, <1>8, <1>9, <1>10, <1>11,
     <1>12, <1>13, <1>14, <1>15, <1>16, <1>17, <1>18, <1>19, <1>20, <1>21, <1>22, <1>23
  DEF Handler, Event, Environment

(* No coroutine is collected under a handler, and none is leaked.          *)
THEOREM Anchored == Spec => []CoroutineAnchored
  BY InitType, NextType, InitStages, NextStages, InitAnchored, NextAnchored, PTL DEF Spec
-----------------------------------------------------------------------------
(* The Lua registry of a VM is written by the holder of its lock only.     *)
THEOREM RegistryGuarded == Spec => RegistryUnderLock
<1> DEFINE Guarded == \A t \in Txns : ref'[t] # ref[t] =>
             owner[vm[t]] = t \/ owner'[vm[t]] = t \/ owner[vm[t]] = NoTxn
<1>1. TypeOK /\ LockInv /\ [Next]_vars => [Guarded]_vars
  <2> SUFFICES ASSUME TypeOK, LockInv, Next PROVE Guarded
    OBVIOUS
  <2> USE DEF TypeOK, Goto, idVars, lockVars, luaVars, asyncVars
  <2> PICK t \in Txns : Handler(t) \/ Event(t) \/ Environment(t)
    BY DEF Next
  <2>1. CASE StartRemap(t)
    BY <2>1 DEF StartRemap, Lock, CanLock
  <2>2. CASE UndoCtx(t)
    BY <2>2 DEF UndoCtx, CleanChain, LockInv, VmExclusive, Holds, Locking
  <2>3. CASE Unref(t)
    BY <2>3 DEF Unref, CanLock
  <2>4. CASE UNCHANGED ref
    BY <2>4
  <2> QED
    BY <2>1, <2>2, <2>3, <2>4 DEF Handler, Event, Environment, Arrive, AddHook, AddTransform,
       KeepCtx, LeaveRemap, Callout, ResumeLua, ResumeFails, Yield, StrayOp, Return, Raise,
       LeaveVM, Reenable, WaitAsync, Close, SleepOver, LockedOver, EventLock, EventUnlock
<1> QED
  BY InitType, NextType, InitLock, NextLock, <1>1, PTL DEF Spec, RegistryUnderLock

(* The registry of a VM holds the coroutines of its contexts, and changes  *)
(* under its lock, also where a context is destroyed outside the lock.     *)
THEOREM RegistryRight == Spec => RegistryKept
  BY Anchored, RegistryGuarded, PTL DEF RegistryKept

-----------------------------------------------------------------------------
(* The contract with the state machine, for the transactions whose scripts *)
(* yield in the coroutine of the hook and return no positive number.       *)
LEMMA InitProtocol == Init => Protocol
<1> SUFFICES ASSUME Init, NEW t \in Txns \ Careless PROVE Protocol!(t)
  BY DEF Protocol
<1> QED
  BY DEF Init, Settled

LEMMA NextProtocol ==
  ASSUME TypeOK, Stages, Protocol, [Next]_vars PROVE Protocol'
<1> USE DEF TypeOK, Stages, Protocol, Settled, Suspended,
            Goto, idVars, lockVars, luaVars, asyncVars
<1>0. CASE UNCHANGED vars
  BY <1>0 DEF vars
<1> SUFFICES ASSUME NEW t \in Txns, Handler(t) \/ Event(t) \/ Environment(t)
             PROVE  Protocol'
  BY <1>0 DEF Next
<1>1. CASE Arrive(t)
  BY <1>1 DEF Arrive
<1>2. CASE StartRemap(t)
  BY <1>2 DEF StartRemap, Lock, CanLock
<1>3. CASE \E h \in Hooks : AddHook(t, h)
  BY <1>3 DEF AddHook
<1>4. CASE AddTransform(t)
  BY <1>4 DEF AddTransform
<1>5. CASE KeepCtx(t)
  BY <1>5 DEF KeepCtx, Unlock
<1>6. CASE UndoCtx(t)
  BY <1>6 DEF UndoCtx, CleanChain
<1>7. CASE LeaveRemap(t)
  BY <1>7 DEF LeaveRemap, Unlock
<1>8. CASE \E h \in Hooks : Callout(t, h)
  BY <1>8 DEF Callout
<1>9. CASE ResumeLua(t)
  BY <1>9 DEF ResumeLua, Lock, CanLock, Resumable
<1>10. CASE ResumeFails(t)
  BY <1>10 DEF ResumeFails, Lock, CanLock, Resumable
<1>11. CASE \E k \in Kinds : Yield(t, k)
  <2> PICK k \in Kinds : Yield(t, k)
    BY <1>11
  <2> DEFINE op == <<k, opsMade[t] + 1>>
  <2> SUFFICES ASSUME NEW u \in Txns \ Careless PROVE Protocol!(u)'
    OBVIOUS
  <2>1. CASE u = t
    <3>1. sm[t] = "waiting" /\ sched[t] = {}
      BY <2>1 DEF Yield
    <3>2. chain'[t] = chain[t] \cup {op} /\ sched'[t] = sched[t] \cup {op}
      BY DEF Yield, StartOp
    <3>3. op \in chain'[t] /\ sched'[t] = {op}
      BY <3>1, <3>2
    <3>4. Suspended(t)'
      BY <3>1, <3>3 DEF Yield
    <3> QED
      BY <2>1, <3>4 DEF Yield
  <2>2. CASE u # t
    BY <2>2 DEF Yield, StartOp
  <2> QED
    BY <2>1, <2>2
<1>12. CASE \E k \in Kinds : StrayOp(t, k)
  BY <1>12 DEF StrayOp, StartOp, Careless
<1>13. CASE \E r \in Results : Return(t, r)
  BY <1>13 DEF Return, Careless
<1>14. CASE Raise(t)
  BY <1>14 DEF Raise
<1>15. CASE LeaveVM(t)
  BY <1>15 DEF LeaveVM, Unlock
<1>16. CASE Reenable(t)
  BY <1>16 DEF Reenable
<1>17. CASE WaitAsync(t)
  BY <1>17 DEF WaitAsync
<1>18. CASE Close(t)
  BY <1>18 DEF Close, CleanChain
<1>19. CASE Unref(t)
  BY <1>19 DEF Unref, CanLock
<1>20. CASE SleepOver(t)
  BY <1>20 DEF SleepOver, Quiet
<1>21. CASE LockedOver(t)
  BY <1>21 DEF LockedOver, Quiet
<1>22. CASE EventLock(t)
  BY <1>22 DEF EventLock, Lock, CanLock
<1>23. CASE EventUnlock(t)
  BY <1>23 DEF EventUnlock, Unlock
<1> QED
  BY <1>1, <1>2, <1>3, <1>4, <1>5, <1>6, <1>7, <1>8, <1>9, <1>10, <1>11,
     <1>12, <1>13, <1>14, <1>15, <1>16, <1>17, <1>18, <1>19, <1>20, <1>21, <1>22, <1>23
  DEF Handler, Event, Environment

(* Every answer is one the state machine waits for.                        *)
THEOREM AnswersInTurn == Spec => []AnswersCallout
<1>1. TypeOK /\ Protocol => AnswersCallout
  BY DEF TypeOK, Protocol, AnswersCallout
<1>2. TypeOK /\ Stages /\ Protocol /\ [Next]_vars => Protocol'
  BY NextProtocol
<1> QED
  BY InitType, NextType, InitStages, NextStages, InitProtocol, <1>1, <1>2, PTL DEF Spec

(* A callout that is not answered has one operation under way that will    *)
(* resume its coroutine.                                                   *)
THEOREM WaitsRightly == Spec => []WaitsForAsync
<1>1. TypeOK /\ Protocol => WaitsForAsync
  BY DEF TypeOK, Protocol, Suspended, Settled, WaitsForAsync, Waits
<1>2. TypeOK /\ Stages /\ Protocol /\ [Next]_vars => Protocol'
  BY NextProtocol
<1> QED
  BY InitType, NextType, InitStages, NextStages, InitProtocol, <1>1, <1>2, PTL DEF Spec
-----------------------------------------------------------------------------
(* The refinement.                                                         *)
LEMMA InitService == Init => Service!Init
  BY DEF Init, PhaseOf, Service!Init, VMs

(* A step of t leaves the phase of every other transaction alone.          *)
LEMMA OthersKeepPhase ==
  ASSUME TypeOK, NEW t \in Txns, Handler(t) \/ Event(t) \/ Environment(t),
         NEW u \in Txns, u # t
  PROVE  PhaseOf(u)' = PhaseOf(u) /\ vm'[u] = vm[u]
<1> USE DEF TypeOK, Goto, idVars, lockVars, luaVars, asyncVars
<1> SUFFICES pc'[u] = pc[u] /\ sm'[u] = sm[u] /\ rc'[u] = rc[u] /\ vm'[u] = vm[u]
  BY DEF PhaseOf
<1>1. CASE Arrive(t)
  BY <1>1 DEF Arrive
<1>2. CASE StartRemap(t)
  BY <1>2 DEF StartRemap, Lock, CanLock
<1>3. CASE \E h \in Hooks : AddHook(t, h)
  BY <1>3 DEF AddHook
<1>4. CASE AddTransform(t)
  BY <1>4 DEF AddTransform
<1>5. CASE KeepCtx(t)
  BY <1>5 DEF KeepCtx, Unlock
<1>6. CASE UndoCtx(t)
  BY <1>6 DEF UndoCtx, CleanChain
<1>7. CASE LeaveRemap(t)
  BY <1>7 DEF LeaveRemap, Unlock
<1>8. CASE \E h \in Hooks : Callout(t, h)
  BY <1>8 DEF Callout
<1>9. CASE ResumeLua(t)
  BY <1>9 DEF ResumeLua, Lock, CanLock
<1>10. CASE ResumeFails(t)
  BY <1>10 DEF ResumeFails, Lock, CanLock
<1>11. CASE \E k \in Kinds : Yield(t, k)
  BY <1>11 DEF Yield, StartOp, Ops, Kinds
<1>12. CASE \E k \in Kinds : StrayOp(t, k)
  BY <1>12 DEF StrayOp, StartOp, Ops, Kinds
<1>13. CASE \E r \in Results : Return(t, r)
  BY <1>13 DEF Return
<1>14. CASE Raise(t)
  BY <1>14 DEF Raise
<1>15. CASE LeaveVM(t)
  BY <1>15 DEF LeaveVM, Unlock
<1>16. CASE Reenable(t)
  BY <1>16 DEF Reenable
<1>17. CASE WaitAsync(t)
  BY <1>17 DEF WaitAsync
<1>18. CASE Close(t)
  BY <1>18 DEF Close, CleanChain
<1>19. CASE Unref(t)
  BY <1>19 DEF Unref, CanLock
<1>20. CASE SleepOver(t)
  BY <1>20 DEF SleepOver, Quiet
<1>21. CASE LockedOver(t)
  BY <1>21 DEF LockedOver, Quiet
<1>22. CASE EventLock(t)
  BY <1>22 DEF EventLock, Lock, CanLock
<1>23. CASE EventUnlock(t)
  BY <1>23 DEF EventUnlock, Unlock
<1> QED
  BY <1>1, <1>2, <1>3, <1>4, <1>5, <1>6, <1>7, <1>8, <1>9, <1>10, <1>11, <1>12, <1>13, <1>14, <1>15, <1>16, <1>17, <1>18, <1>19, <1>20, <1>21, <1>22, <1>23 DEF Handler, Event, Environment

LEMMA MoveTo ==
  ASSUME TypeOK, NEW t \in Txns, Handler(t) \/ Event(t) \/ Environment(t),
         NEW from, NEW to, PhaseOf(t) \in from, PhaseOf(t)' = to
  PROVE  Service!Move(t, from, to)
  BY OthersKeepPhase DEF Service!Move

(* A step that leaves the phase and the VM of its transaction alone is a   *)
(* stutter of the service.                                                 *)
LEMMA Stutter ==
  ASSUME TypeOK, NEW t \in Txns, Handler(t) \/ Event(t) \/ Environment(t),
         PhaseOf(t)' = PhaseOf(t), vm' = vm
  PROVE  UNCHANGED Service!svars
  BY OthersKeepPhase DEF Service!svars

(* Nobody is inside a VM whose lock t can take.                            *)
LEMMA LockFindsVacant ==
  ASSUME TypeOK, LockInv, NEW t \in Txns, CanLock(t)
  PROVE  Service!Vacant(t)
  BY DEF TypeOK, LockInv, VmExclusive, Holds, Locking, CanLock, PhaseOf,
         Service!Vacant, Service!Inside, Pcs

(* Whatever a careless transaction does between its first hook and its     *)
(* close is allowed to it, if it enters the VM through the lock.           *)
LEMMA Drifts ==
  ASSUME TypeOK, NEW t \in Txns, Handler(t) \/ Event(t) \/ Environment(t),
         t \in Careless, vm' = vm,
         PhaseOf(t) \in Service!Serving, PhaseOf(t)' \in Service!Serving \ {"inside"}
  PROVE  Service!Next
<1>1. Service!Move(t, Service!Serving, PhaseOf(t)')
  BY MoveTo
<1>2. Service!Drift(t)
  BY <1>1 DEF Service!Drift
<1> QED
  BY <1>2 DEF Service!Next

LEMMA StepService ==
  ASSUME TypeOK, LockInv, Stages, Protocol, [Next]_vars
  PROVE  [Service!Next]_(Service!svars)
<1> USE DEF TypeOK
<1>0. CASE UNCHANGED vars
  BY <1>0 DEF vars, Service!svars, PhaseOf
<1> SUFFICES ASSUME NEW t \in Txns, Handler(t) \/ Event(t) \/ Environment(t)
             PROVE  [Service!Next]_(Service!svars)
  BY <1>0 DEF Next
<1> USE DEF Goto, idVars, lockVars, luaVars, asyncVars
<1>1. CASE Arrive(t)
  <2>0. PhaseOf(t) \in {"absent"} /\ PhaseOf(t)' = "arrived"
    BY <1>1 DEF Arrive, PhaseOf
  <2>1. Service!Move(t, {"absent"}, "arrived")
    BY <2>0, MoveTo
  <2>2. vm' = [vm EXCEPT ![t] = vm'[t]] /\ vm'[t] \in VMs
    BY <1>1, NextType DEF Arrive, Next
  <2> QED
    BY <2>1, <2>2 DEF Service!Arrive, Service!Next
<1>2. CASE StartRemap(t)
  <2>0. PhaseOf(t) \in {"arrived"} /\ PhaseOf(t)' = "remap" /\ vm' = vm
    BY <1>2 DEF StartRemap, PhaseOf
  <2>1. Service!Move(t, {"arrived"}, "remap")
    BY <2>0, MoveTo
  <2>2. Service!Vacant(t)
    BY <1>2, LockFindsVacant DEF StartRemap, Lock
  <2> QED
    BY <2>0, <2>1, <2>2 DEF Service!StartRemap, Service!Plugin, Service!Next
<1>3. CASE \E h \in Hooks : AddHook(t, h)
  BY <1>3, Stutter DEF AddHook, PhaseOf
<1>4. CASE AddTransform(t)
  BY <1>4, Stutter DEF AddTransform, PhaseOf
<1>5. CASE KeepCtx(t)
  <2>0. PhaseOf(t) \in {"remap"} /\ PhaseOf(t)' = "running" /\ vm' = vm
    BY <1>5 DEF KeepCtx, PhaseOf
  <2>1. Service!Move(t, {"remap"}, "running")
    BY <2>0, MoveTo
  <2> QED
    BY <2>0, <2>1 DEF Service!Serve, Service!Plugin, Service!Next
<1>6. CASE UndoCtx(t)
  BY <1>6, Stutter DEF UndoCtx, CleanChain, PhaseOf
<1>7. CASE LeaveRemap(t)
  <2>0. PhaseOf(t) \in {"remap"} /\ PhaseOf(t)' = "closed" /\ vm' = vm
    BY <1>7 DEF LeaveRemap, PhaseOf
  <2>1. Service!Move(t, {"remap"}, "closed")
    BY <2>0, MoveTo
  <2> QED
    BY <2>0, <2>1 DEF Service!Forget, Service!Plugin, Service!Next
<1>8. CASE \E h \in Hooks : Callout(t, h)
  <2>0. PhaseOf(t) \in {"running"} /\ PhaseOf(t)' = "asked" /\ vm' = vm
    BY <1>8 DEF Callout, PhaseOf
  <2>1. Service!Move(t, {"running"}, "asked")
    BY <2>0, MoveTo
  <2> QED
    BY <2>0, <2>1 DEF Service!Ask, Service!Plugin, Service!Next
<1>9. CASE ResumeLua(t)
  <2>0. PhaseOf(t) \in {"asked"} /\ PhaseOf(t)' = "inside" /\ vm' = vm
    BY <1>9 DEF ResumeLua, PhaseOf
  <2>1. Service!Move(t, {"asked"}, "inside")
    BY <2>0, MoveTo
  <2>2. Service!Vacant(t)
    BY <1>9, LockFindsVacant DEF ResumeLua, Lock
  <2> QED
    BY <2>0, <2>1, <2>2 DEF Service!Enter, Service!Plugin, Service!Next
<1>10. CASE ResumeFails(t)
  <2>1. CASE t \in Careless
    BY <1>10, <2>1, Drifts DEF ResumeFails, Stages, PhaseOf, Service!Serving
  <2>2. CASE t \notin Careless
    <3>0. PhaseOf(t) \in {"asked"} /\ PhaseOf(t)' = "answering" /\ vm' = vm
      BY <1>10, <2>2 DEF ResumeFails, PhaseOf, Protocol
    <3>1. Service!Move(t, {"asked"}, "answering")
      BY <3>0, MoveTo
    <3>2. Service!Vacant(t)
      BY <1>10, <2>2, LockFindsVacant DEF ResumeFails, Lock
    <3> QED
      BY <3>0, <3>1, <3>2 DEF Service!Refuse, Service!Plugin, Service!Next
  <2> QED
    BY <2>1, <2>2
<1>11. CASE \E k \in Kinds : Yield(t, k)
  <2>1. CASE t \in Careless
    BY <1>11, <2>1, Drifts DEF Yield, Stages, PhaseOf, Service!Serving
  <2>2. CASE t \notin Careless
    <3>0. PhaseOf(t) \in {"inside"} /\ PhaseOf(t)' = "async" /\ vm' = vm
      BY <1>11, <2>2 DEF Yield, PhaseOf, Protocol
    <3>1. Service!Move(t, {"inside"}, "async")
      BY <3>0, MoveTo
    <3> QED
      BY <3>0, <3>1 DEF Service!Wait, Service!Plugin, Service!Next
  <2> QED
    BY <2>1, <2>2
<1>12. CASE \E k \in Kinds : StrayOp(t, k)
  BY <1>12, Stutter DEF StrayOp, StartOp, PhaseOf
<1>13. CASE \E r \in Results : Return(t, r)
  <2>1. CASE t \in Careless
    BY <1>13, <2>1, Drifts DEF Return, Stages, PhaseOf, Service!Serving
  <2>2. CASE t \notin Careless
    <3>0. PhaseOf(t) \in {"inside"} /\ PhaseOf(t)' = "answering" /\ vm' = vm
      BY <1>13, <2>2 DEF Return, PhaseOf, Protocol, Careless
    <3>1. Service!Move(t, {"inside"}, "answering")
      BY <3>0, MoveTo
    <3> QED
      BY <3>0, <3>1 DEF Service!Decide, Service!Plugin, Service!Next
  <2> QED
    BY <2>1, <2>2
<1>14. CASE Raise(t)
  <2>1. CASE t \in Careless
    BY <1>14, <2>1, Drifts DEF Raise, Stages, PhaseOf, Service!Serving
  <2>2. CASE t \notin Careless
    <3>0. PhaseOf(t) \in {"inside"} /\ PhaseOf(t)' = "answering" /\ vm' = vm
      BY <1>14, <2>2 DEF Raise, PhaseOf, Protocol
    <3>1. Service!Move(t, {"inside"}, "answering")
      BY <3>0, MoveTo
    <3> QED
      BY <3>0, <3>1 DEF Service!Decide, Service!Plugin, Service!Next
  <2> QED
    BY <2>1, <2>2
<1>15. CASE LeaveVM(t)
  BY <1>15, Stutter DEF LeaveVM, PhaseOf
<1>16. CASE Reenable(t)
  <2>1. CASE sm[t] = "waiting"
    <3>0. PhaseOf(t) \in {"answering"} /\ PhaseOf(t)' = "running" /\ vm' = vm
      BY <1>16, <2>1 DEF Reenable, PhaseOf
    <3>1. Service!Move(t, {"answering"}, "running")
      BY <3>0, MoveTo
    <3> QED
      BY <3>0, <3>1 DEF Service!Answer, Service!Plugin, Service!Next
  <2>2. CASE sm[t] = "closing"
    <3>0. PhaseOf(t) \in {"closing"} /\ PhaseOf(t)' = "closed" /\ vm' = vm
      BY <1>16, <2>2 DEF Reenable, PhaseOf
    <3>1. Service!Move(t, {"closing"}, "closed")
      BY <3>0, MoveTo
    <3> QED
      BY <3>0, <3>1 DEF Service!Closed, Service!Plugin, Service!Next
  <2>3. CASE sm[t] = "running"
    BY <1>16, <2>3, Stutter DEF Reenable, PhaseOf
  <2> QED
    BY <1>16, <2>1, <2>2, <2>3 DEF Reenable, Stages
<1>17. CASE WaitAsync(t)
  BY <1>17, Stutter DEF WaitAsync, PhaseOf, Stages
<1>18. CASE Close(t)
  <2>0. PhaseOf(t) \in {"running", "async"} /\ PhaseOf(t)' = "closing" /\ vm' = vm
    BY <1>18 DEF Close, CleanChain, PhaseOf, Stages
  <2>1. Service!Move(t, {"running", "async"}, "closing")
    BY <2>0, MoveTo
  <2> QED
    BY <2>0, <2>1 DEF Service!Close, Service!Plugin, Service!Next
<1>19. CASE Unref(t)
  BY <1>19, Stutter DEF Unref, PhaseOf, Stages
<1>20. CASE SleepOver(t)
  <2>1. CASE t \in Careless
    BY <1>20, <2>1, Drifts DEF SleepOver, Quiet, Stages, PhaseOf, Service!Serving
  <2>2. CASE t \notin Careless
    <3>0. PhaseOf(t) \in {"async"} /\ PhaseOf(t)' = "asked" /\ vm' = vm
      BY <1>20, <2>2 DEF SleepOver, PhaseOf, Quiet, Protocol, Settled, Suspended, Stages
    <3>1. Service!Move(t, {"async"}, "asked")
      BY <3>0, MoveTo
    <3> QED
      BY <3>0, <3>1 DEF Service!Wake, Service!Plugin, Service!Next
  <2> QED
    BY <2>1, <2>2
<1>21. CASE LockedOver(t)
  <2>1. CASE t \in Careless
    BY <1>21, <2>1, Drifts DEF LockedOver, Quiet, Stages, PhaseOf, Service!Serving
  <2>2. CASE t \notin Careless
    <3>0. PhaseOf(t) \in {"async"} /\ PhaseOf(t)' = "asked" /\ vm' = vm
      BY <1>21, <2>2 DEF LockedOver, PhaseOf, Quiet, Protocol, Settled, Suspended, Stages
    <3>1. Service!Move(t, {"async"}, "asked")
      BY <3>0, MoveTo
    <3> QED
      BY <3>0, <3>1 DEF Service!Wake, Service!Plugin, Service!Next
  <2> QED
    BY <2>1, <2>2
<1>22. CASE EventLock(t)
  BY <1>22, Stutter DEF EventLock, PhaseOf
<1>23. CASE EventUnlock(t)
  BY <1>23, Stutter DEF EventUnlock, PhaseOf
<1> QED
  BY <1>1, <1>2, <1>3, <1>4, <1>5, <1>6, <1>7, <1>8, <1>9, <1>10, <1>11,
     <1>12, <1>13, <1>14, <1>15, <1>16, <1>17, <1>18, <1>19, <1>20, <1>21, <1>22, <1>23
  DEF Handler, Event, Environment

(* Every step of locks, coroutines and nested handlers is a step of the    *)
(* service Traffic Server was promised, whatever the careless scripts do.  *)
THEOREM Refinement == Spec => ImplementsSafely
<1>1. TypeOK /\ Stages /\ Protocol /\ [Next]_vars => Protocol'
  BY NextProtocol
<1>2. TypeOK /\ LockInv /\ Stages /\ Protocol /\ [Next]_vars => [Service!Next]_(Service!svars)
  BY StepService
<1> QED
  BY InitType, NextType, InitLock, NextLock, InitStages, NextStages, InitProtocol,
     InitService, <1>1, <1>2, PTL DEF Spec, ImplementsSafely, Service!SafeSpec
=============================================================================
