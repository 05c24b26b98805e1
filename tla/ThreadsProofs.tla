---------------------------- MODULE ThreadsProofs ---------------------------
(***************************************************************************)
(* Proofs about what threads share, for any number of them:                *)
(*                                                                         *)
(*   - avs_init_once (InitOnce) runs its function to success once;         *)
(*   - the spinlock mutex and condition variable (SpinlockCondvar) are     *)
(*     consistent and implement the abstract ones of module Condvar;       *)
(*   - the levels, handlers and lock of the log (AvsLog) stay consistent,  *)
(*     for any modules and handlers.                                       *)
(***************************************************************************)
EXTENDS InitOnce, SpinlockCondvar, AvsLog, SequenceTheorems, WellFoundedInduction, TLAPS

-----------------------------------------------------------------------------
(* The proofs: avs_init_once keeps its promises for any number of threads. *)

(***************************************************************************)
(* The inductive invariant relates the atomic state to the successes of    *)
(* func: it is INIT_DONE only after a success, and between a success and   *)
(* the store that publishes it the thread that had it is still there.      *)
(***************************************************************************)
OnceInv ==
    /\ OnceTypeOK
    /\ NeverInParallel
    /\ once_state = INIT_DONE => successes = 1
    /\ successes # 0 =>
          /\ successes = 1
          /\ \/ once_state = INIT_DONE
             \/ \E t \in OnceThreads : once_pc[t] = "store" /\ once_result[t] = 0
    /\ \A t \in OnceThreads : once_pc[t] = "store" /\ once_result[t] = 0 => successes = 1
    /\ returned # {} => successes = 1

\* The initial state of avs_init_once's handle satisfies the invariant.
LEMMA InitOnceInv == OnceInit => OnceInv
BY DEF OnceInit, OnceInv, OnceTypeOK, NeverInParallel, INIT_NOT_STARTED, INIT_IN_PROGRESS,
       INIT_DONE

\* Every step of every thread in avs_init_once preserves the invariant.
LEMMA NextOnceInv == OnceInv /\ [OnceNext]_onceVars => OnceInv'
<1> SUFFICES ASSUME OnceInv, [OnceNext]_onceVars PROVE OnceInv'
    OBVIOUS
<1> USE DEF OnceInv, OnceTypeOK, NeverInParallel, INIT_NOT_STARTED, INIT_IN_PROGRESS,
            INIT_DONE
<1>1. ASSUME NEW t \in OnceThreads, OnceCall(t) PROVE OnceInv'
      BY <1>1 DEF OnceCall
<1>2. ASSUME NEW t \in OnceThreads, CasSucceeds(t) PROVE OnceInv'
      BY <1>2 DEF CasSucceeds
<1>3. ASSUME NEW t \in OnceThreads, CasFails(t) PROVE OnceInv'
      BY <1>3 DEF CasFails
<1>4. ASSUME NEW t \in OnceThreads, NEW r \in {0, -1}, FuncReturns(t, r) PROVE OnceInv'
      BY <1>4 DEF FuncReturns
<1>5. ASSUME NEW t \in OnceThreads, Store(t) PROVE OnceInv'
      BY <1>5 DEF Store, StateAfterFunc
<1>6. CASE UNCHANGED onceVars
      BY <1>6 DEF onceVars
<1> QED BY <1>1, <1>2, <1>3, <1>4, <1>5, <1>6 DEF OnceNext

\* The strengthened invariant holds in every state of avs_init_once.
THEOREM OnceInvHolds == OnceSpec => []OnceInv
BY InitOnceInv, NextOnceInv, PTL DEF OnceSpec

\* avs_init_once's variables keep their types.
THEOREM OnceTypeCorrect == OnceSpec => []OnceTypeOK
<1>1. OnceInv => OnceTypeOK BY DEF OnceInv
<1> QED BY <1>1, OnceInvHolds, PTL

\* No two threads are in func at once, for any number of threads.
THEOREM FuncNeverInParallel == OnceSpec => []NeverInParallel
<1>1. OnceInv => NeverInParallel BY DEF OnceInv
<1> QED BY <1>1, OnceInvHolds, PTL

\* func is never called after its first success, for any number of threads.
THEOREM FuncNeverAfterSuccess == OnceSpec => []NeverAfterSuccess
<1>1. OnceInv => NeverAfterSuccess
      BY DEF OnceInv, OnceTypeOK, NeverInParallel, NeverAfterSuccess,
             INIT_NOT_STARTED, INIT_IN_PROGRESS, INIT_DONE
<1> QED BY <1>1, OnceInvHolds, PTL

\* A call of avs_init_once that returns 0 returns after func has succeeded.
THEOREM ZeroOnlyAfterSuccess == OnceSpec => []ZeroMeansInitialised
<1>1. OnceInv => ZeroMeansInitialised BY DEF OnceInv, ZeroMeansInitialised
<1> QED BY <1>1, OnceInvHolds, PTL

\* All of it at once: avs_init_once runs func to success at most once, never in
\* parallel, and claims success only after it.
THEOREM AlwaysInitialisedOnce == OnceSpec => []InitialisedOnce
BY OnceTypeCorrect, FuncNeverInParallel, FuncNeverAfterSuccess,
   ZeroOnlyAfterSuccess, PTL DEF InitialisedOnce

-----------------------------------------------------------------------------
(* The spinlock mutex and condition variable                               *)

\* The calls in progress whose thread has the mutex, and those without it;
\* a thread may call avs_condvar_notify_all either way.
HasMutex == {"insert_lock", "insert", "unlock", "remove_lock", "remove"}
LacksMutex == {"lock", "spin", "check", "relock"}

\* The sections that condvar->waiters_mutex protects.
ListSections == {"insert", "remove", "notify"}

(***************************************************************************)
(* The inductive invariant.  Holding ties the ghost to the place of the    *)
(* thread.  ListLock makes the three sections exclude each other, so that  *)
(* the list does not change while a notification walks it; Cursors says    *)
(* that a walk meets no node twice.                                        *)
(***************************************************************************)
Holding ==
    \A t \in CondvarThreads :
        /\ cv_pc[t] \in HasMutex => holds[t]
        /\ cv_pc[t] \in LacksMutex => ~holds[t]

ListLock ==
    /\ \A t, u \in CondvarThreads :
          cv_pc[t] \in ListSections /\ cv_pc[u] \in ListSections => t = u
    /\ waiters_locked <=> \E t \in CondvarThreads : cv_pc[t] \in ListSections

Cursors ==
    \A n \in CondvarThreads :
        /\ NoDup(cursor[n])
        /\ cv_pc[n] # "notify" => cursor[n] = <<>>

IInv ==
    /\ CondvarTypeOK
    /\ MutualExclusion
    /\ Holding
    /\ ListLock
    /\ NodesAlive
    /\ Cursors

\* Zenon proves most steps; those with arithmetic or sequences name SMT.
USE ZenonT(120)

\* The primitives before they are created satisfy the invariant.
LEMMA InitIInv == CondvarInit => IInv
<1> SUFFICES ASSUME CondvarInit PROVE IInv
    OBVIOUS
<1> USE CondvarAssumption DEF CondvarInit
<1>1. CondvarTypeOK
  <2>1. waiters \in Seq(CondvarThreads) /\ \A i, j \in 1..Len(waiters) : i = j
        BY SMT
  <2>2. cursor \in [CondvarThreads -> Seq(CondvarThreads)]
        BY SMT
  <2>3. cv_now \in 0..CondvarMaxTime
        BY SMT
  <2> QED BY <2>1, <2>2, <2>3 DEF CondvarTypeOK, Labels
<1>2. MutualExclusion /\ Holding /\ ListLock
      BY DEF MutualExclusion, Holding, ListLock, HasMutex, LacksMutex, ListSections
<1>3. NodesAlive /\ Cursors
      BY SMT DEF NodesAlive, Cursors, Enlisted, ListContains, NoDup
<1> QED BY <1>1, <1>2, <1>3 DEF IInv

\* insert_new_waiter adds its node to the list, which stays one without
\* repetition.
LEMMA InsertList ==
    ASSUME IInv, NEW t \in CondvarThreads, InsertNewWaiter(t)
    PROVE  /\ waiters' \in Seq(CondvarThreads) /\ NoDup(waiters')
           /\ \A u : ListContains(waiters', u) <=> ListContains(waiters, u) \/ u = t
<1>1. waiters \in Seq(CondvarThreads) /\ NoDup(waiters)
      BY DEF IInv, CondvarTypeOK, NoDup
<1>2. ~ListContains(waiters, t)
      BY DEF IInv, NodesAlive, Enlisted, InsertNewWaiter
<1>3. 1 \in 1..Len(waiters) + 1
      BY SMT, <1>1
<1> QED BY SMTT(30), <1>1, <1>2, <1>3, ListInsertNew DEF InsertNewWaiter

\* remove_waiter takes its own node off the list, and no other.
LEMMA RemoveList ==
    ASSUME IInv, NEW t \in CondvarThreads, RemoveWaiter(t)
    PROVE  /\ waiters' \in Seq(CondvarThreads) /\ NoDup(waiters')
           /\ \A u : ListContains(waiters', u) <=> ListContains(waiters, u) /\ u # t
<1>1. waiters \in Seq(CondvarThreads) /\ NoDup(waiters)
      BY DEF IInv, CondvarTypeOK, NoDup
<1>2. ListContains(waiters, t)
      BY DEF IInv, NodesAlive, Enlisted, RemoveWaiter
<1> QED BY <1>1, <1>2, ListDetachFound DEF RemoveWaiter, Detached

\* A step of avs_condvar_notify_all leaves the nodes after the one it cleared.
LEMMA WalkList ==
    ASSUME IInv, NEW t \in CondvarThreads, NotifyStep(t)
    PROVE  /\ Head(cursor[t]) \in CondvarThreads /\ ListContains(cursor[t], Head(cursor[t]))
           /\ cursor'[t] = Tail(cursor[t])
           /\ cursor'[t] \in Seq(CondvarThreads) /\ NoDup(cursor'[t])
           /\ \A u : ListContains(cursor'[t], u)
                       <=> ListContains(cursor[t], u) /\ u # Head(cursor[t])
<1>1. cursor[t] \in Seq(CondvarThreads) /\ NoDup(cursor[t]) /\ cursor[t] # <<>>
      BY DEF IInv, CondvarTypeOK, Cursors, NotifyStep
<1>2. cursor'[t] = Tail(cursor[t])
      BY DEF IInv, CondvarTypeOK, NotifyStep
<1> QED BY SMTT(30), <1>1, <1>2, ListTail

\* avs_mutex_lock(&condvar->waiters_mutex) takes t from one label to another.
LocksWaiters(t, from, to, nodes) ==
    /\ cv_pc[t] = from
    /\ cv_pc' = [cv_pc EXCEPT ![t] = to]
    /\ cursor' = [cursor EXCEPT ![t] = nodes]
    /\ ~waiters_locked /\ waiters_locked' = TRUE
    /\ UNCHANGED <<cv_now, created, locked, waiters, waiting, flag_value, deadline,
                   holds>>

\* The three places avs_mutex_lock(&condvar->waiters_mutex) is called from.
LEMMA LockWaitersCases ==
    ASSUME CondvarTypeOK, NEW t \in CondvarThreads, LockWaiters(t)
    PROVE  \/ LocksWaiters(t, "insert_lock", "insert", cursor[t])
           \/ LocksWaiters(t, "remove_lock", "remove", cursor[t])
           \/ LocksWaiters(t, "notify_lock", "notify", waiters)
<1>1. cv_pc[t] \in {"insert_lock", "remove_lock", "notify_lock"}
      BY DEF LockWaiters, AfterWaitersLock
<1>2. /\ cv_pc[t] # "notify_lock" => cursor' = [cursor EXCEPT ![t] = cursor[t]]
      /\ cv_pc[t] = "notify_lock" => cursor' = [cursor EXCEPT ![t] = waiters]
      BY DEF LockWaiters
<1>3. /\ ~waiters_locked /\ waiters_locked' = TRUE
      /\ UNCHANGED <<cv_now, created, locked, waiters, waiting, flag_value, deadline,
                     holds>>
      BY Zenon DEF LockWaiters
<1>4. cv_pc' = [cv_pc EXCEPT ![t] = AfterWaitersLock[cv_pc[t]]]
      BY Zenon DEF LockWaiters, Goto
<1>5. /\ AfterWaitersLock["insert_lock"] = "insert"
      /\ AfterWaitersLock["remove_lock"] = "remove"
      /\ AfterWaitersLock["notify_lock"] = "notify"
      BY DEF AfterWaitersLock
<1> QED BY <1>1, <1>2, <1>3, <1>4, <1>5 DEF LocksWaiters

\* Every step keeps the types.
LEMMA TypeStep ==
    ASSUME IInv, [CondvarNext]_condvarVars
    PROVE  CondvarTypeOK'
<1> USE CondvarAssumption DEF IInv, CondvarTypeOK, Labels, NoDup
<1>1. CASE Create \/ Cleanup \/ CondvarTick \/ UNCHANGED condvarVars
  <2>1. cv_now' \in 0..CondvarMaxTime
        BY SMT, <1>1 DEF Create, Cleanup, CondvarTick, condvarVars
  <2>2. created' \in BOOLEAN
        BY <1>1 DEF Create, Cleanup, CondvarTick, condvarVars
  <2>3. UNCHANGED <<locked, waiters_locked, waiters, waiting, flag_value, deadline,
                    cursor, holds, cv_pc>>
        BY <1>1 DEF Create, Cleanup, CondvarTick, condvarVars
  <2> QED BY <2>1, <2>2, <2>3
<1>2. ASSUME NEW t \in CondvarThreads, LockCall(t) PROVE CondvarTypeOK'
      BY <1>2 DEF LockCall, Goto
<1>3. ASSUME NEW t \in CondvarThreads, TryLock(t) PROVE CondvarTypeOK'
      BY <1>3 DEF TryLock, Goto
<1>4. ASSUME NEW t \in CondvarThreads, NotifyCall(t) PROVE CondvarTypeOK'
      BY <1>4 DEF NotifyCall, Goto
<1>5. ASSUME NEW t \in CondvarThreads, Unlock(t) PROVE CondvarTypeOK'
      BY <1>5 DEF Unlock, Goto
<1>6. ASSUME NEW t \in CondvarThreads, Lock(t) PROVE CondvarTypeOK'
      BY <1>6 DEF Lock, Goto
<1>7. ASSUME NEW t \in CondvarThreads, LockWaiters(t) PROVE CondvarTypeOK'
  <2>1. CASE LocksWaiters(t, "insert_lock", "insert", cursor[t])
        BY <2>1 DEF LocksWaiters
  <2>2. CASE LocksWaiters(t, "remove_lock", "remove", cursor[t])
        BY <2>2 DEF LocksWaiters
  <2>3. CASE LocksWaiters(t, "notify_lock", "notify", waiters)
        BY <2>3 DEF LocksWaiters
  <2> QED BY <1>7, <2>1, <2>2, <2>3, LockWaitersCases
<1>8. ASSUME NEW t \in CondvarThreads, NotifyStep(t) PROVE CondvarTypeOK'
      BY SMTT(30), WalkList, <1>8 DEF NotifyStep, Goto
<1>9. ASSUME NEW t \in CondvarThreads, NotifyEnd(t) PROVE CondvarTypeOK'
      BY <1>9 DEF NotifyEnd, Goto
<1>10. ASSUME NEW t \in CondvarThreads, InsertNewWaiter(t) PROVE CondvarTypeOK'
      BY InsertList, <1>10 DEF InsertNewWaiter, Goto
<1>11. ASSUME NEW t \in CondvarThreads, WaitUnlock(t) PROVE CondvarTypeOK'
      BY <1>11 DEF WaitUnlock, Goto
<1>12. ASSUME NEW t \in CondvarThreads, TestWaiting(t) PROVE CondvarTypeOK'
      BY <1>12 DEF TestWaiting, Goto
<1>13. ASSUME NEW t \in CondvarThreads, CheckDeadline(t) PROVE CondvarTypeOK'
      BY <1>13 DEF CheckDeadline, Goto
<1>14. ASSUME NEW t \in CondvarThreads, Relock(t) PROVE CondvarTypeOK'
      BY <1>14 DEF Relock, Goto
<1>15. ASSUME NEW t \in CondvarThreads, RemoveWaiter(t) PROVE CondvarTypeOK'
      BY RemoveList, <1>15 DEF RemoveWaiter, Goto
<1>16. ASSUME NEW t \in CondvarThreads, NEW d \in 0..CondvarMaxTime \cup {NoDeadline},
             CondvarWaitCall(t, d)
      PROVE  CondvarTypeOK'
      BY <1>16 DEF CondvarWaitCall, Goto
<1> QED BY <1>1, <1>2, <1>3, <1>4, <1>5, <1>6, <1>7, <1>8,
          <1>9, <1>10, <1>11, <1>12, <1>13, <1>14, <1>15, <1>16
      DEF CondvarNext, StartCondvarCall, Step

\* Every step keeps the mutex and its ghost together.
LEMMA MutexStep ==
    ASSUME IInv, [CondvarNext]_condvarVars
    PROVE  (MutualExclusion /\ Holding)'
<1> USE CondvarAssumption DEF IInv, CondvarTypeOK, MutualExclusion, Holding, HasMutex, LacksMutex
<1>1. CASE Create \/ Cleanup \/ CondvarTick \/ UNCHANGED condvarVars
      BY SMT, <1>1 DEF Create, Cleanup, CondvarTick, condvarVars
<1>2. ASSUME NEW t \in CondvarThreads, LockCall(t) PROVE (MutualExclusion /\ Holding)'
      BY <1>2 DEF LockCall, Goto
<1>3. ASSUME NEW t \in CondvarThreads, TryLock(t) PROVE (MutualExclusion /\ Holding)'
      BY <1>3 DEF TryLock, Goto
<1>4. ASSUME NEW t \in CondvarThreads, NotifyCall(t) PROVE (MutualExclusion /\ Holding)'
      BY <1>4 DEF NotifyCall, Goto
<1>5. ASSUME NEW t \in CondvarThreads, Unlock(t) PROVE (MutualExclusion /\ Holding)'
      BY <1>5 DEF Unlock, Goto
<1>6. ASSUME NEW t \in CondvarThreads, Lock(t) PROVE (MutualExclusion /\ Holding)'
      BY <1>6 DEF Lock, Goto
<1>7. ASSUME NEW t \in CondvarThreads, LockWaiters(t) PROVE (MutualExclusion /\ Holding)'
  <2>1. CASE LocksWaiters(t, "insert_lock", "insert", cursor[t])
        BY <2>1 DEF LocksWaiters
  <2>2. CASE LocksWaiters(t, "remove_lock", "remove", cursor[t])
        BY <2>2 DEF LocksWaiters
  <2>3. CASE LocksWaiters(t, "notify_lock", "notify", waiters)
        BY <2>3 DEF LocksWaiters
  <2> QED BY <1>7, <2>1, <2>2, <2>3, LockWaitersCases
<1>8. ASSUME NEW t \in CondvarThreads, NotifyStep(t) PROVE (MutualExclusion /\ Holding)'
      BY <1>8 DEF NotifyStep, Goto
<1>9. ASSUME NEW t \in CondvarThreads, NotifyEnd(t) PROVE (MutualExclusion /\ Holding)'
      BY <1>9 DEF NotifyEnd, Goto
<1>10. ASSUME NEW t \in CondvarThreads, InsertNewWaiter(t) PROVE (MutualExclusion /\ Holding)'
      BY <1>10 DEF InsertNewWaiter, Goto
<1>11. ASSUME NEW t \in CondvarThreads, WaitUnlock(t) PROVE (MutualExclusion /\ Holding)'
      BY <1>11 DEF WaitUnlock, Goto
<1>12. ASSUME NEW t \in CondvarThreads, TestWaiting(t) PROVE (MutualExclusion /\ Holding)'
      BY <1>12 DEF TestWaiting, Goto
<1>13. ASSUME NEW t \in CondvarThreads, CheckDeadline(t) PROVE (MutualExclusion /\ Holding)'
      BY <1>13 DEF CheckDeadline, Goto
<1>14. ASSUME NEW t \in CondvarThreads, Relock(t) PROVE (MutualExclusion /\ Holding)'
      BY <1>14 DEF Relock, Goto
<1>15. ASSUME NEW t \in CondvarThreads, RemoveWaiter(t) PROVE (MutualExclusion /\ Holding)'
      BY <1>15 DEF RemoveWaiter, Goto
<1>16. ASSUME NEW t \in CondvarThreads, NEW d \in 0..CondvarMaxTime \cup {NoDeadline},
             CondvarWaitCall(t, d)
      PROVE  (MutualExclusion /\ Holding)'
      BY <1>16 DEF CondvarWaitCall, Goto
<1> QED BY <1>1, <1>2, <1>3, <1>4, <1>5, <1>6, <1>7, <1>8,
          <1>9, <1>10, <1>11, <1>12, <1>13, <1>14, <1>15, <1>16
      DEF CondvarNext, StartCondvarCall, Step

\* Every step keeps the sections of waiters_mutex apart.
LEMMA ListLockStep ==
    ASSUME IInv, [CondvarNext]_condvarVars
    PROVE  ListLock'
<1> USE CondvarAssumption DEF IInv, CondvarTypeOK, ListLock, ListSections
<1>1. CASE Create \/ Cleanup \/ CondvarTick \/ UNCHANGED condvarVars
      BY SMT, <1>1 DEF Create, Cleanup, CondvarTick, condvarVars
<1>2. ASSUME NEW t \in CondvarThreads, LockCall(t) PROVE ListLock'
      BY <1>2 DEF LockCall, Goto
<1>3. ASSUME NEW t \in CondvarThreads, TryLock(t) PROVE ListLock'
      BY <1>3 DEF TryLock, Goto
<1>4. ASSUME NEW t \in CondvarThreads, NotifyCall(t) PROVE ListLock'
      BY <1>4 DEF NotifyCall, Goto
<1>5. ASSUME NEW t \in CondvarThreads, Unlock(t) PROVE ListLock'
      BY <1>5 DEF Unlock, Goto
<1>6. ASSUME NEW t \in CondvarThreads, Lock(t) PROVE ListLock'
      BY <1>6 DEF Lock, Goto
<1>7. ASSUME NEW t \in CondvarThreads, LockWaiters(t) PROVE ListLock'
  <2>1. CASE LocksWaiters(t, "insert_lock", "insert", cursor[t])
        BY <2>1 DEF LocksWaiters
  <2>2. CASE LocksWaiters(t, "remove_lock", "remove", cursor[t])
        BY <2>2 DEF LocksWaiters
  <2>3. CASE LocksWaiters(t, "notify_lock", "notify", waiters)
        BY <2>3 DEF LocksWaiters
  <2> QED BY <1>7, <2>1, <2>2, <2>3, LockWaitersCases
<1>8. ASSUME NEW t \in CondvarThreads, NotifyStep(t) PROVE ListLock'
      BY <1>8 DEF NotifyStep, Goto
<1>9. ASSUME NEW t \in CondvarThreads, NotifyEnd(t) PROVE ListLock'
      BY <1>9 DEF NotifyEnd, Goto
<1>10. ASSUME NEW t \in CondvarThreads, InsertNewWaiter(t) PROVE ListLock'
      BY <1>10 DEF InsertNewWaiter, Goto
<1>11. ASSUME NEW t \in CondvarThreads, WaitUnlock(t) PROVE ListLock'
      BY <1>11 DEF WaitUnlock, Goto
<1>12. ASSUME NEW t \in CondvarThreads, TestWaiting(t) PROVE ListLock'
      BY <1>12 DEF TestWaiting, Goto
<1>13. ASSUME NEW t \in CondvarThreads, CheckDeadline(t) PROVE ListLock'
      BY <1>13 DEF CheckDeadline, Goto
<1>14. ASSUME NEW t \in CondvarThreads, Relock(t) PROVE ListLock'
      BY <1>14 DEF Relock, Goto
<1>15. ASSUME NEW t \in CondvarThreads, RemoveWaiter(t) PROVE ListLock'
      BY <1>15 DEF RemoveWaiter, Goto
<1>16. ASSUME NEW t \in CondvarThreads, NEW d \in 0..CondvarMaxTime \cup {NoDeadline},
             CondvarWaitCall(t, d)
      PROVE  ListLock'
      BY <1>16 DEF CondvarWaitCall, Goto
<1> QED BY <1>1, <1>2, <1>3, <1>4, <1>5, <1>6, <1>7, <1>8,
          <1>9, <1>10, <1>11, <1>12, <1>13, <1>14, <1>15, <1>16
      DEF CondvarNext, StartCondvarCall, Step

\* A step that changes neither list nor walk, nor who is on the list, keeps
\* the nodes alive.
LEMMA NodesKept ==
    ASSUME CondvarTypeOK, NodesAlive, Cursors, waiters' = waiters, cursor' = cursor,
           NEW t \in CondvarThreads, cv_pc[t] = "idle", cv_pc'[t] = "notify_lock",
           \A u \in CondvarThreads : u # t => cv_pc'[u] = cv_pc[u]
    PROVE  (NodesAlive /\ Cursors)'
<1>1. ~Enlisted(t) /\ ~Enlisted(t)'
      BY DEF Enlisted
<1>2. \A u \in CondvarThreads : Enlisted(u)' <=> Enlisted(u)
      BY <1>1 DEF Enlisted
<1>3. \A n \in CondvarThreads : \A i \in 1..Len(cursor[n]) : cursor[n][i] \in CondvarThreads
      BY SMT DEF CondvarTypeOK
<1>4. NodesAlive'
      BY <1>2, <1>3 DEF NodesAlive
<1>5. \A n \in CondvarThreads : cv_pc'[n] # "notify" => cv_pc[n] # "notify"
      OBVIOUS
<1>6. Cursors'
      BY <1>5 DEF Cursors
<1> QED BY <1>4, <1>6

\* Every step keeps the list equal to the waits that have not returned, and
\* the walks over it within it.
LEMMA NodesStep ==
    ASSUME IInv, [CondvarNext]_condvarVars
    PROVE  (NodesAlive /\ Cursors)'
<1> USE DEF IInv, CondvarTypeOK, NodesAlive, Cursors, Enlisted
<1>1. CASE Create \/ Cleanup \/ CondvarTick \/ UNCHANGED condvarVars
      BY <1>1 DEF Create, Cleanup, CondvarTick, condvarVars
<1>2. ASSUME NEW t \in CondvarThreads, LockCall(t) PROVE (NodesAlive /\ Cursors)'
      BY SMTT(30), <1>2 DEF LockCall, Goto
<1>3. ASSUME NEW t \in CondvarThreads, TryLock(t) PROVE (NodesAlive /\ Cursors)'
      BY <1>3 DEF TryLock, Goto
<1>4. ASSUME NEW t \in CondvarThreads, NotifyCall(t) PROVE (NodesAlive /\ Cursors)'
  <2> USE <1>4 DEF NotifyCall, Goto
  <2>1. waiters' = waiters /\ cursor' = cursor
        OBVIOUS
  <2>2. \A u \in CondvarThreads : u # t => cv_pc'[u] = cv_pc[u]
        OBVIOUS
  <2>3. cv_pc[t] = "idle" /\ cv_pc'[t] = "notify_lock"
        OBVIOUS
  <2> QED BY <2>1, <2>2, <2>3, NodesKept
<1>5. ASSUME NEW t \in CondvarThreads, Unlock(t) PROVE (NodesAlive /\ Cursors)'
      BY <1>5 DEF Unlock, Goto
<1>6. ASSUME NEW t \in CondvarThreads, Lock(t) PROVE (NodesAlive /\ Cursors)'
      BY SMTT(30), <1>6 DEF Lock, Goto
<1>7. ASSUME NEW t \in CondvarThreads, LockWaiters(t) PROVE (NodesAlive /\ Cursors)'
  <2>1. CASE LocksWaiters(t, "insert_lock", "insert", cursor[t])
        BY SMTT(30), <2>1 DEF LocksWaiters
  <2>2. CASE LocksWaiters(t, "remove_lock", "remove", cursor[t])
        BY SMTT(30), <2>2 DEF LocksWaiters
  <2>3. CASE LocksWaiters(t, "notify_lock", "notify", waiters)
    <3>1. \A i \in 1..Len(waiters) : ListContains(waiters, waiters[i])
          BY DEF ListContains
    <3>2. NoDup(waiters)
          BY DEF NoDup
    <3> QED BY SMTT(30), <2>3, <3>1, <3>2 DEF LocksWaiters
  <2> QED BY <1>7, <2>1, <2>2, <2>3, LockWaitersCases
<1>8. ASSUME NEW t \in CondvarThreads, NotifyStep(t) PROVE (NodesAlive /\ Cursors)'
  <2>1. \A i \in 1..Len(cursor'[t]) : Enlisted(cursor'[t][i])
    <3> SUFFICES ASSUME NEW i \in 1..Len(cursor'[t])
                 PROVE  Enlisted(cursor'[t][i])
        OBVIOUS
    <3>1. ListContains(cursor'[t], cursor'[t][i])
          BY DEF ListContains
    <3>2. ListContains(cursor[t], cursor'[t][i])
          BY <1>8, <3>1, WalkList
    <3> QED BY <3>2 DEF ListContains
  <2>2. NoDup(cursor'[t])
        BY <1>8, WalkList
  <2> QED BY <1>8, <2>1, <2>2 DEF NotifyStep
<1>9. ASSUME NEW t \in CondvarThreads, NotifyEnd(t) PROVE (NodesAlive /\ Cursors)'
      BY SMTT(30), <1>9 DEF NotifyEnd, Goto
<1>10. ASSUME NEW t \in CondvarThreads, InsertNewWaiter(t) PROVE (NodesAlive /\ Cursors)'
  <2>1. \A u \in CondvarThreads : cv_pc[u] # "notify" /\ cursor[u] = <<>>
        BY <1>10 DEF InsertNewWaiter, ListLock, ListSections
  <2>2. \A u : ListContains(waiters', u) <=> ListContains(waiters, u) \/ u = t
        BY <1>10, InsertList
  <2>3. cursor' = cursor /\ cv_pc' = [cv_pc EXCEPT ![t] = "unlock"]
        BY <1>10 DEF InsertNewWaiter, Goto
  <2>4. NodesAlive'
        BY SMTT(30), <1>10, <2>1, <2>2, <2>3 DEF InsertNewWaiter
  <2>5. Cursors'
        BY SMTT(30), <2>1, <2>3 DEF NoDup
  <2> QED BY <2>4, <2>5
<1>11. ASSUME NEW t \in CondvarThreads, WaitUnlock(t) PROVE (NodesAlive /\ Cursors)'
      BY SMTT(30), <1>11 DEF WaitUnlock, Goto
<1>12. ASSUME NEW t \in CondvarThreads, TestWaiting(t) PROVE (NodesAlive /\ Cursors)'
      BY SMTT(30), <1>12 DEF TestWaiting, Goto
<1>13. ASSUME NEW t \in CondvarThreads, CheckDeadline(t) PROVE (NodesAlive /\ Cursors)'
      BY SMTT(30), <1>13 DEF CheckDeadline, Goto
<1>14. ASSUME NEW t \in CondvarThreads, Relock(t) PROVE (NodesAlive /\ Cursors)'
      BY SMTT(30), <1>14 DEF Relock, Goto
<1>15. ASSUME NEW t \in CondvarThreads, RemoveWaiter(t) PROVE (NodesAlive /\ Cursors)'
  <2>1. \A u \in CondvarThreads : cv_pc[u] # "notify" /\ cursor[u] = <<>>
        BY <1>15 DEF RemoveWaiter, ListLock, ListSections
  <2>2. \A u : ListContains(waiters', u) <=> ListContains(waiters, u) /\ u # t
        BY <1>15, RemoveList
  <2>3. cursor' = cursor /\ cv_pc' = [cv_pc EXCEPT ![t] = "idle"]
        BY <1>15 DEF RemoveWaiter, Goto
  <2>4. NodesAlive'
        BY SMTT(30), <1>15, <2>1, <2>2, <2>3 DEF RemoveWaiter
  <2>5. Cursors'
        BY SMTT(30), <2>1, <2>3 DEF NoDup
  <2> QED BY <2>4, <2>5
<1>16. ASSUME NEW t \in CondvarThreads, NEW d \in 0..CondvarMaxTime \cup {NoDeadline},
             CondvarWaitCall(t, d)
      PROVE  (NodesAlive /\ Cursors)'
      BY SMTT(30), <1>16 DEF CondvarWaitCall, Goto
<1> QED BY <1>1, <1>2, <1>3, <1>4, <1>5, <1>6, <1>7, <1>8,
          <1>9, <1>10, <1>11, <1>12, <1>13, <1>14, <1>15, <1>16
      DEF CondvarNext, StartCondvarCall, Step

\* The strengthened invariant holds in every state of the primitives.
THEOREM IInvHolds == CondvarSpec => []IInv
<1>1. IInv /\ [CondvarNext]_condvarVars => IInv'
      BY TypeStep, MutexStep, ListLockStep, NodesStep DEF IInv
<1> QED BY <1>1, InitIInv, PTL DEF CondvarSpec

\* The mutex and the condition variable, for any number of threads: one holder
\* at a time, no node of a wait that has returned on the list or in a walk, and
\* nothing left behind when nobody uses them.
THEOREM AlwaysConsistent == CondvarSpec => []CondvarConsistent
<1>1. IInv => CleanWhenUnused
  <2> SUFFICES ASSUME IInv, \A t \in CondvarThreads : cv_pc[t] = "idle" /\ ~holds[t]
               PROVE  waiters = <<>> /\ ~locked /\ ~waiters_locked
      BY DEF CleanWhenUnused
  <2>1. ~locked /\ ~waiters_locked
        BY DEF IInv, MutualExclusion, ListLock, ListSections
  <2>2. \A t \in CondvarThreads : ~ListContains(waiters, t)
        BY DEF IInv, NodesAlive, Enlisted
  <2>3. waiters \in Seq(CondvarThreads)
        BY DEF IInv, CondvarTypeOK
  <2>4. Len(waiters) = 0
        BY SMTT(30), <2>2, <2>3 DEF ListContains
  <2> QED BY SMTT(30), <2>1, <2>3, <2>4
<1>2. IInv => CondvarConsistent
      BY <1>1 DEF IInv, CondvarConsistent
<1> QED BY <1>2, IInvHolds, PTL

-----------------------------------------------------------------------------
(***************************************************************************)
(* The refinement of module Condvar.  A step of the primitives is a step   *)
(* of the abstract ones, or changes nothing of what Abstract shows.        *)
(***************************************************************************)

\* Who has the abstract mutex, before and after a step.
LEMMA OwnerFacts ==
    /\ MutualExclusion =>
          /\ \A t \in CondvarThreads : holds[t] => AbsOwner = t
          /\ ~locked => AbsOwner = NoThread
    /\ MutualExclusion' =>
          /\ \A t \in CondvarThreads : holds'[t] => AbsOwner' = t
          /\ ~locked' => AbsOwner' = NoThread
BY DEF MutualExclusion, AbsOwner

\* A thread whose own variables a step leaves alone looks the same.
Same(u) ==
    /\ AbsState(u)' = AbsState(u)
    /\ AbsDeadline(u)' = AbsDeadline(u)
    /\ AbsWaiting(u)' <=> AbsWaiting(u)

\* Same follows from the thread's own label, flags and deadline.
LEMMA SameThread ==
    ASSUME NEW u \in CondvarThreads, cv_pc'[u] = cv_pc[u], holds'[u] <=> holds[u],
           flag_value'[u] <=> flag_value[u], deadline'[u] = deadline[u]
    PROVE  Same(u)
BY DEF Same, AbsState, AbsDeadline, AbsWaiting

\* A step that changes nothing that Abstract shows.
LEMMA Stutters ==
    ASSUME \A u \in CondvarThreads : Same(u),
           \A u \in CondvarThreads : AbsWaiting(u) => (waiting'[u] <=> waiting[u]),
           \A n \in CondvarThreads : AbsPending(n)' = AbsPending(n),
           AbsOwner' = AbsOwner, cv_now' = cv_now
    PROVE  UNCHANGED Abstract!vars
<1>1. [t \in CondvarThreads |-> AbsState(t)]' = [t \in CondvarThreads |-> AbsState(t)]
      BY DEF Same
<1>2. [t \in CondvarThreads |-> AbsDeadline(t)]' = [t \in CondvarThreads |-> AbsDeadline(t)]
      BY DEF Same
<1>3. {t \in CondvarThreads : AbsWaiting(t) /\ ~waiting[t]}'
        = {t \in CondvarThreads : AbsWaiting(t) /\ ~waiting[t]}
      BY DEF Same
<1>4. [n \in CondvarThreads |-> AbsPending(n)]' = [n \in CondvarThreads |-> AbsPending(n)]
      OBVIOUS
<1> QED BY <1>1, <1>2, <1>3, <1>4 DEF Abstract!vars

\* The notifications in progress, when no list they walk changes.
LEMMA SamePending ==
    ASSUME NEW n \in CondvarThreads, cv_pc'[n] = "notify" <=> cv_pc[n] = "notify",
           cursor'[n] = cursor[n],
           \A u \in CondvarThreads : AbsWaiting(u)' <=> AbsWaiting(u)
    PROVE  AbsPending(n)' = AbsPending(n)
BY DEF AbsPending

\* The labels at which the abstract primitives do not tell what a call does.
Plain == {"idle", "lock", "insert_lock", "insert", "remove_lock", "remove",
          "notify_lock"}

\* A step of one thread from one such label to another is not visible.
LEMMA QuietMove ==
    ASSUME IInv, NEW t \in CondvarThreads, NEW p \in Plain, cv_pc[t] \in Plain,
           cv_pc' = [cv_pc EXCEPT ![t] = p], UNCHANGED <<cv_now, holds, cursor>>,
           \A u \in CondvarThreads : u # t => /\ flag_value'[u] = flag_value[u]
                                       /\ deadline'[u] = deadline[u]
                                       /\ waiting'[u] = waiting[u]
    PROVE  UNCHANGED Abstract!vars
<1>1. \A u \in CondvarThreads : u # t => Same(u)
      BY SameThread DEF IInv, CondvarTypeOK
<1>2. Same(t) /\ ~AbsWaiting(t)
      BY DEF IInv, CondvarTypeOK, Plain, Same, AbsState, AbsDeadline, AbsWaiting
<1>3. \A n \in CondvarThreads : AbsPending(n)' = AbsPending(n)
  <2>1. \A u \in CondvarThreads : AbsWaiting(u)' <=> AbsWaiting(u)
        BY <1>1, <1>2 DEF Same
  <2>2. \A n \in CondvarThreads : cv_pc'[n] = "notify" <=> cv_pc[n] = "notify"
        BY DEF IInv, CondvarTypeOK, Plain
  <2> QED BY <2>1, <2>2, SamePending
<1>4. AbsOwner' = AbsOwner
      BY DEF AbsOwner
<1> QED BY <1>1, <1>2, <1>3, <1>4, Stutters

\* Taking the mutex, which avs_mutex_lock, avs_mutex_try_lock and the end of
\* avs_condvar_wait do, is Acquire.
LEMMA AcquireStep ==
    ASSUME IInv, IInv', NEW t \in CondvarThreads, NEW p \in Plain,
           cv_pc[t] \in {"idle", "lock", "relock"}, ~holds[t], ~locked,
           cv_pc' = [cv_pc EXCEPT ![t] = p], holds' = [holds EXCEPT ![t] = TRUE],
           \/ deadline' = deadline /\ cv_pc[t] # "relock"
           \/ deadline' = [deadline EXCEPT ![t] = NoDeadline],
           UNCHANGED <<cv_now, flag_value, waiting, cursor>>
    PROVE  Abstract!Acquire(t)
<1>1. \A u \in CondvarThreads : u # t => Same(u)
      BY SameThread DEF IInv, CondvarTypeOK
<1>2. /\ AbsState(t) \in {"out", "ok", "timeout"} /\ AbsState(t)' = "held"
      /\ AbsDeadline(t)' = NoDeadline
      /\ ~AbsWaiting(t) /\ ~AbsWaiting(t)'
      BY DEF IInv, CondvarTypeOK, Plain, AbsState, AbsDeadline, AbsWaiting
<1>3. \A u \in CondvarThreads : AbsWaiting(u)' <=> AbsWaiting(u)
      BY <1>1, <1>2 DEF Same
<1>4. \A n \in CondvarThreads : AbsPending(n)' = AbsPending(n)
  <2>1. \A n \in CondvarThreads : cv_pc'[n] = "notify" <=> cv_pc[n] = "notify"
        BY DEF IInv, CondvarTypeOK, Plain
  <2> QED BY <1>3, <2>1, SamePending
<1>5. AbsOwner = NoThread /\ AbsOwner' = t
      BY OwnerFacts DEF IInv, CondvarTypeOK
<1>6. [u \in CondvarThreads |-> AbsState(u)]'
        = [[u \in CondvarThreads |-> AbsState(u)] EXCEPT ![t] = "held"]
      BY <1>1, <1>2 DEF Same
<1>7. [u \in CondvarThreads |-> AbsDeadline(u)]'
        = [[u \in CondvarThreads |-> AbsDeadline(u)] EXCEPT ![t] = NoDeadline]
      BY <1>1, <1>2 DEF Same
<1>8. {u \in CondvarThreads : AbsWaiting(u) /\ ~waiting[u]}'
        = {u \in CondvarThreads : AbsWaiting(u) /\ ~waiting[u]}
      BY <1>3
<1>9. [n \in CondvarThreads |-> AbsPending(n)]' = [n \in CondvarThreads |-> AbsPending(n)]
      BY <1>4
<1> QED BY <1>2, <1>5, <1>6, <1>7, <1>8, <1>9 DEF Abstract!Acquire

\* avs_mutex_unlock is Release.
LEMMA ReleaseStep ==
    ASSUME IInv, IInv', NEW t \in CondvarThreads, Unlock(t)
    PROVE  Abstract!Release(t)
<1>1. \A u \in CondvarThreads : u # t => Same(u)
      BY SameThread DEF IInv, CondvarTypeOK, Unlock
<1>2. /\ AbsState(t) = "held" /\ AbsState(t)' = "out"
      /\ AbsDeadline(t)' = AbsDeadline(t)
      /\ ~AbsWaiting(t) /\ ~AbsWaiting(t)'
      BY DEF IInv, CondvarTypeOK, Unlock, AbsState, AbsDeadline, AbsWaiting
<1>3. \A u \in CondvarThreads : AbsWaiting(u)' <=> AbsWaiting(u)
      BY <1>1, <1>2 DEF Same
<1>4. \A n \in CondvarThreads : AbsPending(n)' = AbsPending(n)
      BY <1>3, SamePending DEF Unlock
<1>5. AbsOwner' = NoThread
      BY OwnerFacts DEF IInv, Unlock
<1>6. [u \in CondvarThreads |-> AbsState(u)]'
        = [[u \in CondvarThreads |-> AbsState(u)] EXCEPT ![t] = "out"]
      BY <1>1, <1>2 DEF Same
<1>7. [u \in CondvarThreads |-> AbsDeadline(u)]' = [u \in CondvarThreads |-> AbsDeadline(u)]
      BY <1>1, <1>2 DEF Same
<1>8. {u \in CondvarThreads : AbsWaiting(u) /\ ~waiting[u]}'
        = {u \in CondvarThreads : AbsWaiting(u) /\ ~waiting[u]}
      BY <1>3 DEF Unlock
<1>9. [n \in CondvarThreads |-> AbsPending(n)]' = [n \in CondvarThreads |-> AbsPending(n)]
      BY <1>4
<1>10. cv_now' = cv_now
      BY DEF Unlock
<1> QED BY <1>2, <1>5, <1>6, <1>7, <1>8, <1>9, <1>10 DEF Abstract!Release

\* The unlocking of the mutex in avs_condvar_wait is FallAsleep.
LEMMA FallAsleepStep ==
    ASSUME IInv, IInv', NEW t \in CondvarThreads, WaitUnlock(t)
    PROVE  Abstract!FallAsleep(t)
<1>1. \A u \in CondvarThreads : u # t => Same(u)
      BY SameThread DEF IInv, CondvarTypeOK, WaitUnlock, Goto
<1>2. /\ AbsState(t) = "enlisted" /\ AbsState(t)' = "asleep"
      /\ AbsDeadline(t)' = AbsDeadline(t)
      /\ AbsWaiting(t) /\ AbsWaiting(t)'
      BY DEF IInv, CondvarTypeOK, WaitUnlock, Goto, AbsState, AbsDeadline, AbsWaiting
<1>3. \A u \in CondvarThreads : AbsWaiting(u)' <=> AbsWaiting(u)
      BY <1>1, <1>2 DEF Same
<1>4. \A n \in CondvarThreads : AbsPending(n)' = AbsPending(n)
  <2>1. \A n \in CondvarThreads : cv_pc'[n] = "notify" <=> cv_pc[n] = "notify"
        BY DEF IInv, CondvarTypeOK, WaitUnlock, Goto
  <2> QED BY <1>3, <2>1, SamePending DEF WaitUnlock
<1>5. AbsOwner' = NoThread
      BY OwnerFacts DEF IInv, WaitUnlock
<1>6. [u \in CondvarThreads |-> AbsState(u)]'
        = [[u \in CondvarThreads |-> AbsState(u)] EXCEPT ![t] = "asleep"]
      BY <1>1, <1>2 DEF Same
<1>7. [u \in CondvarThreads |-> AbsDeadline(u)]' = [u \in CondvarThreads |-> AbsDeadline(u)]
      BY <1>1, <1>2 DEF Same
<1>8. {u \in CondvarThreads : AbsWaiting(u) /\ ~waiting[u]}'
        = {u \in CondvarThreads : AbsWaiting(u) /\ ~waiting[u]}
      BY <1>3 DEF WaitUnlock
<1>9. [n \in CondvarThreads |-> AbsPending(n)]' = [n \in CondvarThreads |-> AbsPending(n)]
      BY <1>4
<1>10. cv_now' = cv_now
      BY DEF WaitUnlock
<1> QED BY <1>2, <1>5, <1>6, <1>7, <1>8, <1>9, <1>10 DEF Abstract!FallAsleep

\* insert_new_waiter is Enlist: no notification walks the list meanwhile.
LEMMA EnlistStep ==
    ASSUME IInv, NEW t \in CondvarThreads, InsertNewWaiter(t)
    PROVE  Abstract!Enlist(t, deadline[t])
<1>1. \A u \in CondvarThreads : u # t => Same(u)
      BY SameThread DEF IInv, CondvarTypeOK, InsertNewWaiter, Goto
<1>2. /\ AbsState(t) = "held" /\ AbsState(t)' = "enlisted"
      /\ AbsDeadline(t)' = deadline[t]
      /\ ~AbsWaiting(t) /\ AbsWaiting(t)' /\ waiting'[t]
      BY DEF IInv, CondvarTypeOK, Holding, HasMutex, InsertNewWaiter, Goto, AbsState,
             AbsDeadline, AbsWaiting
<1>3. \A n \in CondvarThreads : AbsPending(n)' = AbsPending(n)
  <2>1. \A n \in CondvarThreads : cv_pc[n] # "notify" /\ cv_pc'[n] # "notify"
        BY DEF IInv, CondvarTypeOK, ListLock, ListSections, InsertNewWaiter, Goto
  <2> QED BY <2>1 DEF AbsPending
<1>4. AbsOwner' = AbsOwner /\ cv_now' = cv_now
      BY DEF AbsOwner, InsertNewWaiter
<1>5. [u \in CondvarThreads |-> AbsState(u)]'
        = [[u \in CondvarThreads |-> AbsState(u)] EXCEPT ![t] = "enlisted"]
      BY <1>1, <1>2 DEF Same
<1>6. [u \in CondvarThreads |-> AbsDeadline(u)]'
        = [[u \in CondvarThreads |-> AbsDeadline(u)] EXCEPT ![t] = deadline[t]]
      BY <1>1, <1>2 DEF Same
<1>7. {u \in CondvarThreads : AbsWaiting(u) /\ ~waiting[u]}'
        = {u \in CondvarThreads : AbsWaiting(u) /\ ~waiting[u]}
  <2>1. \A u \in CondvarThreads : u # t => waiting'[u] = waiting[u]
        BY DEF IInv, CondvarTypeOK, InsertNewWaiter
  <2> QED BY <1>1, <1>2, <2>1 DEF Same
<1>8. [n \in CondvarThreads |-> AbsPending(n)]' = [n \in CondvarThreads |-> AbsPending(n)]
      BY <1>3
<1> QED BY <1>2, <1>4, <1>5, <1>6, <1>7, <1>8 DEF Abstract!Enlist

\* The end of the spinning, with the flag clear or the deadline past, is Wake;
\* it reports a timeout only in the second case.
LEMMA WakeStep ==
    ASSUME IInv, NEW t \in CondvarThreads, cv_pc[t] \in {"spin", "check"},
           cv_pc' = [cv_pc EXCEPT ![t] = "relock"],
           \A u \in CondvarThreads : u # t => /\ flag_value'[u] = flag_value[u]
                                       /\ waiting'[u] = waiting[u],
           flag_value' \in [CondvarThreads -> BOOLEAN],
           flag_value'[t] => Expired(t),
           UNCHANGED <<cv_now, holds, deadline, cursor>>
    PROVE  \E result \in {"ok", "timeout"} : Abstract!Wake(t, result)
<1> DEFINE result == IF flag_value'[t] THEN "timeout" ELSE "ok"
<1>1. \A u \in CondvarThreads : u # t => Same(u)
      BY SameThread DEF IInv, CondvarTypeOK
<1>2. /\ AbsState(t) = "asleep" /\ AbsState(t)' = result
      /\ AbsDeadline(t)' = AbsDeadline(t) /\ AbsDeadline(t) = deadline[t]
      /\ AbsWaiting(t) /\ ~AbsWaiting(t)'
      BY DEF IInv, CondvarTypeOK, AbsState, AbsDeadline, AbsWaiting
<1>3. \A u \in CondvarThreads : AbsWaiting(u)' <=> AbsWaiting(u) /\ u # t
      BY <1>1, <1>2 DEF Same
<1>4. \A n \in CondvarThreads : AbsPending(n)' = IF AbsPending(n) = NoThread THEN NoThread
                                          ELSE AbsPending(n) \ {t}
  <2> SUFFICES ASSUME NEW n \in CondvarThreads
               PROVE  AbsPending(n)' = IF AbsPending(n) = NoThread THEN NoThread
                                       ELSE AbsPending(n) \ {t}
      OBVIOUS
  <2>1. cv_pc'[n] = "notify" <=> cv_pc[n] = "notify"
        BY DEF IInv, CondvarTypeOK
  <2>2. CASE cv_pc[n] = "notify"
    <3>1. AbsPending(n) \in SUBSET CondvarThreads /\ AbsPending(n) # NoThread
          BY <2>2, CondvarAssumption DEF AbsPending
    <3>2. AbsPending(n)' = AbsPending(n) \ {t}
          BY <1>3, <2>1, <2>2 DEF AbsPending
    <3> QED BY <3>1, <3>2
  <2>3. CASE cv_pc[n] # "notify"
        BY <2>1, <2>3 DEF AbsPending
  <2> QED BY <2>2, <2>3
<1>5. AbsOwner' = AbsOwner
      BY DEF AbsOwner
<1>6. [u \in CondvarThreads |-> AbsState(u)]'
        = [[u \in CondvarThreads |-> AbsState(u)] EXCEPT ![t] = result]
      BY <1>1, <1>2 DEF Same
<1>7. [u \in CondvarThreads |-> AbsDeadline(u)]' = [u \in CondvarThreads |-> AbsDeadline(u)]
      BY <1>1, <1>2 DEF Same
<1>8. {u \in CondvarThreads : AbsWaiting(u) /\ ~waiting[u]}'
        = {u \in CondvarThreads : AbsWaiting(u) /\ ~waiting[u]} \ {t}
      BY <1>3
<1>9. [n \in CondvarThreads |-> AbsPending(n)]'
        = [n \in CondvarThreads |-> IF AbsPending(n) = NoThread THEN NoThread
                             ELSE AbsPending(n) \ {t}]
      BY <1>4
<1>10. result = "timeout" => deadline[t] # NoDeadline /\ deadline[t] <= cv_now
      BY DEF Expired
<1>11. Abstract!Wake(t, result)
      BY <1>2, <1>5, <1>6, <1>7, <1>8, <1>9, <1>10 DEF Abstract!Wake
<1>12. result \in {"ok", "timeout"}
      OBVIOUS
<1> HIDE DEF result
<1> QED BY <1>11, <1>12 DEF Abstract!Wake

\* A notification begins when avs_condvar_notify_all has the list: it has every
\* waiting thread before it.
LEMMA NotifyBeginStep ==
    ASSUME IInv, NEW t \in CondvarThreads,
           LocksWaiters(t, "notify_lock", "notify", waiters)
    PROVE  Abstract!NotifyBegin(t)
<1> USE DEF LocksWaiters
<1>1. \A u \in CondvarThreads : u # t => Same(u)
      BY SameThread DEF IInv, CondvarTypeOK
<1>2. Same(t)
      BY DEF IInv, CondvarTypeOK, Same, AbsState, AbsDeadline, AbsWaiting
<1>3. \A u \in CondvarThreads : AbsWaiting(u)' <=> AbsWaiting(u)
      BY <1>1, <1>2 DEF Same
<1>4. \A n \in CondvarThreads : n # t => AbsPending(n)' = AbsPending(n)
  <2>1. \A n \in CondvarThreads : n # t => /\ cv_pc'[n] = "notify" <=> cv_pc[n] = "notify"
                                    /\ cursor'[n] = cursor[n]
        BY DEF IInv, CondvarTypeOK
  <2> QED BY <1>3, <2>1, SamePending
<1>5. AbsPending(t) = NoThread
      BY DEF AbsPending
<1>6. AbsPending(t)' = {u \in CondvarThreads : AbsWaiting(u)}
  <2>1. \A u \in CondvarThreads : AbsWaiting(u) => ListContains(waiters, u)
        BY DEF IInv, NodesAlive, Enlisted, AbsWaiting
  <2>2. cv_pc'[t] = "notify" /\ cursor'[t] = waiters
        BY DEF IInv, CondvarTypeOK
  <2> QED BY <1>3, <2>1, <2>2 DEF AbsPending
<1>7. \A u \in CondvarThreads : AbsWaiting(u) <=> AbsState(u) \in {"enlisted", "asleep"}
      BY DEF AbsWaiting, AbsState
<1>8. {u \in CondvarThreads : AbsWaiting(u)}
        = {u \in CondvarThreads : [v \in CondvarThreads |-> AbsState(v)][u] \in {"enlisted", "asleep"}}
      BY <1>7
<1>9. [n \in CondvarThreads |-> AbsPending(n)]'
        = [[n \in CondvarThreads |-> AbsPending(n)] EXCEPT
              ![t] = {u \in CondvarThreads : AbsWaiting(u)}]
      BY <1>4, <1>6
<1>10. AbsOwner' = AbsOwner /\ cv_now' = cv_now
      BY DEF AbsOwner
<1>11. /\ [u \in CondvarThreads |-> AbsState(u)]' = [u \in CondvarThreads |-> AbsState(u)]
       /\ [u \in CondvarThreads |-> AbsDeadline(u)]' = [u \in CondvarThreads |-> AbsDeadline(u)]
      BY <1>1, <1>2 DEF Same
<1>12. {u \in CondvarThreads : AbsWaiting(u) /\ ~waiting[u]}'
         = {u \in CondvarThreads : AbsWaiting(u) /\ ~waiting[u]}
      BY <1>3
<1> QED BY <1>5, <1>8, <1>9, <1>10, <1>11, <1>12
        DEF Abstract!NotifyBegin, Abstract!Waiting

\* One step of the walk signals the thread it meets, if that still waits.
LEMMA NotifyWalkStep ==
    ASSUME IInv, NEW t \in CondvarThreads, NotifyStep(t)
    PROVE  (\E u \in CondvarThreads : Abstract!Signal(t, u)) \/ UNCHANGED Abstract!vars
<1> DEFINE h == Head(cursor[t])
<1>1. /\ h \in CondvarThreads /\ ListContains(cursor[t], h)
      /\ \A u : ListContains(cursor'[t], u) <=> ListContains(cursor[t], u) /\ u # h
      BY WalkList
<1>2. \A u \in CondvarThreads : Same(u)
      BY SameThread DEF NotifyStep
<1>3. /\ cv_pc' = cv_pc /\ cv_now' = cv_now /\ holds' = holds
      /\ \A n \in CondvarThreads : n # t => cursor'[n] = cursor[n]
      /\ waiting' = [waiting EXCEPT ![h] = FALSE]
      /\ cv_pc[t] = "notify"
      BY DEF NotifyStep, IInv, CondvarTypeOK
<1> HIDE DEF h
<1>4. AbsOwner' = AbsOwner
      BY <1>3 DEF AbsOwner
<1>5. \A u \in CondvarThreads : AbsWaiting(u)' <=> AbsWaiting(u)
      BY <1>2 DEF Same
<1>6. \A n \in CondvarThreads : n # t => AbsPending(n)' = AbsPending(n)
      BY <1>3, <1>5, SamePending
<1>7. AbsPending(t) = {u \in CondvarThreads : AbsWaiting(u) /\ ListContains(cursor[t], u)}
      BY <1>3 DEF AbsPending
<1>8. AbsPending(t)' = AbsPending(t) \ {h}
      BY <1>1, <1>3, <1>5, <1>7 DEF AbsPending
<1>9. CASE AbsWaiting(h)
  <2>1. h \in AbsPending(t)
        BY <1>1, <1>7, <1>9
  <2>2. AbsPending(t) # NoThread
        BY <1>7, CondvarAssumption
  <2>3. [n \in CondvarThreads |-> AbsPending(n)]'
          = [[n \in CondvarThreads |-> AbsPending(n)] EXCEPT ![t] = @ \ {h}]
        BY <1>6, <1>8
  <2>4. {u \in CondvarThreads : AbsWaiting(u) /\ ~waiting[u]}'
          = {u \in CondvarThreads : AbsWaiting(u) /\ ~waiting[u]} \cup {h}
        BY <1>1, <1>3, <1>5, <1>9 DEF IInv, CondvarTypeOK
  <2>5. /\ [u \in CondvarThreads |-> AbsState(u)]' = [u \in CondvarThreads |-> AbsState(u)]
        /\ [u \in CondvarThreads |-> AbsDeadline(u)]' = [u \in CondvarThreads |-> AbsDeadline(u)]
        BY <1>2 DEF Same
  <2>6. Abstract!Signal(t, h)
        BY <1>3, <1>4, <2>1, <2>2, <2>3, <2>4, <2>5 DEF Abstract!Signal
  <2> QED BY <1>1, <2>6 DEF Abstract!Signal
<1>10. CASE ~AbsWaiting(h)
  <2>1. AbsPending(t)' = AbsPending(t)
        BY <1>7, <1>8, <1>10
  <2>2. \A u \in CondvarThreads : AbsWaiting(u) => (waiting'[u] <=> waiting[u])
        BY <1>3, <1>10 DEF IInv, CondvarTypeOK
  <2> QED BY <1>2, <1>3, <1>4, <1>6, <2>1, <2>2, Stutters
<1> QED BY <1>9, <1>10

\* A notification is over when nobody is left before it.
LEMMA NotifyEndStep ==
    ASSUME IInv, NEW t \in CondvarThreads, NotifyEnd(t)
    PROVE  Abstract!NotifyEnd(t)
<1> USE DEF NotifyEnd, Goto
<1>1. \A u \in CondvarThreads : u # t => Same(u)
      BY SameThread DEF IInv, CondvarTypeOK
<1>2. Same(t)
      BY DEF IInv, CondvarTypeOK, Same, AbsState, AbsDeadline, AbsWaiting
<1>3. \A u \in CondvarThreads : AbsWaiting(u)' <=> AbsWaiting(u)
      BY <1>1, <1>2 DEF Same
<1>4. \A n \in CondvarThreads : n # t => AbsPending(n)' = AbsPending(n)
  <2>1. \A n \in CondvarThreads : n # t => cv_pc'[n] = cv_pc[n]
        BY DEF IInv, CondvarTypeOK
  <2> QED BY <1>3, <2>1, SamePending
<1>5. AbsPending(t) = {}
  <2>1. \A u : ~ListContains(cursor[t], u)
        BY SMT DEF ListContains
  <2> QED BY <2>1 DEF AbsPending
<1>6. AbsPending(t)' = NoThread
      BY DEF AbsPending, IInv, CondvarTypeOK
<1>7. [n \in CondvarThreads |-> AbsPending(n)]'
        = [[n \in CondvarThreads |-> AbsPending(n)] EXCEPT ![t] = NoThread]
      BY <1>4, <1>6
<1>8. AbsOwner' = AbsOwner /\ cv_now' = cv_now
      BY DEF AbsOwner
<1>9. /\ [u \in CondvarThreads |-> AbsState(u)]' = [u \in CondvarThreads |-> AbsState(u)]
      /\ [u \in CondvarThreads |-> AbsDeadline(u)]' = [u \in CondvarThreads |-> AbsDeadline(u)]
      BY <1>1, <1>2 DEF Same
<1>10. {u \in CondvarThreads : AbsWaiting(u) /\ ~waiting[u]}'
         = {u \in CondvarThreads : AbsWaiting(u) /\ ~waiting[u]}
      BY <1>3
<1> QED BY <1>5, <1>7, <1>8, <1>9, <1>10 DEF Abstract!NotifyEnd

\* Before anything is created the abstract mutex and condition variable are in
\* their initial state.
LEMMA InitRefines == CondvarInit => Abstract!Init
<1> SUFFICES ASSUME CondvarInit PROVE Abstract!Init
    OBVIOUS
<1>1. AbsOwner = NoThread
      BY DEF CondvarInit, AbsOwner
<1>2. \A t \in CondvarThreads : /\ AbsState(t) = "out" /\ AbsDeadline(t) = NoDeadline
                         /\ ~AbsWaiting(t) /\ AbsPending(t) = NoThread
      BY DEF CondvarInit, AbsState, AbsDeadline, AbsWaiting, AbsPending
<1>3. cv_now = 0
      BY DEF CondvarInit
<1> QED BY <1>1, <1>2, <1>3 DEF Abstract!Init

\* Every step of the primitives is a step of the abstract ones, or stutters.
LEMMA RefinesStep ==
    ASSUME IInv, IInv', [CondvarNext]_condvarVars
    PROVE  [Abstract!Next]_(Abstract!vars)
<1> DEFINE Refined == Abstract!Next \/ UNCHANGED Abstract!vars
<1> SUFFICES Refined
    OBVIOUS
<1>types. /\ cv_pc \in [CondvarThreads -> Labels] /\ holds \in [CondvarThreads -> BOOLEAN]
          /\ flag_value \in [CondvarThreads -> BOOLEAN]
          /\ waiting \in [CondvarThreads -> BOOLEAN]
          /\ deadline \in [CondvarThreads -> 0..CondvarMaxTime \cup {NoDeadline}]
      BY DEF IInv, CondvarTypeOK
<1>holding. Holding
      BY DEF IInv
<1>1. CASE UNCHANGED <<cv_now, cv_pc, holds, flag_value, deadline, waiting, cursor>>
  <2>1. \A u \in CondvarThreads : Same(u)
        BY <1>1, SameThread
  <2>2. \A n \in CondvarThreads : AbsPending(n)' = AbsPending(n)
        BY <1>1, <2>1, SamePending DEF Same
  <2>3. AbsOwner' = AbsOwner
        BY <1>1 DEF AbsOwner
  <2> QED BY <1>1, <2>1, <2>2, <2>3, Stutters
<1>2. CASE UNCHANGED condvarVars
      BY <1>1, <1>2 DEF condvarVars
<1>3. CASE Create \/ Cleanup
      BY <1>1, <1>3 DEF Create, Cleanup
<1>4. CASE CondvarTick
  <2>1. \A u \in CondvarThreads : Same(u)
        BY <1>4, SameThread DEF CondvarTick
  <2>2. \A n \in CondvarThreads : AbsPending(n)' = AbsPending(n)
        BY <1>4, <2>1, SamePending DEF Same, CondvarTick
  <2>3. AbsOwner' = AbsOwner
        BY <1>4 DEF AbsOwner, CondvarTick
  <2>4. /\ [u \in CondvarThreads |-> AbsState(u)]' = [u \in CondvarThreads |-> AbsState(u)]
        /\ [u \in CondvarThreads |-> AbsDeadline(u)]' = [u \in CondvarThreads |-> AbsDeadline(u)]
        /\ [u \in CondvarThreads |-> AbsPending(u)]' = [u \in CondvarThreads |-> AbsPending(u)]
        /\ {u \in CondvarThreads : AbsWaiting(u) /\ ~waiting[u]}'
             = {u \in CondvarThreads : AbsWaiting(u) /\ ~waiting[u]}
        BY <1>4, <2>1, <2>2 DEF Same, CondvarTick
  <2>5. Abstract!Tick
        BY <1>4, <2>3, <2>4 DEF CondvarTick, Abstract!Tick
  <2> QED BY <2>5 DEF Abstract!Next
<1>5. ASSUME NEW t \in CondvarThreads, LockCall(t) \/ NotifyCall(t) PROVE Refined
  <2>1. PICK p \in {"lock", "notify_lock"} : cv_pc' = [cv_pc EXCEPT ![t] = p]
        BY <1>5 DEF LockCall, NotifyCall, Goto
  <2> QED BY <1>5, <2>1, QuietMove DEF LockCall, NotifyCall, Plain
<1>6. ASSUME NEW t \in CondvarThreads, NEW d \in 0..CondvarMaxTime \cup {NoDeadline},
             CondvarWaitCall(t, d)
      PROVE  Refined
      BY <1>6, <1>types, QuietMove DEF CondvarWaitCall, Goto, Plain
<1>7. ASSUME NEW t \in CondvarThreads, Lock(t) PROVE Refined
  <2>1. Abstract!Acquire(t)
        BY <1>7, <1>holding, AcquireStep DEF Lock, Goto, Plain, Holding, LacksMutex
  <2> QED BY <2>1 DEF Abstract!Next, Abstract!Acquire
<1>8. ASSUME NEW t \in CondvarThreads, TryLock(t) PROVE Refined
  <2>1. CASE locked
    <3>1. holds' = holds
          BY <1>8, <1>types, <2>1 DEF TryLock
    <3> QED BY <1>1, <1>8, <3>1 DEF TryLock
  <2>2. CASE ~locked
    <3>1. /\ holds' = [holds EXCEPT ![t] = TRUE]
          /\ cv_pc' = [cv_pc EXCEPT ![t] = "idle"]
          BY <1>8, <1>types, <2>2 DEF TryLock, IInv, CondvarTypeOK
    <3>2. Abstract!Acquire(t)
          BY <1>8, <2>2, <3>1, AcquireStep DEF TryLock, Plain
    <3> QED BY <3>2 DEF Abstract!Next, Abstract!Acquire
  <2> QED BY <2>1, <2>2
<1>9. ASSUME NEW t \in CondvarThreads, Relock(t) PROVE Refined
  <2>1. Abstract!Acquire(t)
        BY <1>9, <1>holding, AcquireStep DEF Relock, Goto, Plain, Holding, LacksMutex
  <2> QED BY <2>1 DEF Abstract!Next, Abstract!Acquire
<1>10. ASSUME NEW t \in CondvarThreads, Unlock(t) PROVE Refined
  <2>1. Abstract!Release(t)
        BY <1>10, ReleaseStep
  <2> QED BY <2>1 DEF Abstract!Next, Abstract!Release
<1>11. ASSUME NEW t \in CondvarThreads, WaitUnlock(t) PROVE Refined
  <2>1. Abstract!FallAsleep(t)
        BY <1>11, FallAsleepStep
  <2> QED BY <2>1 DEF Abstract!Next, Abstract!FallAsleep
<1>12. ASSUME NEW t \in CondvarThreads, InsertNewWaiter(t) PROVE Refined
  <2>1. Abstract!Enlist(t, deadline[t]) /\ deadline[t] \in 0..CondvarMaxTime \cup {NoDeadline}
        BY <1>12, <1>types, EnlistStep
  <2> QED BY <2>1 DEF Abstract!Next, Abstract!Enlist
<1>13. ASSUME NEW t \in CondvarThreads, LockWaiters(t) PROVE Refined
  <2>1. CASE LocksWaiters(t, "notify_lock", "notify", waiters)
    <3>1. Abstract!NotifyBegin(t)
          BY <2>1, NotifyBeginStep
    <3> QED BY <3>1 DEF Abstract!Next, Abstract!NotifyBegin
  <2>2. ASSUME NEW from \in {"insert_lock", "remove_lock"}, NEW to \in {"insert", "remove"},
               LocksWaiters(t, from, to, cursor[t])
        PROVE  Refined
    <3>1. cursor' = cursor
          BY <2>2 DEF LocksWaiters, IInv, CondvarTypeOK
    <3> QED BY <2>2, <3>1, QuietMove DEF LocksWaiters, Plain
  <2>3. \/ LocksWaiters(t, "insert_lock", "insert", cursor[t])
        \/ LocksWaiters(t, "remove_lock", "remove", cursor[t])
        \/ LocksWaiters(t, "notify_lock", "notify", waiters)
        BY <1>13, LockWaitersCases DEF IInv
  <2> QED BY <2>1, <2>2, <2>3
<1>14. ASSUME NEW t \in CondvarThreads, NotifyStep(t) PROVE Refined
  <2>1. (\E u \in CondvarThreads : Abstract!Signal(t, u)) \/ UNCHANGED Abstract!vars
        BY <1>14, NotifyWalkStep
  <2> QED BY <2>1 DEF Abstract!Next, Abstract!Signal
<1>15. ASSUME NEW t \in CondvarThreads, NotifyEnd(t) PROVE Refined
  <2>1. Abstract!NotifyEnd(t)
        BY <1>15, NotifyEndStep
  <2> QED BY <2>1 DEF Abstract!Next, Abstract!NotifyEnd
<1>wake. ASSUME NEW t \in CondvarThreads,
                \E result \in {"ok", "timeout"} : Abstract!Wake(t, result)
         PROVE  Refined
      BY <1>wake DEF Abstract!Next, Abstract!Wake
<1>move. ASSUME NEW t \in CondvarThreads, cv_pc[t] \in {"spin", "check"},
                cv_pc' \in {[cv_pc EXCEPT ![t] = p] : p \in {"spin", "check"}},
                \A u \in CondvarThreads : u # t => flag_value'[u] = flag_value[u],
                UNCHANGED <<cv_now, holds, deadline, waiting, cursor>>
         PROVE  Refined
  <2>1. \A u \in CondvarThreads : u # t => Same(u)
        BY <1>move, <1>types, SameThread
  <2>2. Same(t)
        BY <1>move, <1>types DEF Same, AbsState, AbsDeadline, AbsWaiting
  <2>3. \A n \in CondvarThreads : cv_pc'[n] = "notify" <=> cv_pc[n] = "notify"
        BY <1>move, <1>types
  <2>4. \A n \in CondvarThreads : AbsPending(n)' = AbsPending(n)
        BY <1>move, <2>1, <2>2, <2>3, SamePending DEF Same
  <2>5. AbsOwner' = AbsOwner
        BY <1>move DEF AbsOwner
  <2> QED BY <1>move, <2>1, <2>2, <2>4, <2>5, Stutters
<1>16. ASSUME NEW t \in CondvarThreads, TestWaiting(t) PROVE Refined
  <2>1. CASE waiting[t]
    <3>1. waiting' = waiting /\ cv_pc' = [cv_pc EXCEPT ![t] = "check"]
          BY <1>16, <1>types, <2>1 DEF TestWaiting, Goto
    <3> QED BY <1>16, <1>move, <1>types, <3>1 DEF TestWaiting
  <2>2. CASE ~waiting[t]
    <3>1. /\ cv_pc' = [cv_pc EXCEPT ![t] = "relock"] /\ ~flag_value'[t]
          /\ flag_value' \in [CondvarThreads -> BOOLEAN]
          BY <1>16, <1>types, <2>2 DEF TestWaiting, Goto
    <3>2. \E result \in {"ok", "timeout"} : Abstract!Wake(t, result)
          BY <1>16, <1>types, <3>1, WakeStep DEF TestWaiting
    <3> QED BY <1>wake, <3>2
  <2> QED BY <2>1, <2>2
<1>17. ASSUME NEW t \in CondvarThreads, CheckDeadline(t) PROVE Refined
  <2>1. CASE ~Expired(t)
        BY <1>17, <1>move, <1>types, <2>1 DEF CheckDeadline, Goto
  <2>2. CASE Expired(t)
    <3>1. cv_pc' = [cv_pc EXCEPT ![t] = "relock"]
          BY <1>17, <2>2 DEF CheckDeadline, Goto
    <3>2. \E result \in {"ok", "timeout"} : Abstract!Wake(t, result)
          BY <1>17, <1>types, <2>2, <3>1, WakeStep DEF CheckDeadline
    <3> QED BY <1>wake, <3>2
  <2> QED BY <2>1, <2>2
<1>18. ASSUME NEW t \in CondvarThreads, RemoveWaiter(t) PROVE Refined
      BY <1>18, <1>types, QuietMove DEF RemoveWaiter, Goto, Plain
<1> HIDE DEF Refined
<1> QED BY <1>2, <1>3, <1>4, <1>5, <1>6, <1>7, <1>8, <1>9, <1>10, <1>11, <1>12,
          <1>13, <1>14, <1>15, <1>16, <1>17, <1>18 DEF CondvarNext, StartCondvarCall, Step

\* The mutex and the condition variable on atomic flags implement the abstract
\* ones: no notification misses a thread asleep, and no wait reports a timeout
\* before its deadline, whatever the number of threads.
THEOREM Refinement == CondvarSpec => ImplementsCondvar
<1>1. IInv /\ IInv' /\ [CondvarNext]_condvarVars => [Abstract!Next]_(Abstract!vars)
      BY RefinesStep
<1> QED BY <1>1, InitRefines, IInvHolds, PTL DEF CondvarSpec, ImplementsCondvar, Abstract!Spec
-----------------------------------------------------------------------------
(* Sets of numbers                                                         *)

\* Every set of naturals but the empty one has a smallest element.
LEMMA SmallestNat ==
    ASSUME NEW P \in SUBSET Nat, P # {}
    PROVE  \E i \in P : \A j \in P : i <= j
<1>1. IsWellFoundedOn(OpToRel(<, Nat), Nat)
      BY NatLessThanWellFounded
<1>2. PICK i \in P : \A j \in P : ~(<<j, i>> \in OpToRel(<, Nat))
      BY <1>1, WFMin
<1>3. ASSUME NEW j \in P PROVE i <= j
  <2>1. ~(<<j, i>> \in {ss \in Nat \X Nat : ss[1] < ss[2]})
        BY <1>2 DEF OpToRel
  <2> QED BY SMTT(30), <2>1
<1> QED BY <1>3

\* A set of numbers from 1 to n has a largest element.
LEMMA LargestUpTo ==
    ASSUME NEW n \in Nat, NEW P \in SUBSET (1 .. n), P # {}
    PROVE  \E i \in P : \A j \in P : j <= i
<1> DEFINE I == {i \in Nat : n - i \in P}
<1>1. PICK b \in P : TRUE
      OBVIOUS
<1>2. n - b \in I
      BY SMT
<1>3. I \in SUBSET Nat /\ I # {}
      BY <1>2
<1>4. PICK i \in I : \A j \in I : i <= j
      BY <1>3, SmallestNat
<1>5. ASSUME NEW j \in P PROVE j <= n - i
  <2>1. n - j \in I
        BY SMT
  <2>2. i <= n - j
        BY <1>4, <2>1
  <2> QED
      BY SMTT(30), <2>2
<1>6. n - i \in P
      BY <1>4
<1> QED
    BY <1>5, <1>6

-----------------------------------------------------------------------------
(* The log: its levels                                                     *)

\* An entry of the list of levels.
LevelEntry == [module : LogModules, level : LogLevels \cup {INFO}]

\* The list that level_for walks has each module once.
Sorted(levels) ==
    \A i, j \in 1 .. Len(levels) : i < j => levels[i].module < levels[j].module

\* The list L has exactly the levels configured for modules.
Lists(levels, conf) ==
    /\ \A i \in 1 .. Len(levels) :
          /\ levels[i].module \in DOMAIN conf
          /\ levels[i].level = conf[levels[i].module]
    /\ \A m \in DOMAIN conf \ {NOBODY} :
          \E i \in 1 .. Len(levels) : levels[i].module = m

\* The loop of level_for stops behind exactly the entries that are before m.
LEMMA PlaceFacts ==
    ASSUME NEW g, g.levels \in Seq(LevelEntry), Sorted(g.levels), NEW m \in Nat
    PROVE  /\ Place(g, m) \in 1 .. Len(g.levels) + 1
           /\ \A i \in 1 .. Len(g.levels) :
                 i < Place(g, m) <=> g.levels[i].module < m
<1> DEFINE n == Len(g.levels)
           before == {i \in DOMAIN g.levels : g.levels[i].module < m}
<1>1. n \in Nat /\ DOMAIN g.levels = 1 .. n
      BY SMTT(30)
<1>2. \A i \in 1 .. n : g.levels[i].module \in Nat
  <2>1. ASSUME NEW i \in 1 .. n PROVE g.levels[i] \in LevelEntry
        BY SMTT(30), <1>1
  <2> QED
      BY <2>1, LogAssumption DEF LevelEntry
<1>3. CASE before = {}
  <2>1. Place(g, m) = 1
    <3>1. 1 + (IF before = {} THEN 0 ELSE CHOOSE i \in before : \A j \in before : j <= i) = 1
          BY SMTT(30), <1>3
    <3> QED
        BY <3>1 DEF Place
  <2> QED
      BY SMTT(30), <1>1, <1>2, <1>3, <2>1
<1>4. CASE before # {}
  <2>1. before \in SUBSET (1 .. n)
        BY <1>1
  <2>2. \E i \in before : \A j \in before : j <= i
        BY <1>1, <1>4, <2>1, LargestUpTo
  <2>3. DEFINE c == CHOOSE i \in before : \A j \in before : j <= i
  <2>4. c \in before /\ \A j \in before : j <= c
        BY <2>2
  <2>5. Place(g, m) = 1 + c
        BY <1>4 DEF Place
  <2> HIDE DEF c
  <2>6. ASSUME NEW i \in 1 .. n, i <= c
        PROVE  g.levels[i].module < m
        BY SMTT(30), <1>1, <1>2, <2>4, <2>6 DEF Sorted
  <2> QED
      BY SMTT(30), <1>1, <2>4, <2>5, <2>6
<1> QED
    BY <1>3, <1>4

\* Every handler that may be set.
LogHandlers == NormalHandlers \cup ExtendedHandlers \cup {DefaultHandler}

\* The static g_log.
LogState == [handler : LogHandlers, ext : BOOLEAN, default : LogLevels \cup {INFO},
             levels : Seq(LevelEntry)]

\* The levels of G are those of CONF, and the list of modules is in order.
LevelsInv(g, conf) ==
    /\ g \in LogState
    /\ DOMAIN conf \subseteq LogModules \cup {NOBODY} /\ NOBODY \in DOMAIN conf
    /\ Sorted(g.levels) /\ Lists(g.levels, conf)
    /\ g.default = conf[NOBODY]

\* level_for finds the entry of a module exactly when there is one.
LEMMA EntryFacts ==
    ASSUME NEW g, g.levels \in Seq(LevelEntry), Sorted(g.levels), NEW m \in LogModules
    PROVE  /\ HasEntry(g, m) => /\ Place(g, m) \in 1 .. Len(g.levels)
                                /\ g.levels[Place(g, m)].module = m
           /\ \A i \in 1 .. Len(g.levels) :
                 g.levels[i].module = m => HasEntry(g, m) /\ Place(g, m) = i
<1> DEFINE n == Len(g.levels)
           p == Place(g, m)
<1>1. m \in Nat /\ n \in Nat
      BY SMTT(30), LogAssumption
<1>2. p \in 1 .. n + 1 /\ \A i \in 1 .. n : i < p <=> g.levels[i].module < m
      BY <1>1, PlaceFacts
<1>3. \A i \in 1 .. n : g.levels[i].module \in Nat
  <2>1. ASSUME NEW i \in 1 .. n PROVE g.levels[i] \in LevelEntry
        BY SMTT(30), <1>1
  <2> QED
      BY <2>1, LogAssumption DEF LevelEntry
<1> HIDE DEF p
<1>4. ASSUME NEW i \in 1 .. n, g.levels[i].module = m
      PROVE  p = i
  <2>1. ~(i < p)
        BY SMTT(30), <1>1, <1>2, <1>4
  <2>2. CASE p < i
    <3>1. p \in 1 .. n /\ g.levels[p].module < m
          BY SMTT(30), <1>1, <1>2, <1>4, <2>2 DEF Sorted
    <3> QED
        BY SMTT(30), <1>1, <1>2, <3>1
  <2> QED
      BY SMTT(30), <1>1, <1>2, <2>1, <2>2
<1>5. ASSUME HasEntry(g, m)
      PROVE  p \in 1 .. n /\ g.levels[p].module = m
  <2>1. p <= n /\ g.levels[p].module = m
        BY <1>5 DEF HasEntry, p
  <2> QED
      BY SMTT(30), <1>1, <1>2, <2>1
<1>6. ASSUME NEW i \in 1 .. n, g.levels[i].module = m
      PROVE  HasEntry(g, m)
  <2>1. p <= n /\ g.levels[p].module = m
        BY SMTT(30), <1>1, <1>4, <1>6
  <2> QED
      BY <2>1 DEF HasEntry, p
<1> QED
    BY <1>4, <1>5, <1>6 DEF p

\* What level_for finds is what was configured, for the module or by default.
LEMMA LevelForFacts ==
    ASSUME NEW g, NEW conf, LevelsInv(g, conf), NEW m \in LogModules \cup {NOBODY}
    PROVE  LevelFor(g, m) = conf[IF m \in DOMAIN conf THEN m ELSE NOBODY]
<1>1. g.levels \in Seq(LevelEntry)
      BY DEF LevelsInv, LogState
<1>2. CASE m = NOBODY
      BY <1>2 DEF LevelFor, LevelsInv
<1>3. CASE m # NOBODY /\ HasEntry(g, m)
  <2>1. m \in LogModules
        BY <1>3
  <2>2. Place(g, m) \in 1 .. Len(g.levels) /\ g.levels[Place(g, m)].module = m
        BY <1>1, <1>3, <2>1, EntryFacts DEF LevelsInv
  <2>3. m \in DOMAIN conf /\ g.levels[Place(g, m)].level = conf[m]
        BY <2>2 DEF LevelsInv, Lists
  <2> QED
      BY <1>3, <2>3 DEF LevelFor
<1>4. CASE m # NOBODY /\ ~HasEntry(g, m)
  <2>1. m \in LogModules
        BY <1>4
  <2>2. m \notin DOMAIN conf
        BY <1>1, <1>4, <2>1, EntryFacts DEF LevelsInv, Lists
  <2> QED
      BY <1>4, <2>2 DEF LevelFor, LevelsInv
<1> QED
    BY <1>2, <1>3, <1>4

\* What the ghost records of a level set for M.
Configure(conf, m, level) ==
    [x \in DOMAIN conf \cup {m} |-> IF x = m THEN level ELSE conf[x]]

\* Setting a level, of a module with an entry or without one, or the default,
\* changes that level only and keeps the order.
LEMMA SetLevelFacts ==
    ASSUME NEW g, NEW conf, LevelsInv(g, conf), NEW m \in LogModules \cup {NOBODY},
           NEW level \in LogLevels \cup {INFO}
    PROVE  /\ LevelsInv(SetLogLevelUnlocked(g, m, level), Configure(conf, m, level))
           /\ SetLogLevelUnlocked(g, m, level).handler = g.handler
           /\ SetLogLevelUnlocked(g, m, level).ext = g.ext
<1> DEFINE h == SetLogLevelUnlocked(g, m, level)
           c == Configure(conf, m, level)
           q == g.levels
           p == Place(g, m)
           e == [module |-> m, level |-> level]
<1> SUFFICES LevelsInv(h, c) /\ h.handler = g.handler /\ h.ext = g.ext
    OBVIOUS
<1>1. g \in LogState /\ q \in Seq(LevelEntry)
      BY DEF LevelsInv, LogState
<1>2. /\ DOMAIN c = DOMAIN conf \cup {m} /\ c[m] = level
      /\ \A x \in DOMAIN conf : x # m => c[x] = conf[x]
      BY DEF Configure
<1> HIDE DEF c
<1>3. DOMAIN c \subseteq LogModules \cup {NOBODY} /\ NOBODY \in DOMAIN c
      BY <1>2 DEF LevelsInv
<1>4. CASE m = NOBODY
  <2>1. h = [g EXCEPT !.default = level]
        BY <1>4 DEF SetLogLevelUnlocked
  <2>2. h \in LogState /\ h.levels = q /\ h.default = level
        /\ h.handler = g.handler /\ h.ext = g.ext
        BY <1>1, <2>1 DEF LogState
  <2>3. ASSUME NEW i \in 1 .. Len(q) PROVE q[i].module # NOBODY
    <3>1. q[i] \in LevelEntry
          BY SMTT(30), <1>1
    <3> QED
        BY <3>1, LogAssumption DEF LevelEntry, NOBODY
  <2>4. Lists(h.levels, c)
        BY SMTT(30), <1>2, <1>4, <2>2, <2>3 DEF LevelsInv, Lists
  <2> QED
      BY <1>2, <1>3, <1>4, <2>2, <2>4 DEF LevelsInv
<1>5. CASE m # NOBODY /\ HasEntry(g, m)
  <2>1. m \in LogModules
        BY <1>5
  <2>2. p \in 1 .. Len(q) /\ q[p].module = m
        BY <1>1, <1>5, <2>1, EntryFacts DEF LevelsInv
  <2>3. \A i \in 1 .. Len(q) : q[i].module = m => p = i
        BY <1>1, <1>5, <2>1, EntryFacts DEF LevelsInv
  <2> DEFINE r == [q EXCEPT ![p].level = level]
  <2>4. h = [g EXCEPT !.levels = r]
    <3>1. h = [g EXCEPT !.levels[p].level = level]
          BY <1>5 DEF SetLogLevelUnlocked
    <3> QED
        BY <3>1
  <2>5. ASSUME NEW i \in 1 .. Len(q) PROVE q[i] \in LevelEntry
        BY SMT, <1>1
  <2>6. [q[p] EXCEPT !.level = level] \in LevelEntry
        BY <2>2, <2>5 DEF LevelEntry
  <2>7. r \in Seq(LevelEntry) /\ Len(r) = Len(q)
        BY SMTT(30), <1>1, <2>2, <2>6
  <2>8. \A i \in 1 .. Len(q) : r[i] = IF i = p THEN [q[p] EXCEPT !.level = level] ELSE q[i]
        BY SMTT(30), <1>1, <2>2
  <2>9. \A i \in 1 .. Len(q) : /\ r[i].module = q[i].module
                               /\ r[i].level = IF i = p THEN level ELSE q[i].level
        BY SMTT(30), <2>2, <2>5, <2>8 DEF LevelEntry
  <2> HIDE DEF r
  <2>10. h \in LogState /\ h.levels = r /\ h.default = g.default
         /\ h.handler = g.handler /\ h.ext = g.ext
         BY <1>1, <2>4, <2>7 DEF LogState
  <2>11. Sorted(r)
         BY <2>7, <2>9 DEF LevelsInv, Sorted
  <2>12. Lists(r, c)
    <3>1. Lists(q, conf)
          BY DEF LevelsInv
    <3>2. ASSUME NEW i \in 1 .. Len(q)
          PROVE  r[i].module \in DOMAIN c /\ r[i].level = c[r[i].module]
      <4>1. CASE i = p
            BY <1>2, <2>2, <2>9, <4>1
      <4>2. CASE i # p
        <5>1. q[i].module \in DOMAIN conf /\ q[i].level = conf[q[i].module]
              BY <3>1 DEF Lists
        <5>2. q[i].module # m /\ r[i].module = q[i].module /\ r[i].level = q[i].level
              BY <2>3, <2>9, <4>2
        <5> QED
            BY <1>2, <5>1, <5>2
      <4> QED
          BY <4>1, <4>2
    <3>3. ASSUME NEW x \in DOMAIN c \ {NOBODY}
          PROVE  \E i \in 1 .. Len(q) : r[i].module = x
      <4>1. CASE x = m
            BY <2>2, <2>9, <4>1
      <4>2. CASE x # m
        <5>1. PICK i \in 1 .. Len(q) : q[i].module = x
              BY <1>2, <3>1, <4>2 DEF Lists
        <5> QED
            BY <2>9, <5>1
      <4> QED
          BY <4>1, <4>2
    <3> QED
        BY <2>7, <3>2, <3>3 DEF Lists
  <2> QED
      BY <1>2, <1>3, <1>5, <2>10, <2>11, <2>12 DEF LevelsInv
<1>6. CASE m # NOBODY /\ ~HasEntry(g, m)
  <2>1. m \in LogModules /\ m \in Nat /\ e \in LevelEntry
        BY <1>6, LogAssumption DEF LevelEntry
  <2>2. p \in 1 .. Len(q) + 1 /\ \A i \in 1 .. Len(q) : i < p <=> q[i].module < m
        BY <1>1, <2>1, PlaceFacts DEF LevelsInv
  <2>3. \A i \in 1 .. Len(q) : q[i].module # m
        BY <1>1, <1>6, <2>1, EntryFacts DEF LevelsInv
  <2> DEFINE r == ListInsert(q, p, e)
  <2>4. h = [g EXCEPT !.levels = r]
        BY <1>6 DEF SetLogLevelUnlocked
  <2>5. /\ r \in Seq(LevelEntry) /\ Len(r) = Len(q) + 1
        /\ \A i \in 1 .. Len(q) + 1 : r[i] = Placed(q, p, e, i)
        BY <1>1, <2>1, <2>2, ListInsertPlaces
  <2> HIDE DEF r
  <2>6. h \in LogState /\ h.levels = r /\ h.default = g.default
        /\ h.handler = g.handler /\ h.ext = g.ext
        BY <1>1, <2>4, <2>5 DEF LogState
  <2>7. \A i \in 1 .. Len(q) : q[i].module \in Nat
    <3>1. ASSUME NEW i \in 1 .. Len(q) PROVE q[i] \in LevelEntry
          BY SMT, <1>1
    <3> QED
        BY <3>1, LogAssumption DEF LevelEntry
  <2>8. Len(q) \in Nat /\ e.module = m /\ e.level = level
        BY SMT, <1>1
  <2>9. Sorted(q) /\ Lists(q, conf)
        BY DEF LevelsInv
  <2>10. Sorted(r)
    <3> SUFFICES ASSUME NEW i \in 1 .. Len(r), NEW j \in 1 .. Len(r), i < j
                 PROVE  r[i].module < r[j].module
        BY DEF Sorted
    <3>1. /\ i < p => r[i] = q[i] /\ i \in 1 .. Len(q)
          /\ i = p => r[i] = e
          /\ i > p => r[i] = q[i - 1] /\ i - 1 \in 1 .. Len(q)
          BY SMTT(30), <2>2, <2>5, <2>8 DEF Placed
    <3>2. /\ j < p => r[j] = q[j] /\ j \in 1 .. Len(q)
          /\ j = p => r[j] = e
          /\ j > p => r[j] = q[j - 1] /\ j - 1 \in 1 .. Len(q)
          BY SMTT(30), <2>2, <2>5, <2>8 DEF Placed
    <3> QED
      <4>1. CASE j < p
            BY SMTT(30), <2>2, <2>8, <2>9, <3>1, <3>2, <4>1 DEF Sorted
      <4>2. CASE j = p
            BY SMTT(30), <2>2, <2>8, <3>1, <3>2, <4>2
      <4>3. CASE j > p /\ i > p
        <5>1. i - 1 \in 1 .. Len(q) /\ j - 1 \in 1 .. Len(q) /\ i - 1 < j - 1
              BY SMTT(30), <2>2, <2>8, <3>1, <3>2, <4>3
        <5>2. q[i - 1].module < q[j - 1].module
              BY <2>9, <5>1 DEF Sorted
        <5> QED
            BY <3>1, <3>2, <4>3, <5>2
      <4>4. CASE j > p /\ ~(i > p)
        <5>1. ~(q[j - 1].module < m) /\ q[j - 1].module # m /\ q[j - 1].module \in Nat
              BY SMTT(30), <2>2, <2>3, <2>7, <2>8, <3>2, <4>4
        <5>2. r[i].module = m \/ (r[i].module < m /\ r[i].module \in Nat)
              BY SMTT(30), <2>2, <2>7, <2>8, <3>1, <4>4
        <5> QED
            BY SMTT(30), <2>1, <3>2, <4>4, <5>1, <5>2
      <4> QED
          BY SMT, <2>2, <2>5, <2>8, <4>1, <4>2, <4>3, <4>4
  <2>11. Lists(r, c)
    <3>1. ASSUME NEW i \in 1 .. Len(r)
          PROVE  r[i].module \in DOMAIN c /\ r[i].level = c[r[i].module]
      <4>1. CASE i = p
            BY SMTT(30), <1>2, <2>2, <2>5, <2>8, <4>1 DEF Placed
      <4>2. CASE i # p
        <5>1. PICK j \in 1 .. Len(q) : r[i] = q[j]
          <6>1. r[i] = IF i < p THEN q[i] ELSE q[i - 1]
                BY SMTT(30), <2>5, <4>2 DEF Placed
          <6>2. CASE i < p
            <7>1. i \in 1 .. Len(q)
                  BY SMTT(30), <2>2, <2>5, <2>8, <6>2
            <7> QED
                BY <6>1, <6>2, <7>1
          <6>3. CASE ~(i < p)
            <7>1. i - 1 \in 1 .. Len(q)
                  BY SMTT(30), <2>2, <2>5, <2>8, <4>2, <6>3
            <7> QED
                BY <6>1, <6>3, <7>1
          <6> QED
              BY <6>2, <6>3
        <5> QED
            BY SMTT(30), <1>2, <2>3, <2>9, <5>1 DEF Lists
      <4> QED
          BY <4>1, <4>2
    <3>2. ASSUME NEW x \in DOMAIN c \ {NOBODY}
          PROVE  \E i \in 1 .. Len(r) : r[i].module = x
      <4>1. CASE x = m
        <5>1. p \in 1 .. Len(r) /\ r[p] = e
              BY SMTT(30), <2>2, <2>5, <2>8 DEF Placed
        <5> QED
            BY <2>8, <4>1, <5>1
      <4>2. CASE x # m
        <5>1. PICK j \in 1 .. Len(q) : q[j].module = x
              BY <1>2, <2>9, <4>2 DEF Lists
        <5>2. \E i \in 1 .. Len(r) : r[i] = q[j]
          <6>1. CASE j < p
                BY SMTT(30), <2>2, <2>5, <2>8, <6>1 DEF Placed
          <6>2. CASE ~(j < p)
            <7>1. j + 1 \in 1 .. Len(r) /\ r[j + 1] = q[j + 1 - 1] /\ j + 1 - 1 = j
              <8>1. j + 1 \in 1 .. Len(q) + 1 /\ ~(j + 1 < p) /\ j + 1 # p
                    BY SMTT(30), <2>2, <2>3, <2>8, <6>2
              <8>2. r[j + 1] = Placed(q, p, e, j + 1)
                    BY <2>5, <8>1
              <8>3. r[j + 1] = q[j + 1 - 1]
                    BY SMTT(30), <2>8, <8>1, <8>2 DEF Placed
              <8> QED
                  BY SMTT(30), <2>5, <8>1, <8>3
            <7> QED
                BY <7>1
          <6> QED
              BY <6>1, <6>2
        <5> QED
            BY <5>1, <5>2
      <4> QED
          BY <4>1, <4>2
    <3> QED
        BY <3>1, <3>2 DEF Lists
  <2> QED
      BY <1>2, <1>3, <1>6, <2>6, <2>10, <2>11 DEF LevelsInv
<1> QED
    BY <1>4, <1>5, <1>6

-----------------------------------------------------------------------------
(* The log: threads                                                        *)

\* Where a thread may be.
LogPlaces == {"idle", "lock", "locked", "lock_to_log", "prefix", "dispatch", "call",
              "handling"}

\* What a thread may be doing.
LogCall == [at : LogPlaces,
            op : {"none", "set_handler", "set_extended", "reset", "set_level", "log",
                  "set_level_failed"},
            module : LogModules \cup {NOBODY}, level : LogLevels \cup {INFO, QUIET},
            ext : BOOLEAN, called : LogHandlers]

\* Where a thread formats and handles a message.
Logging == {"prefix", "dispatch", "call", "handling"}

\* Types; the level a thread is about to set is one that may be configured.
LogTypes ==
    /\ log_global \in BOOLEAN
    /\ log_owner \in LogThreads \cup {NOBODY}
    /\ log_pc \in [LogThreads -> LogCall]
    /\ \A t \in LogThreads :
          /\ log_pc[t].op = "set_level" => log_pc[t].level \in LogLevels \cup {INFO}
          /\ log_pc[t].at = "lock_to_log" => log_global

\* The handler is called the way it was set.
KindInv == g_log.ext <=> g_log.handler \in ExtendedHandlers

\* What a thread that handles a message under the lock has read is true.
ReadInv ==
    \A t \in LogThreads : log_global =>
        /\ log_pc[t].at = "call" => log_pc[t].ext = g_log.ext
        /\ log_pc[t].at = "handling" =>
              (log_pc[t].ext <=> log_pc[t].called \in ExtendedHandlers)

\* A thread has the lock exactly in the sections under it.
Holds(call, global) ==
    \/ call.at = "locked"
    \/ call.at \in Logging /\ (global \/ call.op = "set_level_failed")
    \/ call.at = "lock_to_log" /\ call.op = "set_level_failed"

\* The lock is held by the thread that is in such a section.
OwnerInv ==
    \A t \in LogThreads : log_owner = t <=> Holds(log_pc[t], log_global)

\* The inductive invariant of the log.
LogInv ==
    /\ LogTypes /\ KindInv /\ ReadInv /\ OwnerInv
    /\ LevelsInv(g_log, configured)

\* A thread that does nothing does not hold the lock.
LEMMA IdleCall ==
    /\ LogIdle \in LogCall /\ LogIdle.at = "idle" /\ LogIdle.op = "none"
    /\ ~Holds(LogIdle, log_global)
<1>1. LogIdle \in LogCall /\ LogIdle.at = "idle" /\ LogIdle.op = "none"
      BY DEF LogIdle, LogCall, LogPlaces, LogHandlers
<1> QED
    BY <1>1 DEF Holds, Logging

\* What one thread does with the lock and its place, the log being as it was.
LEMMA Moves ==
    ASSUME LogInv, NEW t \in LogThreads, NEW call \in LogCall,
           Goes(t, call), UNCHANGED <<log_global, g_log, configured>>,
           call.op = "set_level" => call.level \in LogLevels \cup {INFO},
           call.at = "lock_to_log" => log_global,
           log_owner' \in LogThreads \cup {NOBODY},
           \A u \in LogThreads : u # t => (log_owner' = u <=> log_owner = u),
           log_owner' = t <=> Holds(call, log_global),
           log_global /\ call.at = "call" => call.ext = g_log.ext,
           log_global /\ call.at = "handling" =>
               (call.ext <=> call.called \in ExtendedHandlers)
    PROVE  LogInv'
<1>1. /\ log_pc' \in [LogThreads -> LogCall] /\ log_pc'[t] = call
      /\ \A u \in LogThreads : u # t => log_pc'[u] = log_pc[u]
      BY DEF Goes, LogInv, LogTypes
<1>2. LogTypes'
      BY <1>1 DEF LogInv, LogTypes
<1>3. KindInv' /\ LevelsInv(g_log, configured)'
      BY DEF LogInv, KindInv
<1>4. ReadInv'
      BY <1>1 DEF LogInv, ReadInv
<1>5. OwnerInv'
      BY <1>1 DEF LogInv, OwnerInv
<1> QED
    BY <1>2, <1>3, <1>4, <1>5 DEF LogInv

\* What a thread that has the lock does to the log before it returns.
LEMMA Changes ==
    ASSUME LogInv, NEW t \in LogThreads, log_pc[t].at = "locked",
           log_owner' = NOBODY, Goes(t, LogIdle), UNCHANGED log_global,
           KindInv', LevelsInv(g_log', configured')
    PROVE  LogInv'
<1>1. /\ log_pc' \in [LogThreads -> LogCall] /\ log_pc'[t] = LogIdle
      /\ \A u \in LogThreads : u # t => log_pc'[u] = log_pc[u]
      BY IdleCall DEF Goes, LogInv, LogTypes
<1>2. LogIdle.at = "idle" /\ LogIdle.op = "none"
      BY DEF LogIdle
<1>3. LogTypes'
      BY <1>1, <1>2 DEF LogInv, LogTypes
<1>4. log_owner = t /\ \A u \in LogThreads : u # t => ~Holds(log_pc[u], log_global)
      BY DEF LogInv, OwnerInv, Holds
<1>5. NOBODY \notin LogThreads
      BY LogAssumption DEF NOBODY
<1>6. OwnerInv'
      BY <1>1, <1>2, <1>4, <1>5 DEF OwnerInv, Holds, Logging
<1>7. ReadInv'
  <2> SUFFICES ASSUME NEW u \in LogThreads, log_global
               PROVE  /\ log_pc'[u].at = "call" => log_pc'[u].ext = g_log'.ext
                      /\ log_pc'[u].at = "handling" =>
                            (log_pc'[u].ext <=> log_pc'[u].called \in ExtendedHandlers)
      BY DEF ReadInv
  <2>1. CASE u = t
        BY <1>1, <1>2, <2>1
  <2>2. CASE u # t
        BY <1>1, <1>4, <2>2 DEF LogInv, ReadInv, Holds, Logging
  <2> QED
      BY <2>1, <2>2
<1> QED
    BY <1>3, <1>6, <1>7 DEF LogInv

\* A call that moves on keeps all but its place.
LEMMA MovedCall ==
    ASSUME NEW call \in LogCall,
           NEW at \in LogPlaces
    PROVE  LET c == [call EXCEPT !.at = at] IN
           /\ c \in LogCall /\ c.at = at /\ c.op = call.op /\ c.module = call.module
           /\ c.level = call.level /\ c.ext = call.ext /\ c.called = call.called
BY DEF LogCall

\* Taking the lock keeps LogInv,
LEMMA CallLocksStep ==
    ASSUME LogInv, NEW t \in LogThreads, CallLocks(t)
    PROVE  LogInv'
<1> DEFINE at == IF log_pc[t].at = "lock" THEN "locked" ELSE "prefix"
           c == [log_pc[t] EXCEPT !.at = at]
<1>1. log_pc[t] \in LogCall /\ log_owner = NOBODY /\ NOBODY \notin LogThreads
      BY LogAssumption DEF LogInv, LogTypes, CallLocks, NOBODY
<1>2. c \in LogCall /\ c.at = at /\ c.op = log_pc[t].op /\ c.level = log_pc[t].level
  <2>1. at \in LogPlaces
        BY DEF LogPlaces
  <2> HIDE DEF at
  <2> QED
      BY <1>1, <2>1, MovedCall
<1>3. Goes(t, c)
      BY DEF CallLocks
<1>4. ~Holds(log_pc[t], log_global)
      BY <1>1 DEF LogInv, OwnerInv
<1>5. Holds(c, log_global)
  <2>1. CASE log_pc[t].at = "lock"
        BY <1>2, <2>1 DEF Holds
  <2>2. CASE log_pc[t].at = "lock_to_log"
        BY <1>1, <1>2, <1>4, <2>2 DEF Holds, Logging, LogInv, LogTypes
  <2> QED
      BY <2>1, <2>2 DEF CallLocks
<1>6. c.op = "set_level" => c.level \in LogLevels \cup {INFO}
      BY <1>2 DEF LogInv, LogTypes
<1> HIDE DEF c
<1>7. c.at # "call" /\ c.at # "handling" /\ c.at # "lock_to_log"
      BY <1>2
<1> QED
    BY <1>1, <1>2, <1>3, <1>5, <1>6, <1>7, Moves DEF CallLocks


\* so does the start of a call,
LEMMA BeginsStep ==
    ASSUME LogInv, NEW t \in LogThreads,
           NEW op \in {"set_handler", "set_extended", "reset", "set_level", "log"},
           NEW m \in LogModules \cup {NOBODY}, NEW level \in LogLevels \cup {INFO},
           Begins(t, op, m, level)
    PROVE  LogInv'
<1> DEFINE c == [LogIdle EXCEPT !.at = "lock", !.op = op, !.module = m, !.level = level]
<1>1. c \in LogCall /\ c.at = "lock" /\ c.op = op /\ c.level = level
      BY IdleCall DEF LogCall, LogPlaces, LogIdle, LogHandlers
<1>2. Goes(t, c)
      BY DEF Begins
<1>3. log_owner # t
      BY IdleCall DEF LogInv, OwnerInv, Begins
<1> HIDE DEF c
<1>4. ~Holds(c, log_global)
      BY <1>1 DEF Holds, Logging
<1> QED
    BY <1>1, <1>2, <1>3, <1>4, Moves DEF Begins, LogInv, LogTypes

\* avs_log_internal_forced_v__ has the lock if messages are handled under it or
\* the call has it already.
LEMMA ForcedFacts ==
    ASSUME LogInv, NEW call \in LogCall
    PROVE  /\ Forced(call) \in LogCall /\ Forced(call).op = call.op
           /\ Forced(call).level = call.level
           /\ Forced(call).at = IF log_global THEN "lock_to_log" ELSE "prefix"
           /\ Holds(Forced(call), log_global) <=> call.op = "set_level_failed"
<1> DEFINE at == IF log_global THEN "lock_to_log" ELSE "prefix"
           c == [call EXCEPT !.at = at]
<1>1. c \in LogCall /\ c.at = at /\ c.op = call.op /\ c.level = call.level
  <2>1. at \in LogPlaces
        BY DEF LogPlaces
  <2> HIDE DEF at
  <2> QED
      BY <2>1, MovedCall
<1>2. Holds(c, log_global) <=> c.op = "set_level_failed"
  <2> HIDE DEF c
  <2>1. CASE log_global
        BY <1>1, <2>1 DEF Holds, Logging
  <2>2. CASE ~log_global
        BY <1>1, <2>2 DEF Holds, Logging
  <2> QED
      BY <2>1, <2>2
<1> QED
    BY <1>1, <1>2 DEF Forced

\* a message logged without the lock,
LEMMA QuietLogsStep ==
    ASSUME LogInv, NEW t \in LogThreads, QuietLogs(t)
    PROVE  LogInv'
<1> DEFINE i == [LogIdle EXCEPT !.op = "log", !.level = QUIET]
           c == Forced(i)
<1>1. i \in LogCall /\ i.op = "log"
      BY IdleCall DEF LogCall, LogPlaces, LogIdle, LogHandlers
<1> HIDE DEF i
<1>2. /\ c \in LogCall /\ c.op = "log" /\ ~Holds(c, log_global)
      /\ c.at = IF log_global THEN "lock_to_log" ELSE "prefix"
      BY <1>1, ForcedFacts
<1>3. Goes(t, c)
      BY DEF QuietLogs, i
<1>4. log_owner # t
      BY IdleCall DEF LogInv, OwnerInv, QuietLogs
<1> HIDE DEF c
<1> QED
    BY <1>2, <1>3, <1>4, Moves DEF QuietLogs, LogInv, LogTypes

\* avs_should_log__,
LEMMA ShouldLogStep ==
    ASSUME LogInv, NEW t \in LogThreads, ShouldLog(t)
    PROVE  LogInv'
<1> DEFINE c == IF log_pc[t].level >= LevelFor(g_log, log_pc[t].module)
                THEN Forced(log_pc[t]) ELSE LogIdle
<1>1. log_pc[t] \in LogCall /\ log_pc[t].op = "log"
      BY DEF LogInv, LogTypes, ShouldLog
<1>2. LogIdle \in LogCall /\ LogIdle.op = "none" /\ LogIdle.at = "idle"
      BY IdleCall DEF LogIdle
<1>3. /\ c \in LogCall /\ c.op # "set_level" /\ ~Holds(c, log_global)
      /\ c.at \in {"idle", "lock_to_log", "prefix"} /\ (c.at = "lock_to_log" => log_global)
  <2>1. CASE c = Forced(log_pc[t])
        BY <1>1, <2>1, ForcedFacts
  <2>2. CASE c = LogIdle
        BY <1>2, <2>2 DEF Holds, Logging
  <2> QED
      BY <2>1, <2>2
<1>4. Goes(t, c) /\ log_owner' = NOBODY
      BY DEF ShouldLog
<1>5. log_owner = t /\ NOBODY \notin LogThreads
      BY LogAssumption DEF LogInv, OwnerInv, ShouldLog, Holds, NOBODY
<1> HIDE DEF c
<1> QED
    BY <1>3, <1>4, <1>5, Moves DEF ShouldLog

\* the steps of log_with_buffer_unlocked_v,
LEMMA HandlingStep ==
    ASSUME LogInv, NEW t \in LogThreads,
           ReadsKindForPrefix(t) \/ ReadsKind(t) \/ CallsHandler(t)
    PROVE  LogInv'
<1>1. /\ log_pc[t] \in LogCall
      /\ log_pc[t].op = "set_level" => log_pc[t].level \in LogLevels \cup {INFO}
      BY DEF LogInv, LogTypes
<1>2. /\ UNCHANGED <<log_global, g_log, configured>> /\ log_owner' = log_owner
      /\ log_pc[t].at \in Logging
      BY DEF ReadsKindForPrefix, ReadsKind, CallsHandler, Logging
<1>3. log_owner = t <=> log_global \/ log_pc[t].op = "set_level_failed"
      BY <1>2 DEF LogInv, OwnerInv, Holds, Logging
<1>4. CASE ReadsKindForPrefix(t)
  <2> DEFINE c == [log_pc[t] EXCEPT !.at = "dispatch"]
  <2>1. /\ c \in LogCall /\ c.at = "dispatch" /\ c.op = log_pc[t].op
        /\ c.level = log_pc[t].level
    <3>1. "dispatch" \in LogPlaces
          BY DEF LogPlaces
    <3> QED
        BY <1>1, <3>1, MovedCall
  <2>2. Goes(t, c)
        BY <1>4 DEF ReadsKindForPrefix
  <2> HIDE DEF c
  <2>3. Holds(c, log_global) <=> log_owner = t
        BY <1>3, <2>1 DEF Holds, Logging
  <2> QED
      BY <1>1, <1>2, <2>1, <2>2, <2>3, Moves DEF LogInv, LogTypes
<1>5. CASE ReadsKind(t)
  <2> DEFINE c == [log_pc[t] EXCEPT !.at = "call", !.ext = g_log.ext]
  <2>1. /\ c \in LogCall /\ c.at = "call" /\ c.op = log_pc[t].op
        /\ c.level = log_pc[t].level /\ c.ext = g_log.ext
        BY <1>1 DEF LogCall, LogPlaces, LogInv, LevelsInv, LogState
  <2>2. Goes(t, c)
        BY <1>5 DEF ReadsKind
  <2> HIDE DEF c
  <2>3. Holds(c, log_global) <=> log_owner = t
        BY <1>3, <2>1 DEF Holds, Logging
  <2> QED
      BY <1>1, <1>2, <2>1, <2>2, <2>3, Moves DEF LogInv, LogTypes
<1>6. CASE CallsHandler(t)
  <2> DEFINE c == [log_pc[t] EXCEPT !.at = "handling", !.called = g_log.handler]
  <2>1. /\ c \in LogCall /\ c.at = "handling" /\ c.op = log_pc[t].op
        /\ c.level = log_pc[t].level /\ c.ext = log_pc[t].ext /\ c.called = g_log.handler
        BY <1>1 DEF LogCall, LogPlaces, LogInv, LevelsInv, LogState
  <2>2. Goes(t, c) /\ log_pc[t].at = "call"
        BY <1>6 DEF CallsHandler
  <2> HIDE DEF c
  <2>3. Holds(c, log_global) <=> log_owner = t
        BY <1>3, <2>1 DEF Holds, Logging
  <2>4. log_global => (c.ext <=> c.called \in ExtendedHandlers)
        BY <2>1, <2>2 DEF LogInv, ReadInv, KindInv
  <2> QED
      BY <1>1, <1>2, <2>1, <2>2, <2>3, <2>4, Moves DEF LogInv, LogTypes
<1> QED
    BY <1>4, <1>5, <1>6

\* the return of the handler,
LEMMA HandlerReturnsStep ==
    ASSUME LogInv, NEW t \in LogThreads, HandlerReturns(t)
    PROVE  LogInv'
<1>1. NOBODY \notin LogThreads
      BY LogAssumption DEF NOBODY
<1>2. log_owner' \in LogThreads \cup {NOBODY} /\ log_owner' # t
      BY <1>1 DEF HandlerReturns, LogInv, LogTypes
<1>3. \A u \in LogThreads : u # t => (log_owner' = u <=> log_owner = u)
      BY <1>1 DEF HandlerReturns
<1> QED
    BY <1>2, <1>3, IdleCall, Moves DEF HandlerReturns

\* an avs_log_set_level__ that is out of memory,
LEMMA RunsOutStep ==
    ASSUME LogInv, NEW t \in LogThreads, SetLevelRunsOutOfMemory(t)
    PROVE  LogInv'
<1> DEFINE d == [log_pc[t] EXCEPT !.op = "set_level_failed"]
           c == Forced(d)
<1>1. d \in LogCall /\ d.op = "set_level_failed"
      BY DEF LogInv, LogTypes, LogCall
<1>2. \/ Goes(t, c) /\ log_owner' = log_owner
      \/ Goes(t, LogIdle) /\ log_owner' = NOBODY
      BY DEF SetLevelRunsOutOfMemory
<1> HIDE DEF d
<1>3. /\ c \in LogCall /\ c.op = "set_level_failed" /\ Holds(c, log_global)
      /\ c.at = IF log_global THEN "lock_to_log" ELSE "prefix"
      BY <1>1, ForcedFacts
<1>4. log_owner = t /\ UNCHANGED <<log_global, g_log, configured>>
      BY DEF LogInv, OwnerInv, SetLevelRunsOutOfMemory, Holds
<1> HIDE DEF c
<1>5. CASE Goes(t, c) /\ log_owner' = log_owner
      BY <1>3, <1>4, <1>5, Moves
<1>6. CASE Goes(t, LogIdle) /\ log_owner' = NOBODY
  <2>1. NOBODY \notin LogThreads
        BY LogAssumption DEF NOBODY
  <2> QED
      BY <1>4, <1>6, <2>1, IdleCall, Moves
<1> QED
    BY <1>2, <1>5, <1>6

\* A handler that is set is of the kind it is set as, and a null one is the
\* default handler.
LEMMA SetsHandlerStep ==
    ASSUME LogInv, NEW t \in LogThreads,
           \/ \E h \in NormalHandlers \cup {NOBODY} : SetsHandler(t, h)
           \/ \E h \in ExtendedHandlers \cup {NOBODY} : SetsExtendedHandler(t, h)
    PROVE  LogInv'
<1>1. /\ g_log'.levels = g_log.levels /\ g_log'.default = g_log.default
      /\ g_log' \in LogState
      /\ g_log'.ext <=> g_log'.handler \in ExtendedHandlers
  <2>1. g_log \in LogState
        BY DEF LogInv, LevelsInv
  <2>2. ASSUME NEW h \in NormalHandlers \cup {NOBODY}, SetsHandler(t, h)
        PROVE  <1>1!:
    <3> DEFINE k == IF h = NOBODY THEN DefaultHandler ELSE h
    <3>1. k \in LogHandlers /\ k \notin ExtendedHandlers
          BY LogAssumption DEF LogHandlers, NOBODY
    <3>2. g_log' = [g_log EXCEPT !.handler = k, !.ext = FALSE]
          BY <2>2 DEF SetsHandler, SetHandlerUnlocked
    <3> HIDE DEF k
    <3> QED
        BY <2>1, <3>1, <3>2 DEF LogState
  <2>3. ASSUME NEW h \in ExtendedHandlers \cup {NOBODY}, SetsExtendedHandler(t, h)
        PROVE  <1>1!:
    <3>1. CASE h # NOBODY
      <4>1. g_log' = [g_log EXCEPT !.handler = h, !.ext = TRUE]
            BY <2>3, <3>1 DEF SetsExtendedHandler, SetExtendedHandlerUnlocked
      <4>2. h \in ExtendedHandlers /\ h \in LogHandlers
            BY <3>1 DEF LogHandlers
      <4> QED
          BY <2>1, <4>1, <4>2 DEF LogState
    <3>2. CASE h = NOBODY
      <4>1. g_log' = [g_log EXCEPT !.handler = DefaultHandler, !.ext = FALSE]
            BY <2>3, <3>2 DEF SetsExtendedHandler, SetExtendedHandlerUnlocked
      <4>2. DefaultHandler \notin ExtendedHandlers /\ DefaultHandler \in LogHandlers
            BY LogAssumption DEF LogHandlers
      <4> QED
          BY <2>1, <4>1, <4>2 DEF LogState
    <3> QED
        BY <3>1, <3>2
  <2> QED
      BY <2>2, <2>3
<1>2. /\ log_pc[t].at = "locked" /\ log_owner' = NOBODY /\ Goes(t, LogIdle)
      /\ UNCHANGED <<log_global, configured>>
      BY DEF SetsHandler, SetsExtendedHandler
<1>3. KindInv' /\ LevelsInv(g_log', configured')
      BY <1>1, <1>2 DEF KindInv, LevelsInv, LogInv
<1> QED
    BY <1>2, <1>3, Changes

\* one that is not: it replaces the entry or inserts one in order,
LEMMA SetsLevelStep ==
    ASSUME LogInv, NEW t \in LogThreads, SetsLevel(t)
    PROVE  LogInv'
<1> DEFINE m == log_pc[t].module
           level == log_pc[t].level
           h == SetLogLevelUnlocked(g_log, m, level)
<1>1. m \in LogModules \cup {NOBODY} /\ level \in LogLevels \cup {INFO}
      BY DEF LogInv, LogTypes, LogCall, SetsLevel
<1>2. /\ LevelsInv(h, Configure(configured, m, level))
      /\ h.handler = g_log.handler /\ h.ext = g_log.ext
      BY <1>1, SetLevelFacts DEF LogInv
<1>3. g_log' = h /\ configured' = Configure(configured, m, level)
      BY DEF SetsLevel, Configure
<1>4. KindInv'
      BY <1>2, <1>3 DEF KindInv, LogInv
<1> QED
    BY <1>2, <1>3, <1>4, Changes DEF SetsLevel

\* The configuration that the log starts with.
LEMMA FreshFacts ==
    /\ LevelsInv(FreshLog, [m \in {NOBODY} |-> INFO])
    /\ FreshLog.ext <=> FreshLog.handler \in ExtendedHandlers
<1>1. FreshLog \in LogState /\ FreshLog.levels = <<>>
      BY SMT DEF FreshLog, LogState, LogHandlers
<1>2. Sorted(<<>>) /\ Lists(<<>>, [m \in {NOBODY} |-> INFO])
      BY SMT DEF Sorted, Lists
<1> QED
    BY <1>1, <1>2, LogAssumption DEF LevelsInv, FreshLog

\* avs_log_reset,
LEMMA LogResetsStep ==
    ASSUME LogInv, NEW t \in LogThreads, LogResets(t)
    PROVE  LogInv'
<1>1. ResetUnlocked(g_log) = FreshLog
  <2>1. g_log = [handler |-> g_log.handler, ext |-> g_log.ext, default |-> g_log.default,
                 levels |-> g_log.levels]
        BY DEF LogInv, LevelsInv, LogState
  <2> QED
      BY <2>1 DEF ResetUnlocked, SetLogLevelUnlocked, SetHandlerUnlocked, FreshLog
<1> QED
    BY <1>1, FreshFacts, Changes DEF LogResets, KindInv

\* and the start of the program.
LEMMA RestartsStep ==
    ASSUME LogInv, ProcessRestarts
    PROVE  LogInv'
<1>1. NOBODY \notin LogThreads
      BY LogAssumption DEF NOBODY
<1>2. LogTypes'
      BY IdleCall DEF LogTypes, LogInv, ProcessRestarts
<1>3. ReadInv'
      BY IdleCall DEF ReadInv, ProcessRestarts
<1>4. OwnerInv'
      BY <1>1, IdleCall DEF OwnerInv, ProcessRestarts
<1> QED
    BY <1>2, <1>3, <1>4, FreshFacts DEF LogInv, KindInv, ProcessRestarts

\* Every step of a thread keeps LogInv.
LEMMA LogThreadStep ==
    ASSUME LogInv, NEW t \in LogThreads, LogThread(t)
    PROVE  LogInv'
<1>1. ASSUME NEW op \in {"set_handler", "set_extended", "reset"}, Begins(t, op, NOBODY, INFO)
      PROVE  LogInv'
      BY <1>1, BeginsStep
<1>2. ASSUME NEW m \in LogModules \cup {NOBODY}, NEW level \in LogLevels,
             Begins(t, "set_level", m, level)
      PROVE  LogInv'
      BY <1>2, BeginsStep
<1>3. ASSUME NEW m \in LogModules, NEW level \in LogLevels \ {QUIET},
             Begins(t, "log", m, level)
      PROVE  LogInv'
      BY <1>3, BeginsStep
<1> QED
    BY <1>1, <1>2, <1>3, QuietLogsStep, CallLocksStep, SetsHandlerStep, SetsLevelStep,
       RunsOutStep, LogResetsStep, ShouldLogStep, HandlingStep, HandlerReturnsStep
    DEF LogThread

\* The inductive invariant of the log.
THEOREM LogInvHolds == LogSpec => []LogInv
<1>1. LogInit => LogInv
  <2> SUFFICES ASSUME LogInit PROVE LogInv
      OBVIOUS
  <2>1. NOBODY \notin LogThreads
        BY LogAssumption DEF NOBODY
  <2>2. LogTypes
        BY IdleCall DEF LogTypes, LogInit
  <2>3. ReadInv
        BY IdleCall DEF ReadInv, LogInit
  <2>4. OwnerInv
        BY <2>1, IdleCall DEF OwnerInv, LogInit
  <2> QED
      BY <2>2, <2>3, <2>4, FreshFacts DEF LogInv, KindInv, LogInit
<1>2. LogInv /\ [LogNext]_logVars => LogInv'
  <2> SUFFICES ASSUME LogInv, [LogNext]_logVars PROVE LogInv'
      OBVIOUS
  <2>1. CASE LogNext
        BY <2>1, LogThreadStep, RestartsStep DEF LogNext
  <2>2. CASE UNCHANGED logVars
    <3>1. UNCHANGED <<log_global, g_log, log_owner, log_pc, configured>>
          BY <2>2 DEF logVars
    <3> QED
        BY <3>1 DEF LogInv, LogTypes, KindInv, ReadInv, OwnerInv
  <2> QED
      BY <2>1, <2>2
<1> QED
    BY <1>1, <1>2, PTL DEF LogSpec

\* LogCorrect: with any number of threads that log and configure, levels stay
\* as they were set last, a handler under the lock is called as its kind is,
\* and the lock of avs_log.c is not left behind.
THEOREM LogAlwaysCorrect == LogSpec => []LogCorrect
<1>1. LogInv => LogCorrect
  <2> SUFFICES ASSUME LogInv PROVE LogCorrect
      OBVIOUS
  <2>1. LevelsInv(g_log, configured)
        BY DEF LogInv
  <2>2. \A m \in LogModules \cup {NOBODY} :
           LevelFor(g_log, m) = configured[IF m \in DOMAIN configured THEN m ELSE NOBODY]
        BY <2>1, LevelForFacts
  <2>3. DOMAIN g_log.levels = 1 .. Len(g_log.levels)
    <3>1. g_log.levels \in Seq(LevelEntry)
          BY <2>1 DEF LevelsInv, LogState
    <3> QED
        BY SMTT(30), <3>1
  <2>4. LevelsAsConfigured
        BY <2>1, <2>2, <2>3 DEF LevelsAsConfigured, LevelsInv, Sorted
  <2>5. HandlerCalledAsItsKind
        BY DEF LogInv, ReadInv, HandlerCalledAsItsKind
  <2>6. LockIsReleased
        BY DEF LogInv, LogTypes, OwnerInv, Holds, Logging, LockIsReleased, WaitsForItself
  <2> QED
      BY <2>4, <2>5, <2>6 DEF LogCorrect
<1> QED
    BY <1>1, LogInvHolds, PTL

=============================================================================
