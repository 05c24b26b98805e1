-------------------------- MODULE SpinlockCondvar ---------------------------
(***************************************************************************)
(* The mutex and the condition variable built on atomic_flag,              *)
(* src/src/compat/threading/atomic_spinlock/.  Threads use one mutex and   *)
(* one condition variable; a step is one operation on an atomic flag or    *)
(* one section under waiters_mutex that touches only what that protects.   *)
(***************************************************************************)
EXTENDS Integers, Sequences, FiniteSets, AvsList

CONSTANTS
    CondvarThreads,
    NoThread,       \* no thread; also the end of the waiters list
    NoDeadline,     \* AVS_TIME_MONOTONIC_INVALID
    CondvarMaxTime  \* bound: the last instant of the clock

ASSUME CondvarAssumption ==
    /\ NoThread \notin CondvarThreads
    /\ \A S \in SUBSET CondvarThreads : S # NoThread
    /\ CondvarMaxTime \in Nat
    /\ NoDeadline \notin Int

VARIABLES
    cv_now,           \* the monotonic clock
    created,          \* the mutex and the condition variable exist
    locked,           \* mutex->locked
    waiters_locked,   \* condvar->waiters_mutex.locked
    waiters,          \* the list from condvar->first_waiter
    waiting,          \* waiting flag of each thread's node
    flag_value,       \* flag_value of each avs_condvar_wait
    deadline,         \* deadline of each avs_condvar_wait
    cursor,           \* the nodes each avs_condvar_notify_all has still to clear
    holds,            \* ghost: the caller has locked the mutex
    cv_pc

condvarVars ==
    <<cv_now, created, locked, waiters_locked, waiters, waiting, flag_value,
      deadline, cursor, holds, cv_pc>>

CondvarInit ==
    /\ cv_now = 0
    /\ created = FALSE
    /\ locked = FALSE
    /\ waiters_locked = FALSE
    /\ waiters = <<>>
    /\ waiting = [t \in CondvarThreads |-> FALSE]
    /\ flag_value = [t \in CondvarThreads |-> FALSE]
    /\ deadline = [t \in CondvarThreads |-> NoDeadline]
    /\ cursor = [t \in CondvarThreads |-> <<>>]
    /\ holds = [t \in CondvarThreads |-> FALSE]
    /\ cv_pc = [t \in CondvarThreads |-> "idle"]

Goto(t, label) == cv_pc' = [cv_pc EXCEPT ![t] = label]

\* avs_mutex_create and avs_condvar_create; both flags are cleared.
Create ==
    /\ ~created
    /\ created' \in BOOLEAN
    /\ UNCHANGED <<cv_now, locked, waiters_locked, waiters, waiting, flag_value,
                   deadline, cursor, holds, cv_pc>>

\* avs_condvar_cleanup and avs_mutex_cleanup, when no thread uses either.
Cleanup ==
    /\ created
    /\ \A t \in CondvarThreads : cv_pc[t] = "idle" /\ ~holds[t]
    /\ created' = FALSE
    /\ UNCHANGED <<cv_now, locked, waiters_locked, waiters, waiting, flag_value,
                   deadline, cursor, holds, cv_pc>>

-----------------------------------------------------------------------------
(***************************************************************************)
(* avs_mutex_lock: spin on atomic_flag_test_and_set.  A step that finds    *)
(* the flag set changes nothing and is left out.                           *)
(***************************************************************************)
LockCall(t) ==
    /\ created /\ cv_pc[t] = "idle" /\ ~holds[t]
    /\ Goto(t, "lock")
    /\ UNCHANGED <<cv_now, created, locked, waiters_locked, waiters, waiting,
                   flag_value, deadline, cursor, holds>>

Lock(t) ==
    /\ cv_pc[t] = "lock"
    /\ ~locked
    /\ locked' = TRUE
    /\ holds' = [holds EXCEPT ![t] = TRUE]
    /\ Goto(t, "idle")
    /\ UNCHANGED <<cv_now, created, waiters_locked, waiters, waiting, flag_value,
                   deadline, cursor>>

\* avs_mutex_try_lock: one attempt, which sets the flag either way.
TryLock(t) ==
    /\ created /\ cv_pc[t] = "idle" /\ ~holds[t]
    /\ locked' = TRUE
    /\ holds' = [holds EXCEPT ![t] = ~locked]
    /\ UNCHANGED <<cv_now, created, waiters_locked, waiters, waiting, flag_value,
                   deadline, cursor, cv_pc>>

\* avs_mutex_unlock by the thread that has the mutex.
Unlock(t) ==
    /\ cv_pc[t] = "idle" /\ holds[t]
    /\ locked' = FALSE
    /\ holds' = [holds EXCEPT ![t] = FALSE]
    /\ UNCHANGED <<cv_now, created, waiters_locked, waiters, waiting, flag_value,
                   deadline, cursor, cv_pc>>

-----------------------------------------------------------------------------
\* avs_mutex_lock(&condvar->waiters_mutex), from wherever it is called.
AfterWaitersLock ==
    [insert_lock |-> "insert", remove_lock |-> "remove", notify_lock |-> "notify"]

LockWaiters(t) ==
    /\ cv_pc[t] \in DOMAIN AfterWaitersLock
    /\ ~waiters_locked
    /\ waiters_locked' = TRUE
    /\ Goto(t, AfterWaitersLock[cv_pc[t]])
    /\ cursor' = [cursor EXCEPT ![t] = IF cv_pc[t] = "notify_lock" THEN waiters
                                       ELSE @]
    /\ UNCHANGED <<cv_now, created, locked, waiters, waiting, flag_value,
                   deadline, holds>>

\* avs_condvar_notify_all, with or without the mutex.
NotifyCall(t) ==
    /\ created /\ cv_pc[t] = "idle"
    /\ Goto(t, "notify_lock")
    /\ UNCHANGED <<cv_now, created, locked, waiters_locked, waiters, waiting,
                   flag_value, deadline, cursor, holds>>

NotifyStepStaying(t) ==
    /\ cv_pc[t] = "notify" /\ cursor[t] # <<>>
    /\ waiting' = [waiting EXCEPT ![Head(cursor[t])] = FALSE]
    /\ UNCHANGED <<cv_now, created, locked, waiters_locked, waiters, flag_value,
                   deadline, cursor, holds, cv_pc>>

NotifyStep(t) ==
    /\ cv_pc[t] = "notify" /\ cursor[t] # <<>>
    /\ waiting' = [waiting EXCEPT ![Head(cursor[t])] = FALSE]
    /\ cursor' = [cursor EXCEPT ![t] = Tail(@)]
    /\ UNCHANGED <<cv_now, created, locked, waiters_locked, waiters, flag_value,
                   deadline, holds, cv_pc>>

NotifyEndEarly(t) ==
    /\ cv_pc[t] = "notify" /\ Len(cursor[t]) <= 1
    /\ waiters_locked' = FALSE
    /\ cursor' = [cursor EXCEPT ![t] = <<>>]
    /\ Goto(t, "idle")
    /\ UNCHANGED <<cv_now, created, locked, waiters, waiting, flag_value,
                   deadline, holds>>

NotifyEnd(t) ==
    /\ cv_pc[t] = "notify" /\ cursor[t] = <<>>
    /\ waiters_locked' = FALSE
    /\ Goto(t, "idle")
    /\ UNCHANGED <<cv_now, created, locked, waiters, waiting, flag_value,
                   deadline, cursor, holds>>

-----------------------------------------------------------------------------
(***************************************************************************)
(* avs_condvar_wait, called with the mutex locked: insert_new_waiter,      *)
(* unlock, spin on the flag until it was clear or the deadline has passed, *)
(* lock again, remove_waiter.                                              *)
(***************************************************************************)
CondvarWaitCall(t, d) ==
    /\ cv_pc[t] = "idle" /\ holds[t]
    /\ deadline' = [deadline EXCEPT ![t] = d]
    /\ Goto(t, "insert_lock")
    /\ UNCHANGED <<cv_now, created, locked, waiters_locked, waiters, waiting,
                   flag_value, cursor, holds>>

InsertNewWaiter(t) ==
    /\ cv_pc[t] = "insert"
    /\ waiting' = [waiting EXCEPT ![t] = TRUE]
    /\ waiters' = ListInsert(waiters, 1, t)
    /\ waiters_locked' = FALSE
    /\ Goto(t, "unlock")
    /\ UNCHANGED <<cv_now, created, locked, flag_value, deadline, cursor, holds>>

WaitUnlock(t) ==
    /\ cv_pc[t] = "unlock"
    /\ locked' = FALSE
    /\ holds' = [holds EXCEPT ![t] = FALSE]
    /\ Goto(t, "spin")
    /\ UNCHANGED <<cv_now, created, waiters_locked, waiters, waiting, flag_value,
                   deadline, cursor>>

TestWaiting(t) ==
    /\ cv_pc[t] = "spin"
    /\ flag_value' = [flag_value EXCEPT ![t] = waiting[t]]
    /\ waiting' = [waiting EXCEPT ![t] = TRUE]
    /\ Goto(t, IF waiting[t] THEN "check" ELSE "relock")
    /\ UNCHANGED <<cv_now, created, locked, waiters_locked, waiters, deadline,
                   cursor, holds>>

\* use_deadline && !avs_time_monotonic_before(now, deadline)
Expired(t) == deadline[t] # NoDeadline /\ deadline[t] <= cv_now

CheckDeadline(t) ==
    /\ cv_pc[t] = "check"
    /\ Goto(t, IF Expired(t) THEN "relock" ELSE "spin")
    /\ UNCHANGED <<cv_now, created, locked, waiters_locked, waiters, waiting,
                   flag_value, deadline, cursor, holds>>

Relock(t) ==
    /\ cv_pc[t] = "relock"
    /\ ~locked
    /\ locked' = TRUE
    /\ holds' = [holds EXCEPT ![t] = TRUE]
    /\ deadline' = [deadline EXCEPT ![t] = NoDeadline]
    /\ Goto(t, "remove_lock")
    /\ UNCHANGED <<cv_now, created, waiters_locked, waiters, waiting, flag_value,
                   cursor>>

\* remove_waiter and the return of avs_condvar_wait; the fields of the
\* node, which is on the stack of that call, are not read any more.
NotDetached(t) == waiters

Detached(t) ==
    IF ListContains(waiters, t) THEN ListDetach(waiters, ListFindPtr(waiters, t))
    ELSE waiters

RemoveWaiter(t) ==
    /\ cv_pc[t] = "remove"
    /\ waiters' = Detached(t)
    /\ waiters_locked' = FALSE
    /\ waiting' = [waiting EXCEPT ![t] = FALSE]
    /\ flag_value' = [flag_value EXCEPT ![t] = FALSE]
    /\ Goto(t, "idle")
    /\ UNCHANGED <<cv_now, created, locked, deadline, cursor, holds>>

CondvarTick ==
    /\ cv_now < CondvarMaxTime
    /\ cv_now' = cv_now + 1
    /\ UNCHANGED <<created, locked, waiters_locked, waiters, waiting,
                   flag_value, deadline, cursor, holds, cv_pc>>

-----------------------------------------------------------------------------
\* The steps of a call in progress.
Step(t) ==
    \/ Lock(t)
    \/ LockWaiters(t)
    \/ NotifyStep(t)
    \/ NotifyEnd(t)
    \/ InsertNewWaiter(t)
    \/ WaitUnlock(t)
    \/ TestWaiting(t)
    \/ CheckDeadline(t)
    \/ Relock(t)
    \/ RemoveWaiter(t)

StartCondvarCall(t) ==
    \/ LockCall(t)
    \/ TryLock(t)
    \/ NotifyCall(t)
    \/ \E d \in 0..CondvarMaxTime \cup {NoDeadline} : CondvarWaitCall(t, d)

CondvarNext ==
    \/ Create
    \/ Cleanup
    \/ CondvarTick
    \/ \E t \in CondvarThreads : StartCondvarCall(t) \/ Unlock(t) \/ Step(t)

CondvarSpec == CondvarInit /\ [][CondvarNext]_condvarVars

-----------------------------------------------------------------------------
Labels == {"idle", "lock", "insert_lock", "insert", "unlock", "spin", "check",
           "relock", "remove_lock", "remove", "notify_lock", "notify"}

(***************************************************************************)
(* The type invariant of the spinlock primitives' state; that no node is   *)
(* on the list of waiters twice is what makes it a list.                   *)
(***************************************************************************)
CondvarTypeOK ==
    /\ cv_now \in 0..CondvarMaxTime
    /\ created \in BOOLEAN
    /\ locked \in BOOLEAN
    /\ waiters_locked \in BOOLEAN
    /\ waiters \in Seq(CondvarThreads)
    /\ \A i, j \in 1..Len(waiters) : waiters[i] = waiters[j] => i = j
    /\ waiting \in [CondvarThreads -> BOOLEAN]
    /\ flag_value \in [CondvarThreads -> BOOLEAN]
    /\ deadline \in [CondvarThreads -> 0..CondvarMaxTime \cup {NoDeadline}]
    /\ cursor \in [CondvarThreads -> Seq(CondvarThreads)]
    /\ holds \in [CondvarThreads -> BOOLEAN]
    /\ cv_pc \in [CondvarThreads -> Labels]

(***************************************************************************)
(* avs_mutex_lock, avs_mutex_try_lock and the second half of               *)
(* avs_condvar_wait let at most one thread have the mutex, and the flag is *)
(* set exactly while one has it.                                           *)
(***************************************************************************)
MutualExclusion ==
    /\ \A t, u \in CondvarThreads : holds[t] /\ holds[u] => t = u
    /\ locked <=> \E t \in CondvarThreads : holds[t]

\* The thread's node, a local variable of avs_condvar_wait, is on the list.
Enlisted(t) ==
    cv_pc[t] \in {"unlock", "spin", "check", "relock", "remove_lock", "remove"}

(***************************************************************************)
(* The waiters list and every traversal of it by avs_condvar_notify_all    *)
(* reach only nodes whose avs_condvar_wait has not returned, so that no    *)
(* notification writes to a dead stack frame; and a node stays on the list *)
(* until its own thread removes it, which is the assertion "waiter node    *)
(* inexplicably disappeared from condition variable".                      *)
(***************************************************************************)
NodesAlive ==
    /\ \A t \in CondvarThreads :
          Enlisted(t) <=> ListContains(waiters, t)
    /\ \A n \in CondvarThreads : \A i \in 1..Len(cursor[n]) : Enlisted(cursor[n][i])

(***************************************************************************)
(* The assertions of avs_condvar_cleanup and _avs_mutex_destroy: when no   *)
(* thread is inside a call or has the mutex, nobody is on the list and     *)
(* both flags are clear.                                                   *)
(***************************************************************************)
CleanWhenUnused ==
    (\A t \in CondvarThreads : cv_pc[t] = "idle" /\ ~holds[t])
        => waiters = <<>> /\ ~locked /\ ~waiters_locked

\* The flags and the list of waiters are consistent between any two atomic
\* operations of the threads that lock, wait and notify.
CondvarConsistent ==
    /\ CondvarTypeOK
    /\ MutualExclusion
    /\ NodesAlive
    /\ CleanWhenUnused

-----------------------------------------------------------------------------
(***************************************************************************)
(* The promise these primitives keep: see module Condvar.                  *)
(***************************************************************************)
AbsOwner ==
    IF \E t \in CondvarThreads : holds[t] THEN CHOOSE t \in CondvarThreads : holds[t]
    ELSE NoThread

AbsState(t) ==
    CASE cv_pc[t] = "unlock" -> "enlisted"
      [] cv_pc[t] \in {"spin", "check"} -> "asleep"
      [] cv_pc[t] = "relock" -> IF flag_value[t] THEN "timeout" ELSE "ok"
      [] OTHER -> IF holds[t] THEN "held" ELSE "out"

AbsWaiting(t) == cv_pc[t] \in {"unlock", "spin", "check"}

AbsDeadline(t) ==
    IF AbsWaiting(t) \/ cv_pc[t] = "relock" THEN deadline[t] ELSE NoDeadline

AbsPending(n) ==
    IF cv_pc[n] = "notify"
    THEN {t \in CondvarThreads : AbsWaiting(t) /\ ListContains(cursor[n], t)}
    ELSE NoThread

Abstract ==
    INSTANCE Condvar WITH
        Threads   <- CondvarThreads,
        NULL      <- NoThread,
        INVALID   <- NoDeadline,
        MaxTime   <- CondvarMaxTime,
        now       <- cv_now,
        owner     <- AbsOwner,
        state     <- [t \in CondvarThreads |-> AbsState(t)],
        deadline  <- [t \in CondvarThreads |-> AbsDeadline(t)],
        signalled <- {t \in CondvarThreads : AbsWaiting(t) /\ ~waiting[t]},
        pending   <- [n \in CondvarThreads |-> AbsPending(n)]

\* Every behaviour of the spinlock primitives is one of the abstract mutex
\* and condition variable: nobody asleep is missed by a notification, and a
\* wait reports a timeout only after its deadline.
ImplementsCondvar == Abstract!Spec

(***************************************************************************)
(* Fairness: threads keep running, whoever has the mutex unlocks it or     *)
(* waits, and a thread that spins on a flag gets it if it is cleared again *)
(* and again.                                                              *)
(***************************************************************************)
CondvarFairness ==
    \A t \in CondvarThreads :
        /\ WF_condvarVars(NotifyStep(t) \/ NotifyEnd(t) \/ InsertNewWaiter(t)
                          \/ WaitUnlock(t) \/ TestWaiting(t) \/ CheckDeadline(t)
                          \/ RemoveWaiter(t))
        /\ SF_condvarVars(Unlock(t))
        /\ SF_condvarVars(Lock(t))
        /\ SF_condvarVars(Relock(t))
        /\ SF_condvarVars(LockWaiters(t))

CondvarFairSpec == CondvarSpec /\ CondvarFairness

(***************************************************************************)
(* avs_condvar_notify_all and avs_mutex_lock return, and avs_condvar_wait  *)
(* returns once it has been notified or its deadline has passed.           *)
(***************************************************************************)
CallsEnd ==
    \A t \in CondvarThreads :
        /\ cv_pc[t] \in {"lock", "notify_lock"} ~> cv_pc[t] = "idle"
        /\ cv_pc[t] \in {"spin", "check"} /\ (~waiting[t] \/ Expired(t))
             ~> cv_pc[t] = "idle"

=============================================================================
