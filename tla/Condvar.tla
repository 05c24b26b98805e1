------------------------------ MODULE Condvar -------------------------------
(***************************************************************************)
(* What a mutex and a condition variable promise to their users, as        *)
(* avs_mutex.h and avs_condvar.h state it and avs_sched relies on it.      *)
(* A thread is enlisted on the condition variable before it lets go of the *)
(* mutex; a notification reaches every thread that is enlisted when it     *)
(* begins, one after another, and is over only when it has.                *)
(***************************************************************************)
EXTENDS Integers, FiniteSets

CONSTANTS
    Threads,
    NULL,       \* no thread; also: no notification
    INVALID,    \* AVS_TIME_MONOTONIC_INVALID
    MaxTime     \* bound: the last instant of the clock

VARIABLES
    now,        \* the monotonic clock
    owner,      \* the thread that holds the mutex
    state,      \* "out", "held", "enlisted", "asleep", "ok" or "timeout"
    deadline,   \* the deadline of each wait
    signalled,  \* waiting threads that a notification has reached
    pending     \* per notification, the threads it has yet to reach

vars == <<now, owner, state, deadline, signalled, pending>>

Waiting(t) == state[t] \in {"enlisted", "asleep"}

Init ==
    /\ now = 0
    /\ owner = NULL
    /\ state = [t \in Threads |-> "out"]
    /\ deadline = [t \in Threads |-> INVALID]
    /\ signalled = {}
    /\ pending = [t \in Threads |-> NULL]

\* avs_mutex_lock and a successful avs_mutex_try_lock; also the end of a wait.
Acquire(t) ==
    /\ state[t] \in {"out", "ok", "timeout"}
    /\ owner = NULL
    /\ owner' = t
    /\ state' = [state EXCEPT ![t] = "held"]
    /\ deadline' = [deadline EXCEPT ![t] = INVALID]
    /\ UNCHANGED <<now, signalled, pending>>

\* avs_mutex_unlock
Release(t) ==
    /\ state[t] = "held"
    /\ owner' = NULL
    /\ state' = [state EXCEPT ![t] = "out"]
    /\ UNCHANGED <<now, deadline, signalled, pending>>

\* avs_condvar_wait, whose caller holds the mutex.
Enlist(t, d) ==
    /\ state[t] = "held"
    /\ state' = [state EXCEPT ![t] = "enlisted"]
    /\ deadline' = [deadline EXCEPT ![t] = d]
    /\ UNCHANGED <<now, owner, signalled, pending>>

FallAsleep(t) ==
    /\ state[t] = "enlisted"
    /\ owner' = NULL
    /\ state' = [state EXCEPT ![t] = "asleep"]
    /\ UNCHANGED <<now, deadline, signalled, pending>>

\* A wait ends for whatever reason, but reports a timeout only after the
\* deadline.
Wake(t, result) ==
    /\ state[t] = "asleep"
    /\ result = "timeout" => deadline[t] # INVALID /\ deadline[t] <= now
    /\ state' = [state EXCEPT ![t] = result]
    /\ signalled' = signalled \ {t}
    /\ pending' = [n \in Threads |-> IF pending[n] = NULL THEN NULL
                                     ELSE pending[n] \ {t}]
    /\ UNCHANGED <<now, owner, deadline>>

\* avs_condvar_notify_all
NotifyBegin(n) ==
    /\ pending[n] = NULL
    /\ pending' = [pending EXCEPT ![n] = {t \in Threads : Waiting(t)}]
    /\ UNCHANGED <<now, owner, state, deadline, signalled>>

Signal(n, t) ==
    /\ pending[n] # NULL
    /\ t \in pending[n]
    /\ signalled' = signalled \cup {t}
    /\ pending' = [pending EXCEPT ![n] = @ \ {t}]
    /\ UNCHANGED <<now, owner, state, deadline>>

NotifyEnd(n) ==
    /\ pending[n] = {}
    /\ pending' = [pending EXCEPT ![n] = NULL]
    /\ UNCHANGED <<now, owner, state, deadline, signalled>>

Tick ==
    /\ now < MaxTime
    /\ now' = now + 1
    /\ UNCHANGED <<owner, state, deadline, signalled, pending>>

Next ==
    \/ Tick
    \/ \E t \in Threads :
          \/ Acquire(t)
          \/ Release(t)
          \/ \E d \in 0..MaxTime \cup {INVALID} : Enlist(t, d)
          \/ FallAsleep(t)
          \/ \E result \in {"ok", "timeout"} : Wake(t, result)
          \/ NotifyBegin(t)
          \/ \E u \in Threads : Signal(t, u)
          \/ NotifyEnd(t)

Spec == Init /\ [][Next]_vars

=============================================================================
