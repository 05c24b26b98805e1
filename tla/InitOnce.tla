------------------------------ MODULE InitOnce ------------------------------
(***************************************************************************)
(* avs_init_once on atomics,                                               *)
(* src/src/compat/threading/atomic_spinlock/avs_atomic_spinlock_init_once.c*)
(* avs_sched_new, the log and the network module use it for their globals. *)
(* Threads call it with the same handle, any number of times.              *)
(***************************************************************************)
EXTENDS Integers

CONSTANT OnceThreads

VARIABLES
    once_state,  \* the atomic behind the handle: enum init_state
    once_pc,     \* "idle", "cas", "func" or "store"
    once_result, \* result of each thread's call
    successes,   \* ghost: how often func has returned 0
    returned     \* ghost: threads that have returned from a call with 0

onceVars == <<once_state, once_pc, once_result, successes, returned>>

\* enum init_state
INIT_NOT_STARTED == 0
INIT_IN_PROGRESS == 1
INIT_DONE == 2

OnceInit ==
    /\ once_state = INIT_NOT_STARTED
    /\ once_pc = [t \in OnceThreads |-> "idle"]
    /\ once_result = [t \in OnceThreads |-> 0]
    /\ successes = 0
    /\ returned = {}

OnceCall(t) ==
    /\ once_pc[t] = "idle"
    /\ once_pc' = [once_pc EXCEPT ![t] = "cas"]
    /\ once_result' = [once_result EXCEPT ![t] = 0]
    /\ UNCHANGED <<once_state, successes, returned>>

\* atomic_compare_exchange_weak succeeds.
CasWithoutCompare(t) ==
    /\ once_pc[t] = "cas"
    /\ once_state # INIT_DONE
    /\ once_state' = INIT_IN_PROGRESS
    /\ once_pc' = [once_pc EXCEPT ![t] = "func"]
    /\ UNCHANGED <<once_result, successes, returned>>

CasSucceeds(t) ==
    /\ once_pc[t] = "cas"
    /\ once_state = INIT_NOT_STARTED
    /\ once_state' = INIT_IN_PROGRESS
    /\ once_pc' = [once_pc EXCEPT ![t] = "func"]
    /\ UNCHANGED <<once_result, successes, returned>>

\* It fails, also spuriously when the state is as expected.  The loop ends
\* if the state read is INIT_DONE, and then avs_init_once returns 0;
\* otherwise expected is reset and the loop goes on.
CasFails(t) ==
    /\ once_pc[t] = "cas"
    /\ IF once_state = INIT_DONE
       THEN /\ once_pc' = [once_pc EXCEPT ![t] = "idle"]
            /\ returned' = returned \cup {t}
       ELSE UNCHANGED <<once_pc, returned>>
    /\ UNCHANGED <<once_state, once_result, successes>>

\* func returns, with 0 or with an error.
FuncReturns(t, r) ==
    /\ once_pc[t] = "func"
    /\ once_result' = [once_result EXCEPT ![t] = r]
    /\ successes' = IF r = 0 THEN successes + 1 ELSE successes
    /\ once_pc' = [once_pc EXCEPT ![t] = "store"]
    /\ UNCHANGED <<once_state, returned>>

\* The state after func, and the return of avs_init_once.
StateAfterFuncStuck(r) == IF r = 0 THEN INIT_DONE ELSE INIT_IN_PROGRESS

StateAfterFunc(r) == IF r = 0 THEN INIT_DONE ELSE INIT_NOT_STARTED

Store(t) ==
    /\ once_pc[t] = "store"
    /\ once_state' = StateAfterFunc(once_result[t])
    /\ once_pc' = [once_pc EXCEPT ![t] = "idle"]
    /\ returned' = IF once_result[t] = 0 THEN returned \cup {t} ELSE returned
    /\ UNCHANGED <<once_result, successes>>

OnceNext ==
    \E t \in OnceThreads :
        \/ OnceCall(t)
        \/ CasSucceeds(t)
        \/ CasFails(t)
        \/ \E r \in {0, -1} : FuncReturns(t, r)
        \/ Store(t)

OnceSpec == OnceInit /\ [][OnceNext]_onceVars

(***************************************************************************)
(* Fairness: func returns, threads keep running, and neither spurious      *)
(* failures nor other threads keep a thread in the loop forever.           *)
(***************************************************************************)
OnceFairness ==
    \A t \in OnceThreads :
        /\ WF_onceVars(\/ \E r \in {0, -1} : FuncReturns(t, r)
                       \/ Store(t)
                       \/ once_state = INIT_DONE /\ CasFails(t))
        /\ SF_onceVars(CasSucceeds(t))

OnceFairSpec == OnceSpec /\ OnceFairness

-----------------------------------------------------------------------------
(***************************************************************************)
(* The type invariant of avs_init_once's state.                            *)
(***************************************************************************)
OnceTypeOK ==
    /\ once_state \in {INIT_NOT_STARTED, INIT_IN_PROGRESS, INIT_DONE}
    /\ once_pc \in [OnceThreads -> {"idle", "cas", "func", "store"}]
    /\ once_result \in [OnceThreads -> {0, -1}]
    /\ successes \in Nat
    /\ returned \in SUBSET OnceThreads

(***************************************************************************)
(* avs_init_once.h: "two avs_init_once calls with the same handle never    *)
(* call func in parallel"; the state says so while one does.               *)
(***************************************************************************)
NeverInParallel ==
    \A t \in OnceThreads : once_pc[t] \in {"func", "store"} =>
        /\ once_state = INIT_IN_PROGRESS
        /\ \A u \in OnceThreads : once_pc[u] \in {"func", "store"} => u = t

(***************************************************************************)
(* avs_init_once.h: "func is never called after its first successful       *)
(* execution".                                                             *)
(***************************************************************************)
NeverAfterSuccess ==
    /\ successes <= 1
    /\ successes = 1 => \A t \in OnceThreads : once_pc[t] # "func"

\* A call returns 0 only if func has succeeded, in this call or in another.
ZeroMeansInitialised == returned # {} => successes = 1

\* Every call returns, also after func has failed in another thread.
CallsReturn == \A t \in OnceThreads : once_pc[t] = "cas" ~> once_pc[t] = "idle"

\* avs_init_once runs func to success once, whatever threads race for it and
\* however often it fails before.
InitialisedOnce ==
    /\ OnceTypeOK
    /\ NeverInParallel
    /\ NeverAfterSuccess
    /\ ZeroMeansInitialised

=============================================================================
