------------------------------ MODULE AvsSched ------------------------------
(***************************************************************************)
(* The thread-safe job scheduler, src/src/sched/avs_sched.c, built with    *)
(* AVS_COMMONS_SCHED_THREAD_SAFE.                                          *)
(*                                                                         *)
(* Threads call the public operations on one scheduler.  A call that takes *)
(* sched->mutex is two steps, acquiring the mutex and the critical section *)
(* that ends by releasing it, so that the other threads can run in between *)
(* whatever they do without that mutex.  A section under the global        *)
(* g_handle_access_mutex never blocks and is part of one step: the first   *)
(* look at a handle in avs_sched_del, avs_sched_detach and                 *)
(* avs_resched_at_impl__ is a step of its own, taken without sched->mutex. *)
(*                                                                         *)
(* Jobs live at addresses that are reused once freed, as malloc does.      *)
(***************************************************************************)
EXTENDS Integers, Sequences, FiniteSets, AvsList

CONSTANTS
    Threads,    \* the threads of the application
    Handles,    \* the avs_sched_handle_t variables of the application
    Addrs,      \* the addresses a job can be allocated at
    NULL,       \* the null pointer; also "no thread"
    INVALID,    \* AVS_TIME_MONOTONIC_INVALID and AVS_TIME_DURATION_INVALID
    MaxTime,    \* bound: the last instant of the monotonic clock
    MaxSerial,  \* bound: how often jobs are scheduled or rescheduled
    NS,         \* clock units per second: an instant is (seconds, rest)
    LeapDiffs   \* the arguments avs_sched_leap_time is called with

ASSUME NullAssumption ==
    /\ NULL \notin Threads
    /\ NULL \notin Handles
    /\ NULL \notin Addrs

ASSUME TimeAssumption ==
    /\ MaxTime \in Nat
    /\ MaxSerial \in Nat
    /\ NS \in Nat \ {0}
    /\ INVALID \notin Int

VARIABLES
    now,             \* the monotonic clock
    sched,           \* life of the scheduler: "none", "live" or "closing"
    mutex,           \* owner of sched->mutex
    jobs,            \* sched->jobs, as the sequence of its addresses
    shutting_down,   \* sched->shutting_down
    allocated,       \* addresses that hold a job
    handle_ptr,      \* job->handle_ptr
    instant,         \* job->instant
    handle,          \* the value of each handle variable
    pc,              \* where each thread is
    op,              \* the call each thread is in
    arg_handle,      \* its handle argument
    arg_time,        \* its instant, deadline or duration argument
    seen,            \* the job it read from the handle
    cur,             \* the job whose callback it is executing
    run_now,         \* "now" of its avs_sched_run
    local_deadline,  \* local_deadline of its avs_sched_wait_until_next
    wait_result,     \* what avs_condvar_wait returned to it
    notified,        \* sleeping threads that have been notified
    serial,          \* ghost: number of schedulings so far
    id,              \* ghost: the identity of the job at an address
    stamp,           \* ghost: when it was last scheduled or rescheduled
    seen_id          \* ghost: identity of the job read from the handle

shared == <<sched, mutex, jobs, shutting_down, allocated, handle_ptr,
            instant, handle>>
locals == <<pc, op, arg_handle, arg_time, seen, cur, run_now,
            local_deadline, wait_result>>
ghosts == <<serial, id, stamp, seen_id>>
vars   == <<now, shared, locals, notified, ghosts>>

Time == 0..MaxTime

(***************************************************************************)
(* avs_time_monotonic_valid and avs_time_monotonic_before: a comparison    *)
(* with an invalid time is false.                                          *)
(***************************************************************************)
Valid(t) == t # INVALID

Before(a, b) == Valid(a) /\ Valid(b) /\ a < b

-----------------------------------------------------------------------------
Init ==
    /\ now = 0
    /\ sched = "none"
    /\ mutex = NULL
    /\ jobs = <<>>
    /\ shutting_down = FALSE
    /\ allocated = {}
    /\ handle_ptr = [a \in Addrs |-> NULL]
    /\ instant = [a \in Addrs |-> INVALID]
    /\ handle = [h \in Handles |-> NULL]
    /\ pc = [t \in Threads |-> "idle"]
    /\ op = [t \in Threads |-> "none"]
    /\ arg_handle = [t \in Threads |-> NULL]
    /\ arg_time = [t \in Threads |-> INVALID]
    /\ seen = [t \in Threads |-> NULL]
    /\ cur = [t \in Threads |-> NULL]
    /\ run_now = [t \in Threads |-> INVALID]
    /\ local_deadline = [t \in Threads |-> INVALID]
    /\ wait_result = [t \in Threads |-> "none"]
    /\ notified = {}
    /\ serial = 0
    /\ id = [a \in Addrs |-> 0]
    /\ stamp = [a \in Addrs |-> 0]
    /\ seen_id = [t \in Threads |-> 0]

(***************************************************************************)
(* Helpers.  A thread outside a call is idle or, between avs_sched_run's   *)
(* fetch_job and AVS_LIST_DELETE, inside a job's callback; it may start a  *)
(* call from either.                                                       *)
(***************************************************************************)
Base(t) == IF cur[t] = NULL THEN "idle" ELSE "callback"

\* Calls are made on a live scheduler; while it is being cleaned up, only by
\* the callbacks that avs_sched_cleanup itself runs.
MayCall(t) ==
    \/ pc[t] = "idle" /\ sched = "live"
    \/ pc[t] = "callback"

\* t starts call o, whose first blocking step is locking sched->mutex.
Call(t, o, h, time) ==
    /\ pc' = [pc EXCEPT ![t] = "lock"]
    /\ op' = [op EXCEPT ![t] = o]
    /\ arg_handle' = [arg_handle EXCEPT ![t] = h]
    /\ arg_time' = [arg_time EXCEPT ![t] = time]

\* t is in the critical section of call o.
InSection(t, o) == pc[t] = "locked" /\ op[t] = o

\* t returns from its call.
Return(t) ==
    /\ pc' = [pc EXCEPT ![t] = Base(t)]
    /\ op' = [op EXCEPT ![t] = "none"]
    /\ arg_handle' = [arg_handle EXCEPT ![t] = NULL]
    /\ arg_time' = [arg_time EXCEPT ![t] = INVALID]
    /\ seen' = [seen EXCEPT ![t] = NULL]
    /\ seen_id' = [seen_id EXCEPT ![t] = 0]

\* t unlocks sched->mutex and returns from its call.
UnlockAndReturn(t) == mutex' = NULL /\ Return(t)

\* avs_condvar_notify_all(sched->task_condvar).
NotifyNobody == UNCHANGED notified

NotifyAll == notified' = notified \cup {t \in Threads : pc[t] = "sleep"}

\* *job->handle_ptr = NULL, if the job has a handle.
KeepHandle(a) == UNCHANGED handle

ResetHandle(a) ==
    handle' = [h \in Handles |-> IF h = handle_ptr[a] THEN NULL
                                ELSE handle[h]]

\* The address a is freed; the fields of freed memory are never read.
Free(a) ==
    /\ allocated' = allocated \ {a}
    /\ handle_ptr' = [handle_ptr EXCEPT ![a] = NULL]
    /\ instant' = [instant EXCEPT ![a] = INVALID]
    /\ id' = [id EXCEPT ![a] = 0]
    /\ stamp' = [stamp EXCEPT ![a] = 0]

\* AVS_LIST_FIND_PTR and AVS_LIST_DETACH of the job a.
Listed(a) == ListContains(jobs, a)

Without(list, a) == ListDetach(list, ListFindPtr(list, a))

(***************************************************************************)
(* schedule_job: the new job goes before the first job of a later instant, *)
(* hence after every job of the same instant.                              *)
(***************************************************************************)
InsertPosBeforeEqual(list, at) ==
    CHOOSE i \in 1..Len(list) + 1 :
        /\ i <= Len(list) => ~Before(instant[list[i]], at)
        /\ \A j \in 1..i - 1 : Before(instant[list[j]], at)

InsertPos(list, at) ==
    CHOOSE i \in 1..Len(list) + 1 :
        /\ i <= Len(list) => Before(at, instant[list[i]])
        /\ \A j \in 1..i - 1 : ~Before(at, instant[list[j]])

ScheduleJob(list, a, at) == ListInsert(list, InsertPos(list, at), a)

-----------------------------------------------------------------------------
(***************************************************************************)
(* avs_sched_new: fails, or creates the scheduler with its mutex and       *)
(* condition variable.                                                     *)
(***************************************************************************)
SchedNew ==
    /\ sched = "none"
    /\ \/ UNCHANGED sched
       \/ sched' = "live"
    /\ UNCHANGED <<now, mutex, jobs, shutting_down, allocated, handle_ptr,
                   instant, handle, locals, notified, ghosts>>

\* nonfailing_mutex_lock(sched->mutex).
LockMutex(t) ==
    /\ pc[t] = "lock"
    /\ mutex = NULL
    /\ mutex' = t
    /\ pc' = [pc EXCEPT ![t] = "locked"]
    /\ UNCHANGED <<now, sched, jobs, shutting_down, allocated, handle_ptr,
                   instant, handle, op, arg_handle, arg_time, seen, cur,
                   run_now, local_deadline, wait_result, notified, ghosts>>

(***************************************************************************)
(* avs_sched_at_impl__ with a valid instant and a callback; h is NULL when *)
(* the caller wants no handle.                                             *)
(***************************************************************************)
PendingSchedulings == {t \in Threads : op[t] \in {"at", "resched"}}

AtCall(t, h, at) ==
    /\ MayCall(t)
    /\ serial + Cardinality(PendingSchedulings) < MaxSerial
    /\ Call(t, "at", h, at)
    /\ UNCHANGED <<now, shared, seen, cur, run_now, local_deadline,
                   wait_result, notified, ghosts>>

\* sched_at_locked refuses: the scheduler is shutting down or there is no
\* memory for the job.
AtFail(t) ==
    /\ InSection(t, "at")
    /\ UnlockAndReturn(t)
    /\ UNCHANGED <<now, sched, jobs, shutting_down, allocated, handle_ptr,
                   instant, handle, cur, run_now, local_deadline,
                   wait_result, notified, serial, id, stamp>>

\* sched_at_locked stores the job at a, replacing the job the handle refers
\* to if there is one, and the waiting threads are notified.
AtSchedule(t, a) ==
    LET h   == arg_handle[t]
        old == IF h = NULL THEN NULL ELSE handle[h]
        at  == arg_time[t]
    IN  /\ InSection(t, "at")
        /\ ~shutting_down
        /\ a \notin allocated
        /\ jobs' = ScheduleJob(IF old = NULL THEN jobs
                                             ELSE Without(jobs, old), a, at)
        /\ allocated' = (allocated \ {old}) \cup {a}
        /\ handle_ptr' = [x \in Addrs |-> IF x = a THEN h
                                          ELSE IF x = old THEN NULL
                                          ELSE handle_ptr[x]]
        /\ instant' = [x \in Addrs |-> IF x = a THEN at
                                       ELSE IF x = old THEN INVALID
                                       ELSE instant[x]]
        /\ handle' = [x \in Handles |-> IF x = h THEN a ELSE handle[x]]
        /\ serial' = serial + 1
        /\ id' = [x \in Addrs |-> IF x = a THEN serial + 1
                                  ELSE IF x = old THEN 0 ELSE id[x]]
        /\ stamp' = [x \in Addrs |-> IF x = a THEN serial + 1
                                     ELSE IF x = old THEN 0 ELSE stamp[x]]
        /\ NotifyAll
        /\ UnlockAndReturn(t)
        /\ UNCHANGED <<now, sched, shutting_down, cur, run_now,
                       local_deadline, wait_result>>

(***************************************************************************)
(* The first half of avs_sched_del, avs_sched_detach and                   *)
(* avs_resched_at_impl__: read the handle under g_handle_access_mutex      *)
(* only, and return at once if it refers to no job.                        *)
(***************************************************************************)
LookupHandle(t, o, h, time) ==
    /\ MayCall(t)
    /\ IF handle[h] = NULL
       THEN UNCHANGED <<pc, op, arg_handle, arg_time, seen, seen_id>>
       ELSE /\ Call(t, o, h, time)
            /\ seen' = [seen EXCEPT ![t] = handle[h]]
            /\ seen_id' = [seen_id EXCEPT ![t] = id[handle[h]]]
    /\ UNCHANGED <<now, shared, cur, run_now, local_deadline, wait_result,
                   notified, serial, id, stamp>>

DelCall(t, h) == LookupHandle(t, "del", h, INVALID)

DetachCall(t, h) == LookupHandle(t, "detach", h, INVALID)

ReschedCall(t, h, at) ==
    /\ serial + Cardinality(PendingSchedulings) < MaxSerial
    /\ LookupHandle(t, "resched", h, at)

\* The job is no longer listed: another thread removed it.
JobGone(t) ==
    /\ pc[t] = "locked"
    /\ op[t] \in {"del", "detach", "resched"}
    /\ ~Listed(seen[t])
    /\ UnlockAndReturn(t)
    /\ UNCHANGED <<now, sched, jobs, shutting_down, allocated, handle_ptr,
                   instant, handle, cur, run_now, local_deadline,
                   wait_result, notified, serial, id, stamp>>

\* The assertions on *job->handle_ptr in avs_sched_del and avs_sched_detach
\* read through a null pointer when the listed job has no handle.
NullHandleDereference(t) ==
    /\ pc[t] = "locked"
    /\ op[t] \in {"del", "detach"}
    /\ Listed(seen[t])
    /\ handle_ptr[seen[t]] = NULL
    /\ pc' = [pc EXCEPT ![t] = "crashed"]
    /\ UNCHANGED <<now, shared, op, arg_handle, arg_time, seen, cur, run_now,
                   local_deadline, wait_result, notified, ghosts>>

\* avs_sched_del: reset the handle variable, then delete the job.
DelBody(t) ==
    LET a == seen[t]
    IN  /\ InSection(t, "del")
        /\ Listed(a)
        /\ handle_ptr[a] # NULL
        /\ ResetHandle(a)
        /\ jobs' = Without(jobs, a)
        /\ Free(a)
        /\ UnlockAndReturn(t)
        /\ UNCHANGED <<now, sched, shutting_down, cur, run_now,
                       local_deadline, wait_result, notified, serial>>

\* avs_sched_detach: reset the handle variable and the job's pointer to it.
DetachBody(t) ==
    LET a == seen[t]
    IN  /\ InSection(t, "detach")
        /\ Listed(a)
        /\ handle_ptr[a] # NULL
        /\ ResetHandle(a)
        /\ handle_ptr' = [handle_ptr EXCEPT ![a] = NULL]
        /\ UnlockAndReturn(t)
        /\ UNCHANGED <<now, sched, jobs, shutting_down, allocated, instant,
                       cur, run_now, local_deadline, wait_result, notified,
                       serial, id, stamp>>

\* avs_resched_at_impl__: detach the job, give it the new instant, insert it
\* anew and notify the waiting threads.
ReschedBody(t) ==
    LET a == seen[t]
    IN  /\ InSection(t, "resched")
        /\ Listed(a)
        /\ jobs' = ScheduleJob(Without(jobs, a), a, arg_time[t])
        /\ instant' = [instant EXCEPT ![a] = arg_time[t]]
        /\ serial' = serial + 1
        /\ stamp' = [stamp EXCEPT ![a] = serial + 1]
        /\ NotifyAll
        /\ UnlockAndReturn(t)
        /\ UNCHANGED <<now, sched, shutting_down, allocated, handle_ptr,
                       handle, cur, run_now, local_deadline, wait_result, id>>

-----------------------------------------------------------------------------
(***************************************************************************)
(* avs_sched_run: "now" is read once, before the first fetch_job.          *)
(***************************************************************************)
StartRun(t) ==
    /\ pc' = [pc EXCEPT ![t] = "lock"]
    /\ op' = [op EXCEPT ![t] = "fetch"]
    /\ run_now' = [run_now EXCEPT ![t] = now]

RunCall(t) ==
    /\ pc[t] = "idle"
    /\ sched = "live"
    /\ StartRun(t)
    /\ UNCHANGED <<now, shared, arg_handle, arg_time, seen, cur,
                   local_deadline, wait_result, notified, ghosts>>

\* The condition of fetch_job.
Due(deadline) == jobs # <<>> /\ Before(instant[Head(jobs)], deadline)

\* fetch_job detaches the first job from its handle and from the list, and
\* execute_job enters its callback.
FetchJob(t) ==
    LET a == Head(jobs)
    IN  /\ InSection(t, "fetch")
        /\ Due(run_now[t])
        /\ ResetHandle(a)
        /\ handle_ptr' = [handle_ptr EXCEPT ![a] = NULL]
        /\ jobs' = Tail(jobs)
        /\ cur' = [cur EXCEPT ![t] = a]
        /\ mutex' = NULL
        /\ pc' = [pc EXCEPT ![t] = "callback"]
        /\ op' = [op EXCEPT ![t] = "none"]
        /\ UNCHANGED <<now, sched, shutting_down, allocated, instant,
                       arg_handle, arg_time, seen, run_now, local_deadline,
                       wait_result, notified, ghosts>>

\* The callback returns, execute_job deletes the job, and avs_sched_run
\* goes for the next one.
CallbackReturnRereadingClock(t) ==
    /\ pc[t] = "callback"
    /\ Free(cur[t])
    /\ cur' = [cur EXCEPT ![t] = NULL]
    /\ StartRun(t)
    /\ UNCHANGED <<now, sched, mutex, jobs, shutting_down, handle,
                   arg_handle, arg_time, seen, local_deadline,
                   wait_result, notified, serial, seen_id>>

CallbackReturn(t) ==
    /\ pc[t] = "callback"
    /\ Free(cur[t])
    /\ cur' = [cur EXCEPT ![t] = NULL]
    /\ pc' = [pc EXCEPT ![t] = "lock"]
    /\ op' = [op EXCEPT ![t] = "fetch"]
    /\ UNCHANGED <<now, sched, mutex, jobs, shutting_down, handle,
                   arg_handle, arg_time, seen, run_now, local_deadline,
                   wait_result, notified, serial, seen_id>>

\* fetch_job finds nothing to execute: avs_sched_run returns, to
\* avs_sched_cleanup when that is its caller.
RunReturn(t) ==
    /\ InSection(t, "fetch")
    /\ ~Due(run_now[t])
    /\ mutex' = NULL
    /\ pc' = [pc EXCEPT ![t] = IF sched = "closing" THEN "clear" ELSE "idle"]
    /\ op' = [op EXCEPT ![t] = "none"]
    /\ run_now' = [run_now EXCEPT ![t] = INVALID]
    /\ UNCHANGED <<now, sched, jobs, shutting_down, allocated, handle_ptr,
                   instant, handle, arg_handle, arg_time, seen, cur,
                   local_deadline, wait_result, notified, ghosts>>

-----------------------------------------------------------------------------
(***************************************************************************)
(* avs_sched_wait_until_next.                                              *)
(***************************************************************************)
WaitCall(t, deadline) ==
    /\ pc[t] = "idle"
    /\ sched = "live"
    /\ Call(t, "wait", NULL, deadline)
    /\ UNCHANGED <<now, shared, seen, cur, run_now, local_deadline,
                   wait_result, notified, ghosts>>

\* sched_time_of_next_locked, which avs_sched_time_of_next returns.
TimeOfNext == IF jobs = <<>> THEN INVALID ELSE instant[Head(jobs)]

LocalDeadline(deadline) ==
    IF Valid(TimeOfNext) /\ ~Before(deadline, TimeOfNext)
    THEN TimeOfNext
    ELSE deadline

\* The loop body up to the point where avs_condvar_wait has released the
\* mutex; taken again whenever avs_condvar_wait returned 0.
Sleep(t) ==
    /\ InSection(t, "wait")
    /\ wait_result[t] \in {"none", "ok"}
    /\ local_deadline' = [local_deadline EXCEPT
                             ![t] = LocalDeadline(arg_time[t])]
    /\ wait_result' = [wait_result EXCEPT ![t] = "none"]
    /\ mutex' = NULL
    /\ pc' = [pc EXCEPT ![t] = "sleep"]
    /\ UNCHANGED <<now, sched, jobs, shutting_down, allocated, handle_ptr,
                   instant, handle, op, arg_handle, arg_time, seen, cur,
                   run_now, notified, ghosts>>

\* avs_condvar_wait stops waiting: notified or spuriously ("ok"), because
\* its deadline has passed, or with an error of the primitives.  It returns
\* once it has the mutex again.
Wake(t, result) ==
    /\ pc[t] = "sleep"
    /\ result = "timeout" => Valid(local_deadline[t])
                             /\ local_deadline[t] <= now
    /\ wait_result' = [wait_result EXCEPT ![t] = result]
    /\ local_deadline' = [local_deadline EXCEPT ![t] = INVALID]
    /\ notified' = notified \ {t}
    /\ pc' = [pc EXCEPT ![t] = "lock"]
    /\ UNCHANGED <<now, shared, op, arg_handle, arg_time, seen, cur, run_now,
                   ghosts>>

\* What avs_sched_wait_until_next returns after a timeout.
WaitResult ==
    IF Valid(TimeOfNext) /\ ~Before(now, TimeOfNext) THEN 0 ELSE 1

WaitReturn(t) ==
    /\ InSection(t, "wait")
    /\ wait_result[t] \in {"timeout", "error"}
    /\ wait_result' = [wait_result EXCEPT ![t] = "none"]
    /\ UnlockAndReturn(t)
    /\ UNCHANGED <<now, sched, jobs, shutting_down, allocated, handle_ptr,
                   instant, handle, cur, run_now, local_deadline, notified,
                   serial, id, stamp>>

-----------------------------------------------------------------------------
(***************************************************************************)
(* avs_sched_leap_time returns -1 at once for a valid diff and goes on for *)
(* an invalid one, whose sum with any instant is invalid.                  *)
(***************************************************************************)
LeapCall(t, diff) ==
    /\ MayCall(t)
    /\ IF Valid(diff)
       THEN UNCHANGED <<pc, op, arg_handle, arg_time>>
       ELSE Call(t, "leap", NULL, diff)
    /\ UNCHANGED <<now, shared, seen, cur, run_now, local_deadline,
                   wait_result, notified, ghosts>>

\* avs_time_monotonic_add
TimeAdd(time, diff) ==
    IF Valid(time) /\ Valid(diff) THEN time + diff ELSE INVALID

LeapBody(t) ==
    /\ InSection(t, "leap")
    /\ instant' = [a \in Addrs |-> IF Listed(a)
                                   THEN TimeAdd(instant[a], arg_time[t])
                                   ELSE instant[a]]
    /\ NotifyAll
    /\ UnlockAndReturn(t)
    /\ UNCHANGED <<now, sched, jobs, shutting_down, allocated, handle_ptr,
                   handle, cur, run_now, local_deadline, wait_result, serial,
                   id, stamp>>

(***************************************************************************)
(* avs_sched_time reads the instant under g_handle_access_mutex, while     *)
(* avs_resched_at_impl__ and avs_sched_leap_time write it under            *)
(* sched->mutex.  A read during such a write can take the seconds of one   *)
(* value and the nanoseconds of the other.  AVS_TIME_MONOTONIC_INVALID is  *)
(* seconds 0 and nanoseconds -1.                                           *)
(***************************************************************************)
InstantWrites(a) ==
    {arg_time[t] : t \in {u \in Threads : /\ pc[u] = "locked"
                                          /\ op[u] = "resched"
                                          /\ seen[u] = a}}
    \cup {TimeAdd(instant[a], arg_time[t]) :
              t \in {u \in Threads : InSection(u, "leap")}}

Torn(secondsOf, nanosecondsOf) ==
    IF ~Valid(nanosecondsOf) THEN INVALID
    ELSE IF ~Valid(secondsOf) THEN nanosecondsOf % NS
    ELSE ((secondsOf \div NS) * NS) + (nanosecondsOf % NS)

\* The values avs_sched_time(&h) can return in the current state.
SchedTimeResults(h) ==
    IF handle[h] = NULL
    THEN {INVALID}
    ELSE LET old == instant[handle[h]]
             new == IF Listed(handle[h]) THEN InstantWrites(handle[h]) ELSE {}
         IN  {old} \cup new \cup {Torn(old, n) : n \in new}
                            \cup {Torn(n, old) : n \in new}

-----------------------------------------------------------------------------
(***************************************************************************)
(* avs_sched_cleanup.  It may not run concurrently with another call on    *)
(* the scheduler, so every thread is idle.  It sets shutting_down and runs *)
(* the jobs that are due; ClearJobs is what it does after that.            *)
(***************************************************************************)
CleanupCall(t) ==
    /\ sched = "live"
    /\ \A u \in Threads : pc[u] = "idle"
    /\ sched' = "closing"
    /\ shutting_down' = TRUE
    /\ StartRun(t)
    /\ UNCHANGED <<now, mutex, jobs, allocated, handle_ptr, instant, handle,
                   arg_handle, arg_time, seen, cur, local_deadline,
                   wait_result, notified, ghosts>>

HandlesCleared ==
    [h \in Handles |-> IF \E a \in Addrs : Listed(a) /\ handle_ptr[a] = h
                       THEN NULL ELSE handle[h]]

ClearJobs(t) ==
    LET listed == {a \in Addrs : Listed(a)}
    IN  /\ pc[t] = "clear"
        /\ handle' = HandlesCleared
        /\ allocated' = allocated \ listed
        /\ handle_ptr' = [a \in Addrs |-> IF a \in listed THEN NULL
                                          ELSE handle_ptr[a]]
        /\ instant' = [a \in Addrs |-> IF a \in listed THEN INVALID
                                       ELSE instant[a]]
        /\ id' = [a \in Addrs |-> IF a \in listed THEN 0 ELSE id[a]]
        /\ stamp' = [a \in Addrs |-> IF a \in listed THEN 0 ELSE stamp[a]]
        /\ jobs' = <<>>
        /\ sched' = "none"
        /\ shutting_down' = FALSE
        /\ pc' = [pc EXCEPT ![t] = "idle"]
        /\ UNCHANGED <<now, mutex, op, arg_handle, arg_time, seen, cur,
                       run_now, local_deadline, wait_result, notified,
                       serial, seen_id>>

\* The clock, external to this code.
Tick ==
    /\ now < MaxTime
    /\ now' = now + 1
    /\ UNCHANGED <<shared, locals, notified, ghosts>>

-----------------------------------------------------------------------------
Crashed == \E t \in Threads : pc[t] = "crashed"

\* The steps of a call that t is in the middle of.
Section(t) ==
    \/ AtFail(t)
    \/ \E a \in Addrs : AtSchedule(t, a)
    \/ JobGone(t)
    \/ NullHandleDereference(t)
    \/ DelBody(t)
    \/ DetachBody(t)
    \/ ReschedBody(t)
    \/ FetchJob(t)
    \/ RunReturn(t)
    \/ Sleep(t)
    \/ WaitReturn(t)
    \/ LeapBody(t)
    \/ ClearJobs(t)

\* The calls a thread can start.
StartCall(t) ==
    \/ \E h \in Handles \cup {NULL}, at \in Time : AtCall(t, h, at)
    \/ \E h \in Handles : DelCall(t, h)
    \/ \E h \in Handles : DetachCall(t, h)
    \/ \E h \in Handles, at \in Time : ReschedCall(t, h, at)
    \/ RunCall(t)
    \/ \E deadline \in Time \cup {INVALID} : WaitCall(t, deadline)
    \/ \E diff \in LeapDiffs : LeapCall(t, diff)
    \/ CleanupCall(t)

WakeUp(t) == \E result \in {"ok", "timeout", "error"} : Wake(t, result)

ThreadStep(t) ==
    \/ StartCall(t)
    \/ LockMutex(t)
    \/ Section(t)
    \/ CallbackReturn(t)
    \/ WakeUp(t)

\* A crashed process takes no further step.
Next ==
    \/ Crashed /\ UNCHANGED vars
    \/ /\ ~Crashed
       /\ \/ SchedNew
          \/ Tick
          \/ \E t \in Threads : ThreadStep(t)

Spec == Init /\ [][Next]_vars

-----------------------------------------------------------------------------
Calls == {"none", "at", "del", "detach", "resched", "fetch", "wait", "leap"}

Pcs == {"idle", "callback", "lock", "locked", "sleep", "clear", "crashed"}

(***************************************************************************)
(* The type invariant of the scheduler's state, src/src/sched/avs_sched.c. *)
(***************************************************************************)
TypeOK ==
    /\ now \in Time
    /\ sched \in {"none", "live", "closing"}
    /\ mutex \in Threads \cup {NULL}
    /\ jobs \in Seq(Addrs)
    /\ shutting_down \in BOOLEAN
    /\ allocated \in SUBSET Addrs
    /\ handle_ptr \in [Addrs -> Handles \cup {NULL}]
    /\ instant \in [Addrs -> Time \cup {INVALID}]
    /\ handle \in [Handles -> Addrs \cup {NULL}]
    /\ pc \in [Threads -> Pcs]
    /\ op \in [Threads -> Calls]
    /\ arg_handle \in [Threads -> Handles \cup {NULL}]
    /\ arg_time \in [Threads -> Time \cup {INVALID}]
    /\ seen \in [Threads -> Addrs \cup {NULL}]
    /\ cur \in [Threads -> Addrs \cup {NULL}]
    /\ run_now \in [Threads -> Time \cup {INVALID}]
    /\ local_deadline \in [Threads -> Time \cup {INVALID}]
    /\ wait_result \in [Threads -> {"none", "ok", "timeout", "error"}]
    /\ notified \in SUBSET Threads
    /\ serial \in Nat
    /\ id \in [Addrs -> Nat]
    /\ stamp \in [Addrs -> Nat]
    /\ seen_id \in [Threads -> Nat]

(***************************************************************************)
(* A handle variable refers to a job exactly while that job is waiting in  *)
(* the list and points back at the variable.  This is what the assertions  *)
(* "dangling handle detected", "accessing job via non-original handle" and *)
(* the one in fetch_job rely on: no order of calls from any threads leaves *)
(* a handle to a job that was executed, deleted, replaced or detached.     *)
(***************************************************************************)
HandleConsistency ==
    /\ \A h \in Handles :
          handle[h] # NULL => Listed(handle[h]) /\ handle_ptr[handle[h]] = h
    /\ \A a \in Addrs :
          Listed(a) /\ handle_ptr[a] # NULL => handle[handle_ptr[a]] = a

(***************************************************************************)
(* Every job in memory is owned once: by one place of the list or by one   *)
(* thread executing its callback.  Hence fetch_job, avs_sched_del,         *)
(* sched_at_locked and avs_sched_cleanup neither leak a job, free one      *)
(* twice, nor free one that a callback is using.                           *)
(***************************************************************************)
Ownership ==
    /\ \A i, j \in 1..Len(jobs) : jobs[i] = jobs[j] => i = j
    /\ \A t \in Threads : cur[t] # NULL => ~Listed(cur[t])
    /\ \A t, u \in Threads : cur[t] # NULL /\ cur[t] = cur[u] => t = u
    /\ \A a \in Addrs : a \in allocated <=>
                           Listed(a) \/ \E t \in Threads : cur[t] = a

(***************************************************************************)
(* The list is in the order of execution: schedule_job keeps it sorted by  *)
(* instant and, for the same instant, in the order of scheduling, whatever *)
(* replacements and reschedulings happen in between.                       *)
(***************************************************************************)
ExecutionOrder ==
    \A i, j \in 1..Len(jobs) : i < j =>
        /\ ~Before(instant[jobs[j]], instant[jobs[i]])
        /\ Valid(instant[jobs[i]]) /\ instant[jobs[i]] = instant[jobs[j]]
              => stamp[jobs[i]] < stamp[jobs[j]]

(***************************************************************************)
(* A thread asleep in avs_sched_wait_until_next that nobody has notified   *)
(* sleeps no longer than until the first job: avs_sched_at_impl__ and      *)
(* avs_resched_at_impl__ notify whenever the first job may become earlier, *)
(* and deleting or fetching one without a notification only delays it.     *)
(***************************************************************************)
NoLostWakeup ==
    \A t \in Threads :
        pc[t] = "sleep" /\ t \notin notified /\ Valid(TimeOfNext) =>
            Valid(local_deadline[t]) /\ local_deadline[t] <= TimeOfNext

(***************************************************************************)
(* sched->mutex is held by exactly the thread that is in a critical        *)
(* section (or crashed in it): no path through a call forgets to unlock it *)
(* or unlocks it for somebody else.                                        *)
(***************************************************************************)
MutexDiscipline ==
    \A t \in Threads : mutex = t <=> pc[t] \in {"locked", "crashed"}

(***************************************************************************)
(* After avs_sched_cleanup no job is left in memory and every handle       *)
(* variable is NULL.                                                       *)
(***************************************************************************)
CleanupReleasesAll ==
    sched = "none" => /\ jobs = <<>>
                      /\ allocated = {}
                      /\ \A h \in Handles : handle[h] = NULL

(***************************************************************************)
(* One avs_sched_run executes no job for later than its entry, and that    *)
(* limit does not move while callbacks take time: what they schedule for a *)
(* later "now" is left to the next run.                                    *)
(***************************************************************************)
RunKeepsItsHorizon ==
    [][\A t \in Threads :
          /\ cur'[t] # cur[t] /\ cur'[t] # NULL
                => ~Before(run_now[t], instant[cur'[t]])
          /\ run_now'[t] # run_now[t]
                => run_now[t] = INVALID \/ run_now'[t] = INVALID]_vars

-----------------------------------------------------------------------------
(***************************************************************************)
(* Fairness.  A thread that can go on does; a thread that keeps asking for *)
(* the mutex gets it; a notified sleeper wakes; a sleeper is not woken     *)
(* spuriously forever once its deadline has passed; the clock advances.    *)
(***************************************************************************)
Fairness ==
    /\ WF_vars(~Crashed /\ Tick)
    /\ \A t \in Threads :
          /\ WF_vars(~Crashed /\ Section(t))
          /\ WF_vars(~Crashed /\ CallbackReturn(t))
          /\ SF_vars(~Crashed /\ LockMutex(t))
          /\ WF_vars(~Crashed /\ t \in notified /\ Wake(t, "ok"))
          /\ SF_vars(~Crashed /\ Wake(t, "timeout"))

FairSpec == Spec /\ Fairness

JobToExecute == Valid(TimeOfNext) /\ TimeOfNext <= now

(***************************************************************************)
(* avs_sched_wait_until_next returns once there is a job to execute, also  *)
(* when another thread schedules it or moves it while the call sleeps with *)
(* no deadline or a later one (unless the job is taken away again).        *)
(***************************************************************************)
WaitReturnsWhenDue ==
    \A t \in Threads :
        op[t] = "wait" /\ JobToExecute
            ~> op[t] # "wait" \/ ~JobToExecute \/ Crashed

-----------------------------------------------------------------------------
(***************************************************************************)
(* What the documentation and the comments say and the code does not do.   *)
(***************************************************************************)
\* avs_sched.h on avs_sched_leap_time: "negative value if diff is not a
\* valid time value".  No job ever has an invalid instant.
ScheduledInstantsValid ==
    \A i \in 1..Len(jobs) : Valid(instant[jobs[i]])

\* avs_sched.h on avs_sched_wait_until_next: "A positive value if deadline
\* passes without any jobs to execute", and no other break condition.
PositiveOnlyAfterDeadline ==
    [][\A t \in Threads :
          (/\ InSection(t, "wait") /\ op'[t] # "wait"
           /\ wait_result[t] = "timeout" /\ WaitResult = 1)
             => Valid(arg_time[t]) /\ arg_time[t] <= now]_vars

\* avs_sched.h on avs_sched_run: it "will execute any jobs scheduled for
\* before or at the time of entry to this function".
RunExecutesJobsAtEntryTime ==
    [][\A t \in Threads :
          InSection(t, "fetch") /\ cur'[t] = NULL /\ pc'[t] # pc[t]
             => \A i \in 1..Len(jobs) : ~(instant[jobs[i]] <= run_now[t])]_vars

\* The comment in avs_sched_del and avs_sched_detach: "Job might have been
\* removed by another thread, don't do anything".  A job that is not the
\* one of the handle passed to the call stays as it is.
RemovedJobIsLeftAlone ==
    [][\A t \in Threads :
          (/\ pc[t] = "locked" /\ op[t] \in {"del", "detach"}
           /\ pc'[t] # pc[t]
           /\ handle_ptr[seen[t]] # arg_handle[t])
             => UNCHANGED <<jobs, handle>>]_vars

\* avs_sched.h on avs_sched_time: it returns the "Point in time ... at which
\* the job referred to by handle_ptr is scheduled to be executed".
TimeIsSomeScheduledTime ==
    \A h \in Handles : handle[h] # NULL =>
        SchedTimeResults(h) \subseteq
            {instant[handle[h]]} \cup InstantWrites(handle[h])

\* The data of a scheduler shared by threads, their callbacks and a cleanup is
\* consistent between any two critical sections.
JobsConsistent ==
    /\ TypeOK
    /\ HandleConsistency
    /\ Ownership
    /\ MutexDiscipline
    /\ CleanupReleasesAll

=============================================================================
