--------------------------- MODULE AvsSchedProofs ---------------------------
(***************************************************************************)
(* The scheduler keeps handles, memory and its mutex consistent for any    *)
(* number of threads, handles and jobs; it keeps its list in the order of  *)
(* execution, one avs_sched_run keeps its horizon, and no thread sleeps    *)
(* past the first job.                                                     *)
(***************************************************************************)
EXTENDS AvsSched, WellFoundedInduction

-----------------------------------------------------------------------------
\* Zenon proves most steps; those with arithmetic or sequences name SMT.
USE ZenonT(120)

\* schedule_job finds a place for the job: the end of the list or one whose
\* job is for later, such that no job before it is.
LEMMA InsertPosFacts ==
    ASSUME NEW S, NEW s \in Seq(S), NEW at
    PROVE  /\ InsertPos(s, at) \in 1..Len(s) + 1
           /\ InsertPos(s, at) <= Len(s)
                 => Before(at, instant[s[InsertPos(s, at)]])
           /\ \A j \in 1..InsertPos(s, at) - 1 : ~Before(at, instant[s[j]])
<1> DEFINE P == {i \in 1..Len(s) + 1 :
                    i <= Len(s) => Before(at, instant[s[i]])}
<1>1. P \in SUBSET Nat /\ P # {}
  <2>1. Len(s) + 1 \in P
        BY SMT
  <2> QED BY SMT, <2>1
<1>2. \E i \in P : \A k \in P : i <= k
  <2>1. IsWellFoundedOn(OpToRel(<, Nat), Nat)
        BY NatLessThanWellFounded
  <2>2. PICK i \in P : \A k \in P : ~(<<k, i>> \in OpToRel(<, Nat))
        BY <1>1, <2>1, WFMin
  <2>3. ASSUME NEW k \in P PROVE i <= k
    <3>1. ~(<<k, i>> \in {ss \in Nat \X Nat : ss[1] < ss[2]})
          BY <2>2 DEF OpToRel
    <3> QED BY SMT, <1>1, <3>1
  <2> QED BY <2>3
<1>3. \E i \in 1..Len(s) + 1 :
         /\ i <= Len(s) => Before(at, instant[s[i]])
         /\ \A j \in 1..i - 1 : ~Before(at, instant[s[j]])
      BY SMT, <1>2
<1> QED BY <1>3 DEF InsertPos

\* schedule_job adds one job to the list.
LEMMA ScheduleJobFacts ==
    ASSUME NEW S, NEW s \in Seq(S), NoDup(s), NEW a \in S,
           ~ListContains(s, a), NEW at
    PROVE  /\ ScheduleJob(s, a, at) \in Seq(S)
           /\ NoDup(ScheduleJob(s, a, at))
           /\ \A x : ListContains(ScheduleJob(s, a, at), x)
                        <=> ListContains(s, x) \/ x = a
<1>1. InsertPos(s, at) \in 1..Len(s) + 1
      BY InsertPosFacts
<1> QED BY SMT, <1>1, ListInsertNew DEF ScheduleJob

\* AVS_LIST_FIND_PTR and AVS_LIST_DETACH take one job out of the list.
LEMMA WithoutFacts ==
    ASSUME NEW S, NEW s \in Seq(S), NoDup(s), NEW a, ListContains(s, a)
    PROVE  /\ Without(s, a) \in Seq(S)
           /\ NoDup(Without(s, a))
           /\ \A x : ListContains(Without(s, a), x)
                        <=> ListContains(s, x) /\ x # a
BY ListDetachFound DEF Without

-----------------------------------------------------------------------------
(***************************************************************************)
(* The inductive invariant.  Control ties the job in execution to where    *)
(* its thread is, so that fetch_job never forgets one; Lifecycle says that *)
(* avs_sched_cleanup is alone on the scheduler.                            *)
(***************************************************************************)
Control ==
    \A t \in Threads :
        /\ pc[t] = "callback" => cur[t] # NULL
        /\ pc[t] \in {"idle", "clear", "sleep"} => cur[t] = NULL
        /\ op[t] \in {"fetch", "wait"} => cur[t] = NULL
        /\ op[t] = "leap" => arg_time[t] = INVALID

Lifecycle ==
    /\ sched = "none" => \A t \in Threads : pc[t] = "idle"
    /\ sched = "closing" => \A t, u \in Threads :
          pc[t] # "idle" /\ pc[u] # "idle" => t = u
    /\ \A t \in Threads : pc[t] = "clear" => sched = "closing"

Data == HandleConsistency /\ Ownership

IInv ==
    /\ TypeOK
    /\ Data
    /\ MutexDiscipline
    /\ Control
    /\ Lifecycle
    /\ CleanupReleasesAll

\* The scheduler before avs_sched_new satisfies the invariant.
LEMMA InitIInv == Init => IInv
<1> SUFFICES ASSUME Init PROVE IInv
    OBVIOUS
<1> USE NullAssumption, TimeAssumption DEF Init
<1>1. TypeOK
  <2>1. jobs \in Seq(Addrs)
        BY SMT
  <2>2. 0 \in Time
        BY SMT DEF Time
  <2> QED BY <2>1, <2>2 DEF TypeOK, Calls, Pcs
<1>2. \A a : ~Listed(a)
      BY SMT, <1>1 DEF Listed, ListContains
<1>3. Data
      BY SMT, <1>2 DEF Data, HandleConsistency, Ownership
<1>4. MutexDiscipline /\ Control /\ Lifecycle /\ CleanupReleasesAll
      BY DEF MutexDiscipline, Control, Lifecycle, CleanupReleasesAll
<1> QED BY <1>1, <1>3, <1>4 DEF IInv

\* The list after sched_at_locked: the new job instead of the one it replaces.
LEMMA AtScheduleList ==
    ASSUME IInv, NEW t \in Threads, NEW a \in Addrs, AtSchedule(t, a),
           NEW old, old = IF arg_handle[t] = NULL THEN NULL
                          ELSE handle[arg_handle[t]]
    PROVE  /\ jobs' \in Seq(Addrs)
           /\ NoDup(jobs')
           /\ \A x : Listed(x)' <=> (Listed(x) /\ x # old) \/ x = a
<1> DEFINE rest == IF old = NULL THEN jobs ELSE Without(jobs, old)
<1>1. jobs \in Seq(Addrs) /\ NoDup(jobs)
      BY DEF IInv, TypeOK, Data, Ownership, NoDup
<1>2. ~Listed(a)
      BY DEF IInv, Data, Ownership, AtSchedule
<1>3. old # NULL => Listed(old)
      BY SMT DEF IInv, TypeOK, Data, HandleConsistency
<1>4. ~Listed(NULL)
      BY SMT, <1>1, NullAssumption DEF Listed, ListContains
<1>5. /\ rest \in Seq(Addrs) /\ NoDup(rest)
      /\ \A x : ListContains(rest, x) <=> Listed(x) /\ x # old
  <2>1. CASE old = NULL
        BY <1>1, <1>4, <2>1 DEF Listed
  <2>2. CASE old # NULL
    <3>1. ListContains(jobs, old) /\ rest = Without(jobs, old)
          BY <1>3, <2>2 DEF Listed
    <3>2. /\ rest \in Seq(Addrs) /\ NoDup(rest)
          /\ \A x : ListContains(rest, x) <=> ListContains(jobs, x) /\ x # old
          BY SMT, <1>1, <3>1, WithoutFacts
    <3> QED BY <3>2 DEF Listed
  <2> QED BY <2>1, <2>2
<1>6. jobs' = ScheduleJob(rest, a, arg_time[t])
      BY DEF AtSchedule
<1> HIDE DEF rest
<1>7. /\ jobs' \in Seq(Addrs) /\ NoDup(jobs')
      /\ \A x : ListContains(jobs', x) <=> ListContains(rest, x) \/ x = a
      BY SMT, <1>2, <1>5, <1>6, ScheduleJobFacts
<1> QED BY <1>5, <1>7 DEF Listed

\* The list after avs_resched_at_impl__ has the same jobs.
LEMMA ReschedList ==
    ASSUME IInv, NEW t \in Threads, ReschedBody(t)
    PROVE  /\ jobs' \in Seq(Addrs)
           /\ NoDup(jobs')
           /\ \A x : Listed(x)' <=> Listed(x)
<1> DEFINE rest == Without(jobs, seen[t])
<1>1. jobs \in Seq(Addrs) /\ NoDup(jobs)
      BY DEF IInv, TypeOK, Data, Ownership, NoDup
<1>2. /\ ListContains(jobs, seen[t])
      /\ jobs' = ScheduleJob(rest, seen[t], arg_time[t])
      BY DEF ReschedBody, Listed
<1>3. seen[t] \in Addrs
      BY SMT, <1>1, <1>2 DEF ListContains
<1>4. /\ rest \in Seq(Addrs) /\ NoDup(rest)
      /\ \A x : ListContains(rest, x) <=> ListContains(jobs, x) /\ x # seen[t]
      BY <1>1, <1>2, WithoutFacts
<1> HIDE DEF rest
<1>5. ~ListContains(rest, seen[t])
      BY <1>4
<1>6. /\ jobs' \in Seq(Addrs) /\ NoDup(jobs')
      /\ \A x : ListContains(jobs', x) <=> ListContains(rest, x) \/ x = seen[t]
      BY <1>2, <1>3, <1>4, <1>5, ScheduleJobFacts
<1>7. \A x : ListContains(jobs', x) <=> ListContains(jobs, x)
      BY <1>2, <1>4, <1>6
<1> QED BY <1>6, <1>7 DEF Listed

\* The list after avs_sched_del lacks the deleted job.
LEMMA DelList ==
    ASSUME IInv, NEW t \in Threads, DelBody(t)
    PROVE  /\ jobs' \in Seq(Addrs)
           /\ NoDup(jobs')
           /\ seen[t] \in Addrs
           /\ \A x : Listed(x)' <=> Listed(x) /\ x # seen[t]
<1>1. jobs \in Seq(Addrs) /\ NoDup(jobs)
      BY DEF IInv, TypeOK, Data, Ownership, NoDup
<1>2. ListContains(jobs, seen[t]) /\ jobs' = Without(jobs, seen[t])
      BY DEF DelBody, Listed
<1>3. seen[t] \in Addrs
      BY SMT, <1>1, <1>2 DEF ListContains
<1>4. /\ jobs' \in Seq(Addrs) /\ NoDup(jobs')
      /\ \A x : ListContains(jobs', x) <=> ListContains(jobs, x) /\ x # seen[t]
      BY <1>1, <1>2, WithoutFacts
<1> QED BY <1>3, <1>4 DEF Listed

\* The list after fetch_job lacks its first job.
LEMMA FetchList ==
    ASSUME IInv, NEW t \in Threads, FetchJob(t)
    PROVE  /\ jobs' \in Seq(Addrs)
           /\ NoDup(jobs')
           /\ Head(jobs) \in Addrs /\ Listed(Head(jobs))
           /\ \A x : Listed(x)' <=> Listed(x) /\ x # Head(jobs)
<1>1. jobs \in Seq(Addrs) /\ NoDup(jobs)
      BY DEF IInv, TypeOK, Data, Ownership, NoDup
<1>2. jobs # <<>> /\ jobs' = Tail(jobs)
      BY DEF FetchJob, Due
<1>3. /\ Head(jobs) \in Addrs /\ ListContains(jobs, Head(jobs))
      /\ jobs' \in Seq(Addrs) /\ NoDup(jobs')
      /\ \A x : ListContains(jobs', x)
                   <=> ListContains(jobs, x) /\ x # Head(jobs)
      BY <1>1, <1>2, ListTail
<1> QED BY <1>3 DEF Listed

-----------------------------------------------------------------------------
(***************************************************************************)
(* The steps of the scheduler, by the action that takes them.              *)
(***************************************************************************)
EnvironmentStep == SchedNew \/ Tick

CallStep(t) ==
    \/ \E h \in Handles \cup {NULL}, at \in Time : AtCall(t, h, at)
    \/ \E o \in {"del", "detach", "resched"}, h \in Handles,
          time \in Time \cup {INVALID} : LookupHandle(t, o, h, time)
    \/ RunCall(t)
    \/ \E deadline \in Time \cup {INVALID} : WaitCall(t, deadline)
    \/ \E diff \in LeapDiffs : LeapCall(t, diff)
    \/ CleanupCall(t)

\* Every step of the scheduler's process is by one of its threads or by the
\* environment.
LEMMA StepCases ==
    ASSUME Next
    PROVE  \/ UNCHANGED vars
           \/ EnvironmentStep
           \/ \E t \in Threads :
                 \/ CallStep(t)
                 \/ LockMutex(t)
                 \/ Section(t)
                 \/ CallbackReturn(t)
                 \/ WakeUp(t)
<1> SUFFICES ASSUME NEW t \in Threads, StartCall(t) PROVE CallStep(t)
    BY DEF Next, ThreadStep, EnvironmentStep
<1>1. ASSUME NEW h \in Handles, DelCall(t, h) \/ DetachCall(t, h)
      PROVE  CallStep(t)
      BY <1>1 DEF CallStep, DelCall, DetachCall
<1>2. ASSUME NEW h \in Handles, NEW at \in Time, ReschedCall(t, h, at)
      PROVE  CallStep(t)
      BY <1>2 DEF CallStep, ReschedCall
<1> QED BY <1>1, <1>2 DEF StartCall, CallStep

\* The types of the scheduler's state are preserved by every step.
LEMMA TypeStep ==
    ASSUME IInv, Next
    PROVE  TypeOK'
<1>0. TypeOK
      BY DEF IInv
<1> USE NullAssumption, TimeAssumption
<1> USE DEF shared, locals, ghosts, Calls, Pcs
<1>1. CASE UNCHANGED vars
      BY <1>0, <1>1 DEF TypeOK, vars
<1>2. CASE EnvironmentStep
      BY SMT, <1>0, <1>2 DEF TypeOK, EnvironmentStep, SchedNew, Tick, Time
<1>3. ASSUME NEW t \in Threads, CallStep(t) PROVE TypeOK'
  <2>1. ASSUME NEW h \in Handles \cup {NULL}, NEW at \in Time, AtCall(t, h, at)
        PROVE  TypeOK'
        BY <1>0, <2>1 DEF TypeOK, AtCall, Call
  <2>2. ASSUME NEW o \in {"del", "detach", "resched"}, NEW h \in Handles,
               NEW time \in Time \cup {INVALID}, LookupHandle(t, o, h, time)
        PROVE  TypeOK'
    <3>1. CASE handle[h] = NULL
          BY <1>0, <2>2, <3>1 DEF TypeOK, LookupHandle
    <3>2. CASE handle[h] # NULL
      <4>1. handle[h] \in Addrs /\ id[handle[h]] \in Nat
            BY <1>0, <3>2 DEF TypeOK
      <4>2. /\ Call(t, o, h, time)
            /\ seen' = [seen EXCEPT ![t] = handle[h]]
            /\ seen_id' = [seen_id EXCEPT ![t] = id[handle[h]]]
            /\ UNCHANGED <<now, shared, cur, run_now, local_deadline,
                           wait_result, notified, serial, id, stamp>>
            BY <2>2, <3>2 DEF LookupHandle
      <4> QED BY <1>0, <4>1, <4>2 DEF TypeOK, Call
    <3> QED BY <3>1, <3>2
  <2>3. CASE RunCall(t)
        BY <1>0, <2>3 DEF TypeOK, RunCall, StartRun
  <2>4. ASSUME NEW deadline \in Time \cup {INVALID}, WaitCall(t, deadline)
        PROVE  TypeOK'
        BY <1>0, <2>4 DEF TypeOK, WaitCall, Call
  <2>5. ASSUME NEW diff \in LeapDiffs, LeapCall(t, diff) PROVE TypeOK'
    <3>1. CASE Valid(diff)
          BY <1>0, <2>5, <3>1 DEF TypeOK, LeapCall
    <3>2. CASE ~Valid(diff)
      <4>1. /\ Call(t, "leap", NULL, INVALID)
            /\ UNCHANGED <<now, shared, seen, cur, run_now, local_deadline,
                           wait_result, notified, ghosts>>
            BY <2>5, <3>2 DEF LeapCall, Valid
      <4> QED BY <1>0, <4>1 DEF TypeOK, Call
    <3> QED BY <3>1, <3>2
  <2>6. CASE CleanupCall(t)
        BY <1>0, <2>6 DEF TypeOK, CleanupCall, StartRun
  <2> QED BY <1>3, <2>1, <2>2, <2>3, <2>4, <2>5, <2>6 DEF CallStep
<1>4. ASSUME NEW t \in Threads, LockMutex(t) PROVE TypeOK'
      BY <1>0, <1>4 DEF TypeOK, LockMutex
<1>5. ASSUME NEW t \in Threads, Section(t) PROVE TypeOK'
  <2> USE DEF UnlockAndReturn, Return, Base
  <2>1. CASE AtFail(t)
        BY <1>0, <2>1 DEF TypeOK, AtFail
  <2>2. ASSUME NEW a \in Addrs, AtSchedule(t, a) PROVE TypeOK'
    <3>1. jobs' \in Seq(Addrs)
          BY <2>2, AtScheduleList
    <3> DEFINE h == arg_handle[t]
               at == arg_time[t]
    <3>2. h \in Handles \cup {NULL} /\ at \in Time \cup {INVALID}
          BY <1>0 DEF TypeOK
    <3>3. /\ allocated' \in SUBSET Addrs
          /\ serial' \in Nat
          /\ notified' \in SUBSET Threads
          /\ handle_ptr' \in [Addrs -> Handles \cup {NULL}]
          /\ instant' \in [Addrs -> Time \cup {INVALID}]
          /\ handle' \in [Handles -> Addrs \cup {NULL}]
      <4>1. allocated' \in SUBSET Addrs /\ serial' \in Nat
            BY SMT, <1>0, <2>2 DEF TypeOK, AtSchedule
      <4>2. handle_ptr' \in [Addrs -> Handles \cup {NULL}]
            BY <1>0, <2>2, <3>2 DEF TypeOK, AtSchedule
      <4>3. instant' \in [Addrs -> Time \cup {INVALID}]
            BY <1>0, <2>2, <3>2 DEF TypeOK, AtSchedule
      <4>4. handle' \in [Handles -> Addrs \cup {NULL}]
            BY <1>0, <2>2, <3>2 DEF TypeOK, AtSchedule
      <4>5. notified' \in SUBSET Threads
            BY <1>0, <2>2 DEF TypeOK, AtSchedule, NotifyAll
      <4> QED BY <4>1, <4>2, <4>3, <4>4, <4>5
    <3>4. id' \in [Addrs -> Nat] /\ stamp' \in [Addrs -> Nat]
          BY SMT, <1>0, <2>2 DEF TypeOK, AtSchedule
    <3>5. /\ UnlockAndReturn(t)
          /\ UNCHANGED <<now, sched, shutting_down, cur, run_now,
                         local_deadline, wait_result>>
          BY <2>2 DEF AtSchedule
    <3> QED BY <1>0, <3>1, <3>3, <3>4, <3>5 DEF TypeOK
  <2>3. CASE JobGone(t)
        BY <1>0, <2>3 DEF TypeOK, JobGone
  <2>4. CASE NullHandleDereference(t)
        BY <1>0, <2>4 DEF TypeOK, NullHandleDereference
  <2>5. CASE DelBody(t)
    <3>1. jobs' \in Seq(Addrs)
          BY <2>5, DelList
    <3> QED BY <1>0, <2>5, <3>1 DEF TypeOK, DelBody, ResetHandle, Free
  <2>6. CASE DetachBody(t)
        BY <1>0, <2>6 DEF TypeOK, DetachBody, ResetHandle
  <2>7. CASE ReschedBody(t)
    <3>1. jobs' \in Seq(Addrs)
          BY <2>7, ReschedList
    <3>2. instant' \in [Addrs -> Time \cup {INVALID}]
          BY <1>0, <2>7 DEF TypeOK, ReschedBody
    <3>3. stamp' \in [Addrs -> Nat] /\ serial' \in Nat
      <4>1. serial + 1 \in Nat
            BY SMT, <1>0 DEF TypeOK
      <4> QED BY <1>0, <2>7, <4>1 DEF TypeOK, ReschedBody
    <3> QED BY <1>0, <2>7, <3>1, <3>2, <3>3 DEF TypeOK, ReschedBody, NotifyAll
  <2>8. CASE FetchJob(t)
    <3>1. jobs' \in Seq(Addrs) /\ Head(jobs) \in Addrs
          BY <2>8, FetchList
    <3> QED BY <1>0, <2>8, <3>1 DEF TypeOK, FetchJob, ResetHandle
  <2>9. CASE RunReturn(t)
        BY <1>0, <2>9 DEF TypeOK, RunReturn
  <2>10. CASE Sleep(t)
    <3>1. LocalDeadline(arg_time[t]) \in Time \cup {INVALID}
          BY SMT, <1>0 DEF TypeOK, LocalDeadline, TimeOfNext
    <3> QED BY <1>0, <2>10, <3>1 DEF TypeOK, Sleep
  <2>11. CASE WaitReturn(t)
         BY <1>0, <2>11 DEF TypeOK, WaitReturn
  <2>12. CASE LeapBody(t)
    <3>1. instant' \in [Addrs -> Time \cup {INVALID}]
      <4>1. arg_time[t] = INVALID
            BY <2>12 DEF IInv, Control, LeapBody, InSection
      <4> QED BY <1>0, <2>12, <4>1 DEF TypeOK, LeapBody, TimeAdd, Valid
    <3> QED BY <1>0, <2>12, <3>1 DEF TypeOK, LeapBody, NotifyAll
  <2>13. CASE ClearJobs(t)
    <3>1. handle' \in [Handles -> Addrs \cup {NULL}]
          BY <1>0, <2>13 DEF TypeOK, ClearJobs, HandlesCleared
    <3>2. /\ handle_ptr' \in [Addrs -> Handles \cup {NULL}]
          /\ instant' \in [Addrs -> Time \cup {INVALID}]
          BY <1>0, <2>13 DEF TypeOK, ClearJobs
    <3>3. id' \in [Addrs -> Nat] /\ stamp' \in [Addrs -> Nat]
          BY <1>0, <2>13 DEF TypeOK, ClearJobs
    <3>4. jobs' \in Seq(Addrs) /\ allocated' \in SUBSET Addrs
          BY SMT, <1>0, <2>13 DEF TypeOK, ClearJobs
    <3> QED BY <1>0, <2>13, <3>1, <3>2, <3>3, <3>4 DEF TypeOK, ClearJobs
  <2> QED BY <1>5, <2>1, <2>2, <2>3, <2>4, <2>5, <2>6, <2>7, <2>8, <2>9,
             <2>10, <2>11, <2>12, <2>13 DEF Section
<1>6. ASSUME NEW t \in Threads, CallbackReturn(t) PROVE TypeOK'
      BY <1>0, <1>6 DEF TypeOK, CallbackReturn, Free
<1>7. ASSUME NEW t \in Threads, WakeUp(t) PROVE TypeOK'
      BY SMT, <1>0, <1>7 DEF TypeOK, WakeUp, Wake
<1> QED BY <1>1, <1>2, <1>3, <1>4, <1>5, <1>6, <1>7, StepCases

-----------------------------------------------------------------------------
\* Steps that leave the list, the memory, the handles and the jobs in
\* execution alone keep them consistent.
LEMMA DataUnchanged ==
    ASSUME Data, UNCHANGED <<jobs, allocated, handle_ptr, handle, cur>>
    PROVE  Data'
BY DEF Data, HandleConsistency, Ownership, Listed

\* HandleConsistency and Ownership as facts about the values of the variables,
\* before or after a step.
Consistent(js, h, hp) ==
    /\ \A k \in Handles : h[k] # NULL => ListContains(js, h[k]) /\ hp[h[k]] = k
    /\ \A x \in Addrs : ListContains(js, x) /\ hp[x] # NULL => h[hp[x]] = x

Owned(js, al, c) ==
    /\ NoDup(js)
    /\ \A u \in Threads : c[u] # NULL => ~ListContains(js, c[u])
    /\ \A u, v \in Threads : c[u] # NULL /\ c[u] = c[v] => u = v
    /\ \A x \in Addrs : x \in al <=> \/ ListContains(js, x)
                                     \/ \E u \in Threads : c[u] = x

\* The two forms say the same, of this state and of the next.
LEMMA DataForms ==
    /\ Data <=> /\ Consistent(jobs, handle, handle_ptr)
                /\ Owned(jobs, allocated, cur)
    /\ Data' <=> /\ Consistent(jobs', handle', handle_ptr')
                 /\ Owned(jobs', allocated', cur')
BY DEF Data, HandleConsistency, Ownership, Listed, Consistent, Owned, NoDup

\* Handles and memory stay consistent in every step: the jobs that leave the
\* list lose their handle in the same step and are freed or executed.
LEMMA DataStep ==
    ASSUME IInv, Next
    PROVE  Data'
<1>0. /\ TypeOK /\ Data /\ Control
      /\ Consistent(jobs, handle, handle_ptr)
      /\ Owned(jobs, allocated, cur)
      BY DataForms DEF IInv
<1>a. \A i \in 1..Len(jobs) : jobs[i] \in Addrs
      BY SMT, <1>0 DEF TypeOK
<1>b. /\ cur \in [Threads -> Addrs \cup {NULL}]
      /\ handle \in [Handles -> Addrs \cup {NULL}]
      /\ handle_ptr \in [Addrs -> Handles \cup {NULL}]
      BY <1>0 DEF TypeOK
<1>c. /\ Consistent(jobs, handle, handle_ptr)
      /\ Owned(jobs, allocated, cur)
      BY <1>0
<1> USE NullAssumption
<1>1. CASE UNCHANGED vars
      BY <1>0, <1>1, DataUnchanged DEF vars, shared, locals
<1>2. CASE EnvironmentStep
      BY <1>0, <1>2, DataUnchanged
      DEF EnvironmentStep, SchedNew, Tick, shared, locals
<1>3. ASSUME NEW t \in Threads, CallStep(t) PROVE Data'
      BY <1>0, <1>3, DataUnchanged
      DEF CallStep, AtCall, LookupHandle, RunCall, WaitCall, LeapCall,
          CleanupCall, shared
<1>4. ASSUME NEW t \in Threads, LockMutex(t) PROVE Data'
      BY <1>0, <1>4, DataUnchanged DEF LockMutex
<1>5. ASSUME NEW t \in Threads, Section(t) PROVE Data'
  <2>1. CASE AtFail(t) \/ JobGone(t) \/ NullHandleDereference(t)
             \/ RunReturn(t) \/ Sleep(t) \/ WaitReturn(t) \/ LeapBody(t)
        BY <1>0, <2>1, DataUnchanged
        DEF AtFail, JobGone, NullHandleDereference, RunReturn, Sleep,
            WaitReturn, LeapBody, shared
  <2>2. ASSUME NEW a \in Addrs, AtSchedule(t, a) PROVE Data'
    <3> DEFINE h == arg_handle[t]
               old == IF h = NULL THEN NULL ELSE handle[h]
    <3>1. /\ NoDup(jobs')
          /\ \A x : ListContains(jobs', x)
                       <=> (ListContains(jobs, x) /\ x # old) \/ x = a
      <4>1. /\ NoDup(jobs')
            /\ \A x : Listed(x)' <=> (Listed(x) /\ x # old) \/ x = a
            BY <2>2, AtScheduleList
      <4> HIDE DEF old
      <4> QED BY <4>1 DEF Listed
    <3>2. /\ a \notin allocated
          /\ allocated' = (allocated \ {old}) \cup {a}
          /\ handle_ptr' = [x \in Addrs |-> IF x = a THEN h
                                            ELSE IF x = old THEN NULL
                                            ELSE handle_ptr[x]]
          /\ handle' = [x \in Handles |-> IF x = h THEN a ELSE handle[x]]
          /\ cur' = cur
          BY <2>2 DEF AtSchedule
    <3>3. h \in Handles \cup {NULL} /\ old \in Addrs \cup {NULL}
      <4>1. h \in Handles \cup {NULL}
            BY <1>0 DEF TypeOK
      <4> QED BY <1>b, <4>1
    <3>4. old # NULL => ListContains(jobs, old) /\ handle_ptr[old] = h
          BY <1>c, <3>3 DEF Consistent
    <3>5. ~ListContains(jobs, a) /\ \A u \in Threads : cur[u] # a
          BY <1>c, <3>2 DEF Owned
    <3>6. h # NULL => handle[h] = old
          OBVIOUS
    <3> HIDE DEF h, old
    <3>7. Consistent(jobs', handle', handle_ptr')
      <4>1. ASSUME NEW k \in Handles, handle'[k] # NULL
            PROVE  /\ ListContains(jobs', handle'[k])
                   /\ handle_ptr'[handle'[k]] = k
        <5>1. CASE k = h
              BY <3>1, <3>2, <5>1
        <5>2. CASE k # h
          <6>1. /\ handle'[k] = handle[k] /\ handle[k] \in Addrs
                /\ ListContains(jobs, handle[k]) /\ handle_ptr[handle[k]] = k
                BY SMT, <1>b, <1>c, <3>2, <4>1, <5>2 DEF Consistent
          <6>2. handle[k] # old /\ handle[k] # a
                BY <3>3, <3>4, <3>5, <5>2, <6>1
          <6> QED BY <3>1, <3>2, <6>1, <6>2
        <5> QED BY <5>1, <5>2
      <4>2. ASSUME NEW x \in Addrs, ListContains(jobs', x),
                   handle_ptr'[x] # NULL
            PROVE  handle'[handle_ptr'[x]] = x
        <5>1. CASE x = a
              BY <3>2, <3>3, <4>2, <5>1
        <5>2. CASE x # a
          <6>1. /\ ListContains(jobs, x) /\ x # old
                /\ handle_ptr'[x] = handle_ptr[x]
                BY <3>1, <3>2, <4>2, <5>2
          <6>2. /\ handle_ptr[x] \in Handles
                /\ handle[handle_ptr[x]] = x
                BY SMT, <1>b, <1>c, <4>2, <6>1 DEF Consistent
          <6>3. handle_ptr[x] # h
                BY <3>6, <6>1, <6>2
          <6> QED BY <3>2, <6>1, <6>2, <6>3
        <5> QED BY <5>1, <5>2
      <4> QED BY <4>1, <4>2 DEF Consistent
    <3>8. Owned(jobs', allocated', cur')
      <4>1. \A u \in Threads : cur'[u] # NULL => ~ListContains(jobs', cur'[u])
            BY <1>c, <3>1, <3>2, <3>5 DEF Owned
      <4>2. \A x \in Addrs : x \in allocated' <=>
               ListContains(jobs', x) \/ \E u \in Threads : cur'[u] = x
            BY SMT, <1>b, <1>c, <3>1, <3>2, <3>3, <3>4, <3>5 DEF Owned
      <4>3. \A u, v \in Threads : cur'[u] # NULL /\ cur'[u] = cur'[v] => u = v
            BY <1>c, <3>2 DEF Owned
      <4> QED BY <3>1, <4>1, <4>2, <4>3 DEF Owned
    <3> QED BY <3>7, <3>8, DataForms
  <2>3. CASE DelBody(t)
    <3> DEFINE a == seen[t]
    <3>1. /\ NoDup(jobs') /\ a \in Addrs
          /\ \A x : ListContains(jobs', x) <=> ListContains(jobs, x) /\ x # a
          BY <2>3, DelList DEF Listed
    <3>2. /\ ListContains(jobs, a) /\ handle_ptr[a] # NULL
          /\ handle' = [k \in Handles |-> IF k = handle_ptr[a] THEN NULL
                                          ELSE handle[k]]
          /\ allocated' = allocated \ {a}
          /\ handle_ptr' = [handle_ptr EXCEPT ![a] = NULL]
          /\ cur' = cur
          BY <2>3 DEF DelBody, ResetHandle, Free, Listed
    <3> HIDE DEF a
    <3>3. Consistent(jobs', handle', handle_ptr')
          BY SMT, <1>b, <1>c, <3>1, <3>2 DEF Consistent
    <3>4. \A u \in Threads : cur[u] # a
          BY <1>c, <3>1, <3>2 DEF Owned
    <3>5. Owned(jobs', allocated', cur')
      <4>1. \A x \in Addrs : x \in allocated' <=>
               ListContains(jobs', x) \/ \E u \in Threads : cur'[u] = x
            BY <1>c, <3>1, <3>2, <3>4 DEF Owned
      <4>2. \A u \in Threads : cur'[u] # NULL => ~ListContains(jobs', cur'[u])
            BY <1>c, <3>1, <3>2 DEF Owned
      <4>3. \A u, v \in Threads : cur'[u] # NULL /\ cur'[u] = cur'[v] => u = v
            BY <1>c, <3>2 DEF Owned
      <4> QED BY <3>1, <4>1, <4>2, <4>3 DEF Owned
    <3> QED BY <3>3, <3>5, DataForms
  <2>4. CASE DetachBody(t)
    <3> DEFINE a == seen[t]
    <3>1. /\ ListContains(jobs, a) /\ handle_ptr[a] # NULL
          /\ handle' = [k \in Handles |-> IF k = handle_ptr[a] THEN NULL
                                          ELSE handle[k]]
          /\ handle_ptr' = [handle_ptr EXCEPT ![a] = NULL]
          /\ UNCHANGED <<jobs, allocated, cur>>
          BY <2>4 DEF DetachBody, ResetHandle, Listed
    <3>2. a \in Addrs
          BY <1>a, <3>1 DEF ListContains
    <3> HIDE DEF a
    <3>3. Consistent(jobs', handle', handle_ptr')
          BY SMT, <1>b, <1>c, <3>1, <3>2 DEF Consistent
    <3>4. Owned(jobs', allocated', cur')
          BY <1>c, <3>1 DEF Owned
    <3> QED BY <3>3, <3>4, DataForms
  <2>5. CASE ReschedBody(t)
    <3>1. /\ NoDup(jobs')
          /\ \A x : ListContains(jobs', x) <=> ListContains(jobs, x)
          BY <2>5, ReschedList DEF Listed
    <3>2. UNCHANGED <<allocated, handle_ptr, handle, cur>>
          BY <2>5 DEF ReschedBody
    <3>3. Consistent(jobs', handle', handle_ptr')
          BY <1>c, <3>1, <3>2 DEF Consistent
    <3>4. Owned(jobs', allocated', cur')
          BY <1>c, <3>1, <3>2 DEF Owned
    <3> QED BY <3>3, <3>4, DataForms
  <2>6. CASE FetchJob(t)
    <3> DEFINE a == Head(jobs)
    <3>1. /\ NoDup(jobs') /\ a \in Addrs /\ ListContains(jobs, a)
          /\ \A x : ListContains(jobs', x) <=> ListContains(jobs, x) /\ x # a
          BY <2>6, FetchList DEF Listed
    <3>2. /\ handle' = [k \in Handles |-> IF k = handle_ptr[a] THEN NULL
                                          ELSE handle[k]]
          /\ handle_ptr' = [handle_ptr EXCEPT ![a] = NULL]
          /\ cur' = [cur EXCEPT ![t] = a]
          /\ allocated' = allocated
          BY <2>6 DEF FetchJob, ResetHandle
    <3>3. cur[t] = NULL
          BY <1>0, <2>6 DEF Control, FetchJob, InSection
    <3> HIDE DEF a
    <3>4. Consistent(jobs', handle', handle_ptr')
          BY SMT, <1>b, <1>c, <3>1, <3>2 DEF Consistent
    <3>5. \A u \in Threads : cur[u] # a
          BY <1>c, <3>1 DEF Owned
    <3>6. /\ cur'[t] = a
          /\ \A u \in Threads : u # t => cur'[u] = cur[u]
          BY <1>b, <3>2
    <3>7. Owned(jobs', allocated', cur')
      <4>1. \A x \in Addrs : x \in allocated' <=>
               ListContains(jobs', x) \/ \E u \in Threads : cur'[u] = x
            BY SMTT(30), <1>c, <3>1, <3>2, <3>3, <3>5, <3>6 DEF Owned
      <4>2. \A u \in Threads : cur'[u] # NULL => ~ListContains(jobs', cur'[u])
            BY <1>c, <3>1, <3>6 DEF Owned
      <4>3. \A u, v \in Threads : cur'[u] # NULL /\ cur'[u] = cur'[v] => u = v
            BY <1>c, <3>5, <3>6 DEF Owned
      <4> QED BY <3>1, <4>1, <4>2, <4>3 DEF Owned
    <3> QED BY <3>4, <3>7, DataForms
  <2>7. CASE ClearJobs(t)
    <3>1. /\ jobs' = <<>>
          /\ handle' = HandlesCleared
          /\ allocated' = allocated \ {a \in Addrs : Listed(a)}
          /\ cur' = cur
          BY <2>7 DEF ClearJobs
    <3>2. NoDup(jobs') /\ \A x : ~ListContains(jobs', x)
          BY SMT, <3>1 DEF ListContains, NoDup
    <3>3. \A x : x \in {a \in Addrs : Listed(a)} <=> ListContains(jobs, x)
          BY <1>a DEF Listed, ListContains
    <3>4. \A k \in Handles : handle'[k] = NULL
          BY <1>b, <1>c, <3>1, <3>3
          DEF Consistent, HandlesCleared
    <3>5. Consistent(jobs', handle', handle_ptr')
          BY <3>2, <3>4 DEF Consistent
    <3>6. Owned(jobs', allocated', cur')
      <4>1. \A x \in Addrs : x \in allocated' <=>
               ListContains(jobs', x) \/ \E u \in Threads : cur'[u] = x
            BY <1>c, <3>1, <3>2, <3>3, NullAssumption DEF Owned
      <4> QED BY <1>c, <3>1, <3>2, <4>1 DEF Owned
    <3> QED BY <3>5, <3>6, DataForms
  <2> QED BY <1>5, <2>1, <2>2, <2>3, <2>4, <2>5, <2>6, <2>7 DEF Section
<1>6. ASSUME NEW t \in Threads, CallbackReturn(t) PROVE Data'
  <2>1. cur[t] \in Addrs /\ ~ListContains(jobs, cur[t])
        BY SMT, <1>0, <1>6 DEF TypeOK, Control, Owned, CallbackReturn
  <2>2. /\ allocated' = allocated \ {cur[t]}
        /\ handle_ptr' = [handle_ptr EXCEPT ![cur[t]] = NULL]
        /\ cur' = [cur EXCEPT ![t] = NULL]
        /\ UNCHANGED <<jobs, handle>>
        BY <1>6 DEF CallbackReturn, Free
  <2>3. \A x : ListContains(jobs', x) <=> ListContains(jobs, x)
        BY <2>2 DEF Listed
  <2>4. Consistent(jobs', handle', handle_ptr')
        BY SMT, <1>b, <1>c, <2>1, <2>2, <2>3 DEF Consistent
  <2>5. /\ cur'[t] = NULL
        /\ \A u \in Threads : u # t => cur'[u] = cur[u]
        BY <1>b, <2>2
  <2>6. Owned(jobs', allocated', cur')
    <3>1. \A x \in Addrs : x \in allocated' <=>
             ListContains(jobs', x) \/ \E u \in Threads : cur'[u] = x
          BY SMTT(30), <1>c, <2>1, <2>2, <2>3, <2>5 DEF Owned
    <3>2. \A u \in Threads : cur'[u] # NULL => ~ListContains(jobs', cur'[u])
          BY <1>c, <2>3, <2>5 DEF Owned
    <3>3. \A u, v \in Threads : cur'[u] # NULL /\ cur'[u] = cur'[v] => u = v
          BY <1>c, <2>5 DEF Owned
    <3> QED BY <1>c, <2>2, <3>1, <3>2, <3>3 DEF Owned
  <2> QED BY <2>4, <2>6, DataForms
<1>7. ASSUME NEW t \in Threads, WakeUp(t) PROVE Data'
      BY <1>0, <1>7, DataUnchanged DEF WakeUp, Wake, shared
<1> QED BY <1>1, <1>2, <1>3, <1>4, <1>5, <1>6, <1>7, StepCases

-----------------------------------------------------------------------------
\* A step of thread t moves only its own program counter.
Moves(t, p) ==
    /\ pc' = [pc EXCEPT ![t] = p]
    /\ op' \in [Threads -> Calls]
    /\ \A u \in Threads : u # t => /\ op'[u] = op[u]
                                   /\ arg_time'[u] = arg_time[u]
                                   /\ cur'[u] = cur[u]

\* Where the mutex is taken, kept and released.
LEMMA MutexMoves ==
    ASSUME TypeOK, MutexDiscipline, NEW t \in Threads, NEW p \in Pcs,
           pc' = [pc EXCEPT ![t] = p],
           \/ /\ mutex' = NULL /\ pc[t] = "locked"
              /\ p \notin {"locked", "crashed"}
           \/ mutex = NULL /\ mutex' = t /\ p = "locked"
           \/ /\ mutex' = mutex
              /\ pc[t] \in {"locked", "crashed"} <=> p \in {"locked", "crashed"}
    PROVE  MutexDiscipline'
BY SMT, NullAssumption DEF TypeOK, MutexDiscipline

\* What a thread is doing agrees with the job it is executing.
LEMMA ControlMoves ==
    ASSUME TypeOK, Control, NEW t \in Threads, NEW p \in Pcs, Moves(t, p),
           p = "callback" => cur'[t] # NULL,
           p \in {"idle", "clear", "sleep"} => cur'[t] = NULL,
           op'[t] \in {"fetch", "wait"} => cur'[t] = NULL,
           op'[t] = "leap" => arg_time'[t] = INVALID
    PROVE  Control'
BY DEF TypeOK, Control, Moves

\* A step inside a call does not change whether others may be inside one.
LEMMA LifecycleMoves ==
    ASSUME TypeOK, Lifecycle, CleanupReleasesAll, NEW t \in Threads,
           NEW p \in Pcs, pc' = [pc EXCEPT ![t] = p], sched' = sched,
           pc[t] # "idle" \/ sched = "live",
           p = "clear" => sched = "closing"
    PROVE  Lifecycle' /\ CleanupReleasesAll'
<1>1. sched # "none"
      BY DEF TypeOK, Lifecycle
<1>2. CleanupReleasesAll'
      BY <1>1 DEF CleanupReleasesAll
<1>3. Lifecycle'
      BY <1>1 DEF TypeOK, Lifecycle
<1> QED BY <1>2, <1>3

Rest == MutexDiscipline /\ Control /\ Lifecycle /\ CleanupReleasesAll

\* The mutex, the control state and the life cycle of the scheduler agree
\* after every step.
LEMMA RestStep ==
    ASSUME IInv, Next
    PROVE  Rest'
<1> USE NullAssumption
<1>0. /\ TypeOK /\ TypeOK' /\ Data /\ MutexDiscipline /\ Control /\ Lifecycle
      /\ CleanupReleasesAll
      BY TypeStep DEF IInv
<1>1. CASE UNCHANGED vars
      BY <1>0, <1>1
      DEF Rest, MutexDiscipline, Control, Lifecycle, CleanupReleasesAll, vars,
          shared, locals
<1>2. CASE EnvironmentStep
  <2>1. UNCHANGED <<mutex, pc, op, cur, arg_time, jobs, allocated, handle>>
        BY <1>2 DEF EnvironmentStep, SchedNew, Tick, shared, locals
  <2>2. sched' = sched \/ (sched = "none" /\ sched' = "live")
        BY <1>2 DEF EnvironmentStep, SchedNew, Tick, shared
  <2> QED BY <1>0, <2>1, <2>2
          DEF Rest, MutexDiscipline, Control, Lifecycle, CleanupReleasesAll
<1>3. ASSUME NEW t \in Threads, CallStep(t) PROVE Rest'
  <2>1. CASE UNCHANGED <<sched, mutex, pc, op, arg_time, cur, jobs, allocated,
                         handle>>
        BY <1>0, <2>1
        DEF Rest, MutexDiscipline, Control, Lifecycle, CleanupReleasesAll
  <2>2. ASSUME NEW o \in Calls \ {"none", "fetch"},
               NEW h \in Handles \cup {NULL}, NEW time, Call(t, o, h, time),
               o = "leap" => time = INVALID,
               o = "wait" => pc[t] = "idle",
               MayCall(t), UNCHANGED <<shared, cur>>
        PROVE  Rest'
    <3>1. Moves(t, "lock") /\ op'[t] = o /\ arg_time'[t] = time
          BY <1>0, <2>2 DEF Call, Moves, TypeOK
    <3>2. MutexDiscipline'
          BY <1>0, <2>2, <3>1, MutexMoves DEF MayCall, shared, Moves, Pcs
    <3>3. Control'
      <4>1. o = "wait" => cur'[t] = NULL
            BY <1>0, <2>2 DEF Control
      <4> QED BY <1>0, <2>2, <3>1, <4>1, ControlMoves DEF Pcs
    <3>4. Lifecycle' /\ CleanupReleasesAll'
          BY <1>0, <2>2, <3>1, LifecycleMoves
          DEF MayCall, shared, Moves, Pcs
    <3> QED BY <3>2, <3>3, <3>4 DEF Rest
  <2>3. ASSUME NEW h \in Handles \cup {NULL}, NEW at \in Time, AtCall(t, h, at)
        PROVE  Rest'
        BY <2>2, <2>3 DEF AtCall, Calls
  <2>4. ASSUME NEW o \in {"del", "detach", "resched"}, NEW h \in Handles,
               NEW time \in Time \cup {INVALID}, LookupHandle(t, o, h, time)
        PROVE  Rest'
    <3>1. CASE handle[h] = NULL
          BY <2>1, <2>4, <3>1 DEF LookupHandle, shared
    <3>2. CASE handle[h] # NULL
          BY <2>2, <2>4, <3>2 DEF LookupHandle, Calls
    <3> QED BY <3>1, <3>2
  <2>5. CASE RunCall(t)
    <3>1. /\ Moves(t, "lock") /\ pc[t] = "idle" /\ sched = "live"
          /\ op'[t] = "fetch"
          /\ UNCHANGED <<sched, mutex, cur>>
          BY <1>0, <2>5 DEF RunCall, StartRun, Moves, TypeOK, shared
    <3>2. MutexDiscipline'
          BY <1>0, <3>1, MutexMoves DEF Moves, Pcs
    <3>3. cur'[t] = NULL
          BY <1>0, <3>1 DEF Control
    <3>4. Control'
          BY <1>0, <3>1, <3>3, ControlMoves DEF Pcs
    <3>5. Lifecycle' /\ CleanupReleasesAll'
          BY <1>0, <3>1, LifecycleMoves DEF Moves, Pcs
    <3> QED BY <3>2, <3>4, <3>5 DEF Rest
  <2>6. ASSUME NEW deadline \in Time \cup {INVALID}, WaitCall(t, deadline)
        PROVE  Rest'
        BY <2>2, <2>6 DEF WaitCall, Calls, MayCall
  <2>7. ASSUME NEW diff \in LeapDiffs, LeapCall(t, diff)
        PROVE  Rest'
    <3>1. CASE Valid(diff)
          BY <2>1, <2>7, <3>1 DEF LeapCall, shared
    <3>2. CASE ~Valid(diff)
          BY <2>2, <2>7, <3>2 DEF LeapCall, Calls, Valid
    <3> QED BY <3>1, <3>2
  <2>8. CASE CleanupCall(t)
    <3>1. /\ Moves(t, "lock") /\ pc[t] = "idle"
          /\ \A u \in Threads : pc[u] = "idle"
          /\ sched' = "closing"
          /\ op'[t] = "fetch"
          /\ UNCHANGED <<mutex, cur>>
          BY <1>0, <2>8 DEF CleanupCall, StartRun, Moves, TypeOK
    <3>2. MutexDiscipline'
          BY <1>0, <3>1, MutexMoves DEF Moves, Pcs
    <3>3. cur'[t] = NULL
          BY <1>0, <3>1 DEF Control
    <3>4. Control'
          BY <1>0, <3>1, <3>3, ControlMoves DEF Pcs
    <3>5. Lifecycle' /\ CleanupReleasesAll'
          BY <1>0, <3>1 DEF Moves, Lifecycle, CleanupReleasesAll, TypeOK
    <3> QED BY <3>2, <3>4, <3>5 DEF Rest
  <2> QED BY <1>3, <2>3, <2>4, <2>5, <2>6, <2>7, <2>8 DEF CallStep
<1>4. ASSUME NEW t \in Threads, LockMutex(t) PROVE Rest'
  <2>1. /\ Moves(t, "locked") /\ pc[t] = "lock"
        /\ mutex = NULL /\ mutex' = t
        /\ UNCHANGED <<sched, op, arg_time, cur>>
        BY <1>0, <1>4 DEF LockMutex, Moves, TypeOK
  <2>2. MutexDiscipline'
        BY <1>0, <2>1, MutexMoves DEF Moves, Pcs
  <2>3. Control'
        BY <1>0, <2>1 DEF Moves, Control, TypeOK
  <2>4. Lifecycle' /\ CleanupReleasesAll'
        BY <1>0, <2>1, LifecycleMoves DEF Moves, Pcs
  <2> QED BY <2>2, <2>3, <2>4 DEF Rest
<1>5. ASSUME NEW t \in Threads, Section(t) PROVE Rest'
  <2>1. CASE pc[t] = "locked" /\ UnlockAndReturn(t) /\ UNCHANGED <<sched, cur>>
    <3>1. /\ Moves(t, Base(t)) /\ op'[t] = "none" /\ mutex' = NULL
          /\ Base(t) \in Pcs \ {"locked", "crashed", "clear", "sleep"}
      <4>1. Base(t) \in Pcs \ {"locked", "crashed", "clear", "sleep"}
            BY DEF Base, Pcs
      <4>2. /\ pc' = [pc EXCEPT ![t] = Base(t)]
            /\ op' = [op EXCEPT ![t] = "none"]
            /\ arg_time' = [arg_time EXCEPT ![t] = INVALID]
            /\ mutex' = NULL /\ cur' = cur
            BY <2>1 DEF UnlockAndReturn, Return
      <4> QED BY <1>0, <4>1, <4>2 DEF Moves, TypeOK, Calls
    <3>2. MutexDiscipline'
          BY <1>0, <2>1, <3>1, MutexMoves DEF Moves
    <3>3. Control'
          BY <1>0, <2>1, <3>1, ControlMoves DEF Base
    <3>4. Lifecycle' /\ CleanupReleasesAll'
          BY <1>0, <2>1, <3>1, LifecycleMoves DEF Moves
    <3> QED BY <3>2, <3>3, <3>4 DEF Rest
  <2>2. CASE AtFail(t) \/ JobGone(t) \/ DelBody(t) \/ DetachBody(t)
             \/ ReschedBody(t) \/ WaitReturn(t) \/ LeapBody(t)
        BY <2>1, <2>2
        DEF AtFail, JobGone, DelBody, DetachBody, ReschedBody, WaitReturn,
            LeapBody, InSection
  <2>3. ASSUME NEW a \in Addrs, AtSchedule(t, a) PROVE Rest'
        BY <2>1, <2>3 DEF AtSchedule, InSection
  <2>4. CASE NullHandleDereference(t)
    <3>1. /\ Moves(t, "crashed") /\ pc[t] = "locked"
          /\ UNCHANGED <<sched, mutex, op, arg_time, cur>>
          BY <1>0, <2>4 DEF NullHandleDereference, Moves, TypeOK, shared
    <3>2. MutexDiscipline'
          BY <1>0, <3>1, MutexMoves DEF Moves, Pcs
    <3>3. Control'
          BY <1>0, <3>1 DEF Moves, Control, TypeOK
    <3>4. Lifecycle' /\ CleanupReleasesAll'
          BY <1>0, <3>1, LifecycleMoves DEF Moves, Pcs
    <3> QED BY <3>2, <3>3, <3>4 DEF Rest
  <2>5. CASE FetchJob(t)
    <3>1. /\ Moves(t, "callback") /\ pc[t] = "locked" /\ mutex' = NULL
          /\ op'[t] = "none" /\ cur'[t] = Head(jobs)
          /\ sched' = sched
          BY <1>0, <2>5 DEF FetchJob, InSection, Moves, TypeOK
    <3>2. MutexDiscipline'
          BY <1>0, <3>1, MutexMoves DEF Moves, Pcs
    <3>3. cur'[t] # NULL
          BY <2>5, <3>1, FetchList
    <3>4. Control'
          BY <1>0, <3>1, <3>3, ControlMoves DEF Pcs
    <3>5. Lifecycle' /\ CleanupReleasesAll'
          BY <1>0, <3>1, LifecycleMoves DEF Moves, Pcs
    <3> QED BY <3>2, <3>4, <3>5 DEF Rest
  <2>6. CASE RunReturn(t)
    <3> DEFINE p == IF sched = "closing" THEN "clear" ELSE "idle"
    <3>1. /\ Moves(t, p) /\ pc[t] = "locked" /\ mutex' = NULL
          /\ op[t] = "fetch" /\ op'[t] = "none"
          /\ UNCHANGED <<sched, cur>>
          BY <1>0, <2>6 DEF RunReturn, InSection, Moves, TypeOK
    <3>2. /\ p \in Pcs \ {"locked", "crashed", "callback", "sleep"}
          /\ p = "clear" => sched = "closing"
          BY DEF Pcs
    <3> HIDE DEF p
    <3>3. MutexDiscipline'
          BY <1>0, <3>1, <3>2, MutexMoves DEF Moves
    <3>4. cur'[t] = NULL
          BY <1>0, <3>1 DEF Control
    <3>5. Control'
          BY <1>0, <3>1, <3>2, <3>4, ControlMoves
    <3>6. Lifecycle' /\ CleanupReleasesAll'
          BY <1>0, <3>1, <3>2, LifecycleMoves DEF Moves
    <3> QED BY <3>3, <3>5, <3>6 DEF Rest
  <2>7. CASE Sleep(t)
    <3>1. /\ Moves(t, "sleep") /\ pc[t] = "locked" /\ mutex' = NULL
          /\ op[t] = "wait"
          /\ UNCHANGED <<sched, op, arg_time, cur>>
          BY <1>0, <2>7 DEF Sleep, InSection, Moves, TypeOK
    <3>2. MutexDiscipline'
          BY <1>0, <3>1, MutexMoves DEF Moves, Pcs
    <3>3. Control'
          BY <1>0, <3>1 DEF Moves, Control, TypeOK
    <3>4. Lifecycle' /\ CleanupReleasesAll'
          BY <1>0, <3>1, LifecycleMoves DEF Moves, Pcs
    <3> QED BY <3>2, <3>3, <3>4 DEF Rest
  <2>8. CASE ClearJobs(t)
    <3>1. /\ Moves(t, "idle") /\ pc[t] = "clear" /\ sched' = "none"
          /\ jobs' = <<>>
          /\ UNCHANGED <<mutex, op, arg_time, cur>>
          BY <1>0, <2>8 DEF ClearJobs, Moves, TypeOK
    <3>2. MutexDiscipline'
          BY <1>0, <3>1, MutexMoves DEF Moves, Pcs
    <3>3. Control'
          BY <1>0, <3>1 DEF Moves, Control, TypeOK
    <3>4. \A u \in Threads : pc'[u] = "idle"
          BY <1>0, <3>1 DEF Moves, Lifecycle, TypeOK
    <3>5. Lifecycle'
          BY <3>1, <3>4 DEF Lifecycle
    <3>6. /\ Consistent(jobs', handle', handle_ptr')
          /\ Owned(jobs', allocated', cur')
          BY DataStep, DataForms
    <3>7. \A x : ~ListContains(jobs', x)
          BY SMT, <3>1 DEF ListContains
    <3>8. \A u \in Threads : cur'[u] = NULL
          BY <3>3, <3>4 DEF Control
    <3>9. allocated' = {}
      <4>1. allocated' \subseteq Addrs
            BY <1>0 DEF TypeOK
      <4>2. \A x \in Addrs : x \notin allocated'
            BY <3>6, <3>7, <3>8 DEF Owned
      <4> QED BY <4>1, <4>2
    <3>10. \A h \in Handles : handle'[h] = NULL
          BY <3>6, <3>7 DEF Consistent
    <3>11. CleanupReleasesAll'
          BY <3>1, <3>9, <3>10 DEF CleanupReleasesAll
    <3> QED BY <3>2, <3>3, <3>5, <3>11 DEF Rest
  <2> QED BY <1>5, <2>2, <2>3, <2>4, <2>5, <2>6, <2>7, <2>8 DEF Section
<1>6. ASSUME NEW t \in Threads, CallbackReturn(t) PROVE Rest'
  <2>1. /\ Moves(t, "lock") /\ pc[t] = "callback" /\ cur'[t] = NULL
        /\ op'[t] = "fetch"
        /\ UNCHANGED <<sched, mutex>>
        BY <1>0, <1>6 DEF CallbackReturn, Moves, TypeOK
  <2>2. MutexDiscipline'
        BY <1>0, <2>1, MutexMoves DEF Moves, Pcs
  <2>3. Control'
        BY <1>0, <2>1, ControlMoves DEF Pcs
  <2>4. Lifecycle' /\ CleanupReleasesAll'
        BY <1>0, <2>1, LifecycleMoves DEF Moves, Pcs
  <2> QED BY <2>2, <2>3, <2>4 DEF Rest
<1>7. ASSUME NEW t \in Threads, WakeUp(t) PROVE Rest'
  <2>1. /\ Moves(t, "lock") /\ pc[t] = "sleep"
        /\ UNCHANGED <<sched, mutex, op, arg_time, cur>>
        BY <1>0, <1>7 DEF WakeUp, Wake, Moves, TypeOK, shared
  <2>2. MutexDiscipline'
        BY <1>0, <2>1, MutexMoves DEF Moves, Pcs
  <2>3. Control'
        BY <1>0, <2>1 DEF Moves, Control, TypeOK
  <2>4. Lifecycle' /\ CleanupReleasesAll'
        BY <1>0, <2>1, LifecycleMoves DEF Moves, Pcs
  <2> QED BY <2>2, <2>3, <2>4 DEF Rest
<1> QED BY <1>1, <1>2, <1>3, <1>4, <1>5, <1>6, <1>7, StepCases

-----------------------------------------------------------------------------
\* The inductive invariant holds in every state of the scheduler.
THEOREM IInvHolds == Spec => []IInv
<1>1. Init => IInv
      BY InitIInv
<1>2. IInv /\ [Next]_vars => IInv'
  <2>1. ASSUME IInv, Next PROVE IInv'
        BY <2>1, TypeStep, DataStep, RestStep DEF IInv, Rest
  <2>2. ASSUME IInv, UNCHANGED vars PROVE IInv'
    <3>1. TypeOK'
          BY <2>2 DEF IInv, TypeOK, vars, shared, locals, ghosts
    <3>2. Data'
          BY <2>2, DataUnchanged DEF IInv, vars, shared, locals
    <3>3. MutexDiscipline' /\ Control' /\ Lifecycle' /\ CleanupReleasesAll'
          BY <2>2
          DEF IInv, MutexDiscipline, Control, Lifecycle, CleanupReleasesAll,
              vars, shared, locals
    <3> QED BY <3>1, <3>2, <3>3 DEF IInv
  <2> QED BY <2>1, <2>2
<1> QED BY <1>1, <1>2, PTL DEF Spec

\* Every variable of the scheduler keeps its type, in particular the list only
\* holds job addresses.
THEOREM TypeCorrect == Spec => []TypeOK
BY IInvHolds, PTL DEF IInv

\* A handle variable and the job it refers to always point at each other:
\* whatever interleaving of avs_sched_at, del, detach, resched, run and
\* cleanup, no handle dangles.
THEOREM HandlesConsistent == Spec => []HandleConsistency
<1>1. IInv => HandleConsistency
      BY DEF IInv, Data
<1> QED BY <1>1, IInvHolds, PTL

\* No job is leaked, freed twice, or freed while its callback runs.
THEOREM JobsOwnedOnce == Spec => []Ownership
<1>1. IInv => Ownership
      BY DEF IInv, Data
<1> QED BY <1>1, IInvHolds, PTL

\* sched->mutex is held exactly by the thread inside a critical section, on
\* every path out of it including the early returns.
THEOREM MutexHeldInSections == Spec => []MutexDiscipline
<1>1. IInv => MutexDiscipline
      BY DEF IInv
<1> QED BY <1>1, IInvHolds, PTL

\* After avs_sched_cleanup nothing is allocated and every handle is NULL.
THEOREM CleanupComplete == Spec => []CleanupReleasesAll
<1>1. IInv => CleanupReleasesAll
      BY DEF IInv
<1> QED BY <1>1, IInvHolds, PTL

\* All of it at once: the scheduler's data is consistent in every interleaving
\* of its calls, callbacks and cleanup.
THEOREM JobsAlwaysConsistent == Spec => []JobsConsistent
BY TypeCorrect, HandlesConsistent, JobsOwnedOnce, MutexHeldInSections,
   CleanupComplete, PTL DEF JobsConsistent

-----------------------------------------------------------------------------
(* Order, horizon and wake-ups                                             *)

Instants == Time \cup {INVALID}

\* The order of ExecutionOrder, of any list, instants and stamps.
InOrder(inst, st, a, b) ==
    /\ ~Before(inst[b], inst[a])
    /\ Valid(inst[a]) /\ inst[a] = inst[b] => st[a] < st[b]

Ordered(s, inst, st) ==
    \A i, j \in 1..Len(s) : i < j => InOrder(inst, st, s[i], s[j])

\* Detaching a job leaves the rest in order.
LEMMA DetachOrdered ==
    ASSUME NEW s \in Seq(Addrs), NEW inst, NEW st, Ordered(s, inst, st),
           NEW a, ListContains(s, a)
    PROVE  Ordered(Without(s, a), inst, st)
<1> DEFINE i == ListFindPtr(s, a)
           d == Without(s, a)
<1>1. i \in 1..Len(s)
      BY ListFindPtrFound
<1>2. /\ d \in Seq(Addrs) /\ Len(d) = Len(s) - 1
      /\ \A j \in 1..Len(s) - 1 : d[j] = IF j < i THEN s[j] ELSE s[j + 1]
      BY <1>1, ListDetachPlaces DEF Without
<1> HIDE DEF i, d
<1> SUFFICES ASSUME NEW j \in 1..Len(d), NEW k \in 1..Len(d), j < k
             PROVE  InOrder(inst, st, d[j], d[k])
    BY DEF Ordered, d
<1> DEFINE m == IF j < i THEN j ELSE j + 1
           n == IF k < i THEN k ELSE k + 1
<1>3. m \in 1..Len(s) /\ n \in 1..Len(s) /\ m < n /\ d[j] = s[m] /\ d[k] = s[n]
      BY SMT, <1>1, <1>2
<1> HIDE DEF m, n
<1> QED BY <1>3 DEF Ordered

\* Taking the first job off the list leaves the rest in order.
LEMMA TailOrdered ==
    ASSUME NEW s \in Seq(Addrs), NEW inst, NEW st, Ordered(s, inst, st), s # <<>>
    PROVE  Ordered(Tail(s), inst, st)
<1> DEFINE d == Tail(s)
<1>1. d \in Seq(Addrs) /\ Len(d) = Len(s) - 1 /\ \A j \in 1..Len(d) : d[j] = s[j + 1]
      BY SMT
<1> HIDE DEF d
<1>2. \A j, k \in 1..Len(d) : j < k => InOrder(inst, st, s[j + 1], s[k + 1])
      BY SMT, <1>1 DEF Ordered
<1> QED BY <1>1, <1>2 DEF Ordered, d

\* A job inserted between those it may follow and those that may follow it.
LEMMA InsertOrdered ==
    ASSUME NEW s \in Seq(Addrs), NEW p \in 1..Len(s) + 1, NEW a \in Addrs,
           NEW inst, NEW st, Ordered(s, inst, st),
           \A j \in 1..p - 1 : InOrder(inst, st, s[j], a),
           \A k \in p..Len(s) : InOrder(inst, st, a, s[k]),
           NEW d, d = ListInsert(s, p, a)
    PROVE  Ordered(d, inst, st)
<1>1. /\ Len(d) = Len(s) + 1
      /\ \A j \in 1..p - 1 : d[j] = s[j]
      /\ d[p] = a
      /\ \A j \in p + 1..Len(s) + 1 : d[j] = s[j - 1]
  <2>1. /\ d \in Seq(Addrs) /\ Len(d) = Len(s) + 1
        /\ \A j \in 1..Len(s) + 1 : d[j] = Placed(s, p, a, j)
        BY ListInsertPlaces
  <2> QED BY SMT, <2>1 DEF Placed
<1>2. \A j, k \in 1..Len(s) : j < k => InOrder(inst, st, s[j], s[k])
      BY DEF Ordered
<1> SUFFICES ASSUME NEW j \in 1..Len(s) + 1, NEW k \in 1..Len(s) + 1, j < k
             PROVE  InOrder(inst, st, d[j], d[k])
    BY <1>1 DEF Ordered
<1>3. CASE k < p
  <2>1. /\ j \in 1..p - 1 /\ k \in 1..p - 1
        /\ j \in 1..Len(s) /\ k \in 1..Len(s)
        BY SMT, <1>3
  <2> QED BY <1>1, <1>2, <2>1
<1>4. CASE k = p
  <2>1. j \in 1..p - 1
        BY SMT, <1>4
  <2> QED BY <1>1, <1>4, <2>1
<1>5. CASE k > p /\ j = p
  <2>1. k - 1 \in p..Len(s) /\ k \in p + 1..Len(s) + 1
        BY SMT, <1>5
  <2> QED BY <1>1, <1>5, <2>1
<1>6. CASE k > p /\ j < p
  <2>1. /\ j \in 1..p - 1 /\ k \in p + 1..Len(s) + 1
        /\ j \in 1..Len(s) /\ k - 1 \in 1..Len(s) /\ j < k - 1
        BY SMT, <1>6
  <2> QED BY <1>1, <1>2, <2>1
<1>7. CASE j > p
  <2>1. /\ j \in p + 1..Len(s) + 1 /\ k \in p + 1..Len(s) + 1
        /\ j - 1 \in 1..Len(s) /\ k - 1 \in 1..Len(s) /\ j - 1 < k - 1
        BY SMT, <1>7
  <2> QED BY <1>1, <1>2, <2>1
<1> QED BY SMTT(30), <1>3, <1>4, <1>5, <1>6, <1>7

\* schedule_job keeps the order, if the job was scheduled after all others.
LEMMA ScheduleOrdered ==
    ASSUME NEW s \in Seq(Addrs), instant \in [Addrs -> Instants],
           stamp \in [Addrs -> Nat], Ordered(s, instant, stamp),
           NEW a \in Addrs, NEW at \in Instants,
           NEW n \in Nat, \A x \in Addrs : stamp[x] < n,
           NEW inst, NEW st, inst[a] = at, st[a] = n,
           \A x \in Addrs : ListContains(s, x) =>
               inst[x] = instant[x] /\ st[x] = stamp[x]
    PROVE  Ordered(ScheduleJob(s, a, at), inst, st)
<1> DEFINE p == InsertPos(s, at)
<1>1. /\ p \in 1..Len(s) + 1
      /\ p <= Len(s) => Before(at, instant[s[p]])
      /\ \A j \in 1..p - 1 : ~Before(at, instant[s[j]])
      BY InsertPosFacts
<1>2. ScheduleJob(s, a, at) = ListInsert(s, p, a)
      BY DEF ScheduleJob
<1> HIDE DEF p
<1>3. \A j \in 1..Len(s) : /\ s[j] \in Addrs /\ instant[s[j]] \in Instants
                           /\ stamp[s[j]] \in Nat /\ stamp[s[j]] < n
                           /\ inst[s[j]] = instant[s[j]]
                           /\ st[s[j]] = stamp[s[j]]
      BY SMT DEF ListContains
<1>4. ASSUME NEW j \in 1..p - 1 PROVE InOrder(inst, st, s[j], a)
  <2>1. j \in 1..Len(s) /\ ~Before(at, instant[s[j]])
        BY SMTT(30), <1>1
  <2> QED BY <1>3, <2>1, TimeAssumption DEF InOrder, Before, Valid, Instants, Time
<1>5. ASSUME NEW k \in p..Len(s) PROVE InOrder(inst, st, a, s[k])
  <2>1. Before(at, instant[s[p]])
        BY SMT, <1>1
  <2>2. k = p \/ ~Before(instant[s[k]], instant[s[p]])
        BY SMTT(30), <1>1 DEF Ordered, InOrder
  <2>3. k \in 1..Len(s) /\ p \in 1..Len(s)
        BY SMT, <1>1
  <2>4. Before(at, instant[s[k]]) \/ ~Valid(instant[s[k]])
        BY SMTT(30), <1>3, <2>1, <2>2, <2>3, TimeAssumption DEF Before, Valid, Instants, Time
  <2> QED BY SMTT(30), <1>3, <2>1, <2>3, <2>4, TimeAssumption
          DEF InOrder, Before, Valid, Instants, Time
<1>6. Ordered(s, inst, st)
      BY <1>3 DEF Ordered, InOrder
<1> QED BY <1>1, <1>2, <1>4, <1>5, <1>6, InsertOrdered

-----------------------------------------------------------------------------
\* The invariant of the order: stamps grow with the number of schedulings.
OInv ==
    /\ Ordered(jobs, instant, stamp)
    /\ \A x \in Addrs : stamp[x] <= serial

\* A list whose jobs keep their instants and stamps stays in order.
LEMMA SameOrder ==
    ASSUME NEW s \in Seq(Addrs), NEW inst, NEW st,
           Ordered(s, instant, stamp),
           \A x \in Addrs : ListContains(s, x) =>
               inst[x] = instant[x] /\ st[x] = stamp[x]
    PROVE  Ordered(s, inst, st)
<1>1. \A j \in 1..Len(s) : /\ s[j] \in Addrs
                           /\ inst[s[j]] = instant[s[j]]
                           /\ st[s[j]] = stamp[s[j]]
      BY SMT DEF ListContains
<1> QED BY <1>1 DEF Ordered, InOrder

\* Every step of the scheduler keeps its list in order.
LEMMA OrderStep ==
    ASSUME IInv, OInv, Next
    PROVE  OInv'
<1>t. /\ jobs \in Seq(Addrs) /\ instant \in [Addrs -> Instants]
      /\ stamp \in [Addrs -> Nat] /\ serial \in Nat
      /\ arg_time \in [Threads -> Instants]
      /\ cur \in [Threads -> Addrs \cup {NULL}]
      BY DEF IInv, TypeOK, Instants
<1>o. Ordered(jobs, instant, stamp) /\ \A x \in Addrs : stamp[x] <= serial
      BY DEF OInv
<1>n. jobs \in Seq(Addrs) /\ NoDup(jobs)
      BY DEF IInv, TypeOK, Data, Ownership, NoDup
<1>1. CASE UNCHANGED <<jobs, instant, stamp, serial>>
      BY <1>o, <1>1 DEF OInv
<1>2. CASE UNCHANGED vars
      BY <1>1, <1>2 DEF vars, shared, ghosts
<1>3. CASE EnvironmentStep
      BY <1>1, <1>3 DEF EnvironmentStep, SchedNew, Tick, shared, ghosts
<1>4. ASSUME NEW t \in Threads, CallStep(t) PROVE OInv'
      BY <1>1, <1>4 DEF CallStep, AtCall, LookupHandle, RunCall, WaitCall, LeapCall,
                        CleanupCall, shared, ghosts
<1>5. ASSUME NEW t \in Threads, LockMutex(t) \/ WakeUp(t) PROVE OInv'
      BY <1>1, <1>5 DEF LockMutex, WakeUp, Wake, shared, ghosts
<1>6. ASSUME NEW t \in Threads, CallbackReturn(t) PROVE OInv'
  <2>1. cur[t] \in Addrs /\ ~ListContains(jobs, cur[t])
        BY <1>6, <1>t DEF IInv, Data, Ownership, Control, CallbackReturn, Listed
  <2>2. /\ instant' = [instant EXCEPT ![cur[t]] = INVALID]
        /\ stamp' = [stamp EXCEPT ![cur[t]] = 0]
        /\ UNCHANGED <<jobs, serial>>
        BY <1>6 DEF CallbackReturn, Free
  <2>3. Ordered(jobs, instant', stamp')
        BY <1>t, <1>o, <2>1, <2>2, SameOrder
  <2>4. \A x \in Addrs : stamp'[x] <= serial'
        BY SMT, <1>t, <1>o, <2>2
  <2> QED BY <2>2, <2>3, <2>4 DEF OInv
<1>7. ASSUME NEW t \in Threads, Section(t) PROVE OInv'
  <2>1. CASE AtFail(t) \/ JobGone(t) \/ NullHandleDereference(t) \/ DetachBody(t)
             \/ RunReturn(t) \/ Sleep(t) \/ WaitReturn(t)
        BY <1>1, <2>1
        DEF AtFail, JobGone, NullHandleDereference, DetachBody, RunReturn, Sleep,
            WaitReturn, shared, ghosts
  <2>2. ASSUME NEW a \in Addrs, AtSchedule(t, a) PROVE OInv'
    <3> DEFINE old == IF arg_handle[t] = NULL THEN NULL ELSE handle[arg_handle[t]]
               rest == IF old = NULL THEN jobs ELSE Without(jobs, old)
    <3>1. ~ListContains(jobs, a)
          BY <2>2 DEF IInv, Data, Ownership, AtSchedule, Listed
    <3>2. old # NULL => ListContains(jobs, old)
          BY SMT DEF IInv, TypeOK, Data, HandleConsistency, Listed
    <3>3. /\ jobs' = ScheduleJob(rest, a, arg_time[t])
          /\ instant' = [x \in Addrs |-> IF x = a THEN arg_time[t]
                                         ELSE IF x = old THEN INVALID
                                         ELSE instant[x]]
          /\ stamp' = [x \in Addrs |-> IF x = a THEN serial + 1
                                       ELSE IF x = old THEN 0 ELSE stamp[x]]
          /\ serial' = serial + 1
          BY <2>2 DEF AtSchedule
    <3> HIDE DEF old
    <3>4. /\ rest \in Seq(Addrs) /\ Ordered(rest, instant, stamp)
          /\ \A x : ListContains(rest, x) => ListContains(jobs, x) /\ x # old
      <4>1. CASE old = NULL
        <5>1. ~ListContains(jobs, NULL)
              BY SMT, <1>t, NullAssumption DEF ListContains
        <5> QED BY <1>t, <1>o, <4>1, <5>1
      <4>2. CASE old # NULL
        <5>1. /\ Without(jobs, old) \in Seq(Addrs)
              /\ \A x : ListContains(Without(jobs, old), x)
                          <=> ListContains(jobs, x) /\ x # old
              BY <1>n, <3>2, <4>2, WithoutFacts
        <5>2. Ordered(Without(jobs, old), instant, stamp)
              BY <1>t, <1>o, <3>2, <4>2, DetachOrdered
        <5> QED BY <4>2, <5>1, <5>2
      <4> QED BY <4>1, <4>2
    <3> HIDE DEF rest
    <3>5. Ordered(ScheduleJob(rest, a, arg_time[t]), instant', stamp')
      <4>1. \A x \in Addrs : stamp[x] < serial + 1
            BY SMT, <1>t, <1>o
      <4>2. instant'[a] = arg_time[t] /\ stamp'[a] = serial + 1
            BY <3>3
      <4>3. \A x \in Addrs : ListContains(rest, x) =>
               instant'[x] = instant[x] /\ stamp'[x] = stamp[x]
            BY <3>1, <3>3, <3>4
      <4>4. arg_time[t] \in Instants /\ serial + 1 \in Nat
            BY SMT, <1>t
      <4> QED BY <1>t, <3>4, <4>1, <4>2, <4>3, <4>4, ScheduleOrdered
    <3>6. \A x \in Addrs : stamp'[x] <= serial'
          BY SMT, <1>t, <1>o, <3>3
    <3> QED BY <3>3, <3>5, <3>6 DEF OInv
  <2>3. CASE DelBody(t)
    <3>1. /\ ListContains(jobs, seen[t]) /\ jobs' = Without(jobs, seen[t])
          /\ instant' = [instant EXCEPT ![seen[t]] = INVALID]
          /\ stamp' = [stamp EXCEPT ![seen[t]] = 0]
          /\ serial' = serial
          BY <2>3 DEF DelBody, Free, Listed
    <3>2. /\ jobs' \in Seq(Addrs)
          /\ \A x : ListContains(jobs', x) <=> ListContains(jobs, x) /\ x # seen[t]
          BY <2>3, DelList DEF Listed
    <3>3. Ordered(jobs', instant, stamp)
          BY <1>t, <1>o, <3>1, DetachOrdered
    <3>4. Ordered(jobs', instant', stamp')
          BY <1>t, <3>1, <3>2, <3>3, SameOrder
    <3>5. \A x \in Addrs : stamp'[x] <= serial'
          BY SMT, <1>t, <1>o, <3>1
    <3> QED BY <3>4, <3>5 DEF OInv
  <2>4. CASE ReschedBody(t)
    <3> DEFINE a == seen[t]
               rest == Without(jobs, a)
    <3>1. /\ ListContains(jobs, a)
          /\ jobs' = ScheduleJob(rest, a, arg_time[t])
          /\ instant' = [instant EXCEPT ![a] = arg_time[t]]
          /\ stamp' = [stamp EXCEPT ![a] = serial + 1]
          /\ serial' = serial + 1
          BY <2>4 DEF ReschedBody, Listed
    <3>2. a \in Addrs
          BY SMT, <1>t, <3>1 DEF ListContains
    <3> HIDE DEF a
    <3>3. /\ rest \in Seq(Addrs)
          /\ \A x : ListContains(rest, x) <=> ListContains(jobs, x) /\ x # a
          BY <1>n, <3>1, WithoutFacts
    <3>4. Ordered(rest, instant, stamp)
          BY <1>t, <1>o, <3>1, DetachOrdered
    <3> HIDE DEF rest
    <3>5. Ordered(ScheduleJob(rest, a, arg_time[t]), instant', stamp')
      <4>1. \A x \in Addrs : stamp[x] < serial + 1
            BY SMT, <1>t, <1>o
      <4>2. instant'[a] = arg_time[t] /\ stamp'[a] = serial + 1
            BY <1>t, <3>1, <3>2
      <4>3. \A x \in Addrs : ListContains(rest, x) =>
               instant'[x] = instant[x] /\ stamp'[x] = stamp[x]
            BY <1>t, <3>1, <3>3
      <4>4. arg_time[t] \in Instants /\ serial + 1 \in Nat
            BY SMT, <1>t
      <4> QED BY <1>t, <3>2, <3>3, <3>4, <4>1, <4>2, <4>3, <4>4, ScheduleOrdered
    <3>6. \A x \in Addrs : stamp'[x] <= serial'
          BY SMT, <1>t, <1>o, <3>1
    <3> QED BY <3>1, <3>5, <3>6 DEF OInv
  <2>5. CASE FetchJob(t)
    <3>1. jobs # <<>> /\ jobs' = Tail(jobs) /\ UNCHANGED <<instant, stamp, serial>>
          BY <2>5 DEF FetchJob, Due, ghosts
    <3>2. Ordered(jobs', instant', stamp')
          BY <1>t, <1>o, <3>1, TailOrdered
    <3> QED BY <1>o, <3>1, <3>2 DEF OInv
  <2>6. CASE LeapBody(t)
    <3>1. arg_time[t] = INVALID
          BY <2>6 DEF IInv, Control, LeapBody, InSection
    <3>2. /\ UNCHANGED <<jobs, stamp, serial>>
          /\ \A x \in Addrs : Listed(x) => instant'[x] = INVALID
          BY <2>6, <3>1 DEF LeapBody, TimeAdd, Valid
    <3>3. \A j \in 1..Len(jobs) : instant'[jobs[j]] = INVALID
          BY SMT, <1>t, <3>2 DEF Listed, ListContains
    <3>4. Ordered(jobs, instant', stamp')
          BY <3>3 DEF Ordered, InOrder, Before, Valid
    <3> QED BY <1>o, <3>2, <3>4 DEF OInv
  <2>7. CASE ClearJobs(t)
    <3>1. /\ jobs' = <<>> /\ serial' = serial
          /\ stamp' = [a \in Addrs |-> IF a \in {b \in Addrs : Listed(b)} THEN 0
                                       ELSE stamp[a]]
          BY <2>7 DEF ClearJobs
    <3>2. Ordered(jobs', instant', stamp')
          BY SMT, <3>1 DEF Ordered
    <3>3. \A x \in Addrs : stamp'[x] <= serial'
          BY SMT, <1>t, <1>o, <3>1
    <3> QED BY <3>2, <3>3 DEF OInv
  <2> QED BY <1>7, <2>1, <2>2, <2>3, <2>4, <2>5, <2>6, <2>7 DEF Section
<1> QED BY <1>2, <1>3, <1>4, <1>5, <1>6, <1>7, StepCases

\* The invariant of the order holds in every state of the scheduler.
THEOREM OInvHolds == Spec => []OInv
<1>1. Init => OInv
  <2> SUFFICES ASSUME Init PROVE OInv
      OBVIOUS
  <2>1. Ordered(jobs, instant, stamp)
        BY SMT DEF Init, Ordered
  <2> QED BY SMT, <2>1 DEF Init, OInv
<1>2. IInv /\ OInv /\ [Next]_vars => OInv'
  <2>1. ASSUME OInv, UNCHANGED vars PROVE OInv'
        BY <2>1 DEF OInv, vars, shared, ghosts
  <2> QED BY <2>1, OrderStep
<1> QED BY <1>1, <1>2, IInvHolds, PTL DEF Spec

\* The list is in the order of execution, whatever is scheduled, replaced,
\* rescheduled, deleted or leapt over in between.
THEOREM AlwaysInOrder == Spec => []ExecutionOrder
<1>1. OInv => ExecutionOrder
      BY DEF OInv, Ordered, InOrder, ExecutionOrder
<1> QED BY <1>1, OInvHolds, PTL

-----------------------------------------------------------------------------
(***************************************************************************)
(* The horizon of avs_sched_run: a thread has one exactly while it is in   *)
(* that call, that is, in a callback or on its way to the next job.        *)
(***************************************************************************)
Running(t) == cur[t] # NULL \/ (op[t] = "fetch" /\ pc[t] \in {"lock", "locked"})

HInv == \A t \in Threads : run_now[t] # INVALID => Running(t)

\* A thread that does not start avs_sched_run keeps its horizon or gives it up.
LEMMA HorizonMoves ==
    ASSUME IInv, HInv, NEW t \in Threads,
           \A u \in Threads : u # t => UNCHANGED <<run_now[u], cur[u], op[u], pc[u]>>,
           run_now'[t] # INVALID =>
               (cur'[t] # NULL \/ (op'[t] = "fetch" /\ pc'[t] \in {"lock", "locked"}))
    PROVE  HInv'
BY DEF HInv, Running

\* What one step of the scheduler does to the horizons, and which jobs it
\* starts to execute.
KeepsHorizon ==
    \A t \in Threads :
        /\ cur'[t] # cur[t] /\ cur'[t] # NULL => ~Before(run_now[t], instant[cur'[t]])
        /\ run_now'[t] # run_now[t] => run_now[t] = INVALID \/ run_now'[t] = INVALID

\* Every step of the scheduler keeps the horizons of the runs in progress.
LEMMA HorizonStep ==
    ASSUME IInv, HInv, Next
    PROVE  HInv' /\ KeepsHorizon
<1>t. /\ run_now \in [Threads -> Instants] /\ cur \in [Threads -> Addrs \cup {NULL}]
      /\ pc \in [Threads -> Pcs] /\ op \in [Threads -> Calls] /\ now \in Time
      /\ instant \in [Addrs -> Instants] /\ jobs \in Seq(Addrs)
      BY DEF IInv, TypeOK, Instants
<1> DEFINE Goal == HInv' /\ KeepsHorizon
<1>1. CASE UNCHANGED <<run_now, cur, op, pc>>
      BY <1>1 DEF HInv, Running, KeepsHorizon
<1>2. CASE UNCHANGED vars
      BY <1>1, <1>2 DEF vars, locals
<1>3. CASE EnvironmentStep
      BY <1>1, <1>3 DEF EnvironmentStep, SchedNew, Tick, locals
<1>4. ASSUME NEW t \in Threads, NEW p, NEW o,
             pc' = [pc EXCEPT ![t] = p], op' = [op EXCEPT ![t] = o],
             UNCHANGED <<run_now, cur>>,
             cur[t] # NULL \/ op[t] # "fetch" \/ (o = "fetch" /\ p \in {"lock", "locked"})
      PROVE  Goal
  <2>1. run_now'[t] # INVALID =>
           cur'[t] # NULL \/ (op'[t] = "fetch" /\ pc'[t] \in {"lock", "locked"})
        BY <1>4, <1>t DEF HInv, Running
  <2>2. \A u \in Threads : u # t => UNCHANGED <<run_now[u], cur[u], op[u], pc[u]>>
        BY <1>4, <1>t
  <2>3. HInv'
        BY <2>1, <2>2, HorizonMoves
  <2> QED BY <1>4, <2>3 DEF KeepsHorizon
<1>5. ASSUME NEW t \in Threads, CallStep(t) PROVE Goal
  <2>1. ASSUME NEW o, NEW h, NEW time, Call(t, o, h, time), UNCHANGED <<run_now, cur>>,
               MayCall(t)
        PROVE  Goal
    <3>1. cur[t] # NULL \/ pc[t] = "idle"
          BY <2>1 DEF IInv, Control, MayCall
    <3>2. CASE cur[t] # NULL
          BY <1>4, <2>1, <3>2 DEF Call
    <3>3. CASE pc[t] = "idle"
      <4>1. run_now[t] = INVALID
            BY <3>3 DEF HInv, Running, IInv, Control
      <4>2. \A u \in Threads : u # t => UNCHANGED <<run_now[u], cur[u], op[u], pc[u]>>
            BY <1>t, <2>1 DEF Call
      <4>3. HInv'
            BY <2>1, <4>1, <4>2, HorizonMoves
      <4> QED BY <2>1, <4>3 DEF KeepsHorizon
    <3> QED BY <3>1, <3>2, <3>3
  <2>2. ASSUME NEW h, NEW at, AtCall(t, h, at) PROVE Goal
        BY <2>1, <2>2 DEF AtCall
  <2>3. ASSUME NEW o, NEW h, NEW time, LookupHandle(t, o, h, time) PROVE Goal
    <3>1. CASE handle[h] = NULL
          BY <1>1, <2>3, <3>1 DEF LookupHandle
    <3>2. CASE handle[h] # NULL
          BY <2>1, <2>3, <3>2 DEF LookupHandle
    <3> QED BY <3>1, <3>2
  <2>4. ASSUME NEW deadline, WaitCall(t, deadline) PROVE Goal
        BY <2>1, <2>4 DEF WaitCall, MayCall
  <2>5. ASSUME NEW diff, LeapCall(t, diff) PROVE Goal
    <3>1. CASE Valid(diff)
          BY <1>1, <2>5, <3>1 DEF LeapCall
    <3>2. CASE ~Valid(diff)
          BY <2>1, <2>5, <3>2 DEF LeapCall
    <3> QED BY <3>1, <3>2
  <2>6. CASE RunCall(t) \/ CleanupCall(t)
    <3>1. /\ StartRun(t) /\ cur' = cur /\ pc[t] = "idle"
          BY <2>6 DEF RunCall, CleanupCall
    <3>2. run_now[t] = INVALID
          BY <3>1 DEF HInv, Running, IInv, Control
    <3>3. /\ op'[t] = "fetch" /\ pc'[t] = "lock"
          /\ \A u \in Threads : u # t => UNCHANGED <<run_now[u], cur[u], op[u], pc[u]>>
          BY <1>t, <3>1 DEF StartRun
    <3>4. HInv'
          BY <3>3, HorizonMoves
    <3> QED BY <3>1, <3>2, <3>3, <3>4 DEF KeepsHorizon
  <2> QED BY <1>5, <2>2, <2>3, <2>4, <2>5, <2>6 DEF CallStep
<1>6. ASSUME NEW t \in Threads, LockMutex(t) PROVE Goal
  <2>1. /\ pc' = [pc EXCEPT ![t] = "locked"] /\ op' = [op EXCEPT ![t] = op[t]]
        /\ UNCHANGED <<run_now, cur>>
        BY <1>6, <1>t DEF LockMutex
  <2> QED BY <1>4, <2>1
<1>7. ASSUME NEW t \in Threads, WakeUp(t) PROVE Goal
  <2>1. /\ pc' = [pc EXCEPT ![t] = "lock"] /\ op' = [op EXCEPT ![t] = op[t]]
        /\ UNCHANGED <<run_now, cur>>
        BY <1>7, <1>t DEF WakeUp, Wake
  <2> QED BY <1>4, <2>1
<1>8. ASSUME NEW t \in Threads, CallbackReturn(t) PROVE Goal
  <2>1. /\ cur' = [cur EXCEPT ![t] = NULL] /\ run_now' = run_now
        /\ pc' = [pc EXCEPT ![t] = "lock"] /\ op' = [op EXCEPT ![t] = "fetch"]
        BY <1>8 DEF CallbackReturn
  <2>2. /\ op'[t] = "fetch" /\ pc'[t] = "lock" /\ cur'[t] = NULL
        /\ \A u \in Threads : u # t => UNCHANGED <<run_now[u], cur[u], op[u], pc[u]>>
        BY <1>t, <2>1
  <2>3. HInv'
        BY <2>2, HorizonMoves
  <2> QED BY <2>1, <2>2, <2>3 DEF KeepsHorizon
<1>9. ASSUME NEW t \in Threads, Section(t) PROVE Goal
  <2>1. CASE UnlockAndReturn(t) /\ op[t] # "fetch" /\ UNCHANGED <<run_now, cur>>
        BY <1>4, <2>1 DEF UnlockAndReturn, Return
  <2>2. CASE AtFail(t) \/ JobGone(t) \/ DelBody(t) \/ DetachBody(t) \/ ReschedBody(t)
             \/ WaitReturn(t) \/ LeapBody(t)
        BY <2>1, <2>2 DEF AtFail, JobGone, DelBody, DetachBody, ReschedBody, WaitReturn,
                          LeapBody, InSection
  <2>3. ASSUME NEW a \in Addrs, AtSchedule(t, a) PROVE Goal
        BY <2>1, <2>3 DEF AtSchedule, InSection
  <2>4. CASE NullHandleDereference(t) \/ Sleep(t)
    <3>1. PICK p \in {"crashed", "sleep"} :
             /\ pc' = [pc EXCEPT ![t] = p] /\ op' = [op EXCEPT ![t] = op[t]]
             /\ UNCHANGED <<run_now, cur>> /\ op[t] # "fetch"
          BY <2>4, <1>t DEF NullHandleDereference, Sleep, InSection
    <3> QED BY <1>4, <3>1
  <2>5. CASE FetchJob(t)
    <3>1. /\ cur' = [cur EXCEPT ![t] = Head(jobs)] /\ run_now' = run_now
          /\ pc' = [pc EXCEPT ![t] = "callback"] /\ op' = [op EXCEPT ![t] = "none"]
          /\ Before(instant[Head(jobs)], run_now[t])
          BY <2>5 DEF FetchJob, Due
    <3>2. Head(jobs) \in Addrs
          BY <2>5, FetchList
    <3>3. /\ cur'[t] = Head(jobs) /\ cur'[t] # NULL
          /\ \A u \in Threads : u # t => UNCHANGED <<run_now[u], cur[u], op[u], pc[u]>>
          BY <1>t, <3>1, <3>2, NullAssumption
    <3>4. HInv'
          BY <3>3, HorizonMoves
    <3>5. ~Before(run_now[t], instant[cur'[t]])
          BY SMTT(30), <1>t, <3>1, <3>2, <3>3, TimeAssumption DEF Before, Valid, Instants, Time
    <3> QED BY <3>1, <3>3, <3>4, <3>5 DEF KeepsHorizon
  <2>6. CASE RunReturn(t)
    <3>1. /\ run_now'[t] = INVALID /\ cur' = cur
          /\ \A u \in Threads : u # t => UNCHANGED <<run_now[u], cur[u], op[u], pc[u]>>
          BY <1>t, <2>6 DEF RunReturn
    <3>2. HInv'
          BY <3>1, HorizonMoves
    <3> QED BY <3>1, <3>2 DEF KeepsHorizon
  <2>7. CASE ClearJobs(t)
    <3>1. /\ pc' = [pc EXCEPT ![t] = "idle"] /\ UNCHANGED <<run_now, cur, op>>
          /\ pc[t] = "clear"
          BY <2>7 DEF ClearJobs
    <3>2. run_now[t] = INVALID
          BY <3>1 DEF HInv, Running, IInv, Control
    <3>3. \A u \in Threads : u # t => UNCHANGED <<run_now[u], cur[u], op[u], pc[u]>>
          BY <1>t, <3>1
    <3>4. HInv'
          BY <3>1, <3>2, <3>3, HorizonMoves
    <3> QED BY <3>1, <3>4 DEF KeepsHorizon
  <2> QED BY <1>9, <2>2, <2>3, <2>4, <2>5, <2>6, <2>7 DEF Section
<1> QED BY <1>2, <1>3, <1>5, <1>6, <1>7, <1>8, <1>9, StepCases

\* One avs_sched_run executes no job for later than its entry, and its horizon
\* does not move while callbacks take time.
THEOREM HorizonIsKept == Spec => RunKeepsItsHorizon
<1>1. Init => HInv
      BY DEF Init, HInv
<1>2. IInv /\ HInv /\ [Next]_vars => HInv'
  <2>1. ASSUME HInv, UNCHANGED vars PROVE HInv'
        BY <2>1 DEF HInv, Running, vars, locals
  <2> QED BY <2>1, HorizonStep
<1>3. IInv /\ HInv /\ [Next]_vars
        => [\A t \in Threads :
               /\ cur'[t] # cur[t] /\ cur'[t] # NULL
                     => ~Before(run_now[t], instant[cur'[t]])
               /\ run_now'[t] # run_now[t]
                     => run_now[t] = INVALID \/ run_now'[t] = INVALID]_vars
      BY HorizonStep DEF KeepsHorizon
<1> QED BY <1>1, <1>2, <1>3, IInvHolds, PTL DEF Spec, RunKeepsItsHorizon

-----------------------------------------------------------------------------
(***************************************************************************)
(* No lost wake-up.  Without avs_sched_leap_time on an invalid duration    *)
(* every listed job has a valid instant, and so has every job about to be  *)
(* listed; then a list that loses a job gets no earlier first job.         *)
(***************************************************************************)
ValidArguments ==
    \A t \in Threads : /\ op[t] \in {"at", "resched"} => arg_time[t] # INVALID
                       /\ op[t] # "leap"

WInv == NoLostWakeup /\ ScheduledInstantsValid /\ ValidArguments

\* The first job of a list in order is for no later than the others.
LEMMA FirstIsEarliest ==
    ASSUME IInv, OInv, ScheduledInstantsValid,
           jobs' # <<>>, jobs' \in Seq(Addrs),
           \A x : ListContains(jobs', x) => ListContains(jobs, x),
           \A x \in Addrs : ListContains(jobs', x) => instant'[x] = instant[x]
    PROVE  /\ Valid(TimeOfNext) /\ Valid(TimeOfNext')
           /\ TimeOfNext \in Time /\ TimeOfNext' \in Time
           /\ TimeOfNext <= TimeOfNext'
<1>1. jobs \in Seq(Addrs) /\ instant \in [Addrs -> Instants]
      BY DEF IInv, TypeOK, Instants
<1> DEFINE h == Head(jobs')
<1>2. h \in Addrs /\ ListContains(jobs', h)
      BY SMT DEF ListContains
<1> HIDE DEF h
<1>3. PICK k \in 1..Len(jobs) : jobs[k] = h
      BY <1>2 DEF ListContains
<1>4. jobs # <<>> /\ Head(jobs) = jobs[1] /\ 1 \in 1..Len(jobs)
      BY SMT, <1>1, <1>3
<1>5. TimeOfNext = instant[jobs[1]] /\ TimeOfNext' = instant'[h]
      BY <1>4 DEF TimeOfNext, h
<1>6. instant'[h] = instant[jobs[k]]
      BY <1>2, <1>3
<1>7. Valid(instant[jobs[1]]) /\ Valid(instant[jobs[k]])
      BY <1>3, <1>4 DEF ScheduledInstantsValid
<1>8. k = 1 \/ ~Before(instant[jobs[k]], instant[jobs[1]])
      BY SMT, <1>4 DEF OInv, Ordered, InOrder
<1>9. instant[jobs[1]] \in Time /\ instant[jobs[k]] \in Time
      BY SMTT(30), <1>1, <1>4, <1>7 DEF Instants, Valid
<1>10. instant[jobs[1]] <= instant[jobs[k]]
      BY SMTT(30), <1>7, <1>8, <1>9, TimeAssumption DEF Before, Time
<1> QED BY <1>5, <1>6, <1>7, <1>9, <1>10

\* A step that makes nobody sleep and no first job earlier.
LEMMA StillAwaited ==
    ASSUME NoLostWakeup, TypeOK,
           \A t \in Threads : pc'[t] = "sleep" /\ t \notin notified' =>
               /\ pc[t] = "sleep" /\ t \notin notified
               /\ local_deadline'[t] = local_deadline[t],
           Valid(TimeOfNext') =>
               /\ Valid(TimeOfNext) /\ TimeOfNext \in Time /\ TimeOfNext' \in Time
               /\ TimeOfNext <= TimeOfNext'
    PROVE  NoLostWakeup'
<1> SUFFICES ASSUME NEW t \in Threads, pc'[t] = "sleep", t \notin notified',
                    Valid(TimeOfNext')
             PROVE  Valid(local_deadline'[t]) /\ local_deadline'[t] <= TimeOfNext'
    BY DEF NoLostWakeup
<1>1. /\ local_deadline'[t] = local_deadline[t]
      /\ Valid(local_deadline[t]) /\ local_deadline[t] <= TimeOfNext
      BY DEF NoLostWakeup
<1>2. local_deadline[t] \in Time
      BY <1>1 DEF TypeOK, Valid
<1> QED BY SMT, <1>1, <1>2, TimeAssumption DEF Time

\* Every step of the scheduler that leaps over no invalid duration keeps the
\* sleepers right.
LEMMA WakeupStep ==
    ASSUME INVALID \notin LeapDiffs, IInv, IInv', OInv, WInv, Next
    PROVE  WInv'
<1>t. TypeOK /\ jobs \in Seq(Addrs) /\ instant \in [Addrs -> Instants]
      /\ pc \in [Threads -> Pcs] /\ op \in [Threads -> Calls]
      /\ arg_time \in [Threads -> Instants]
      BY DEF IInv, TypeOK, Instants
<1>w. NoLostWakeup /\ ScheduledInstantsValid /\ ValidArguments
      BY DEF WInv
<1>next. ASSUME UNCHANGED <<jobs, instant>>
         PROVE  /\ ScheduledInstantsValid' /\ TimeOfNext' = TimeOfNext
                /\ Valid(TimeOfNext') => /\ Valid(TimeOfNext) /\ TimeOfNext \in Time
                                         /\ TimeOfNext' \in Time
                                         /\ TimeOfNext <= TimeOfNext'
  <2>1. ScheduledInstantsValid' /\ TimeOfNext' = TimeOfNext
        BY <1>next, <1>w DEF ScheduledInstantsValid, TimeOfNext
  <2>2. Valid(TimeOfNext) => TimeOfNext \in Time
        BY SMT, <1>t DEF TimeOfNext, Valid, Instants
  <2> QED BY SMT, <2>1, <2>2, TimeAssumption DEF Time
<1>1. CASE UNCHANGED <<jobs, instant, pc, op, arg_time, local_deadline, notified>>
  <2>1. NoLostWakeup'
        BY <1>1, <1>t, <1>w, <1>next, StillAwaited
  <2>2. ValidArguments'
        BY <1>1, <1>w DEF ValidArguments
  <2> QED BY <1>1, <1>next, <2>1, <2>2 DEF WInv
<1>2. CASE UNCHANGED vars \/ EnvironmentStep
      BY <1>1, <1>2 DEF EnvironmentStep, SchedNew, Tick, vars, shared, locals
<1>quiet. ASSUME NEW t \in Threads, NEW p, p # "sleep", pc' = [pc EXCEPT ![t] = p],
                 UNCHANGED <<jobs, instant>>,
                 local_deadline' = local_deadline \/ pc[t] = "sleep",
                 \A u \in Threads : u # t => local_deadline'[u] = local_deadline[u],
                 \A u \in Threads : u # t => (u \in notified' <=> u \in notified),
                 ValidArguments'
          PROVE  WInv'
  <2>1. \A u \in Threads : pc'[u] = "sleep" /\ u \notin notified' =>
            /\ pc[u] = "sleep" /\ u \notin notified
            /\ local_deadline'[u] = local_deadline[u]
        BY <1>quiet, <1>t
  <2>2. NoLostWakeup'
        BY <1>quiet, <1>t, <1>w, <1>next, <2>1, StillAwaited
  <2> QED BY <1>quiet, <1>next, <2>2 DEF WInv
<1>3. ASSUME NEW t \in Threads, StartCall(t) PROVE WInv'
  <2>1. ASSUME NEW o, NEW h, NEW time, Call(t, o, h, time), o # "leap",
               o \in {"at", "resched"} => time # INVALID,
               UNCHANGED <<shared, local_deadline, notified>>
        PROVE  WInv'
    <3>1. ValidArguments'
          BY <1>t, <1>w, <2>1 DEF ValidArguments, Call
    <3> QED BY <1>quiet, <2>1, <3>1 DEF Call, shared
  <2>2. ASSUME NEW h \in Handles \cup {NULL}, NEW at \in Time, AtCall(t, h, at)
        PROVE  WInv'
    <3>1. at # INVALID
          BY SMT, TimeAssumption DEF Time
    <3> QED BY <2>1, <2>2, <3>1 DEF AtCall
  <2>3. ASSUME NEW o, o # "leap", NEW h, NEW time, LookupHandle(t, o, h, time),
               o = "resched" => time # INVALID, o # "at"
        PROVE  WInv'
    <3>1. CASE handle[h] = NULL
          BY <1>1, <2>3, <3>1 DEF LookupHandle, shared
    <3>2. CASE handle[h] # NULL
          BY <2>1, <2>3, <3>2 DEF LookupHandle
    <3> QED BY <3>1, <3>2
  <2>4. ASSUME NEW h \in Handles, DelCall(t, h) \/ DetachCall(t, h) PROVE WInv'
        BY <2>3, <2>4 DEF DelCall, DetachCall
  <2>5. ASSUME NEW h \in Handles, NEW at \in Time, ReschedCall(t, h, at) PROVE WInv'
    <3>1. at # INVALID
          BY SMT, TimeAssumption DEF Time
    <3> QED BY <2>3, <2>5, <3>1 DEF ReschedCall
  <2>6. ASSUME NEW deadline, WaitCall(t, deadline) PROVE WInv'
        BY <2>1, <2>6 DEF WaitCall
  <2>7. ASSUME NEW diff \in LeapDiffs, LeapCall(t, diff) PROVE WInv'
    <3>1. Valid(diff)
          BY DEF Valid
    <3> QED BY <1>1, <2>7, <3>1 DEF LeapCall, shared
  <2>8. CASE RunCall(t) \/ CleanupCall(t)
    <3>1. /\ pc' = [pc EXCEPT ![t] = "lock"] /\ op' = [op EXCEPT ![t] = "fetch"]
          /\ UNCHANGED <<jobs, instant, arg_time, local_deadline, notified>>
          BY <2>8 DEF RunCall, CleanupCall, StartRun, shared
    <3>2. ValidArguments'
          BY <1>t, <1>w, <3>1 DEF ValidArguments
    <3> QED BY <1>quiet, <3>1, <3>2
  <2> QED BY <1>3, <2>2, <2>4, <2>5, <2>6, <2>7, <2>8 DEF StartCall
<1>4. ASSUME NEW t \in Threads, LockMutex(t) PROVE WInv'
  <2>1. ValidArguments'
        BY <1>4, <1>w DEF ValidArguments, LockMutex
  <2> QED BY <1>4, <1>quiet, <2>1 DEF LockMutex
<1>5. ASSUME NEW t \in Threads, WakeUp(t) PROVE WInv'
  <2>1. /\ pc' = [pc EXCEPT ![t] = "lock"] /\ pc[t] = "sleep"
        /\ UNCHANGED <<jobs, instant, op, arg_time>>
        /\ local_deadline' = [local_deadline EXCEPT ![t] = INVALID]
        /\ notified' = notified \ {t}
        BY <1>5 DEF WakeUp, Wake, shared
  <2>2. ValidArguments'
        BY <2>1, <1>w DEF ValidArguments
  <2>3. \A u \in Threads : u # t => local_deadline'[u] = local_deadline[u]
        BY <2>1, <1>t DEF TypeOK
  <2> QED BY <1>quiet, <2>1, <2>2, <2>3
<1>loses. ASSUME NEW t \in Threads, NEW p, p # "sleep", pc' = [pc EXCEPT ![t] = p],
                 UNCHANGED <<local_deadline, notified>>, ValidArguments',
                 \A x : ListContains(jobs', x) => ListContains(jobs, x),
                 \A x \in Addrs : ListContains(jobs', x) => instant'[x] = instant[x]
          PROVE  WInv'
  <2>1. jobs' \in Seq(Addrs)
        BY DEF IInv, TypeOK
  <2>2. ScheduledInstantsValid'
    <3> SUFFICES ASSUME NEW i \in 1..Len(jobs') PROVE Valid(instant'[jobs'[i]])
        BY DEF ScheduledInstantsValid
    <3>1. jobs'[i] \in Addrs /\ ListContains(jobs', jobs'[i])
          BY SMT, <2>1 DEF ListContains
    <3>2. ListContains(jobs, jobs'[i]) /\ instant'[jobs'[i]] = instant[jobs'[i]]
          BY <1>loses, <3>1
    <3> QED BY <1>w, <3>2 DEF ScheduledInstantsValid, ListContains
  <2>3. Valid(TimeOfNext') => /\ Valid(TimeOfNext) /\ TimeOfNext \in Time
                              /\ TimeOfNext' \in Time /\ TimeOfNext <= TimeOfNext'
    <3>1. CASE jobs' = <<>>
          BY <3>1 DEF TimeOfNext, Valid
    <3>2. CASE jobs' # <<>>
          BY <1>loses, <1>w, <2>1, <3>2, FirstIsEarliest
    <3> QED BY <3>1, <3>2
  <2>4. \A u \in Threads : pc'[u] = "sleep" /\ u \notin notified' =>
            /\ pc[u] = "sleep" /\ u \notin notified
            /\ local_deadline'[u] = local_deadline[u]
        BY <1>loses, <1>t
  <2>5. NoLostWakeup'
        BY <1>t, <1>w, <2>3, <2>4, StillAwaited
  <2> QED BY <1>loses, <2>2, <2>5 DEF WInv
<1>6. ASSUME NEW t \in Threads, CallbackReturn(t) PROVE WInv'
  <2>1. /\ cur[t] # NULL => ~ListContains(jobs, cur[t])
        /\ cur[t] # NULL
        BY <1>6 DEF IInv, Data, Ownership, Control, CallbackReturn, Listed
  <2>2. /\ instant' = [instant EXCEPT ![cur[t]] = INVALID]
        /\ pc' = [pc EXCEPT ![t] = "lock"] /\ op' = [op EXCEPT ![t] = "fetch"]
        /\ UNCHANGED <<jobs, arg_time, local_deadline, notified>>
        BY <1>6 DEF CallbackReturn, Free
  <2>3. ValidArguments'
        BY <2>2, <1>t, <1>w DEF ValidArguments
  <2>4. \A x \in Addrs : ListContains(jobs', x) => instant'[x] = instant[x]
        BY <1>t, <2>1, <2>2
  <2> QED BY <1>loses, <2>2, <2>3, <2>4
<1>7. ASSUME NEW t \in Threads, Section(t) PROVE WInv'
  <2>ret. ASSUME UnlockAndReturn(t)
          PROVE  /\ ValidArguments' /\ Base(t) # "sleep"
                 /\ pc' = [pc EXCEPT ![t] = Base(t)]
          BY <2>ret, <1>t, <1>w DEF ValidArguments, UnlockAndReturn, Return, Base
  <2>1. CASE AtFail(t) \/ JobGone(t) \/ DetachBody(t) \/ WaitReturn(t)
    <3>1. UnlockAndReturn(t) /\ UNCHANGED <<jobs, instant, local_deadline, notified>>
          BY <2>1 DEF AtFail, JobGone, DetachBody, WaitReturn
    <3> QED BY <1>quiet, <2>ret, <3>1
  <2>2. CASE LeapBody(t)
        BY <1>w, <2>2 DEF ValidArguments, LeapBody, InSection
  <2>3. CASE NullHandleDereference(t) \/ RunReturn(t)
    <3>1. PICK p \in {"crashed", "clear", "idle"} : pc' = [pc EXCEPT ![t] = p]
          BY <2>3 DEF NullHandleDereference, RunReturn
    <3>2. /\ UNCHANGED <<jobs, instant, arg_time, local_deadline, notified>>
          /\ op' = op \/ op' = [op EXCEPT ![t] = "none"]
          BY <2>3 DEF NullHandleDereference, RunReturn, shared
    <3>3. ValidArguments'
          BY <1>t, <1>w, <3>2 DEF ValidArguments
    <3> QED BY <1>quiet, <3>1, <3>2, <3>3
  <2>4. CASE Sleep(t)
    <3>1. /\ pc' = [pc EXCEPT ![t] = "sleep"]
          /\ UNCHANGED <<jobs, instant, op, arg_time, notified>>
          /\ local_deadline' = [local_deadline EXCEPT ![t] = LocalDeadline(arg_time[t])]
          BY <2>4 DEF Sleep
    <3>2. ValidArguments'
          BY <1>w, <3>1 DEF ValidArguments
    <3>3. ScheduledInstantsValid' /\ TimeOfNext' = TimeOfNext
          BY <1>next, <3>1
    <3>4. NoLostWakeup'
      <4> SUFFICES ASSUME NEW u \in Threads, pc'[u] = "sleep", u \notin notified',
                          Valid(TimeOfNext')
                   PROVE  Valid(local_deadline'[u]) /\ local_deadline'[u] <= TimeOfNext'
          BY DEF NoLostWakeup
      <4>1. CASE u # t
        <5>1. pc[u] = "sleep" /\ u \notin notified /\ local_deadline'[u] = local_deadline[u]
              BY <1>t, <3>1, <4>1 DEF TypeOK
        <5> QED BY <1>w, <3>3, <5>1 DEF NoLostWakeup
      <4>2. CASE u = t
        <5>1. local_deadline'[t] = LocalDeadline(arg_time[t])
              BY <1>t, <3>1 DEF TypeOK
        <5>2. TimeOfNext \in Time
              BY <1>next, <3>1
        <5>3. arg_time[t] \in Instants
              BY <1>t
        <5>4. CASE LocalDeadline(arg_time[t]) = TimeOfNext
          <6>1. TimeOfNext \in Int
                BY SMT, <5>2 DEF Time
          <6> QED BY SMTT(30), <3>3, <4>2, <5>1, <5>4, <6>1
        <5>5. CASE LocalDeadline(arg_time[t]) # TimeOfNext
          <6>1. /\ LocalDeadline(arg_time[t]) = arg_time[t]
                /\ Before(arg_time[t], TimeOfNext)
                BY <3>3, <5>5 DEF LocalDeadline
          <6>2. Valid(arg_time[t]) /\ arg_time[t] < TimeOfNext
                BY <6>1 DEF Before
          <6>3. arg_time[t] \in Int /\ TimeOfNext \in Int
                BY SMTT(30), <5>2, <5>3, <6>2 DEF Valid, Instants, Time
          <6>4. arg_time[t] <= TimeOfNext
                BY SMTT(30), <6>2, <6>3
          <6> QED BY <3>3, <4>2, <5>1, <6>1, <6>2, <6>4
        <5> QED BY <5>4, <5>5
      <4> QED BY <4>1, <4>2
    <3> QED BY <3>2, <3>3, <3>4 DEF WInv
  <2>5. CASE DelBody(t)
    <3>1. /\ UnlockAndReturn(t) /\ UNCHANGED <<local_deadline, notified>>
          /\ instant' = [instant EXCEPT ![seen[t]] = INVALID]
          BY <2>5 DEF DelBody, Free
    <3>2. \A x : ListContains(jobs', x) <=> ListContains(jobs, x) /\ x # seen[t]
          BY <2>5, DelList DEF Listed
    <3>3. \A x \in Addrs : ListContains(jobs', x) => instant'[x] = instant[x]
          BY <1>t, <3>1, <3>2
    <3> QED BY <1>loses, <2>ret, <3>1, <3>2, <3>3
  <2>6. CASE FetchJob(t)
    <3>1. /\ pc' = [pc EXCEPT ![t] = "callback"] /\ op' = [op EXCEPT ![t] = "none"]
          /\ UNCHANGED <<instant, arg_time, local_deadline, notified>>
          BY <2>6 DEF FetchJob
    <3>2. \A x : ListContains(jobs', x) <=> ListContains(jobs, x) /\ x # Head(jobs)
          BY <2>6, FetchList DEF Listed
    <3>3. ValidArguments'
          BY <1>t, <1>w, <3>1 DEF ValidArguments
    <3> QED BY <1>loses, <3>1, <3>2, <3>3
  <2>7. CASE ClearJobs(t)
    <3>1. /\ pc' = [pc EXCEPT ![t] = "idle"] /\ jobs' = <<>>
          /\ UNCHANGED <<op, arg_time, local_deadline, notified>>
          BY <2>7 DEF ClearJobs
    <3>2. \A x : ~ListContains(jobs', x)
          BY SMT, <3>1 DEF ListContains
    <3>3. ValidArguments'
          BY <1>w, <3>1 DEF ValidArguments
    <3> QED BY <1>loses, <3>1, <3>2, <3>3
  <2>adds. ASSUME UnlockAndReturn(t), NotifyAll,
                  NEW a \in Addrs, instant'[a] # INVALID,
                  \A x : ListContains(jobs', x) => ListContains(jobs, x) \/ x = a,
                  \A x \in Addrs : ListContains(jobs', x) /\ x # a =>
                      instant'[x] = instant[x]
           PROVE  WInv'
    <3>1. NoLostWakeup'
      <4>1. \A u \in Threads : pc'[u] = "sleep" => u \in notified'
            BY <1>t, <2>adds, <2>ret DEF NotifyAll
      <4> QED BY <4>1 DEF NoLostWakeup
    <3>2. ScheduledInstantsValid'
      <4> SUFFICES ASSUME NEW i \in 1..Len(jobs') PROVE Valid(instant'[jobs'[i]])
          BY DEF ScheduledInstantsValid
      <4>0. jobs' \in Seq(Addrs)
            BY DEF IInv, TypeOK
      <4>1. jobs'[i] \in Addrs /\ ListContains(jobs', jobs'[i])
            BY SMT, <4>0 DEF ListContains
      <4>2. CASE jobs'[i] = a
            BY <2>adds, <4>2 DEF Valid
      <4>3. CASE jobs'[i] # a
        <5>1. ListContains(jobs, jobs'[i]) /\ instant'[jobs'[i]] = instant[jobs'[i]]
              BY <2>adds, <4>1, <4>3
        <5> QED BY <1>w, <5>1 DEF ScheduledInstantsValid, ListContains
      <4> QED BY <4>2, <4>3
    <3> QED BY <2>adds, <2>ret, <3>1, <3>2 DEF WInv
  <2>8. ASSUME NEW a \in Addrs, AtSchedule(t, a) PROVE WInv'
    <3> DEFINE old == IF arg_handle[t] = NULL THEN NULL ELSE handle[arg_handle[t]]
    <3>1. /\ UnlockAndReturn(t) /\ NotifyAll /\ op[t] = "at"
          /\ instant' = [x \in Addrs |-> IF x = a THEN arg_time[t]
                                         ELSE IF x = old THEN INVALID
                                         ELSE instant[x]]
          BY <2>8 DEF AtSchedule, InSection
    <3>2. \A x : ListContains(jobs', x) <=> (ListContains(jobs, x) /\ x # old) \/ x = a
          BY <2>8, AtScheduleList DEF Listed
    <3> HIDE DEF old
    <3>3. instant'[a] # INVALID
          BY <1>w, <3>1 DEF ValidArguments
    <3>4. \A x \in Addrs : ListContains(jobs', x) /\ x # a => instant'[x] = instant[x]
          BY <3>1, <3>2
    <3> QED BY <2>adds, <3>1, <3>2, <3>3, <3>4
  <2>9. CASE ReschedBody(t)
    <3>1. /\ UnlockAndReturn(t) /\ NotifyAll /\ op[t] = "resched"
          /\ instant' = [instant EXCEPT ![seen[t]] = arg_time[t]]
          /\ ListContains(jobs, seen[t])
          BY <2>9 DEF ReschedBody, InSection, Listed
    <3>2. \A x : ListContains(jobs', x) <=> ListContains(jobs, x)
          BY <2>9, ReschedList DEF Listed
    <3>3. seen[t] \in Addrs
          BY SMT, <1>t, <3>1 DEF ListContains
    <3>4. instant'[seen[t]] # INVALID
          BY <1>t, <1>w, <3>1, <3>3 DEF ValidArguments
    <3>5. \A x \in Addrs : x # seen[t] => instant'[x] = instant[x]
          BY <1>t, <3>1
    <3> QED BY <2>adds, <3>1, <3>2, <3>3, <3>4, <3>5
  <2> QED BY <1>7, <2>1, <2>2, <2>3, <2>4, <2>5, <2>6, <2>7, <2>8, <2>9 DEF Section
<1> QED BY <1>2, <1>3, <1>4, <1>5, <1>6, <1>7
        DEF Next, ThreadStep, EnvironmentStep

\* Nobody sleeps past the first job: when no job's instant is made invalid,
\* whatever is scheduled, moved or removed meanwhile, a thread asleep in
\* avs_sched_wait_until_next has been notified or wakes up in time.
THEOREM NoWakeupIsLost ==
    ASSUME INVALID \notin LeapDiffs
    PROVE  Spec => []NoLostWakeup
<1>1. Init => WInv
  <2> SUFFICES ASSUME Init PROVE WInv
      OBVIOUS
  <2>1. NoLostWakeup /\ ScheduledInstantsValid /\ ValidArguments
        BY SMT DEF Init, NoLostWakeup, ScheduledInstantsValid, ValidArguments
  <2> QED BY <2>1 DEF WInv
<1>2. IInv /\ IInv' /\ OInv /\ WInv /\ [Next]_vars => WInv'
  <2>1. ASSUME WInv, UNCHANGED vars PROVE WInv'
        BY <2>1 DEF WInv, NoLostWakeup, ScheduledInstantsValid, ValidArguments,
                    TimeOfNext, vars, shared, locals
  <2> QED BY <2>1, WakeupStep
<1>3. WInv => NoLostWakeup
      BY DEF WInv
<1> QED BY <1>1, <1>2, <1>3, IInvHolds, OInvHolds, PTL DEF Spec

=============================================================================
