---------------------------- MODULE AvsSchedLoop ----------------------------
(***************************************************************************)
(* The scheduler used the way its documentation describes: one thread      *)
(* calls avs_sched_wait_until_next without a deadline and then             *)
(* avs_sched_run, over and over, while other threads and the callbacks     *)
(* schedule, reschedule, detach and delete jobs.                           *)
(***************************************************************************)
EXTENDS AvsSched

CONSTANT Loop   \* the thread that executes the jobs

VARIABLE turn   \* what Loop does next: "wait" or "run"

loopVars == <<vars, turn>>

LoopInit == Init /\ turn = "wait"

LoopWait ==
    /\ turn = "wait"
    /\ turn' = "run"
    /\ WaitCall(Loop, INVALID)

LoopRun ==
    /\ turn = "run"
    /\ turn' = "wait"
    /\ RunCall(Loop)

\* The calls the other threads and the callbacks make.
ClientCall(t) ==
    /\ pc[t] = "callback" \/ t # Loop
    /\ \/ \E h \in Handles \cup {NULL}, at \in Time : AtCall(t, h, at)
       \/ \E h \in Handles : DelCall(t, h)
       \/ \E h \in Handles : DetachCall(t, h)
       \/ \E h \in Handles, at \in Time : ReschedCall(t, h, at)
    /\ UNCHANGED turn

\* The steps of the calls in progress, and the environment's.
Progress ==
    /\ \/ SchedNew
       \/ Tick
       \/ \E t \in Threads : \/ LockMutex(t)
                             \/ Section(t)
                             \/ CallbackReturn(t)
                             \/ WakeUp(t)
    /\ UNCHANGED turn

LoopNext ==
    \/ Crashed /\ UNCHANGED loopVars
    \/ /\ ~Crashed
       /\ \/ LoopWait
          \/ LoopRun
          \/ \E t \in Threads : ClientCall(t)
          \/ Progress

\* Besides the fairness of the scheduler, Loop keeps going.
LoopFairness ==
    /\ Fairness
    /\ WF_loopVars(~Crashed /\ LoopWait)
    /\ WF_loopVars(~Crashed /\ LoopRun)

LoopSpec == LoopInit /\ [][LoopNext]_loopVars /\ LoopFairness

Overdue(s) ==
    \E i \in 1..Len(jobs) : /\ id[jobs[i]] = s
                            /\ Before(instant[jobs[i]], now)

(***************************************************************************)
(* No job stays overdue: a job whose instant has passed is executed, or is *)
(* deleted, replaced or rescheduled by somebody.  It is what               *)
(* avs_sched_wait_until_next and avs_sched_run are for, and it needs that  *)
(* every change that makes the first job earlier wakes the sleeping loop.  *)
(***************************************************************************)
OverdueJobsAreExecuted ==
    \A s \in 1..MaxSerial : Overdue(s) ~> ~Overdue(s) \/ Crashed

\* The loop keeps up: no job stays overdue, and avs_sched_wait_until_next
\* returns when there is a job to execute.
LoopKeepsUp ==
    /\ OverdueJobsAreExecuted
    /\ WaitReturnsWhenDue

=============================================================================
