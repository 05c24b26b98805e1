----------------------------- MODULE MCThreads ------------------------------
(***************************************************************************)
(* For TLC, what avs_commons builds on atomics and what it builds on       *)
(* those: avs_init_once (module InitOnce), the spinlock mutex and condition*)
(* variable (SpinlockCondvar), and the scheduler's order of execution      *)
(* (AvsSched, here with a single thread, more jobs and a longer clock than *)
(* in MCAvsSched).  They share no state: a behaviour is one of the parts a *)
(* configuration names, while the others rest in their initial state,      *)
(* where no fairness condition of theirs asks for a step.                  *)
(***************************************************************************)
EXTENDS InitOnce, SpinlockCondvar, AvsSched, TLC

CONSTANT Parts  \* the parts to explore, among "once", "condvar" and "sched"

VARIABLE part   \* the part whose behaviour it is

PartInit ==
    /\ part \in Parts
    /\ OnceInit
    /\ CondvarInit
    /\ Init

PartNext ==
    \/ /\ part = "once"
       /\ OnceNext
       /\ UNCHANGED <<part, condvarVars, vars>>
    \/ /\ part = "condvar"
       /\ CondvarNext
       /\ UNCHANGED <<part, onceVars, vars>>
    \/ /\ part = "sched"
       /\ Next
       /\ UNCHANGED <<part, onceVars, condvarVars>>

PartSpec == PartInit /\ [][PartNext]_<<part, onceVars, condvarVars, vars>>

LiveSpec == PartSpec /\ OnceFairness /\ CondvarFairness

\* The condition variable's threads are interchangeable, and so are the addresses
\* of jobs; no behaviour has both, and a configuration that uses this names them
\* by the same model values.
Symmetry == Permutations(CondvarThreads)

=============================================================================
