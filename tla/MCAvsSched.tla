----------------------------- MODULE MCAvsSched -----------------------------
(***************************************************************************)
(* Instances of AvsSched for TLC.                                          *)
(***************************************************************************)
EXTENDS AvsSched, TLC

\* Threads, handles and addresses are interchangeable: no definition tells
\* two of them apart, and no liveness property is checked with symmetry.
Symmetry == Permutations(Threads) \cup Permutations(Handles)
                                  \cup Permutations(Addrs)

\* avs_sched_leap_time called with a valid and with an invalid duration.
AllDiffs == {1, INVALID}

=============================================================================
