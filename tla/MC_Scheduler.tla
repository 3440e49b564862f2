---------------------------- MODULE MC_Scheduler ----------------------------
(***************************************************************************)
(* Scheduler for TLC.                                                      *)
(***************************************************************************)
EXTENDS Scheduler

Rate(period) == [period |-> period, phase |-> 0, start_at |-> None, end_at |-> None,
                 max_occurrences |-> None, catch_up |-> "skip",
                 max_lateness |-> None]

\* Without limits, late ticks merged into one; twice; from time 1 on, with a
\* phase, until time 4, and nothing later than 1; and one that is faster than
\* the daemon allows.
MixedSchedules ==
    {[Rate(2) EXCEPT !.catch_up = "coalesce"],
     [Rate(1) EXCEPT !.max_occurrences = 2],
     [Rate(1) EXCEPT !.phase = 2, !.start_at = 1, !.end_at = 4,
                     !.catch_up = "queue", !.max_lateness = 1], Rate(0)}

\* One schedule that says when it ends.
LimitedSchedules == {[Rate(2) EXCEPT !.end_at = 3]}
=============================================================================
