-------------------------- MODULE MCScheduledTasks --------------------------
(***************************************************************************)
(* ScheduledTasks for TLC.  Requests by hand and runs without a slot are   *)
(* model values; the bounds are in the configurations.                     *)
(***************************************************************************)
EXTENDS ScheduledTasks

Task(once, forbid, skip, endAt, maxRuns) ==
    [once |-> once, forbid |-> forbid, skip |-> skip, endAt |-> endAt,
     maxRuns |-> maxRuns]

\* Each policy and limit in one task at least.
FewTasks ==
    {Task(FALSE, TRUE, FALSE, 0, 2), Task(FALSE, FALSE, TRUE, 1, 0),
     Task(FALSE, TRUE, TRUE, 0, 0), Task(TRUE, TRUE, FALSE, 0, 0)}

=============================================================================
