--------------------------- MODULE ScheduledTasks ---------------------------
(***************************************************************************)
(* One scheduled task, the worker thread that runs it when it is due, the  *)
(* people who run it by hand, edit, pause and archive it, and the process  *)
(* that may die.                                                           *)
(*                                                                         *)
(* Time is counted in periods of the schedule: slot s is due from time s   *)
(* on, and now = k is any moment after slot k and before slot k + 1.  A    *)
(* run is named by its scheduled_for: a slot, or a moment nobody else      *)
(* has (a manual run; a claimed task whose next_run_at was taken away).    *)
(*                                                                         *)
(* A run's turn goes through the durable receipt of HarnessTurn, which a   *)
(* second execution of the run meets again.  The worker claims up to ten   *)
(* tasks and runs them one after another, so that any time may pass        *)
(* between a claim and its run.                                            *)
(***************************************************************************)
EXTENDS Naturals, FiniteSets

CONSTANTS
    Manuals,     \* requests to run the task now
    Unplanned,   \* runs of a claimed task that has no next_run_at any more
    Worker,      \* the worker thread
    NoRun,
    Setups,      \* schedule types, policies and limits of tasks
    MaxTime, MaxEdits, MaxCrashes    \* bounds

\* end_at and max_runs are 0 when the task has none.
SetupType == [once : BOOLEAN, forbid : BOOLEAN, skip : BOOLEAN,
              endAt : Nat, maxRuns : Nat]

ASSUME ScheduleAssumption ==
    /\ MaxTime \in Nat \ {0} /\ MaxEdits \in Nat /\ MaxCrashes \in Nat
    /\ Setups \subseteq SetupType
    /\ Worker \notin Manuals
    /\ NoRun \notin Manuals \cup Unplanned \cup (1 .. MaxTime + 2)
    /\ Manuals \cap Unplanned = {}
    /\ (Manuals \cup Unplanned) \cap (1 .. MaxTime + 2) = {}

Slots     == 1 .. MaxTime + 2
Runs      == Slots \cup Manuals \cup Unplanned
Executors == {Worker} \cup Manuals

VARIABLES
    now, edits, crashes, up,
    setup,    \* the task's schedule type, policies and limits, never edited
    onceAt,   \* a one-shot task's run_at
    status, next, count, lease,   \* the task row; next = 0: no next_run_at;
              \* run_count, of tasks with max_runs; whether the lease is live
    st,       \* the run rows
    session,  \* whether a run has its session_id
    turn,     \* the run's turn receipt
    effects,  \* how often the run's turn was executed
    at, key, outcome, view  \* each executor: label, run, the run's result,
                            \* and the run_count it read when the turn ended

task == <<setup, onceAt, status, next, count, lease>>
runs == <<st, session, turn, effects>>
exec == <<at, key, outcome, view>>
vars == <<now, edits, crashes, up, task, runs, exec>>

\* "failed" stands for needs_input and incomplete as well.
Ended    == {"succeeded", "failed", "skipped"}
Results  == {"succeeded", "failed"}
Statuses == {"active", "paused", "completed", "archived"}

TypeOK ==
    /\ now \in 0 .. MaxTime /\ edits \in 0 .. MaxEdits
    /\ crashes \in 0 .. MaxCrashes /\ up \in BOOLEAN
    /\ setup \in Setups
    /\ onceAt \in Slots
    /\ status \in Statuses
    /\ next \in Slots \cup {0}
    /\ count \in Nat
    /\ lease \in BOOLEAN
    /\ st \in [Runs -> Ended \cup {"none", "running"}]
    /\ session \in [Runs -> BOOLEAN]
    /\ turn \in [Runs -> {"none", "active", "completed", "failed"}]
    /\ effects \in [Runs -> Nat]
    /\ at \in [Executors -> {"idle", "claimed", "misfire", "skip", "create",
                             "session", "turn", "inturn", "finish"}]
    /\ key \in [Executors -> Runs \cup {NoRun}]
    /\ outcome \in [Executors -> Results \cup {"none", "unavailable"}]
    /\ view \in [Executors -> Nat]

\* A task just created, its first slot ahead.
Init ==
    /\ now = 0 /\ edits = 0 /\ crashes = 0 /\ up = TRUE
    /\ setup \in Setups
    /\ onceAt = 1
    /\ status = "active" /\ next = 1 /\ count = 0 /\ lease = FALSE
    /\ st = [r \in Runs |-> "none"]
    /\ session = [r \in Runs |-> FALSE]
    /\ turn = [r \in Runs |-> "none"]
    /\ effects = [r \in Runs |-> 0]
    /\ at = [e \in Executors |-> "idle"]
    /\ key = [e \in Executors |-> NoRun]
    /\ outcome = [e \in Executors |-> "none"]
    /\ view = [e \in Executors |-> 0]

\* The first slot after moment t; 0 if a one-shot task has none left.
NextRun(t) ==
    IF setup.once THEN (IF onceAt > t THEN onceAt ELSE 0) ELSE t + 1

-----------------------------------------------------------------------------
(* due_scheduled_tasks: close the task when its end_at is over, or claim   *)
(* it under a lease when it is due.                                        *)

Over == setup.endAt # 0 /\ setup.endAt < now

CloseOver ==
    /\ up /\ at[Worker] = "idle" /\ status = "active" /\ Over
    /\ status' = "completed" /\ next' = 0 /\ lease' = FALSE
    /\ UNCHANGED <<now, edits, crashes, up, setup, onceAt, count, runs, exec>>

Claim ==
    /\ up /\ at[Worker] = "idle"
    /\ status = "active" /\ next # 0 /\ next <= now /\ ~Over
    /\ ~lease
    /\ lease' = TRUE
    /\ at' = [at EXCEPT ![Worker] = "claimed"]
    /\ UNCHANGED <<now, edits, crashes, up, setup, onceAt, status, next,
                   count, runs, key, outcome, view>>

-----------------------------------------------------------------------------
(* execute_scheduled_task and start_scheduled_task_async.                  *)

Manual(e) == e # Worker

\* The scheduled_for of an execution that begins.  The claimed task's status
\* is not looked at again.  Unplanned bounds the runs that have no slot.
Chosen(e) ==
    IF Manual(e) THEN {e}
    ELSE IF next # 0 THEN {next}
    ELSE {u \in Unplanned : st[u] = "none"}

Misfired(e, r) == ~Manual(e) /\ setup.skip /\ r \in Slots /\ r < now

\* With the skip policy a slot that is late is skipped, and a run row that
\* exists is only returned; else an existing run goes on if it is running in
\* a session; else, under forbid, no run may be running.
Plan(e, r) ==
    IF st[r] # "none"
    THEN IF ~Misfired(e, r) /\ st[r] = "running" /\ session[r] THEN "turn" ELSE "idle"
    ELSE IF Misfired(e, r) THEN "misfire"
    ELSE IF setup.forbid /\ \E q \in Runs : st[q] = "running" THEN "skip"
    ELSE "create"

\* Which runs there are is read here and used in later transactions.
Begin(e) ==
    /\ up
    /\ IF Manual(e) THEN at[e] = "idle" /\ st[e] = "none" /\ status # "archived"
                    ELSE at[e] = "claimed"
    /\ \E r \in Chosen(e) :
        LET plan == Plan(e, r) IN
        /\ at' = [at EXCEPT ![e] = plan]
        /\ key' = [key EXCEPT ![e] = IF plan = "idle" THEN NoRun ELSE r]
    /\ UNCHANGED <<now, edits, crashes, up, task, runs, outcome, view>>

\* _finish_task_schedule, from the row as it was read: where the schedule goes
\* on, whether it ends, and a run more.
ResumedHere(r) == IF r \in Slots THEN r ELSE NextRun(now)   \* mutant
Resumed(r) == IF r \in Slots /\ r > now THEN NextRun(r) ELSE NextRun(now)

FinishSchedule(e, result, seen) ==
    LET n == Resumed(key[e])
        spent == setup.maxRuns # 0 /\ seen + 1 >= setup.maxRuns
        over == setup.endAt # 0 /\ n > setup.endAt IN
    /\ count' = IF setup.maxRuns # 0 THEN seen + 1 ELSE count
    /\ IF Manual(e) \/ result = "unavailable" THEN
          IF result = "unavailable"
          THEN status' = "paused" /\ next' = 0
          ELSE UNCHANGED <<status, next>>
       ELSE IF spent \/ over THEN status' = "completed" /\ next' = 0
       ELSE /\ next' = n
            /\ status' = IF setup.once /\ n = 0
                         THEN IF result = "succeeded" THEN "completed"
                              ELSE "paused"
                         ELSE status

\* The executor is done; its local variables go.
Leave(e) ==
    /\ at' = [at EXCEPT ![e] = "idle"]
    /\ key' = [key EXCEPT ![e] = NoRun]
    /\ outcome' = [outcome EXCEPT ![e] = "none"]
    /\ view' = [view EXCEPT ![e] = 0]

\* The run row is written as skipped.  A skip by policy forbid leaves the
\* lease to expire.
Skip(e) ==
    /\ at[e] \in {"misfire", "skip"}
    /\ st' = [st EXCEPT ![key[e]] = "skipped"]
    /\ FinishSchedule(e, "skipped", count)
    /\ lease' = (lease /\ at[e] = "skip")
    /\ Leave(e)
    /\ UNCHANGED <<now, edits, crashes, up, setup, onceAt, session, turn,
                   effects>>

Create(e) ==
    /\ at[e] = "create"
    /\ st' = [st EXCEPT ![key[e]] = "running"]
    /\ at' = [at EXCEPT ![e] = "session"]
    /\ UNCHANGED <<now, edits, crashes, up, task, session, turn, effects, key,
                   outcome, view>>

\* The session is committed after the run, and the run's session_id after it.
GiveSession(e) ==
    /\ at[e] = "session"
    /\ session' = [session EXCEPT ![key[e]] = TRUE]
    /\ at' = [at EXCEPT ![e] = "turn"]
    /\ UNCHANGED <<now, edits, crashes, up, task, st, turn, effects, key,
                   outcome, view>>

ReceiptIgnored(r) == TRUE   \* mutant
\* The receipt of client_turn_id = run.id admits one execution, ever.
Admits(r) == turn[r] = "none"

\* The result is known, and the task row is read again.
Concludes(e, result) ==
    /\ outcome' = [outcome EXCEPT ![e] = result]
    /\ view' = [view EXCEPT ![e] = count]
    /\ at' = [at EXCEPT ![e] = "finish"]

\* The employee is gone; or the turn starts; or its receipt says that it was
\* completed (its result is replayed) or must not be executed again.
StartTurn(e) ==
    LET r == key[e] IN
    /\ at[e] = "turn"
    /\ \/ Concludes(e, "unavailable") /\ UNCHANGED <<turn, effects>>
       \/ /\ Admits(r)
          /\ turn' = [turn EXCEPT ![r] = "active"]
          /\ effects' = [effects EXCEPT ![r] = @ + 1]
          /\ at' = [at EXCEPT ![e] = "inturn"]
          /\ UNCHANGED <<outcome, view>>
       \/ /\ ~Admits(r) /\ turn[r] = "completed"
          /\ \E result \in Results : Concludes(e, result)
          /\ UNCHANGED <<turn, effects>>
       \/ /\ ~Admits(r) /\ turn[r] # "completed"
          /\ Concludes(e, "failed")
          /\ UNCHANGED <<turn, effects>>
    /\ UNCHANGED <<now, edits, crashes, up, task, st, session, key>>

EndTurn(e) ==
    /\ at[e] = "inturn"
    /\ \E result \in Results, t \in {"completed", "failed"} :
        /\ turn' = [turn EXCEPT ![key[e]] = t]
        /\ Concludes(e, result)
    /\ UNCHANGED <<now, edits, crashes, up, task, st, session, effects, key>>

RunStatusLost(result) ==   \* mutant
    IF result = "unavailable" THEN "running" ELSE result
RunStatus(result) == IF result = "unavailable" THEN "failed" ELSE result

\* The run's outcome, the schedule and the lease are one transaction; a manual
\* run drops the worker's lease as well.
Finish(e) ==
    /\ at[e] = "finish"
    /\ st' = [st EXCEPT ![key[e]] = RunStatus(outcome[e])]
    /\ FinishSchedule(e, outcome[e], view[e])
    /\ lease' = FALSE
    /\ Leave(e)
    /\ UNCHANGED <<now, edits, crashes, up, setup, onceAt, session, turn,
                   effects>>

-----------------------------------------------------------------------------
(* The task's owner: update_scheduled_task and the archive route.  Every   *)
(* update computes next_run_at anew.                                       *)

Edit ==
    /\ up /\ edits < MaxEdits /\ edits' = edits + 1
    /\ status # "archived"
    /\ \/ /\ \E s \in {status, "active"} :
                /\ status' = s
                /\ onceAt' \in IF setup.once THEN {onceAt, now + 1} ELSE {onceAt}
                /\ next' = IF s # "active" THEN 0
                           ELSE IF ~setup.once \/ onceAt' > now THEN now + 1
                           ELSE 0
       \/ /\ \E s \in {"paused", "archived"} : status' = s
          /\ next' = 0
          /\ UNCHANGED onceAt
    /\ UNCHANGED <<now, crashes, up, setup, count, lease, runs, exec>>

-----------------------------------------------------------------------------
(* Time, crash and restart.                                                *)

Tick ==
    /\ now < MaxTime
    /\ now' = now + 1
    /\ UNCHANGED <<edits, crashes, up, task, runs, exec>>

\* 15 minutes after the claim.
ExpireLease ==
    /\ lease
    /\ lease' = FALSE
    /\ UNCHANGED <<now, edits, crashes, up, setup, onceAt, status, next,
                   count, runs, exec>>

\* A turn in progress is failed by the recovery of HarnessTurn.
Crash ==
    /\ up /\ crashes < MaxCrashes
    /\ up' = FALSE /\ crashes' = crashes + 1
    /\ turn' = [r \in Runs |-> IF turn[r] = "active" THEN "failed" ELSE turn[r]]
    /\ at' = [e \in Executors |-> "idle"]
    /\ key' = [e \in Executors |-> NoRun]
    /\ outcome' = [e \in Executors |-> "none"]
    /\ view' = [e \in Executors |-> 0]
    /\ UNCHANGED <<now, edits, task, st, session, effects>>

Restart ==
    /\ ~up /\ up' = TRUE
    /\ UNCHANGED <<now, edits, crashes, task, runs, exec>>

-----------------------------------------------------------------------------

Goes(e) ==
    \/ Skip(e) \/ Create(e) \/ GiveSession(e) \/ StartTurn(e) \/ EndTurn(e)
    \/ Finish(e)

WorkerStep == CloseOver \/ Claim \/ Begin(Worker) \/ Goes(Worker)

Next ==
    \/ WorkerStep
    \/ \E m \in Manuals : Begin(m) \/ Goes(m)
    \/ Edit \/ Tick \/ ExpireLease \/ Crash \/ Restart

Spec == Init /\ [][Next]_vars

\* The worker's loop and the threads of manual runs go on, leases run out.
\* Nothing is assumed of people, of crashes, or of the schedule's clock.
FairSpec ==
    /\ Spec
    /\ WF_vars(WorkerStep)
    /\ \A m \in Manuals : WF_vars(Goes(m))
    /\ WF_vars(ExpireLease) /\ WF_vars(Restart)

-----------------------------------------------------------------------------
(* Properties.                                                             *)

\* A run's turn is executed once at most, though the run is taken up again
\* after a crash, in whatever step the crash found it.
EffectOnce == \A r \in Runs : effects[r] <= 1

\* A run that has ended is not taken up again, and keeps its outcome: who takes
\* up a run in the middle of its life is the worker, which has one at a time.
KeepsOutcomes == \A r \in Runs : st[r] \in Ended => st'[r] = st[r]

OutcomeStays == [][KeepsOutcomes]_vars

Due(s) == status = "active" /\ next = s /\ s <= now /\ ~Over

\* A due slot is dealt with, and the schedule goes on to another one or stops,
\* however runs by hand, an edit and expiring leases come between; as long as
\* the process does not die.
DueIsServed ==
    \A s \in 1 .. MaxTime : (Due(s) /\ crashes = 0) ~> (~Due(s) \/ crashes > 0)

\* Runs do not hang: time and again none is running, as long as the process
\* does not die.
RunsEnd == []<>(crashes > 0 \/ \A r \in Runs : st[r] # "running")

=============================================================================
