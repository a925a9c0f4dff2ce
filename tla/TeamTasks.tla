------------------------------ MODULE TeamTasks ------------------------------
(***************************************************************************)
(* Tasks of a team of digital employees: who wakes whom, and how a task    *)
(* ends.  A wake event is a row that a thread claims; an order (a wake of  *)
(* a task's assignee) executes the task in a turn of its own session, a    *)
(* report makes the leader review it, the synthesis makes the leader sum   *)
(* up a run whose tasks have all ended.  A sweeper starts wakes over that  *)
(* nobody executes and escalates tasks that take too long; people override *)
(* reviews and awards and answer questions.                                *)
(*                                                                         *)
(* Transitions are not fenced: a handler loads a row, checks it, and later *)
(* writes the columns it changes by the row's id.  A step here is one      *)
(* transaction that writes, with what its thread loads after it and        *)
(* decides from that: anybody else may come before it writes that down.    *)
(***************************************************************************)
EXTENDS Naturals, FiniteSets

CONSTANTS
    Tasks, Members, NoTask,
    Sweeper, Human,      \* the sweeper's thread; the request of a person
    Setups,              \* planned runs, dependencies
    Limit,               \* member_concurrency
    MaxOrders, MaxTroubles    \* the bounds of a setup are within these

\* planned: the tasks of a planner's run; needs: what each depends on;
\* needed: how many of those must succeed (all_succeeded, any_succeeded and
\* minimum_succeeded); always: the tasks activated by all_terminal instead;
\* done: tasks that ended before; who: the first assignees; orders: the bound of
\* further orders; troubles: that of crashes, of overrides and of claimed runs
\* that are opened again, together.
SetupType == [planned : SUBSET Tasks, needs : [Tasks -> SUBSET Tasks],
              needed : [Tasks -> Nat], always : SUBSET Tasks,
              done : SUBSET Tasks, who : [Tasks -> Members],
              orders : 0 .. MaxOrders, troubles : 0 .. MaxTroubles]

ASSUME TeamAssumption ==
    /\ Setups \subseteq SetupType
    /\ Limit \in Nat \ {0}
    /\ MaxOrders \in Nat /\ MaxTroubles \in Nat
    /\ NoTask \notin Tasks
    /\ IsFiniteSet(Tasks)

\* The n-th order and the n-th report of a task, the n-th synthesis.
Orders    == {<<"order", t, n>> : t \in Tasks, n \in 0 .. MaxOrders}
Reports   == {<<"report", t, n>> : t \in Tasks, n \in 0 .. MaxOrders + MaxTroubles}
Syntheses == {<<"synthesis", NoTask, n>> : n \in 0 .. MaxTroubles}
Wakes     == Orders \cup Reports \cup Syntheses
Procs     == Wakes \cup {Sweeper, Human}

\* Three kinds of threads.
ASSUME ProcsAssumption == Sweeper # Human /\ {Sweeper, Human} \cap Wakes = {}

VARIABLES
    \* Of the past, for the properties only:
    crashes, overrides,
    late,       \* whether a timeout was written over another status, or over the
                \* report of a task that others wait for
    moved,      \* tasks whose award was rewritten when it was too late for it
    reverts,    \* how often a run that was claimed or ended was opened again
    setup,
    \* Rows:
    status, assignee,
    asks,       \* the report of a task says needs_input
    orders,     \* how many further orders were decided upon
    run,        \* the status of the run
    wake,       \* the wake rows
    target,     \* whose an order is
    turn,       \* the receipt or the result of a wake's turn
    published,  \* final answers in the leader's session
    \* Threads:
    at,         \* what each thread is about to do
    hand,       \* the task the sweeper or a person has in hand
    seen,       \* the status a thread has loaded of its task
    plan        \* the blocked tasks a thread is about to activate or escalate

history == <<crashes, overrides, late, moved, reverts>>
rows == <<status, assignee, asks, orders>>
vars == <<history, setup, rows, run, wake, target, turn, published, at, hand, seen,
          plan>>

Statuses == {"blocked", "pending", "in_progress", "review", "rework", "done",
             "escalated"}
Ended    == {"done", "escalated"}
Verdicts == {"approve", "rework", "escalate"}
Turns    == {"none", "active", "failed", "completed", "asked", "unparsed"}
            \cup Verdicts
Labels   == {"idle", "start", "inturn", "store", "raise", "enqueue", "publish",
             "complete", "ended", "broke", "apply", "hold", "reopen", "claim_run",
             "enqueue_synthesis", "award", "resume"} \cup Verdicts
Plans    == [ready : SUBSET Tasks, gone : SUBSET Tasks]
NoPlan   == [ready |-> {}, gone |-> {}]

TypeOK ==
    /\ crashes \in Nat /\ overrides \in Nat /\ reverts \in Nat
    /\ late \in BOOLEAN
    /\ moved \subseteq Tasks
    /\ setup \in Setups
    /\ status \in [Tasks -> Statuses]
    /\ assignee \in [Tasks -> Members]
    /\ asks \in [Tasks -> BOOLEAN]
    /\ orders \in 0 .. MaxOrders
    /\ run \in {"none", "running", "awaiting_input", "synthesizing",
                "completed", "failed"}
    /\ wake \in [Wakes -> {"none", "pending", "claimed", "over"}]
    /\ target \in [Orders -> Members]
    /\ turn \in [Wakes -> Turns]
    /\ published \in Nat
    /\ at \in [Procs -> Labels]
    /\ hand \in [{Sweeper, Human} -> Tasks \cup {NoTask}]
    /\ seen \in [Procs -> Statuses \cup {"none"}]
    /\ plan \in [Procs -> Plans]

Trouble == crashes + overrides + reverts < setup.troubles

Task(p) == IF p \in {Sweeper, Human} THEN hand[p] ELSE p[2]

\* Tasks just created: those without dependencies have their first order.
Init ==
    /\ crashes = 0 /\ overrides = 0 /\ late = FALSE /\ moved = {} /\ reverts = 0
    /\ setup \in Setups
    /\ status = [t \in Tasks |->
                    IF t \in setup.done THEN "done"
                    ELSE IF setup.needs[t] = {} THEN "pending" ELSE "blocked"]
    /\ assignee = setup.who
    /\ asks = [t \in Tasks |-> FALSE]
    /\ orders = 0
    /\ run = IF setup.planned # {} THEN "running" ELSE "none"
    /\ wake = [w \in Wakes |->
                  IF w \in Orders /\ w[3] = 0 /\ status[w[2]] = "pending"
                  THEN "pending" ELSE "none"]
    /\ target = [w \in Orders |-> assignee[w[2]]]
    /\ turn = [w \in Wakes |-> "none"]
    /\ published = 0
    /\ at = [p \in Procs |-> "idle"]
    /\ hand = [p \in {Sweeper, Human} |-> NoTask]
    /\ seen = [p \in Procs |-> "none"]
    /\ plan = [p \in Procs |-> NoPlan]

-----------------------------------------------------------------------------
(* The state machine of tasks: apply_task_transition.                      *)

Transitions(t) ==
    [s \in Statuses |->
        CASE s = "blocked"     -> {"pending", "escalated"}
          [] s = "pending"     -> {"in_progress", "escalated"}
          [] s = "in_progress" -> {"review", "escalated"} \cup
                                  (IF t \in setup.planned THEN {"done"} ELSE {})
          [] s = "review"      -> {"done", "rework", "escalated"}
          [] s = "rework"      -> {"in_progress", "escalated"}
          [] s \in Ended       -> {}]

\* Checked on what was loaded.
Legal(t, from, s) == s = from \/ s \in Transitions(t)[from]

\* What a failed wake leaves of its task: _escalate_task_on_failure.
AfterFailure(s) == IF s \in Ended THEN s ELSE "escalated"

Go(p, label) == at' = [at EXCEPT ![p] = label]
Loads(p) == seen' = [seen EXCEPT ![p] = status'[Task(p)]]
Forgets(p) == seen' = [seen EXCEPT ![p] = "none"]

\* The status is written when it differs from the one that was loaded.
Put(p, s) ==
    status' = IF s = seen[p] THEN status ELSE [status EXCEPT ![Task(p)] = s]

Of(kind, t) == {w \in kind : w[2] = t}

\* A new wake of that kind: the first row not used yet.
IsNew(w, kind) ==
    /\ w \in kind /\ wake[w] = "none"
    /\ \A v \in kind : wake[v] = "none" => w[3] <= v[3]

Enqueues(kind) ==
    \E w \in kind : IsNew(w, kind) /\ wake' = [wake EXCEPT ![w] = "pending"]

\* Another order of the task, to its assignee.
Order(t) ==
    \E w \in Of(Orders, t) :
        /\ IsNew(w, Of(Orders, t))
        /\ wake' = [wake EXCEPT ![w] = "pending"]
        /\ target' = [target EXCEPT ![w] = assignee[t]]

-----------------------------------------------------------------------------
(* maybe_enqueue_team_synthesis: after every wake of a run's task, and     *)
(* after a timeout, but not after an override.                             *)

Open == {"running", "awaiting_input"}

\* The run waits for input, goes on, or is to be claimed.
Judgement ==
    IF run' \notin Open THEN "idle"
    ELSE IF \E t \in setup.planned : status'[t] = "escalated" /\ asks'[t]
    THEN IF run' = "awaiting_input" THEN "idle" ELSE "hold"
    ELSE IF \E t \in setup.planned : status'[t] \notin Ended
    THEN IF run' = "awaiting_input" THEN "reopen" ELSE "idle"
    ELSE "claim_run"

\* A person's request does not look at the run, and is over.
ChecksRun(p) ==
    /\ Go(p, IF p # Human /\ Task(p) \in setup.planned THEN Judgement ELSE "idle")
    /\ hand' = IF p \in {Sweeper, Human} THEN [hand EXCEPT ![p] = NoTask] ELSE hand

\* What was decided is written without a look at what the run is by now.
WriteRun(p) ==
    /\ at[p] \in {"hold", "reopen"}
    /\ run' = IF at[p] = "hold" THEN "awaiting_input" ELSE "running"
    /\ run \notin Open => Trouble
    /\ reverts' = IF run \in Open THEN reverts ELSE reverts + 1
    /\ Go(p, "idle")
    /\ UNCHANGED <<crashes, overrides, late, moved, setup, rows, wake, target, turn,
                   published, hand, seen, plan>>

ClaimableAlways == TRUE   \* mutant
ClaimableRunning == run = "running"   \* mutant
Claimable == run \in Open

ClaimRun(p) ==
    /\ at[p] = "claim_run"
    /\ IF Claimable
       THEN run' = "synthesizing" /\ Go(p, "enqueue_synthesis")
       ELSE UNCHANGED run /\ Go(p, "idle")
    /\ UNCHANGED <<history, setup, rows, wake, target, turn, published, hand, seen, plan>>

EnqueueSynthesis(p) ==
    /\ at[p] = "enqueue_synthesis"
    /\ Enqueues(Syntheses)
    /\ Go(p, "idle")
    /\ UNCHANGED <<history, setup, rows, run, target, turn, published, hand, seen, plan>>

-----------------------------------------------------------------------------
(* activate_ready_tasks, after every wake and after an override.           *)

Blocked(s) == {t \in Tasks : s[t] = "blocked"}

\* With the statuses s, and the tasks S escalated: the dependencies of t that
\* ended without success.
Lost(s, t, S) ==
    {d \in setup.needs[t] : d \in S \/ (s[d] = "escalated" /\ ~asks[d])}

Won(s, t) == {d \in setup.needs[t] : s[d] = "done"}

Hopeless(s, t, S) ==
    /\ t \notin setup.always
    /\ Cardinality(setup.needs[t] \ Lost(s, t, S)) < setup.needed[t]

\* The blocked tasks that cannot become ready any more, the least set closed
\* under it.
Impossible(s) ==
    {t \in Blocked(s) : \A S \in SUBSET Blocked(s) :
        (\A u \in Blocked(s) : Hopeless(s, u, S) => u \in S) => t \in S}

NothingReady(s) == {}   \* mutant
Ready(s) ==
    {t \in Blocked(s) :
        IF t \in setup.always
        THEN Won(s, t) \cup Lost(s, t, Impossible(s)) = setup.needs[t]
        ELSE Cardinality(Won(s, t)) >= setup.needed[t]}

\* Tasks that another thread is about to activate as well.
Twice(p, ready) == {t \in ready : \E q \in Procs \ {p} : t \in plan[q].ready}

\* The fixed point is computed on the rows as they were loaded.
Activates(p) ==
    LET ready == Ready(status')
        gone  == Impossible(status') IN
    IF ready \cup gone # {}
    THEN /\ plan' = [plan EXCEPT ![p] = [ready |-> ready, gone |-> gone]]
         /\ orders + Cardinality(Twice(p, ready)) <= setup.orders
         /\ orders' = orders + Cardinality(Twice(p, ready))
         /\ Go(p, "apply")
         /\ UNCHANGED hand
    ELSE UNCHANGED <<plan, orders>> /\ ChecksRun(p)

\* Written whatever the tasks are by now.
Apply(p) ==
    LET ordered == {w \in Orders : w[2] \in plan[p].ready /\ IsNew(w, Of(Orders, w[2]))} IN
    /\ at[p] = "apply"
    /\ status' = [t \in Tasks |-> IF t \in plan[p].gone THEN "escalated"
                                  ELSE IF t \in plan[p].ready THEN "pending"
                                  ELSE status[t]]
    /\ wake' = [w \in Wakes |-> IF w \in ordered THEN "pending" ELSE wake[w]]
    /\ target' = [w \in Orders |-> IF w \in ordered THEN setup.who[w[2]] ELSE target[w]]
    /\ plan' = [plan EXCEPT ![p] = NoPlan]
    /\ UNCHANGED <<history, setup, assignee, asks, orders, run, turn, published, seen>>
    /\ ChecksRun(p)

-----------------------------------------------------------------------------
(* A thread claims a wake and executes it: execute_wake_event.             *)

InSlot(w) == at[w] \in {"start", "inturn", "store", "raise", "enqueue", "ended"}

SlotsOf(m) == {w \in Orders : target[w] = m /\ InSlot(w)}

InProgress(m) == {t \in Tasks : assignee[t] = m /\ status[t] = "in_progress"}

SlotsOnly(w) == Cardinality(SlotsOf(target[w])) >= Limit   \* mutant
\* A member executes Limit tasks at a time: those of this process and those in
\* the database.
Busy(w) ==
    \/ Cardinality(SlotsOf(target[w])) >= Limit
    \/ Cardinality(InProgress(target[w]) \ {w[2]}) >= Limit

\* Only one thread's claim of a pending wake succeeds.
Takes(w) ==
    /\ wake[w] = "pending" /\ at[w] = "idle"
    /\ wake' = [wake EXCEPT ![w] = "claimed"]

\* The turn is over: the thread loads the task, or publishes the answer.
Over(w) == IF w \in Syntheses THEN Go(w, "publish") /\ UNCHANGED seen
           ELSE Go(w, "store") /\ Loads(w)

\* client_turn_id is the wake's id.  A review has a new session each time; an
\* order and the synthesis find their session and its receipt again, so that
\* their turn is replayed or, if it was interrupted, refused.
Enters(w) ==
    IF turn[w] = "none" \/ w \in Reports
    THEN turn' = [turn EXCEPT ![w] = "active"] /\ Go(w, "inturn") /\ Forgets(w)
    ELSE UNCHANGED turn /\ Over(w)

Skips(w, label) == Go(w, label) /\ UNCHANGED <<turn, seen>>

\* The order of a busy member is put back and waits.  One whose task was given
\* to somebody else is an error; one whose task is reported or ended is left
\* alone, and one whose task is in progress goes on with it.
TakeOrder(w) ==
    LET t == w[2]
        mine == assignee[t] = target[w] IN
    /\ w \in Orders /\ Takes(w) /\ ~Busy(w)
    /\ UNCHANGED status
    /\ \/ ~mine /\ Go(w, "raise") /\ Loads(w) /\ UNCHANGED turn
       \/ mine /\ status[t] \in Ended \cup {"review"} /\ Skips(w, "ended")
       \/ mine /\ status[t] = "in_progress" /\ Enters(w)
       \/ mine /\ status[t] \in {"blocked", "pending", "rework"}
          /\ Go(w, "start") /\ Loads(w) /\ UNCHANGED turn
    /\ UNCHANGED <<history, setup, assignee, asks, orders, run, target, published, hand,
                   plan>>

\* The other orders go on in progress, whatever became of the task.
Start(w) ==
    /\ at[w] = "start"
    /\ Put(w, "in_progress")
    /\ Enters(w)
    /\ UNCHANGED <<history, setup, assignee, asks, orders, run, wake, target,
                   published, hand, plan>>

\* A report of a task that is not in review any more is skipped.
TakeReport(w) ==
    /\ w \in Reports /\ Takes(w)
    /\ UNCHANGED rows
    /\ IF status[w[2]] = "review" THEN Enters(w) ELSE Skips(w, "ended")
    /\ UNCHANGED <<history, setup, run, target, published, hand, plan>>

TakeSynthesis(w) ==
    /\ w \in Syntheses /\ Takes(w)
    /\ UNCHANGED rows
    /\ IF run = "completed" THEN Skips(w, "ended")
       ELSE IF \E t \in setup.planned : status[t] \notin Ended
       THEN Skips(w, "broke") ELSE Enters(w)
    /\ UNCHANGED <<history, setup, run, target, published, hand, plan>>

Results(w) ==
    {"failed"} \cup IF w \in Orders THEN {"completed", "asked"}
                    ELSE IF w \in Reports THEN Verdicts \cup {"unparsed"}
                    ELSE {"completed"}

EndTurn(w) ==
    /\ at[w] = "inturn"
    /\ \E result \in Results(w) :
        /\ result = "rework" => orders < setup.orders
        /\ orders' = IF result = "rework" THEN orders + 1 ELSE orders
        /\ turn' = [turn EXCEPT ![w] = result]
    /\ UNCHANGED <<status, assignee, asks>>
    /\ Over(w)
    /\ UNCHANGED <<history, setup, run, wake, target, published, hand, plan>>

\* What a turn makes of its task: a completed task of a run is done, another
\* is reviewed; a question escalates it; the leader's verdict is carried out.
Outcome(w) ==
    CASE turn[w] = "completed" -> IF w[2] \in setup.planned THEN "done" ELSE "review"
      [] turn[w] \in {"asked", "escalate"} -> "escalated"
      [] turn[w] = "approve" -> "done"
      [] turn[w] = "rework" -> "rework"
      [] turn[w] \in {"none", "active", "failed", "unparsed"} -> seen[w]

Fails(w) == turn[w] \in {"active", "failed"} \/ ~Legal(w[2], seen[w], Outcome(w))

\* The rest of _execute_member_task and _execute_tl_review up to the commit.
\* A report replaces the last one, whatever becomes of the task.
Store(w) ==
    /\ w \in Wakes /\ at[w] = "store"
    /\ Put(w, IF Fails(w) THEN AfterFailure(seen[w]) ELSE Outcome(w))
    /\ asks' = IF w \in Orders /\ turn[w] \in {"completed", "asked"}
               THEN [asks EXCEPT ![w[2]] = turn[w] = "asked"] ELSE asks
    /\ Go(w, IF ~Fails(w) /\ (turn[w] = "rework"
                              \/ (w \in Orders /\ Outcome(w) = "review"))
             THEN "enqueue" ELSE "ended")
    /\ Forgets(w)
    /\ UNCHANGED <<history, setup, assignee, orders, run, wake, target, turn, published,
                   hand, plan>>

\* The exception of an order that is not its task's any more.
Raise(w) ==
    /\ at[w] = "raise"
    /\ Put(w, AfterFailure(seen[w]))
    /\ Go(w, "ended")
    /\ Forgets(w)
    /\ UNCHANGED <<history, setup, assignee, asks, orders, run, wake, target, turn,
                   published, hand, plan>>

\* A transaction of its own, after the one that changed the task.
Enqueue(w) ==
    /\ at[w] = "enqueue"
    /\ IF w \in Orders
       THEN Enqueues(Of(Reports, w[2])) /\ UNCHANGED target
       ELSE Order(Task(w))
    /\ Go(w, IF w = Human THEN "idle" ELSE "ended")
    /\ hand' = IF w = Human THEN [hand EXCEPT ![w] = NoTask] ELSE hand
    /\ UNCHANGED <<history, setup, rows, run, turn, published, seen, plan>>

\* The answer is committed before the run is completed.
Publish(w) ==
    /\ at[w] = "publish"
    /\ IF turn[w] = "completed"
       THEN published' = published + 1 /\ Go(w, "complete")
       ELSE Go(w, "broke") /\ UNCHANGED published
    /\ UNCHANGED <<history, setup, rows, run, wake, target, turn, hand, seen, plan>>

Complete(w) ==
    /\ at[w] = "complete"
    /\ run' = "completed"
    /\ Go(w, "ended")
    /\ UNCHANGED <<history, setup, rows, wake, target, turn, published, hand, seen, plan>>

\* The wake is done or failed, its turn is not looked at again; with a synthesis
\* that failed, so does the run.  The slot is given back.
End(w) ==
    /\ at[w] \in {"ended", "broke"}
    /\ wake' = [wake EXCEPT ![w] = "over"]
    /\ turn' = [turn EXCEPT ![w] = "none"]
    /\ run' = IF at[w] = "broke" THEN "failed" ELSE run
    /\ UNCHANGED <<status, assignee, asks>>
    /\ Activates(w)
    /\ UNCHANGED <<history, setup, target, published, seen>>

-----------------------------------------------------------------------------
(* The sweeper: sweep_timed_out_tasks, recover_orphaned_wake_events.       *)

Scanned == {"in_progress", "review"}

\* Nobody looks at the tasks that wait for a reported one after its timeout.
Awaited(t) == \E u \in Blocked(status) : t \in setup.needs[u]

\* A task is old enough at any time after its last change.
SweepRead(t) ==
    /\ at[Sweeper] = "idle" /\ status[t] \in Scanned
    /\ hand' = [hand EXCEPT ![Sweeper] = t]
    /\ seen' = [seen EXCEPT ![Sweeper] = status[t]]
    /\ Go(Sweeper, "store")
    /\ UNCHANGED <<history, setup, rows, run, wake, target, turn, published, plan>>

SweepWrite ==
    LET t == hand[Sweeper] IN
    /\ at[Sweeper] = "store"
    /\ Put(Sweeper, "escalated")
    /\ late' = (late \/ status[t] \notin Scanned \/ (status[t] = "review" /\ Awaited(t)))
    /\ wake' = [w \in Wakes |-> IF w[2] = t /\ wake[w] = "pending"
                                THEN "over" ELSE wake[w]]
    /\ Forgets(Sweeper)
    /\ UNCHANGED <<crashes, overrides, moved, reverts, setup, assignee, asks, orders, run,
                   target, turn, published, plan>>
    /\ ChecksRun(Sweeper)

\* No heartbeat since 180 seconds: its thread died with the process.
Recover(w) ==
    /\ wake[w] = "claimed" /\ at[w] = "idle"
    /\ wake' = [wake EXCEPT ![w] = "pending"]
    /\ UNCHANGED <<history, setup, rows, run, target, turn, published, at, hand, seen,
                   plan>>

-----------------------------------------------------------------------------
(* People: the routes of a task.  A request reads and checks the task, then *)
(* writes it; one request is under way at a time.                           *)

\* The request is to: its order, if it has one, is counted now.
Requests(t, label) ==
    /\ at[Human] = "idle"
    /\ label \in {"rework", "award", "resume"} => orders < setup.orders
    /\ orders' = IF label \in {"rework", "award", "resume"} THEN orders + 1 ELSE orders
    /\ hand' = [hand EXCEPT ![Human] = t]
    /\ seen' = [seen EXCEPT ![Human] = status[t]]
    /\ Go(Human, label)
    /\ UNCHANGED <<crashes, late, moved, reverts, setup, status, assignee, asks, run, wake,
                   target, turn, published, plan>>

Overrides ==
    /\ Trouble
    /\ overrides' = overrides + 1

AskReview(t, v) ==
    status[t] \in {"review", "escalated"} /\ Overrides /\ Requests(t, v)

AskAward(t) == status[t] = "pending" /\ Overrides /\ Requests(t, "award")

AskResume(t) ==
    status[t] = "escalated" /\ asks[t] /\ Requests(t, "resume") /\ UNCHANGED overrides

\* A review is overridden, by a transition or against the state machine; the
\* order of a rework is enqueued in a transaction of its own.
OverrideReview(v) ==
    /\ at[Human] = v
    /\ Put(Human, CASE v = "approve" -> "done" [] v = "rework" -> "rework"
                    [] v = "escalate" -> "escalated")
    /\ Forgets(Human)
    /\ UNCHANGED <<history, setup, assignee, asks, run, wake, target, turn, published>>
    /\ IF v = "rework" THEN Go(Human, "enqueue") /\ UNCHANGED <<orders, hand, plan>>
       ELSE Activates(Human)

Starting(t) == \E w \in Orders : w[2] = t /\ at[w] = "start"

\* The award is overridden, that of a pending task in name: its status is as it
\* was loaded, and is not written.  The first order stays.
OverrideAward(m) ==
    LET t == hand[Human] IN
    /\ at[Human] = "award" /\ m # assignee[t]
    /\ assignee' = [assignee EXCEPT ![t] = m]
    /\ moved' = IF status[t] # "pending" \/ Starting(t) THEN moved \cup {t} ELSE moved
    /\ Go(Human, "enqueue")
    /\ Forgets(Human)
    /\ UNCHANGED <<crashes, overrides, late, reverts, setup, status, asks, orders, run,
                   wake, target, turn, published, hand, plan>>

\* The question of a member is answered: the order is in the same transaction.
Resume ==
    LET t == hand[Human] IN
    /\ at[Human] = "resume"
    /\ Put(Human, "rework")
    /\ asks' = [asks EXCEPT ![t] = FALSE]
    /\ Order(t)
    /\ Go(Human, "idle")
    /\ Forgets(Human)
    /\ hand' = [hand EXCEPT ![Human] = NoTask]
    /\ UNCHANGED <<history, setup, assignee, orders, run, turn, published, plan>>

-----------------------------------------------------------------------------

\* The process dies and starts again.  A turn in progress is failed by the
\* recovery of HarnessTurn; claimed wakes wait for their lease to run out.
Crash ==
    /\ Trouble /\ crashes' = crashes + 1
    /\ turn' = [w \in Wakes |-> IF turn[w] = "active" THEN "failed" ELSE turn[w]]
    /\ at' = [p \in Procs |-> "idle"]
    /\ hand' = [p \in {Sweeper, Human} |-> NoTask]
    /\ seen' = [p \in Procs |-> "none"]
    /\ plan' = [p \in Procs |-> NoPlan]
    /\ UNCHANGED <<overrides, late, moved, reverts, setup, rows, run, wake, target,
                   published>>

Executes(w) ==
    \/ TakeOrder(w) \/ TakeReport(w) \/ TakeSynthesis(w)
    \/ Start(w) \/ EndTurn(w) \/ Store(w) \/ Raise(w)
    \/ Enqueue(w) \/ Publish(w) \/ Complete(w) \/ End(w)

Follows(p) == WriteRun(p) \/ ClaimRun(p) \/ EnqueueSynthesis(p)

Works(w) == Recover(w) \/ Executes(w) \/ Apply(w) \/ Follows(w)

Sweeps == (\E t \in Tasks : SweepRead(t)) \/ SweepWrite \/ Follows(Sweeper)

Persons ==
    \/ \E v \in Verdicts : OverrideReview(v)
    \/ \E m \in Members : OverrideAward(m)
    \/ Resume \/ Enqueue(Human) \/ Apply(Human)

Next ==
    \/ \E w \in Wakes : Works(w)
    \/ Sweeps \/ Persons
    \/ \E t \in Tasks : \/ \E v \in Verdicts : AskReview(t, v)
                        \/ AskAward(t) \/ AskResume(t)
    \/ Crash

Spec == Init /\ [][Next]_vars

\* Some thread of a wake goes on while one can (none loops, so that each comes
\* to its end), the sweeper starts wakes that nobody has started and ends tasks
\* that are too old, and a request that was begun is carried through.
FairSpec ==
    /\ Spec
    /\ WF_vars(\E w \in Wakes : Works(w))
    /\ WF_vars(Sweeps) /\ WF_vars(Persons)

-----------------------------------------------------------------------------
(* Properties.                                                             *)

\* A member has no more tasks in progress than it may, except for those whose
\* award was rewritten under their start: also when the process died with one
\* and the order of another is taken.  (A member of several slots may exceed
\* them after a crash: orders taken together do not see each other's tasks.)
MemberSerial ==
    crashes = 0 \/ Limit = 1 =>
        \A m \in Members : Cardinality(InProgress(m) \ moved) <= Limit

\* However many wakes and timeouts end the last task of a run, its answer is
\* published once, and once more for each crash, unless what a thread had
\* decided about the run was written over its claim.
AnswerOnce == reverts = 0 => published <= 1 + crashes

\* No timeout overtook another transition or left a blocked task behind, and the
\* process did not die.
Smooth == ~late /\ crashes = 0

Asking == \E t \in Tasks : status[t] = "escalated" /\ asks[t]

\* No task is lost: each one ends, done or escalated, or waits for a task that
\* waits for the answer to a question, as long as the process does not die and
\* no timeout overtakes another transition or ends a report others wait for.
TasksEnd ==
    []<>(Smooth => \A t \in Tasks :
            status[t] \in Ended \/ (status[t] = "blocked" /\ Asking))

\* A run is summed up or fails, or a question of a member is open, under the
\* same conditions, as long as nobody overrides a review, and unless what a
\* thread had decided about the run was written over its end.
RunEnds ==
    (run # "none") ~>
        \/ run \in {"completed", "failed"} \/ Asking
        \/ ~Smooth \/ overrides > 0 \/ reverts > 0

=============================================================================
