----------------------------- MODULE ExternalTasks -----------------------------
(***************************************************************************)
(* Calls of a business system that outlast the turn that made them.  A     *)
(* turn of a task frame records a task and leaves the frame waiting; one   *)
(* worker thread sends the request, polls the provider, gives up tasks     *)
(* that nobody tracks any more, and the provider may call back.  Whoever   *)
(* brings a task to its end resumes the frame, in a transaction of its     *)
(* own, unless the frame is running: then the turn folds the end in.       *)
(*                                                                         *)
(* The module is about the tasks of one frame.  The worker and a callback  *)
(* load a task, talk to the provider, and write what they loaded back with *)
(* the columns they changed, whatever happened to the row in between.      *)
(***************************************************************************)
EXTENDS Naturals

CONSTANTS
    MaxTasks, MaxTurns, MaxCrashes,    \* bounds
    Worker, Caller, NoTask,
    Setups                             \* how the tool is configured

\* provider: async_strategy is provider_task (otherwise the worker executes a
\* synchronous call); url: it has a status_url; calls: callbacks are configured;
\* sop: the frame executes a step of an SOP; limit: bound of the tasks.
SetupType == [provider : BOOLEAN, url : BOOLEAN, calls : BOOLEAN, sop : BOOLEAN,
              limit : 1 .. MaxTasks]

ASSUME ExternalAssumption ==
    /\ MaxTasks \in Nat /\ MaxTurns \in Nat /\ MaxCrashes \in Nat
    /\ Setups \subseteq SetupType
    /\ Worker # Caller
    /\ NoTask \notin 1 .. MaxTasks

Tasks == 1 .. MaxTasks
Procs == {Worker, Caller}

VARIABLES
    setup, crashes, turns,
    row,        \* the status of each task
    receipt,    \* whether the provider's id of a task is known
    lease,      \* whether a task's row has a lease
    events,     \* the events of the provider recorded for a task
    business,   \* what the business system makes of a task's request
    sent,       \* how often the request of a task was sent
    at, task,   \* what the worker and a callback do, with which task
    loaded,     \* the status of the task each has loaded
    heard,      \* what the provider told the worker; the status of the frame
                \* each has read before resuming it
    frame,      \* the status of the frame
    for,        \* the task the turn has left or found for the frame
    told        \* the status of the task the frame was resumed with

rows  == <<row, receipt, lease, events>>
procs == <<at, task, loaded, heard>>
vars  == <<setup, crashes, turns, rows, business, sent, procs, frame, for, told>>

Open     == {"queued", "submitting", "accepted", "working"}
Final    == {"completed", "failed", "expired"}
Ended    == Final \cup {"outcome_unknown"}       \* PERSISTED_TERMINAL_STATUSES
Statuses == {"none"} \cup Open \cup Ended

TypeOK ==
    /\ setup \in Setups
    /\ crashes \in 0 .. MaxCrashes /\ turns \in 0 .. MaxTurns
    /\ row \in [Tasks -> Statuses]
    /\ receipt \in [Tasks -> BOOLEAN] /\ lease \in [Tasks -> BOOLEAN]
    /\ events \in [Tasks -> SUBSET {"progress", "end"}]
    /\ business \in [Tasks -> {"none", "working", "done", "failed"}]
    /\ sent \in [Tasks -> Nat]
    /\ at \in [Procs -> {"idle", "submit", "poll", "resume", "wake"}]
    /\ task \in [Procs -> Tasks \cup {NoTask}]
    /\ loaded \in [Procs -> Statuses]
    /\ heard \in [Procs -> Statuses \cup {"waiting", "ready"}]
    /\ frame \in {"queued", "running", "waiting", "ready", "completed",
                  "failed", "asks"}
    /\ for \in Tasks \cup {NoTask}
    /\ told \in Ended \cup {"none"}

\* A frame that was just planned.
Init ==
    /\ setup \in Setups
    /\ crashes = 0 /\ turns = 0
    /\ row = [k \in Tasks |-> "none"]
    /\ receipt = [k \in Tasks |-> FALSE] /\ lease = [k \in Tasks |-> FALSE]
    /\ events = [k \in Tasks |-> {}]
    /\ business = [k \in Tasks |-> "none"] /\ sent = [k \in Tasks |-> 0]
    /\ at = [p \in Procs |-> "idle"] /\ task = [p \in Procs |-> NoTask]
    /\ loaded = [p \in Procs |-> "none"] /\ heard = [p \in Procs |-> "none"]
    /\ frame = "queued" /\ for = NoTask /\ told = "none"

-----------------------------------------------------------------------------
(* A turn of the frame.                                                    *)

\* The user's message makes the planner take the frame up again, in whatever
\* state short of its end it is.
StartTurn ==
    /\ frame \notin {"running", "completed", "failed"} /\ turns < MaxTurns
    /\ turns' = turns + 1
    /\ frame' = "running" /\ for' = NoTask
    /\ UNCHANGED <<setup, crashes, rows, business, sent, procs, told>>

\* A task of the frame that may still have its effect: it is not called again.
Pending == {k \in Tasks : row[k] \in Open \cup {"outcome_unknown"}}

\* The agent calls the tool (_execute_detached_http); the turn then ends.
Call ==
    /\ frame = "running" /\ for = NoTask
    /\ IF Pending # {}
       THEN /\ for' \in {k \in Pending : \A j \in Pending : j <= k}
            /\ UNCHANGED row
       ELSE \E k \in 1 .. setup.limit :
                /\ row[k] = "none" /\ \A j \in 1 .. (k - 1) : row[j] # "none"
                /\ row' = [row EXCEPT ![k] = "queued"]
                /\ for' = k
    /\ UNCHANGED <<setup, crashes, turns, receipt, lease, events, business, sent,
                   procs, frame, told>>

Resumed(status) ==
    IF setup.sop THEN "ready"
    ELSE IF status = "completed" THEN "completed" ELSE "failed"

FoldsNothing == FALSE   \* mutant
\* The task ended while its frame was running.
Folds == row[for] \in Ended

\* The frame is finished in the transaction that reads the task again; the
\* agent may also be done with it, or ask the user something.
EndTurn ==
    /\ frame = "running"
    /\ IF for = NoTask
       THEN frame' \in {"completed", "failed", "asks", "queued"} /\ UNCHANGED told
       ELSE IF Folds
       THEN frame' = Resumed(row[for]) /\ told' = row[for]
       ELSE frame' = "waiting" /\ UNCHANGED told
    /\ UNCHANGED <<setup, crashes, turns, rows, business, sent, procs, for>>

-----------------------------------------------------------------------------
(* _prepare_sop_resume, after each event that was applied.                 *)

Goes(p, label, k) ==
    /\ at' = [at EXCEPT ![p] = label]
    /\ task' = [task EXCEPT ![p] = k]

Sees(p, status, said) ==
    /\ loaded' = [loaded EXCEPT ![p] = status]
    /\ heard' = [heard EXCEPT ![p] = said]

Rests(p) == Goes(p, "idle", NoTask) /\ Sees(p, "none", "none")

ResumeRead(p) ==
    /\ at[p] = "resume"
    /\ IF row[task[p]] \in Ended /\ frame \in {"waiting", "ready"}
       THEN Goes(p, "wake", task[p]) /\ Sees(p, row[task[p]], frame)
       ELSE Rests(p)
    /\ UNCHANGED <<setup, crashes, turns, rows, business, sent, frame, for, told>>

\* A column that keeps the value it was loaded with is not written.
ResumeWrite(p) ==
    LET next == Resumed(loaded[p]) IN
    /\ at[p] = "wake"
    /\ frame' = IF next = heard[p] THEN frame ELSE next
    /\ told' = loaded[p]
    /\ Rests(p)
    /\ UNCHANGED <<setup, crashes, turns, rows, business, sent, for>>

-----------------------------------------------------------------------------
(* The worker: one pass after the other of poll_due_external_tasks.        *)

\* The status of a task whose lease nobody renews.
SubmitAgain(k) == "queued"   \* mutant
AfterLease(k) ==
    IF setup.provider /\ setup.url /\ receipt[k] THEN "working"
    ELSE "outcome_unknown"

\* The worker that held the lease died: its request is not sent again.
Stale(k) ==
    /\ at[Worker] = "idle"
    /\ lease[k] /\ row[k] \in {"submitting", "working"}
    /\ row' = [row EXCEPT ![k] = AfterLease(k)]
    /\ lease' = [lease EXCEPT ![k] = FALSE]
    /\ Goes(Worker, "resume", k)
    /\ UNCHANGED <<setup, crashes, turns, receipt, events, business, sent, loaded,
                   heard, frame, for, told>>

TrackedUnpolled == Open \ {"working"}   \* mutant
Tracked == Open

\* max_tracking_seconds are over.
Expire(k) ==
    /\ at[Worker] = "idle" /\ row[k] \in Tracked
    /\ row' = [row EXCEPT ![k] = "expired"]
    /\ Goes(Worker, "resume", k)
    /\ UNCHANGED <<setup, crashes, turns, receipt, lease, events, business, sent,
                   loaded, heard, frame, for, told>>

\* A queued task is claimed and its request sent, or not, or the answer is
\* lost: an answer that a provider did not give leaves the outcome unknown, a
\* synchronous call without one has failed.
Submit(k) ==
    /\ at[Worker] = "idle" /\ row[k] = "queued" /\ ~lease[k]
    /\ lease' = [lease EXCEPT ![k] = TRUE]
    /\ LET claimed == IF setup.provider THEN "submitting" ELSE "working"
           lost    == IF setup.provider THEN "outcome_unknown" ELSE "failed"
       IN /\ row' = [row EXCEPT ![k] = claimed]
          /\ \/ /\ Sees(Worker, claimed, lost)
                /\ UNCHANGED <<sent, business>>
             \/ /\ sent' = [sent EXCEPT ![k] = @ + 1]
                /\ \/ /\ business' = [business EXCEPT ![k] = "working"]
                      /\ \E said \in IF setup.provider
                                     THEN {"accepted", "working", "failed", lost}
                                     ELSE {lost} :
                            Sees(Worker, claimed, said)
                   \/ /\ business' = [business EXCEPT ![k] = "done"]
                      /\ \E said \in {"completed", lost} : Sees(Worker, claimed, said)
                   \/ /\ business' = [business EXCEPT ![k] = "failed"]
                      /\ Sees(Worker, claimed, "failed")
    /\ Goes(Worker, "submit", k)
    /\ UNCHANGED <<setup, crashes, turns, receipt, events, frame, for, told>>

\* A task that is tracked is polled; "none" is an answer that failed.
Poll(k) ==
    /\ at[Worker] = "idle"
    /\ row[k] \in {"accepted", "working"} /\ receipt[k] /\ setup.url
    /\ lease' = [lease EXCEPT ![k] = TRUE]
    /\ \E said \in {"none"} \cup (CASE business[k] = "done"   -> {"completed"}
                                    [] business[k] = "failed" -> {"failed"}
                                    [] OTHER -> {"working"}) :
            Sees(Worker, row[k], said)
    /\ Goes(Worker, "poll", k)
    /\ UNCHANGED <<setup, crashes, turns, row, receipt, events, business, sent,
                   frame, for, told>>

\* apply_task_event with the row the worker loaded before it asked.
Apply ==
    LET k == task[Worker] said == heard[Worker] IN
    /\ at[Worker] \in {"submit", "poll"}
    /\ lease' = [lease EXCEPT ![k] = FALSE]
    /\ IF said = "none"
       THEN Rests(Worker) /\ UNCHANGED <<row, receipt>>
       ELSE /\ row' = IF said = loaded[Worker] THEN row
                      ELSE [row EXCEPT ![k] = said]
            /\ receipt' = [receipt EXCEPT
                              ![k] = @ \/ said \in {"accepted", "working"}]
            /\ Goes(Worker, "resume", k) /\ Sees(Worker, "none", "none")
    /\ UNCHANGED <<setup, crashes, turns, events, business, sent, frame, for, told>>

-----------------------------------------------------------------------------
(* The business system, and its callbacks.                                 *)

Settle(k) ==
    /\ business[k] = "working"
    /\ \E outcome \in {"done", "failed"} :
            business' = [business EXCEPT ![k] = outcome]
    /\ UNCHANGED <<setup, crashes, turns, rows, sent, procs, frame, for, told>>

\* A task that has ended keeps its status, unless its outcome was unknown.
Reopens(status) == status \notin Final

\* An event is sent until it was answered, perhaps again, and in any order.
Callback(k, event) ==
    /\ at[Caller] = "idle"
    /\ setup.provider /\ setup.calls /\ business[k] # "none"
    /\ event = "end" => business[k] \in {"done", "failed"}
    /\ event \notin events[k]
    /\ events' = [events EXCEPT ![k] = @ \cup {event}]
    /\ IF Reopens(row[k])
       THEN /\ row' = [row EXCEPT ![k] =
                          CASE event = "progress"   -> "working"
                            [] business[k] = "done" -> "completed"
                            [] OTHER                -> "failed"]
            /\ Goes(Caller, "resume", k)
       ELSE UNCHANGED <<row, at, task>>
    /\ UNCHANGED <<setup, crashes, turns, receipt, lease, business, sent,
                   loaded, heard, frame, for, told>>

-----------------------------------------------------------------------------

\* The process dies and starts again; a running frame is queued by the
\* recovery of HarnessTurn.
Crash ==
    /\ crashes < MaxCrashes /\ crashes' = crashes + 1
    /\ at' = [p \in Procs |-> "idle"] /\ task' = [p \in Procs |-> NoTask]
    /\ loaded' = [p \in Procs |-> "none"] /\ heard' = [p \in Procs |-> "none"]
    /\ frame' = IF frame = "running" THEN "queued" ELSE frame
    /\ UNCHANGED <<setup, turns, rows, business, sent, for, told>>

Turn == StartTurn \/ Call \/ EndTurn

Works ==
    \/ ResumeRead(Worker) \/ ResumeWrite(Worker) \/ Apply
    \/ \E k \in Tasks : Stale(k) \/ Expire(k) \/ Submit(k) \/ Poll(k)

CallsBack ==
    \/ ResumeRead(Caller) \/ ResumeWrite(Caller)
    \/ \E k \in Tasks, event \in {"progress", "end"} : Callback(k, event)

Next == Turn \/ Works \/ CallsBack \/ Crash \/ \E k \in Tasks : Settle(k)

Spec == Init /\ [][Next]_vars

\* The worker's loop goes on, each task's tracking time runs out, a callback
\* that arrived is handled, and a turn comes to its end.
FairSpec ==
    /\ Spec
    /\ WF_vars(Works)
    /\ \A k \in Tasks : SF_vars(Expire(k))
    /\ WF_vars(ResumeRead(Caller) \/ ResumeWrite(Caller))
    /\ WF_vars(EndTurn)

-----------------------------------------------------------------------------
(* Properties.                                                             *)

\* The request of a task is sent once at most, also when the worker died with
\* it and another finds it under a lease that ran out.
SentOnce == \A k \in Tasks : sent[k] <= 1

\* A frame that waits for a task that has ended is about to be resumed: the
\* worker or the callback that ended the task has it in hand, since the turn
\* did not see the end.  (If the process dies, nobody has it in hand any more.)
HandsOver ==
    crashes = 0 /\ frame = "waiting" /\ row[for] \in Ended =>
        \E p \in Procs : at[p] \in {"resume", "wake"} /\ task[p] = for

\* A frame does not wait for ever, as long as the process does not die.
WaitEnds == (frame = "waiting") ~> (frame # "waiting" \/ crashes > 0)

\* Whatever is lost, late or overwritten, each task comes to an end that stays.
Settles == <>[](\A k \in Tasks : row[k] \in Ended \cup {"none"})

\* What the frame and the user see, in TaskContract's words.
Recorded  == {k \in Tasks : row[k] # "none"}
Done      == {k \in Tasks : business[k] = "done"}
Completed == {k \in Tasks : row[k] = "completed"}

Contract ==
    INSTANCE TaskContract WITH
        Results <- Ended, recorded <- Recorded, done <- Done,
        completed <- Completed, waits <- (frame = "waiting")

\* The tasks keep their promise, whatever is lost, late, or written over, and
\* whenever the process dies: a request is sent once, behind its record, and
\* nobody is told that it was served before it was.
ImplementsContract == Contract!Spec

=============================================================================
