# StaffDeck (AIStaff): formal models

This directory holds TLA+ models of the backend's concurrent core, TLC
configurations that check them on small instances, and TLAPS proofs of theorems
that hold for every instance. The models follow the source under `backend/app`;
`PROJECT.json` maps each definition to the lines it stands for, and lists every
component, run, mutant, hazard, finding and theorem.

    tlc -workers 2 -config HarnessTurn_cancel.cfg MCHarnessTurn.tla
    tlc -workers 2 -config ChannelOutbox_safety.cfg MCChannelOutbox.tla
    tlc -workers 2 -config ScheduledTasks_due.cfg MCScheduledTasks.tla
    tlc -workers 2 -config TeamTasks_run.cfg MCTeamTasks.tla
    tlc -workers 2 -config ExternalTasks_waits.cfg MCExternalTasks.tla
    tlc -workers 2 -config PublicJobs_ends.cfg MCPublicJobs.tla
    tlc -workers 2 -config ChannelIntake_ends.cfg MCChannelIntake.tla
    tlc -workers 2 -config FeishuProcesses_runs.cfg MCFeishuProcesses.tla
    tlc -workers 2 -config Webhooks_attempts.cfg MCWebhooks.tla
    tlc -workers 2 -config CapabilityLedger_once.cfg MCCapabilityLedger.tla
    tlc -workers 2 -config Webhooks_outcome.cfg MCWebhooks.tla     # finds the finding of section 10
    tlapm HarnessTurnProofs.tla
    tlapm ChannelOutboxProofs.tla
    tlapm CapabilityLedgerProofs.tla
    tlapm ChannelIntakeProofs.tla
    tlapm TeamTasksProofs.tla
    tlapm PublicJobsProofs.tla
    tlapm ExternalTasksProofs.tla
    tlapm FeishuProcessesProofs.tla

## 1. The system

StaffDeck runs "digital employees": agents that answer chat messages from a web
page, from messaging channels (Feishu, WeCom, WeChat, DingTalk), from schedules,
teams, mail and a public API. One Python process (FastAPI, threads) works on one
SQLite database; `runtime_lock.py` keeps a second process off the database.
Everything durable is a row, and most coordination is by guarded updates
(`UPDATE ... WHERE status = ... AND owner = ...`) and leases with an expiry.

| Component | State it keeps | Operations | What is hard |
|---|---|---|---|
| Harness turn core (`core/agent_loop.py`, `harness_v2_engine.py`, `harness_turn_store.py`, `harness_session_lease.py`, `harness_session_lock.py`, `harness_recovery.py`, `cancellation.py`, parts of `api/chat.py`) | process lock and lease of a session, receipt of a turn, messages, events, cancellation markers, runs | handle a turn, cancel it, relay its events, sweep and recover | cancellation against completion, stalled workers, crashes between commits, sweeps of live work |
| Task frames (`core/task_frame_store.py`) | frames, runs, agent loops | persist a plan, run, suspend, resume, finish | dependencies, take-over of expired runs |
| Capability invoker (`core/harness_capability_invoker.py`) | invocation ledger | start, finish, replay an action | effects whose outcome is unknown |
| Channel intake (`channels/service_intake.py`, `service_*_inbox.py`, the consumers in `adapters/`) | inbound events, the session lock, the intake fence of a binding | stage, poll, claim, process, finish, sweep, pause | redelivery, takeover after a crash, exceptions between commits, deletion |
| Channel outbox (`channels/service_outbox.py`) | deliveries | stage, claim, send, retry, reset | lost answers of providers, restarts, reactions |
| Channel processes (`channels/feishu_manager.py`, `feishu_process.py`, `feishu_connector_worker.py`) | child processes of a binding, what is known and paused, a lock file | reconcile, pause, stop, commit, resume, watch | snapshots used late, stops that give up, children of a dead parent |
| Scheduled tasks (`scheduled_tasks/service.py`, `worker.py`) | tasks with a lease and the next time, runs | claim due tasks, run, conclude, run by hand, edit | expired leases, runs by hand, a crash at any step of a run |
| Teams (`teams/wakeup.py`, `sweeper.py`, `api/teams.py`) | tasks, runs, wake rows, slots of members | wake, execute, review, sum up, time out, override | unfenced transitions, several wakes at once, lost wakes |
| External tasks (`tools/external_tasks.py`, `external_task_worker.py`) | tasks of a business system, waiting frames | submit, poll, call back, expire, resume | late answers written over callbacks, the end of a task racing the turn that waits for it |
| Public API jobs (`public_api/jobs.py`, `runs.py`, `idempotency.py`, `webhooks.py`) | jobs, events, idempotency records, webhook deliveries | create, claim, run, cancel, stream, recover; hand over, post, record | equal requests at once, numbers of events, a restart, the guard of an outcome |
| Asynchronous jobs (`async_jobs.py`) | jobs in memory, Futures, threads | enqueue, run, list, shut down | a shutdown between any two steps |
| Mail | its own rows | claim, run, retry | late answers |
| Skills, knowledge, organisation, contacts, secrets, cabinet, memory | records | single-request handlers | few interleavings |
| Model client, adapters, sandbox, frontend, packaging | none that matters here | outside calls | not modelled |

How they interact: an inbound event, a schedule, a team wake-up or an API call
becomes a call of `AgentLoop.handle_turn` for a chat session. The turn core runs
task frames, whose actions go through the invoker; the reply is a message, and
for a channel session a row of the outbox. Recovery at startup runs before
requests are served, then daemons start one per component.

What makes each component correct:

* turn core: one execution per client_turn_id; one winner between the normal
  reply and a cancellation; a replay only of what can be read; one task run of a
  session at a time; every claimed turn ends and every message is answered;
* task frames: a frame runs only when what it depends on has finished, and every
  frame ends or waits for something that can still happen;
* invoker: an action that may have had an effect is not repeated blindly, and a
  result that is given was a result;
* intake: one thread and one turn per event, and every event is answered or told
  that it failed;
* outbox: a message that may have been sent is not sent again blindly, every row
  ends, and the "processing" reaction goes away;
* scheduled tasks: a due time is served, and a run has its effect once;
* teams: a member works on one task at a time, no task is lost, a run is summed up
  once;
* external tasks: a request is sent once, and a frame that waits is resumed;
* public jobs: one key names one job, a job's turn is begun once, a stream shows
  how the job ended;
* channel processes: one child at a time, with the revision that is committed, and
  in the end the state that the database asks for;
* webhooks: a staged event is sent, and its outcome is recorded.

Every module states `TypeOK`, the type of its variables. It holds on the instances
of its runs; no run lists it, since it says little of the code. For eight modules it is
proved, as the other proofs need it (section 12).

## 2. The turn core: `HarnessTurn.tla`, `TurnContract.tla`

One chat session. Sessions share no state that the model has, except the sweeper
and the process, so one is enough. `Turns` are client_turn_ids, `Workers` are
calls of `handle_turn` (their `req` is any turn, so two workers may carry the
same one: a resend), `Cancellers` are calls of the cancel endpoint.

State and code:

| Variable | Code |
|---|---|
| `lock` | the in-process session lock, taken without waiting |
| `holder`, `leaseTtl` | the `HarnessSessionLeaseRecord` row |
| `status`, `owner`, `ttl`, `bound` | the `HarnessTurnRecord` of each turn (`absent`: no row) |
| `announced`, `cancelEvent` | committed `user_message_received` and `stream_cancelled` events; `late` marks a cancellation recorded after the turn already had a message |
| `replies` | assistant messages of a turn: which path wrote them, and who |
| `marker` | the in-process set of `cancellation.py` |
| `running`, `runTtl` | the run and frame rows a worker left `running`, under one lease |
| `pc`, `req`, `todo`, `acts`, `outcome` | where a worker is in `run()` and `handle_turn`, its turn, frames left, action budget, what its caller gets |
| `view`, `sweep` | what a cancel call, or the sweeper, has read and not yet written |

An action is one transaction, or one read that a later transaction uses. A
guarded update is one atomic action with the guard evaluated at the write
(`Fence`, `CancelSwaps`); a row that is read, then assigned and committed is two
(`SweepRead`/`SweepWrite`, `SettleRead`/`SettleWrite`, `CancelRead`/
`CancelNew`). The driver runs SELECTs outside transactions, so the gap is real;
the first write takes the database's write lock until the commit.

Leases are the time they have left: `Tick` lowers all of them, a renewal sets
`TTL`. All leases have the same length in the code (900 s), as in the model.
Every value of the code's outside calls (planner, tools, model) is a choice: any
number of frames up to `MaxFrames`, failure at any call (`Fail`), any delay.
`Crash` loses the process's memory, `Restart` is startup recovery.

`handle_turn` is followed to its end: after `run()` raises, `CloseAttempt`,
`SettleRead`, `SettleWrite` are `mark_interrupted`/`mark_cancelled`, `Close` is
the `finally` block, `ErrorReply` the reply appended after it, `Wrap` what the
stream worker does with an exception.

`TurnContract` is what the callers of a session may count on; `Contract` in
`HarnessTurn` maps to it. A turn whose receipt is started or finalizing is open. It is
executed by the calls that got past its claim; the worker about to append the reply
(`finalize`) has the right to answer, which is lost with the process; it is answered
when it has a normal reply, and told of when a call ended as answered or replayed.
Leases, the lock, runs, frames, other replies and events are not visible.

Left out: requests without a client_turn_id (they have no receipt), slash
commands and precondition errors (they end before the claim), different payloads
under one client_turn_id (a conflict either way, as here for any receipt that is
not completed), the execution reset, staging of channel deliveries. `RenewReceipt`
skips a renewal whose update hits no row, where `harness_turn_store.py:97-107` raises
HarnessTurnConflict: a receipt that changes between the worker's reading and that update
would end the worker at once, and here ends it at its next fence.

### Properties

* `CancelExcludesReply`: a turn whose receipt is not reserved, completed or
  failed has no normal reply, and a normal reply is the receipt owner's.
* `ImplementsContract`: the turn core implements `TurnContract`, which says what those
  who send, resend and cancel a turn may count on. A turn is executed by one call at
  most. Its executor needs a right to answer, given while the turn is open; who has it
  cannot be cancelled, and who was cancelled never gets it, also when a sweep has
  overwritten the cancelled receipt since, which `CancelExcludesReply` does not say.
  A turn is completed, and a caller told so, only when its answer can be read.
* `OneExecutor`: one worker at most, ever, gets past the claim of a turn.
* `TerminalChangesOnlyToFailed`: only the sweep writes over a terminal receipt.
* `OneLiveRun`: a session has one live task run.
* `ClaimedTurnEnds`: every claimed turn reaches a terminal receipt.
* `AnsweredOrCancelled`: every message is answered or cancelled, unless the process
  stopped (see below).

### Runs

| Run | Instance | Shows |
|---|---|---|
| `turn_cancel` | 1 turn, 2 workers, 1 canceller, 1 action, crash | the safety properties of a turn, `AnsweredOrCancelled` |
| `turn_ends` | 2 turns, 2 workers, 2 actions, crash | `OneLiveRun`, `ClaimedTurnEnds` |

Bounds. Two workers are enough for the original and the resend of one turn, or
for a stalled worker and its successor. The canceller may call again and again;
two calls at once are beyond this instance, and covered by the theorems
`CancelExcludesReplyHolds` and `OneExecutorHolds`, which hold for any number. One
frame and one action exercise every branch of the frame loop, since a later frame
repeats the first; `turn_ends` has two actions so that a run can be renewed. A
lease of one tick is live or expired. One crash covers a crash
at every step; what recovery leaves behind at a second is what it leaves at the
first. Both runs check liveness and use no symmetry.

Fairness. `ClaimedTurnEnds` assumes only what the process does by itself: time
passes, the sweeper's thread runs every 60 s, a stopped process is started again.
Workers may hang for ever. `AnsweredOrCancelled` adds that each worker takes its
next step: model and tool calls have timeouts.

### Behaviour the properties do not rule out

* The live sweep: `recover_orphan_harness_runs` takes every active turn of a
  session that has one expired run. The leftover run of an earlier worker makes it
  fail a turn with a live executor and delete the live session lease. Hence the
  care in `OneLiveRun`, which is about runs and not about turns.
* The sweep assigns `failed` to a receipt that was cancelled or completed between
  its read and its write: `TerminalChangesOnlyToFailed` allows just this.
* A crash between the failed receipt and the error reply leaves the message
  without any answer, since recovery reads active receipts only: hence the
  exception in `AnsweredOrCancelled`.
* A turn may get two terminal messages: the error reply (`agent_loop.py:278`) is
  appended without a fence, also after the sweep has failed the receipt and
  answered, or after a relay timeout has. The comment at `harness_v2_engine.py:774`
  speaks of the engine's own messages, which are fenced.
* Two repeated cancellations may both read that there is no reply and both append
  the cancelled one (`CancelAgain`).

## 3. The channel outbox: `ChannelOutbox.tla`, `DeliveryContract.tla`

One Feishu binding and one inbound message. Rows of different messages share only
the lanes and the binding's lock, which serialise them; a lane busy with another
message is a lane that is slow with this one. `Replies` are the rows of kinds
reply, error notice and final notice, `Files` the file rows, `Add` and `Remove`
the two reaction rows. `Lanes` are the content and the reaction thread of the
connector; one process runs them (it holds a lock file), on one database.

| Variable | Code |
|---|---|
| `binding`, `lock` | the binding row's status and `binding_lifecycle_lock` |
| `st`, `attempts`, `gen`, `since` | `ChannelDelivery` rows: status, attempts, `delivery_generation`, age of `sending_since` |
| `age` | time since an answer's first attempt: inside 55 minutes, inside the hour, later |
| `reactionId` | the reaction's id on the inbound event row |
| `at`, `item`, `token`, `found` | a lane in `_deliver_one`: where it is, its row, the generation it read, the reaction the provider named |
| `marks`, `copies`, `key` | the provider: our reactions on the message, how often each answer is shown, whether its idempotency key is remembered (one hour) |
| `up`, `faults`, `requests` | the process, and what has been used of the bounds |

`PrepareAnswer` and `StageAnswer` are `stage_channel_delivery`, which reads the
binding and commits its row later. A lane's step is `Claim` (the guarded update to
`sending`), `Enter` (the lock, the row read again, the refusals), `Send` (the call:
it takes effect or not, and its answer arrives or not), and `Delivered` or
`CallFailed` (the outcome under the claimed generation, with what the reaction
needs). `TransactionFails` is the exception a lane logs before it goes on. The
user's `Toggle` and deletion (`DeleteBegin` cleans up at the provider, then
`DeleteCommit` or `DeleteAbort`) take the same lock. `Reset` is
`_reset_stuck_deliveries`, run once when a lane starts.

`DeliveryContract` is what the outbox promises about answers: an answer is open
until delivered or failed for good; it is shown once at most, only while open and
while the binding exists; it is delivered only after it was shown. A failed answer
may have been shown: the code fails an answer whose outcome it cannot know.
`Contract` in `ChannelOutbox` maps each row to open, delivered or failed, and the
provider's copies to what is shown.

Simplifications: the back-off between attempts is not modelled, a pending row may
be claimed at any time; a claim's age matters only when no lane holds the row,
and an answer's only while the row is open, so they change only then; a call that
passed the 55 minute check is assumed to end within the hour. Left out: the
adapters of other channels (streamed replies, idempotent reactions), replies in
several chunks, the fallback of a file to a link, sessions moved to another
account, handoff and mail notices, alerts to the binding's creator.

### Properties

* `AtMostOnce`: no answer is shown twice, however late a retry.
* `OneMark`: never two reactions of ours.
* `CallerOwnsRow`: a lane in a call holds the lock and its row is still its
  claim. Hence, within one process, the generation fence of
  `_finish_delivery_claim` never drops an outcome.
* `DeletedLeavesNoMark`, `DeletedIsQuiet`: a deleted binding leaves no reaction
  behind, and nothing is sent for it afterwards.
* `AttemptsBounded` (at most `max_attempts` tries of an answer; a reset may add one
  per crash to a reaction) and `OutcomeIsFinal` (delivered and failed stay) are
  only proved; the contract has the second one too.
* `ImplementsContract`: the outbox implements `DeliveryContract`.
* `ReceiptCleared`: once a reply is delivered and the reaction was added, the
  reaction is gone or its removal is staged, whichever lane was first.
* `StagedEnds`: every staged row ends, until the first fault.

### Runs

| Run | Instance | Shows |
|---|---|---|
| `outbox_safety` | 1 reply, 2 attempts, 2 faults, 2 requests | the safety properties, the contract, `StagedEnds` |

Bounds. Two attempts give the first try and the last one; a third differs from
neither. Two faults are two crashes, or a crash after a failed transaction;
two requests a toggle and a deletion, or a deletion that fails and its repeat. A
second answer is too large an instance together with the faults; the theorems of
section 12 hold for any number of answers, and only `ReceiptCleared`
and `StagedEnds` are limited to one here. The state of a row that has ended does
not grow: `age` stops, and
generations grow only with claims and resets, which the bounds limit. The run
does not check for deadlock, since the outbox rests when all its rows have ended.

Fairness. Lanes go on (their loop catches every exception, calls have timeouts), a
deletion that has begun ends, a stopped process is started again. Nothing is
assumed of users, staging, faults or the clock.

### Behaviour the properties do not rule out

Only claims older than 120 s are reset, and only when a lane
starts. A process that is back sooner leaves the row in `sending` for ever, hence
"until the first fault" in `StagedEnds`.
`development-feishu-channel.md:245` describes a recovery that settles such a row. (Line
247 of the text has the recovery retry an answer inside the window; the reset fails
every answer it finds, which no property speaks of.)

## 4. Scheduled tasks: `ScheduledTasks.tla`

One task, the worker thread of `scheduled_tasks/worker.py`, requests to run the
task now (`Manuals`), and its owner. Time is counted in periods of the schedule:
`now = k` is any moment after slot k and before slot k + 1. Tasks share only the
worker, which claims up to ten and runs them one after another; hence any time may
pass between the claim of a task and its run.

| Variable | Code |
|---|---|
| `setup`, `onceAt`, `status`, `next`, `count`, `lease` | the `ScheduledTask` row: type, policies and limits, `run_at`, status, `next_run_at`, `run_count`, the lease |
| `st`, `session` | `ScheduledTaskRun` rows by `scheduled_for`, and whether one has its session |
| `turn`, `effects` | the receipt of the run's turn, how often the turn was executed |
| `at`, `key`, `outcome`, `view` | an executor in `execute_scheduled_task`: step, run, result, and the `run_count` it read |

`CloseOver` and `Claim` are the due query, `Begin` the policies for misfires and
overlaps, `Create`, `GiveSession`, `StartTurn`, `EndTurn` and `Finish` the
transactions of an execution, `Edit` the update and archive routes. The receipt is
that of HarnessTurn: it admits one execution, ever (`OneExecutor` there).

* `EffectOnce`: a run's turn is executed once, though a crash leaves the run in any
  step and the lease, when it runs out, lets it be taken up again.
* `OutcomeStays` is only proved: a run that has ended is not taken up again.
* `DueIsServed`: a due slot is dealt with and the schedule goes on, whatever runs by
  hand, an edit and expiring leases come between.
* `RunsEnd`: time and again no run is running.

Run `sched_due`: four tasks that have each policy and limit, two periods, one
request by hand, one edit, one crash. Two periods are a slot and one that was
missed. One edit is a real bound: with two, an edit may move `next_run_at` to a
slot whose run exists and runs already, and `DueIsServed` then depends on how long
that run takes. Fairness: the worker's loop and the threads of manual runs go on,
leases run out, a stopped process starts again.

The liveness properties exclude crashes, since the code does not recover: a run
left `running` by a crash is never ended, under `forbid` every later one is skipped
("上一轮自动任务仍在执行", `service.py:442`), and when the run was in a session the
schedule goes on only when that turn is answered. Also, a claimed batch is not
compared with the task's status again, so a task paused or archived after its claim
still runs once, and its outcome overwrites `archived`.

Left out: the calendar (cron, time zones), the prompt, notifications, listings;
`failed` stands for the outcomes `needs_input` and `incomplete` too. There is no status
`retrying`: `service.py:566` writes it when a turn raises `HarnessTurnConflict`, but
`handle_turn` answers a conflict itself (`agent_loop.py:175`), as a reply with an error code,
and the run then ends as failed.

## 5. Teams: `TeamTasks.tla`

The tasks of one team. A wake event is a row that a thread of its own claims: an
order makes the assignee execute a task, a report makes the leader review it, the
synthesis makes the leader sum up a planner's run. The sweeper's thread and people
work on the same rows. Every handler reads a row, checks that the move is legal, and
later writes the columns it changes by the row's id: nothing fences the write by what
was read.

| Variable | Code |
|---|---|
| `status`, `assignee`, `asks` | `TeamTask` rows, and whether the report asks for input |
| `run`, `published` | the planner's run, the final answers in the leader's session |
| `wake`, `target`, `turn` | wake rows, whose an order is, the turn of a wake |
| `at`, `hand` | what a thread is about to do; the task the sweeper or a person has in hand |
| `seen` | the status a thread has loaded of its task and decides from |
| `plan` | the blocked tasks a thread has judged ready or hopeless and is about to write |
| `orders` | how many further orders were decided upon, bounded by `setup.orders`; `setup.troubles` bounds crashes, overrides and reopened runs together |
| `late`, `moved`, `reverts` | history: a timeout was written over another status, or over a report whose task others wait for; tasks whose award was rewritten when it was too late for it; how often a run that was claimed or ended was opened again |

A step is one transaction that writes, together with what its thread loads after that
commit and decides from it; the next step writes the decision, whatever the rows are by
then. `TakeOrder` has the slot, the count of tasks in progress and the load of the
task in one step, `Start` the commit of `in_progress` (`wakeup.py:919-967`), `EndTurn`
loads the task again and `Store` writes it. `AskAward` reads what `OverrideAward`
writes (`api/teams.py:963-988`), and so for reviews and questions. `Judgement` is what
`maybe_enqueue_team_synthesis` decides from the run and its tasks
(`wakeup.py:1286-1318`); `WriteRun` writes it, or `ClaimRun` claims the run, the one
guarded update. `Activates` computes the fixed point of `activate_ready_tasks` and
`Apply` writes it: two threads that have both judged a task ready both enqueue its order,
and the second sets a task that has started back to `pending`, whose turn then fails.
`SweepRead`/`SweepWrite` are the two transactions of the sweeper, `Recover` the wakes
found without a heartbeat.

* `MemberSerial`: a member has at most `member_concurrency` tasks in progress, also
  when a crash left one and the order of another is taken. Excepted are tasks in
  `moved`: the check counts the tasks of an assignee that is changed under it. After a
  crash it is for members of one slot: orders of a member with several that are taken together
  do not see each other's tasks before they have started.
* `AnswerOnce`: a run's answer is published once, and once more for each crash, unless a
  judgement was written over its claim (`reverts`).
* `TasksEnd`: no task is lost: each ends, or waits for the answer to a question.
* `RunEnds`: a run is summed up or fails, or a question is open.

Run `team_run`: a run of two tasks in sequence (the second waiting for the success, or
for any end, of the first), a run of two side by side, two tasks in sequence outside a run, and a
task outside a run beside one that is done. Each has a further order, or a trouble: a crash, a
request of a person that overrides, or a judgement written over a claimed run; the
last has both. Two tasks are the fewest with a dependency, with two last tasks or with two
orders that compete for a slot. That a task whose award was rewritten comes beside one of its
new member takes two orders and a request, which is beyond this instance; the
theorem covers it, as it covers any bounds. Fairness: the wakes' threads together go on (each
comes to its end), the sweeper runs, a request that was begun is carried through, and a
question is answered or stays open, as both properties allow.

Behaviour the properties do not rule out, all of it in the model:

* `override_task_award` reads `pending`, an order puts the task in progress, and the request
  commits the new assignee (`api/teams.py:963`, 988; `wakeup.py:967`), though its docstring
  speaks of "before the execution starts". The task in progress is then the new member's,
  who may have one already (`moved`).
* Two threads judge a run when a question or its last task ends it; one writes
  `awaiting_input` or `running` over the other's `synthesizing`, the run is
  claimed again, and two answers are published (`reverts`). Such a judgement written over a run
  that has ended leaves it open for ever when no task is left to end after it.
* The sweeper's late write may put `escalated` over `done`, `review` or `rework`, and
  it calls the check of the run but not `activate_ready_tasks`: the tasks that wait
  stay blocked until another wake of the team ends, also after a timeout on time when
  the task had been reported and no thread is at it any more. `TasksEnd` and `RunEnds` are
  for behaviours without these (`late`).
* A crash between the commit that decides (review, award, the run in
  `synthesizing`) and the one that enqueues the wake loses the task or the answer; a
  crash between the answer and the run's completion publishes it twice.
  `design-multi-agent-team-decisions.md:40` promises "全链路无任务丢失".
  `TasksEnd` and `RunEnds` are for behaviours without a crash.
* An override of a review does not call the check of the run (`RunEnds`).
* An override of an award leaves the former assignee's order pending; that order then
  fails ("唤醒目标与任务指派成员不一致") and escalates the task that was given to
  somebody else, though the docstring of `override_task_award` allows it before the
  execution begins.

Activation policies: `needed` is how many dependencies must succeed (all, any,
a minimum), `always` stands for `all_terminal`; the instances have all of them
and `all_terminal`, and the theorems hold for each.

Left out: bidding and its judge, the blackboard, parsing of replies, records of
teams and members. One request of a person is under way at a time, and a wake has one
thread (its claim is fenced). The order of a busy member is put back by the code, in
transactions of its own; here it stays pending until a slot is free, so that the end
of the task under an order that is being put back is not seen.

## 6. External tasks: `ExternalTasks.tla`, `TaskContract.tla`

The tasks that one frame hands to a business system, the worker thread
(`external_task_worker.py`), the provider's callbacks (`Caller`), and the turns of
the frame.

| Variable | Code |
|---|---|
| `row`, `receipt`, `lease`, `events` | `ExternalBusinessTask` rows: status, the provider's id, the lease, recorded events |
| `business`, `sent` | the business system: what became of a request, how often it was sent |
| `frame`, `for`, `told` | the frame's status, the task it waits for, the status it was resumed with |
| `at`, `task`, `loaded`, `heard` | the worker and a callback: step, task, the status it loaded, what it was told |

`Call` is the turn that records a task, `EndTurn` the end of its frame, which folds
in an end that came meanwhile (`Folds`) or leaves the frame waiting; `Submit`,
`Poll`, `Expire` are the worker's rounds, `Callback` the provider's event, `Apply`
its effect, `ResumeRead`/`ResumeWrite` the transaction that resumes the frame.

`TaskContract` is what a frame may count on: a request is sent once at most and only
after its task was recorded, a task is shown as completed, and the frame told so, only
after the business system did what was asked, and a frame waits only behind a recorded
task. The contract lets a record be wrong the other way, since a deadline or a
failed request may end a task whose request was served, and a late answer is
written over a newer one. The mapping `Contract` takes the records that exist, the
requests, the tasks the business system has served, the records that read `completed`,
whether the frame waits, and the status it was resumed with; leases, receipts, events
and the steps of the worker and the callbacks are hidden.

* `ImplementsContract`: the tasks implement `TaskContract`, also when the worker dies
  with a request, answers are lost or late, and callbacks come in any order.
* `HandsOver`: a frame waiting for a task that has ended has somebody about to
  resume it: either the turn saw the end, or who ended the task saw the frame wait.
* `WaitEnds`: a frame does not wait for ever.
* `Settles`: every task comes to an end that stays, whatever is lost or overwritten.

Run `external_waits`: a provider that is polled and calls back, one that only calls
back, one that is only polled, and a synchronous call; two tasks and three turns of
the frame, one crash. Fairness: the worker goes on, deadlines pass, a callback that
was applied goes on to resume, turns end. Nothing is assumed of the provider.

Behaviour to know of: `_prepare_sop_resume` writes `ready_to_resume` over a frame a
turn has taken up since it was read, and the turn's own end then fails on its lost
claim. The worker writes a poll's answer over what a callback brought while the
request was under way. A crash between the end of a task and the resumption leaves
the frame waiting for ever, hence `HandsOver` and `WaitEnds` are without crashes. A
resumed step may submit again after `expired` or `failed`, as another task. It does not
compare the task that has ended with the one the frame waits for either: when a task ended
while a turn was running that recorded another, the end of the older one resumes the
frame, which waits for the newer. That is why `Resume` in the contract names any recorded task.

Left out: the A2A client and the Codex adapter, refused callbacks (409), which step
is resumed with which results, back-off, and what a failed poll leaves of its counters.

## 7. Public jobs: `PublicJobs.tla`, `JobContract.tla`

Requests with one `Idempotency-Key` and one content, the jobs they create, the pool
that runs them, one cancellation and one event stream. A job is named by the request
that creates it.

`JobContract` is what the API promises to its clients: the answers name one accepted
job; a job is begun once at most (`RunsOnce`), succeeds only if it was begun, ends once and
keeps its end, also when several fail together at a restart; a stream follows one job
and closes only after it has shown how that job ended. The mapping `Contract` takes
the record for the job that is named, the two statuses before the end for one, `ran` and the stream's
own fields; the pool, the threads, the cancellations and the events are hidden.

| Variable | Code |
|---|---|
| `request`, `record` | where a POST is in `create_run_route`, the job of the `APIIdempotencyRecord` |
| `job`, `cancel`, `events` | `APIJob`: status, `cancel_requested`; the number of its `APIJobEvent` rows |
| `canceller` | the cancellation between its read and its write |
| `pool`, `at`, `read` | the jobs handed to threads of this process, a thread's step, the event number it has read |
| `turn`, `ran` | the turn of a job and how often it was begun |
| `stream` | a client's stream: its job, step, cursor, whether it showed the terminal event |

* `KeyAgrees`: requests that are answered with a job are answered with one job, as
  `docs/open-api-v1.md:308` says.
* `ImplementsContract`: the API implements `JobContract`, across restarts.
* `StreamIsComplete`: a stream that closes has shown the terminal event, though it
  reads the job's status and its events in two queries.
* `JobEnds`: an accepted job ends, across restarts.

Run `jobs_ends`: two requests, one cancellation, one stream, one crash. Two requests
are the race for the record; a third repeats it. Fairness: threads and streams
go on, a stopped process starts again (`Crash` includes recovery).

Behaviour to know of: two requests at once, or a crash between the job and the
record, create two jobs that both run, though only one is answered. The number of the
event `started` is read without the write lock; a cancellation may take it, the
exception leaves the thread before its `try`, and the job stays running until a
restart, so `JobEnds` excludes jobs whose cancellation is asked for. An exception
before the thread's turn begins, or while it runs, fails the job (`GiveUp`, which also
gives up a cancelled one). A running job always has an `execution_owner`, so the branch of
the claim for one that has none (`jobs.py:316-319`) is never taken and is not in `Claim`. A job may be
`cancelled` while its turn goes on, and a late cancellation publishes an event after
the terminal one.

Left out: webhooks (section 10), expiry of records (24 h) and cleanup, other kinds of jobs, the
size of the pool, the content of relayed events.

## 8. Channel intake: `ChannelIntake.tla`, `IntakeContract.tla`

The events of one binding and one conversation. `Threads` are the daemon of
`service_intake.py`, the channel's own source (WeCom's consumer, WeChat's poller),
and the sweeper that runs once after a start. `setup.channel` is the kind of channel:
`feishu` (DingTalk and WeChat customer service are the same: stage, then the daemon),
`wecom` (staged, and both the consumer and the daemon may take a row), `wechat` (the
poller registers and processes an event in one call).

| Variable | Code |
|---|---|
| `row`, `owner`, `fresh` | `ChannelInboundEvent`: status, `processor_run_id` (this process, one before, none), its lease |
| `turn`, `message`, `reply` | the receipt, the user message, the reply, and whether it was staged for the channel |
| `notices`, `cut` | notices staged for an event; history: failed events whose notice was lost between two commits |
| `at`, `ev`, `over` | a thread's step and event; whether it took the row over |
| `todo`, `pulled`, `acked` | queue, batch and list; the poller's batch and cursor |
| `lock`, `active`, `paused`, `binding` | `_session_lock`, the count of `_enter_binding_intake`, the fence of a deletion, the binding |
| `undone` | history: events that a handler wrote although they were not, or no longer, its thread's, or that it opened again with a turn cut short |

`Stage` to `Take` is how events arrive, `Enter` to `Interrupt` how a thread claims or
takes over a row, `Prepare` to `Raise` `process_inbound` and the turn, `Finish` to
`Notify` its outcome, `Pause` to `Delete` the deletion of the binding. The turn is reduced
to what intake reads. `Restart` applies the recovery of HarnessTurn.

`Fault` is an exception, at any place where one leaves `process_inbound` or a handler. It
runs through the handlers that are on its way (`Catcher`), each with transactions of
its own, and other threads go on between any two of these steps:

* the inner one, in `_process_claimed_staged_inbound` (`service_intake.py:2301-2328`):
  `Look` and `Judge` read the row, the message and the reply, `Amend` writes the row by
  its key, whatever it is by then: received, done, or failed with a notice;
* the outer one, in `process_staged_inbound` (2245-2263): `Reset` opens any row that is
  processing under this process's id, which does not tell its threads apart; then the
  binding's count is given back;
* that of the sweeper (2573) and of who took a row over (300-342): `Drop` gives up the claim
  of any row of this process.

A handler may fail too, and counts as another fault: then it writes nothing, and
the next handler runs. An exception that the sweeper does not catch ends its sweep.

`IntakeContract` is what the sender of a message may count on, however often it is
delivered: its turn is begun once at most and ends once, the message enters the
conversation once and in its turn, it has one answer, which stays, and its event
is closed (`done`) only behind that answer or a command's. A restart ends the turns that
were begun, and leaves an answer in the web page for those whose message was kept. The
mapping `Contract` takes `done` from the rows, the turn's begin and end from
the receipt, message and reply as they are; claims, owners, leases, locks, queues and the
deletion are hidden, and an event that fails is one that is never closed.

* `OneWorker`: no two threads work on one event.
* `TurnIsOwned`: while a turn runs, its event is this process's, so a deletion waits
  and the outcome is recorded.
* `ImplementsContract`: the intake implements `IntakeContract`.
* `FailedIsTold`: a failed event has its notice, or a thread about to stage it.
* `EventsEnd`: in the end each event is settled, or left in a way that `Left` names.

Run `intake_ends`: on each kind of channel, one event with three troubles (crashes,
exceptions, busy sessions, a deletion, in any mix) and two events with one. Three
troubles on one event are a crash in a retry after an exception; two events
share the lock and the lists. Fairness: a thread that waits for the lock gets it and
threads go on (strong fairness), the daemon reaches every row of its list, a deletion
ends, a stopped process starts again.

Behaviour to know of, all of it in the model:

* The sweep runs once and takes only rows whose 15 minutes ran out: a process that is
  back sooner leaves a row in `processing` for ever (`Left`, first line). A claim
  that the sweeper drops after an exception waits for the next start.
* A turn whose receipt was claimed, and whose message was not yet committed, at a
  crash: recovery fails the receipt, intake runs the event again, the receipt refuses
  it, the row is released, and so on for ever. Twenty such rows fill the daemon's list.
* WeChat: a refused turn's row stays `received`, which nothing reads; an exception in
  the poller leaves the row `processing` in this process, the batch that is pulled
  again passes over it, and the message is lost until a restart. The comment "靠事件
  幂等去重" (`adapters/wechat.py`) describes the part that works.
* After a crash in a turn, recovery appends its reply to the conversation but stages
  nothing: the event becomes `done`, its reply is `silent`, and the sender hears
  nothing in the channel, unlike the interrupted notice of `process_inbound`.
* One exception on WeCom puts an event in two hands: the daemon fails, the inner
  handler sets the row to `received`, the consumer has the event in its queue and claims it
  under the same process id, the daemon's outer handler sets it to `received`
  under the consumer, and the daemon claims it again. If the consumer's turn runs, the daemon
  finds its message and closes the event as done before any answer, and the consumer's outcome
  is not recorded, since the row is not its own any more. The same follows from an exception
  while the notice of a refused turn is staged. These events are in `undone`, and
  `OneWorker`, `TurnIsOwned`, `DoneIsAnswered` and the contract except them; the
  contract still promises one turn, one message and one answer for them.
* A second exception, in the inner handler: the outer one opens a row whose turn was cut
  short, and the next thread closes it as done without an answer (`undone` again). A
  second one in the outer handler leaves the row in `processing` (`Left`, last line).
* WeChat's sweeper is not counted by the intake fence, so a deletion may pass it.

There is no property of order: with two threads and a lock that is not first in,
first out, messages of a WeCom conversation may be processed in another order.

Left out: what commands, confirmations and handoff replies do (`Command` stands for
them), the received reaction, rows refused for another account (failed, no notice), a
team's handling of its leader's reply, failed cursor writes; exceptions other than
those that reach `process_inbound`'s callers.

## 9. Channel processes: `FeishuProcesses.tla`

The long connection of one Feishu binding. The manager's thread `reconcile` compares
the database with what it knows, every few seconds; a `request` that changes or
deletes the binding pauses it, which starts the thread `stop`, waits, commits and
resumes; all three call the supervisor, one at a time (`operation`). Bindings share
only the limit of processes, which is left out.

| Variable | Code |
|---|---|
| `binding` | the row: status, `config_revision`, `connected` |
| `paused`, `known` | `_paused` and `_known` of the manager, for this binding |
| `record`, `backoff`, `operation` | the supervisor: its `ConnectorRecord`, `_backoff_until`, the operation lock |
| `at`, `view` | the step of each thread, what reconciliation has read |
| `change` | the request: its kind, whether it starts the child again |
| `child` | processes: step, revision, told to stop, parent dead, a message not yet read |

`Start`, `Spawn`, `Stop`, `Stopped` and `StopTimesOut` are the supervisor's
operations, `ReadBinding` to `WriteConnected` is `reconcile_once`, `Request` to
`Ensured` the request with `pause_binding`, `wait_binding_stopped`, `resume_binding`
and `ensure_binding`, `TakeLock` to `Die` the child, `Hear` and `Notice` `poll_once`.
`Commit` stands for the routes that rotate credentials, toggle or delete. The third
crash within a minute makes the supervisor wait; counting is left to a choice.
`Crash` is the death of the whole parent, whose children read the end of the pipe.

* `OneChild`: every living child of this process is the one in its record, also after
  a stop that gave up, or when two threads start one at once.
* `Converges`: in the end an active binding is served with its revision, another is
  not served, and the column `connected` says so.

Run `feishu_runs`: two requests or faults (a lost connection, a child's death, the
parent's death), in any mix, and three names for children. Two are a request and the
one that follows it, or a fault in a request; a third repeats a pair. Stops and waits
may time out at any time and are not counted. Fairness: the three threads go on
although others want the operation lock, a child starts up or exits when told, its
messages are read, waiting ends.

Behaviour to know of: reconciliation copies `_paused`, then works from the
copy. A pause that begins in between finds no child, its wait succeeds, and
reconciliation starts one; the request commits its credentials beside a child that has
not exited, which `development-feishu-channel.md:210` excludes. The startup fence
(`Fence`) and the stop of the next reconciliation repair it: `Converges` holds.

Condition: a resumption that waits five seconds in vain is refused, and the binding
stays paused until another request, or a restart; `Converges` excepts `paused`.

Left out: an exception of `process.start` (`feishu_process.py:183-192`), which leaves no
child and no record and reaches the caller as `SpawnFails` does; the shutdown of manager and supervisor, `replace_binding` and
`forget_binding` (nothing calls them), the gap between reading and writing in the
update of `connected`, staging in the child (section 8), other channels' managers.

## 10. Webhooks: `Webhooks.tla`

Deliveries to one endpoint: `Stage` and `Dispatch` are the transaction of a job's
event and the hand-over after its commit, `HandOver` the daemon of `maintenance.py`,
`Claim` to `Finish` is `deliver_webhook` in a thread of the pool.

| Variable | Code |
|---|---|
| `endpoint` | the `WebhookEndpoint`'s status, or deleted |
| `row`, `owner`, `lease` | `WebhookDelivery`: status, `delivery_owner`, whether its lease has time left |
| `staged`, `handed` | committed and not handed over; calls of `deliver_webhook` that wait |
| `at`, `task`, `heard` | a thread: step, delivery, the receiver's answer |
| `posted`, `cut` | what was sent; history: deliveries that a crash took from a thread |

* `Attempted`: a staged event is sent, or abandoned because its endpoint is not
  active, also when the process stops between the commit and the hand-over.

Run `webhook_attempts`: two deliveries, two threads, one crash, one waiting call for a
delivery at a time. Two threads let the same delivery be claimed again when its lease
runs out during a post. Fairness: the daemon's round and the pool go on; the pool is
first in, first out, so a delivery that waits is taken. `maintenance._loop` has no
exception handler: one exception would stop the rounds, which the fairness rules out.

Finding, run `webhook_outcome`: the outcome is assigned to the loaded row, and then
recorded by an update whose guard is the status `sending`. The session flushes the row
before the update runs, so the guard meets the outcome, fails, and all is rolled back
(SQLAlchemy flushes pending changes before an ORM update unless `no_autoflush` is used,
as `task_frame_store.py:297` does). After any post the row stays `sending`, which the
daemon does not take up: no outcome, no count of attempts, no retry. `Flushed` is that
step; because nothing but `abandoned` is ever recorded, the model has no retry delays.

Left out: signatures, the patterns of events, the test route, retry delays.

## 11. The capability ledger: `CapabilityLedger.tla`

One task frame and one action with a side effect, called by turn after turn with the
same arguments, so that all calls have one `logical_action_key`. The turns are those
of HarnessTurn, reduced to their leases; a turn that stalled may go on beside the turn
that took the frame over.

| Variable | Code |
|---|---|
| `frame`, `holder` | `HarnessTaskFrameRecord`: status, the turn with the lease |
| `receipt`, `marker` | the turn's receipt; the cancellation marker in memory, published after the commit |
| `at`, `calls` | where a turn is in `invoke`, how many calls it has begun |
| `record` | `HarnessInvocationRecord` of each call: status, or deleted by a reset |
| `answer`, `told` | what the handler has answered; what the turn's last call returned to the model |
| `effects` | the calls whose effect happened at the provider |
| `faults` | crashes and resets (a bound) |

`MarkRunning` to `Crash` are the turn around the calls: the start and the end of a
frame's run, the sweep, the cancel endpoint, the reset of a session, a crash with
startup recovery. `Enter` to `Record` are one call of `invoke`: the check of
cancellation and leases, the manifest and authorisation (`Refuse`, `Authorize`),
`_replay_or_block`, the insert under the unique key, the last check, the handler, the
outcome. `Send` lets the provider act or not, and its answer arrive or not; only what
was surely not sent lets the key go (`Outcome`).

* `ActsOnce`: the action acts once, however often turns call it, stall, are swept,
  cancelled or restarted; with the exception below.
* `ToldIsDone`: whoever is told that it was done, by a result or a replay, can rely
  on it.

Run `ledger_once`: two turns with two calls each, two crashes or resets. Two turns are
the stalled one and its successor; two calls are a call and its repetition in one
turn. No fairness is needed. Deadlock is not checked, since calls and turns run out.

Behaviour to know of:

* The reset of a session deletes the record of a call under way with the frame
  (`harness_session_cleanup.py:24`), and a receipt that the sweep has failed does not
  count as cancelled at the last check (line 246). A failed turn that stalled before its
  insert then acts although another call has: `SweptBesideReset` names it.
* A record left `started` by a crash, or an unknown outcome, holds the key for ever. The
  action is then refused in every later turn of the frame; there is no way for a person
  to settle it.
* When the holder of the key lets it go between the refused insert and the second
  reading, the call ends with the database's error instead of another try.

Left out: actions without a key (`_logical_action_key` gives one to tools that write,
unless they are configured otherwise, and to writes through lark_cli), which errors
count as not sent, arguments and their digests, other frames and steps (their keys
differ).

## 12. What is proved

Every safety invariant a run checks is a theorem. Each proof has the same shape: `IInv`, which is `TypeOK` and a few named facts; a lemma
that `Init` gives it; one lemma for each fact, with one step per action of `Next`; and a
temporal step. None of the properties is inductive by itself unless said so. TLC
confirmed each fact on the instances of the module's runs before it was proved.

### `HarnessTurnProofs.tla`

For all values of the constants, from `ConstantsAssumption` alone (bounds are
naturals, a lease lasts, nobody is not a worker):

* `TypeCorrect`: `Spec => []TypeOK`;
* `CancelExcludesReplyHolds`: `Spec => []CancelExcludesReply`;
* `OneExecutorHolds`: `Spec => []OneExecutor`;
* `ImplementsContractHolds`: `Spec => ImplementsContract`;
* `ReplayHasReplyHolds`: `Spec => []ReplayHasReply`, who is told "replayed" or
  "answered" can read the reply;
* `OneLiveRunHolds`: `Spec => []OneLiveRun`;
* `TerminalChangesHold`: `Spec => TerminalChangesOnlyToFailed`.

The first two safety properties are not inductive. `IInv` strengthens them with four facts:
who got past the claim owns the receipt (`OwnerExecutes`); an executing worker's
turn has no normal reply until it has appended it (`NoEarlyReply`); a worker about
to append it has reserved the receipt, or a sweep has failed it since
(`FinalizerReserved`); a turn with a normal reply was reserved, and the reply is
the owner's (`ReplyWon`). `PreservingStep` says what most steps have in common
(no new executor, owner or normal reply), `QuietStep` and `StatusStep` specialise
it to workers, and only `Claim` and `FinalizeTurn` need arguments of their own.

The refinement needs, beside `IInv` and `AnswerFit` (below), `EndFit`: no worker has an
outcome before it ends, and what a sweep has read was claimed. `ContractStep` maps each
action: `Claim` to Execute, or Replay when the turn is completed; `BeginCompletion`,
`FinalizeTurn` and `Complete` to Grant, Answer and Complete; the cancellation of an
executor (`SettleWrite`) and that of a call (`CancelNew`, `CancelAgain`) to Cancel, which
requires that nobody has the right to answer: who has it has reserved the receipt;
`SettleWrite` after a failure, `SweepWrite` and `Restart` to FailAll; `Crash` to Die. All
others, and each of these when its guarded update hits no row, change nothing that the
contract sees (`Unseen` and the lemmas after it).

`ReplayHasReply`, `OneLiveRun` and `TerminalChangesOnlyToFailed` do not need the four
facts. `ReplayHasReply` needs `AnswerFit`: a
completed receipt has a normal reply, and so has the turn of a worker about to complete
it, whose append came first. `OneLiveRun` needs `LockFit`, the thread in the session's
section holds its lock and the other way round, and `RunFit`: while the process is up
a live run belongs to a worker in the section, so a second one cannot begin; after a crash,
recovery ends the runs before anybody enters. `TerminalChangesOnlyToFailed` holds step by
step: each write of a receipt but the sweep's is fenced by a status that is not
terminal (`TerminalStep`).

### `ChannelOutboxProofs.tla`

For all sets of rows and all bounds, from `OutboxAssumption` alone (at least one
attempt; replies, files and the two reactions are different rows): type
correctness, `AtMostOnce`, `OneMark`, `CallerOwnsRow`, `DeletedLeavesNoMark`,
`AttemptsBounded`, `DeletedIsQuiet`, `OutcomeIsFinal`, `ImplementsContract` and
`ReceiptCleared`. The inductive invariant has, beside the types, four parts, each proved by a lemma
with one step per action:

* `AttemptsFit`: a row that may still be claimed has an attempt left;
* `LaneFit`: a lane works on rows of its kind, and in a call it holds the lock and
  owns its row, while the binding is not deleted. Everything that could take
  the row away (reset, deletion, the other lane) needs the lock, a restarted lane
  or a row of the other kind;
* `CopyFit`: an answer that was shown is remembered by the provider, or too old
  to be sent;
* `MarkFit`: a reaction at the provider is known by its id or belongs to an
  uncertain `Add`; a first try of `Add` finds none; a finished clean-up leaves
  none.

The refinement adds `ShownFit` (a call that succeeded has shown its answer) and
maps each step: `Send` to Show or a stutter, `Delivered` to Deliver, all others to
GiveUp of the answers they fail, none included.

`ReceiptCleared` adds `ClearFit`: a removal is staged only once the reaction_add is
delivered, and a delivered removal leaves nothing. The delivery that comes last, of the
reply or of the reaction, then finds the other one and stages the removal, whichever
lane, restart or request of the user came between.

### `CapabilityLedgerProofs.tla`

For any number of turns, calls, crashes and resets, from `LedgerAssumption` alone
(bounds are naturals, nobody is not a turn): `TypeCorrect`, `ActsOnceHolds`,
`ToldIsDoneHolds`. `ActsOnce` speaks of effects, the code guards keys; the inductive
invariant connects them:

* `KeyFit`: one call at most has the key, since `Insert` finds nobody with it;
* `RecordFit`, `ActFit`: from its insert on a call has the key or was deleted by
  a reset; having acted it keeps the key (`Outcome`), so a second call cannot get it;
* `ResetFit`: after a reset that deleted a call's record no receipt is `started`, so
  whoever is past the last check then had failed, which is `PairFit`;
* `CallFit`, `HolderFit`, `EffectFit`, `ToldFit`: what a turn in a call has, and that
  answers agree with effects.

The last section of the module is about ScheduledTasks, taken as an instance `S`:
`EffectOnceHolds` and `OutcomeStaysHolds`, for any policies, slots, requests, edits and
crashes, from `ScheduleAssumption` alone (bounds are naturals, slots, requests and the names
of the others are different). `ReceiptFit`: an executed turn has its receipt, which admits no
other; that the receipt does so is `OneExecutor` of HarnessTurn. `RunFit`: who is
about to write a new run has found none, who goes on with one has it running; since
no two executors are in one run (`OwnRun`), nobody ends it meanwhile. `TimeFit` keeps
`next_run_at` within two periods of now, which the types need (`ScheduleGoes`): an
edit may move it ahead after the claim.

### `ChannelIntakeProofs.tla`

For any events, channels and number of troubles, from `IntakeAssumption` alone (an
instance is a channel, the events that are sent and a natural bound): `TypeCorrect`,
`OneWorkerHolds`, `TurnIsOwnedHolds`, `DoneIsAnsweredHolds` (an event that is done has a
reply or was a command), `FailedIsToldHolds`, `ImplementsContractHolds` and, for steps,
`SettledIsFinal`: where events are staged nothing opens a settled event again, but for
the events in `undone`.
The parts of the invariant:

* `EventFit`, `PlaceFit`, `DownFit`: which threads come where on which kind of channel,
  and that a process that is down has none;
* `ActiveFit`, `PausedFit`: the binding counts exactly the threads that process a staged
  event; when a deletion goes on nobody is counted and the source has stopped for good;
* `OwnerFit`, with `OneWorker`: who holds an event owns its row, so its row is neither
  received nor stale and nobody else can claim it. The exception is the sweeper, which
  is not counted when it looks at an event or processes one of WeChat: a deletion may
  close the event under it (`Passed`), and then no other thread is left to claim it;
* `RowFit`: only a row that is being processed has an owner;
* `MessageFit`: before its turn an event has no message, and an event that is received
  again has none or has its reply; what a handler has judged fits as long as the row is its
  thread's. This is what makes `DoneIsAnswered` inductive:
  "done" because the message exists already means that it was answered;
* `ToldFit`: `FailedIsTold` with the threads whose notice is of a failure, since the
  notice of a conflict says nothing about it;
* `TurnFit`, for the contract: a turn that runs is one thread's, though its event may be
  released under that thread, because the receipt lets one claim pass; its message is kept
  and it has no answer before it ends.

`Receipt` maps to Begin, `UserMessage` to Keep, `Reply` and `Raise` to End, `Command` to
Command, `Restart` to Restart, a handler that writes an event of another thread, or opens
one whose turn was cut short, to Release (`Releases`);
`Conclude`, `Seen`, `Finish` and `Amend` behind an answer to Close (`Closes`); who
writes any other status finds the event open (`HolderOpen`) or released (`Reopens`), so the
contract does not see it (`Hidden`).

`undone` is excepted in these facts as in the properties: there the code does confuse two
claims of this process, or forgets what the inner handler would have done (section 8).

### `TeamTasksProofs.tla`

For any setups, members and bounds, from `TeamAssumption` (the bounds are naturals, the
limit is positive, the tasks are finitely many) and `ProcsAssumption` (the sweeper's
thread, people and wakes are different): `TypeCorrect`, `MemberSerialHolds`,
`AnswerOnceHolds`. `ThreadFit` and `HandFit` say which thread comes where.

`MemberSerial` is not inductive, since what an order has counted may change before it
starts. `SlotFit`: a member's orders that are past the check are no more than its
slots. `StartFit`: an order about to start is its task's assignee's, or the award was
rewritten since. `HeldFit`: before a crash a task in progress is held by an order of its
assignee, until that order writes something else, so the tasks map into the slots. A
crash takes the orders and leaves the tasks; `AloneFit`: a member of one slot
has at most one task in progress, and starts none beside it, because the count was
taken before the slot could have been used by another.

`AnswerOnce` needs `TokenFit`: unless a judgement was written over the run, a run that
was not claimed has no synthesis (`Unclaimed`); one thread at most claimed it, and it
enqueues the only synthesis (`OneClaim`); what is published beyond one comes from a
synthesis that a crash cut short (`AnswerKept`).

### `PublicJobsProofs.tla`

For any number of requests, crashes and cancellations, from `JobsAssumption` alone:
`TypeCorrect`, `KeyAgreesHolds`, `RunsOnceHolds`, `StreamIsCompleteHolds`,
`ImplementsContractHolds`. The parts:
who was answered was answered with the job of the key's record, which stays
(`AnswerFit`); a job is created once, by its request, with an event (`CreateFit`); a
thread has a job while the job is running, and until the thread begins the turn it was never
begun (`RanFit`); and a stream has seen the end of its job or has an event left to show
(`FollowFit`, `StreamFit`), because each end publishes one in its own transaction.

The refinement adds `NameFit`: a request that has created its job is about to name it,
nobody has a job before the answer, and a turn that has ended was begun. `Create` maps to
Accept, `Replay` and `Store` to Answer, `StartTurn` to Begin, `GiveUp` and `Finish`
to End, `Crash` to FailAll of the jobs that were running, none included, and
`StreamRows` to Tell, Close or a stutter; all other steps stutter (`Unseen`).

### `ExternalTasksProofs.tla`

For any number of tasks, turns and crashes, from `ExternalAssumption` alone:
`TypeCorrect`, `SentOnceHolds`, `HandsOverHolds`. `SentFit`: a task that may be sent
was never sent, and no late answer, lease or callback makes it so again. `WaitFit`: when the
task of a waiting frame has ended, somebody holds that task and is about to read the
frame, or has read that it waits; who had read it before it waited would leave it
as it is, and is not enough. `HandFit` says what a thread with a task has heard.

`ImplementsContractHolds` adds `DoneFit`: what a record shows, the worker has heard, or a
thread is about to tell the frame as `completed` was served, and what was served was sent;
what is handled or waited for has a record. `Call` maps to Record, `Submit` to
Send, `Settle` to Serve, what `Apply`, `Callback`, `Expire` and `Stale` write to Complete
or Withdraw (`RowSeen`), `EndTurn` to Wait or, when it folds an end in, to Resume,
`StartTurn` to TakeUp, `ResumeWrite` to Resume (`ResumeSeen`); all other steps stutter
(`Unseen`).

### `FeishuProcessesProofs.tla`

For any number of requests, revisions and children, from `ProcessesAssumption` alone:
`TypeCorrect`, `OneChildHolds`. Who has the operation lock either spawns, and then no
child is on record, or stops the one on record (`OperationFit`), so a spawn
never forgets a living child. The steps of the supervisor are proved once for any thread, as
`Supervises` (`SupervisorSteps`); `RevisionFit` bounds the revisions by the requests.

### Only model-checked

Liveness is beyond the prover and stays with TLC: `ClaimedTurnEnds`, `AnsweredOrCancelled`, `StagedEnds`, `DueIsServed`, `RunsEnd`,
`TasksEnd`, `RunEnds`, `WaitEnds`, `Settles`, `JobEnds`, `EventsEnd`, `Converges`,
`Attempted`.

## 13. Plan

In this order, most important first:

1. Proofs: contracts of the capability ledger and of teams, as the turn, the outbox, the
   intake, the jobs and the external tasks have theirs. For external tasks and for
   teams, an action property: which late writes open an ended task again.
2. `TaskFrames`: the frame graph; abstract specification: a frame's life, which
   the runs of HarnessTurn and the waiting frame of ExternalTasks follow.
3. The reset of a session in HarnessTurn, beside a running turn.
4. The composition of ChannelIntake, HarnessTurn and ChannelOutbox: one answer
   per event. ChannelIntake has the turn in six steps, as HarnessTurn has it in
   forty, and the delivery as one flag.
5. `AsyncJobs`: the queue in memory and its shutdown. Bidding of teams, and
   `SkillGraph`: graph rules as operators against a reference definition.

## 14. Not modelled, and why

Text (prompts, rendering, wording), provider protocols, encryption, files and the
sandbox carry no control these properties could tell apart. Records edited by one
request at a time have no interleavings. The decisions of the language model are
nondeterministic choices wherever a model meets them.
