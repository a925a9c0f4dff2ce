----------------------------- MODULE HarnessTurn -----------------------------
(***************************************************************************)
(* One chat session of the Harness v2 turn core.                           *)
(*                                                                         *)
(* A turn is named by the caller's client_turn_id.  A worker is one call   *)
(* of AgentLoop.handle_turn: it takes the session's process lock, then the *)
(* durable session lease, claims the turn's receipt, appends the user      *)
(* message, plans, runs task frames, composes a reply, reserves the        *)
(* receipt (begin_completion), appends the reply and completes the         *)
(* receipt.  Beside the workers run the cancel endpoint, the 60 s recovery *)
(* sweeper, the stream relay's idle timeout, and crashes of the process    *)
(* followed by its startup recovery.  One process serves a database (the   *)
(* runtime instance lock), so there is one process lock and one sweeper.   *)
(*                                                                         *)
(* Every action is one database transaction, or one read whose result is   *)
(* used by a later transaction.  A guarded UPDATE ... WHERE is a           *)
(* compare-and-swap; an ORM write of a row read earlier is not.  Leases    *)
(* are kept as the time they have left: live while it is positive.         *)
(***************************************************************************)
EXTENDS Naturals, FiniteSets

CONSTANTS
    Turns,       \* client_turn_ids sent to the session
    Workers,     \* handle_turn calls
    Cancellers,  \* concurrent calls of the cancel endpoint
    TTL,         \* duration of every lease, in ticks
    MaxFrames,   \* task frames a worker may run in its turn
    MaxActions,  \* tool actions of a worker (its action budget)
    MaxCrashes,  \* bound on the crashes of the process
    None         \* nobody

ASSUME ConstantsAssumption ==
    /\ TTL \in Nat \ {0}
    /\ MaxFrames \in Nat
    /\ MaxActions \in Nat
    /\ MaxCrashes \in Nat
    /\ None \notin Workers

VARIABLES
    up,          \* the process is serving
    crashes,     \* crashes so far
    lock,        \* holder of the session's process lock
    holder, leaseTtl,          \* the session lease row: its owner (None: no
                               \* row) and the time it has left
    status, owner, ttl, bound, \* the turn receipts: status, owner, time left,
                               \* and whether the user message is bound
    announced,   \* turns whose user_message_received event is committed
    replies,     \* the assistant messages of each turn
    cancelEvent, \* each turn's durable stream_cancelled event
    marker,      \* turns with a cancellation marker in process memory
    running, runTtl,  \* workers whose run and frame rows are "running"; the
                      \* time the run's lease has left
    pc, req, todo, acts, outcome,   \* the workers
    view,        \* the cancel endpoint's reads, used by its transaction
    sweep        \* the sweeper's reads, used by its transaction

lease   == <<holder, leaseTtl>>
receipt == <<status, owner, ttl, bound>>
run     == <<running, runTtl>>
wvars == <<pc, req, todo, acts, outcome>>
evars == <<announced, replies, cancelEvent, marker>>
vars  == <<up, crashes, lock, lease, receipt, evars, run, wvars, view, sweep>>

-----------------------------------------------------------------------------

Active   == {"started", "finalizing"}
Terminal == {"completed", "failed", "cancelled"}
Statuses == {"absent"} \cup Active \cup Terminal

ReplyKinds == {"normal", "error", "recovery", "cancelled", "interrupted"}
Replies == [kind : ReplyKinds, by : Workers \cup Cancellers \cup {None}]

Labels == {"idle", "lease", "claim", "bind", "announce", "plan", "planned",
           "frames", "run", "compose", "reserve", "finalize",
           "complete", "cancel", "cancelSettle", "cancelWrite", "cancelDedup",
           "cancelReply", "interrupt", "settle", "settleWrite", "close",
           "closeError", "errorReply", "wrap", "done"}

\* A worker that has claimed its turn and not yet left handle_turn's try.
Executing == Labels \ {"idle", "lease", "claim", "close", "wrap", "done"}

\* "lost": the receipt was taken away after the claim.
Outcomes == {"none", "replayed", "rejected", "answered", "cancelled", "failed",
             "lost", "raised", "crashed"}

Time == 0 .. TTL

\* What a cancel call has read: nothing yet, a turn to cancel for the first
\* time or again, or the turn whose marker it is about to publish.
View(kind, turn, known, seen, fresh) ==
    [kind |-> kind, turn |-> turn, known |-> known, seen |-> seen,
     fresh |-> fresh]
Views == [kind : {"none", "new", "again", "publish"}, turn : Turns \cup {None},
          known : BOOLEAN, seen : Statuses, fresh : BOOLEAN]
NoView == View("none", None, FALSE, "absent", FALSE)
Publishing(t) == View("publish", t, FALSE, "absent", FALSE)

NoSweep == [on |-> FALSE, runs |-> {}, turns |-> {}]

TypeOK ==
    /\ up \in BOOLEAN
    /\ crashes \in 0 .. MaxCrashes
    /\ lock \in Workers \cup {None}
    /\ holder \in Workers \cup {None}
    /\ leaseTtl \in Time
    /\ status \in [Turns -> Statuses]
    /\ owner \in [Turns -> Workers \cup {None}]
    /\ ttl \in [Turns -> Time]
    /\ bound \in [Turns -> BOOLEAN]
    /\ announced \subseteq Turns
    /\ replies \in [Turns -> SUBSET Replies]
    /\ cancelEvent \in [Turns -> {"none", "first", "late"}]
    /\ marker \subseteq Turns
    /\ running \subseteq Workers
    /\ runTtl \in [Workers -> Time]
    /\ pc \in [Workers -> Labels]
    /\ req \in [Workers -> Turns]
    /\ todo \in [Workers -> 0 .. MaxFrames]
    /\ acts \in [Workers -> 0 .. MaxActions]
    /\ outcome \in [Workers -> Outcomes]
    /\ view \in [Cancellers -> Views]
    /\ \A c \in Cancellers : view[c].kind # "none" => view[c].turn \in Turns
    /\ sweep \in [on : BOOLEAN, runs : SUBSET Workers, turns : SUBSET Turns]

Init ==
    /\ up = TRUE
    /\ crashes = 0
    /\ lock = None
    /\ holder = None
    /\ leaseTtl = 0
    /\ status = [t \in Turns |-> "absent"]
    /\ owner = [t \in Turns |-> None]
    /\ ttl = [t \in Turns |-> 0]
    /\ bound = [t \in Turns |-> FALSE]
    /\ announced = {}
    /\ replies = [t \in Turns |-> {}]
    /\ cancelEvent = [t \in Turns |-> "none"]
    /\ marker = {}
    /\ running = {}
    /\ runTtl = [w \in Workers |-> 0]
    /\ pc = [w \in Workers |-> "idle"]
    /\ req \in [Workers -> Turns]
    /\ todo = [w \in Workers |-> 0]
    /\ acts = [w \in Workers |-> MaxActions]
    /\ outcome = [w \in Workers |-> "none"]
    /\ view = [c \in Cancellers |-> NoView]
    /\ sweep = NoSweep

-----------------------------------------------------------------------------
(* The stores' primitives.                                                 *)

\* is_chat_turn_cancelled: a marker, else a terminal receipt's own status,
\* else the durable event.
IsCancelled(t) ==
    \/ t \in marker
    \/ IF status[t] \in Terminal
       THEN status[t] = "cancelled"
       ELSE cancelEvent[t] # "none"

\* HarnessSessionLeaseStore.renew succeeds for the live owner only.
HoldsLease(w) == holder = w /\ leaseTtl > 0

Less(n) == IF n > 0 THEN n - 1 ELSE 0

FreeLease == holder' = None /\ leaseTtl' = 0

\* HarnessTurnStore.renew leaves a receipt that is not active alone.
RenewReceipt(t) ==
    /\ ttl' = [ttl EXCEPT ![t] = IF status[t] \in Active THEN TTL ELSE ttl[t]]
    /\ UNCHANGED <<status, owner, bound>>

RenewLeases(w) ==
    /\ leaseTtl' = TTL
    /\ UNCHANGED holder
    /\ RenewReceipt(req[w])

\* Mutant: the fence forgets the expected statuses.
FenceByOwner(w, expected) == owner[req[w]] = w

\* _fenced_update: the row still has an expected status and this owner.
Fence(w, expected) ==
    /\ status[req[w]] \in expected
    /\ owner[req[w]] = w

\* Mutant: the attempt is over but its rows stay.
KeepRun(w) == UNCHANGED run

\* finish_run and finish_frame: the worker's run and frame are not running.
FinishRun(w) ==
    /\ running' = running \ {w}
    /\ runTtl' = [runTtl EXCEPT ![w] = 0]

HasBudget(w) == acts[w] > 0

SetStatus(t, s) ==
    /\ status' = [status EXCEPT ![t] = s]
    /\ UNCHANGED <<owner, ttl, bound>>

Goto(w, label) == pc' = [pc EXCEPT ![w] = label]

Finish(w, label, result) ==
    /\ Goto(w, label)
    /\ outcome' = [outcome EXCEPT ![w] = result]

Reply(kind, author) == [kind |-> kind, by |-> author]

AddReply(t, kind, author) ==
    replies' = [replies EXCEPT ![t] = replies[t] \cup {Reply(kind, author)}]

\* The ensure-style appends first look for any assistant message of the turn.
AddReplyOnce(t, kind, author) ==
    IF replies[t] = {} THEN AddReply(t, kind, author) ELSE UNCHANGED replies

-----------------------------------------------------------------------------
(* HarnessV2Engine.run, up to the user message.                            *)

\* The process lock is taken without waiting; a busy session is rejected.
Arrive(w) ==
    /\ up /\ pc[w] = "idle"
    /\ IF lock = None
       THEN lock' = w /\ Finish(w, "lease", "none")
       ELSE lock' = lock /\ Finish(w, "done", "rejected")
    /\ UNCHANGED <<up, crashes, lease, receipt, evars, run, req, todo, acts,
                   view, sweep>>

\* Insert the row, or take over an expired one, or find the session busy.
AcquireLease(w) ==
    /\ pc[w] = "lease"
    /\ IF holder = None \/ leaseTtl = 0
       THEN /\ holder' = w
            /\ leaseTtl' = TTL
            /\ Finish(w, "claim", "none")
       ELSE /\ UNCHANGED lease
            /\ Finish(w, "close", "rejected")
    /\ UNCHANGED <<up, crashes, lock, receipt, evars, run, req, todo, acts,
                   view, sweep>>

\* A receipt is claimed when the turn has none, and replayed once completed.
ClaimableOrFailed(t) == status[t] \in {"absent", "failed"}   \* mutant
Claimable(t) == status[t] = "absent"

Replayable(t) == status[t] = "completed"

\* Any other receipt of the turn is a conflict.
Claim(w) ==
    LET t == req[w] IN
    /\ pc[w] = "claim"
    /\ IF Claimable(t)
       THEN /\ status' = [status EXCEPT ![t] = "started"]
            /\ owner' = [owner EXCEPT ![t] = w]
            /\ ttl' = [ttl EXCEPT ![t] = TTL]
            /\ UNCHANGED bound
            /\ Finish(w, "bind", "none")
       ELSE /\ UNCHANGED receipt
            /\ Finish(w, "close",
                      IF Replayable(t) THEN "replayed" ELSE "rejected")
    /\ UNCHANGED <<up, crashes, lock, lease, evars, run, req, todo, acts, view,
                   sweep>>

\* The user message and its binding to the receipt commit together.
BindUserMessage(w) ==
    /\ pc[w] = "bind"
    /\ IF Fence(w, {"started"})
       THEN /\ bound' = [bound EXCEPT ![req[w]] = TRUE]
            /\ UNCHANGED <<status, owner, ttl>>
            /\ Finish(w, "announce", "none")
       ELSE UNCHANGED receipt /\ Finish(w, "close", "lost")
    /\ UNCHANGED <<up, crashes, lock, lease, evars, run, req, todo, acts, view,
                   sweep>>

Announce(w) ==
    /\ pc[w] = "announce"
    /\ announced' = announced \cup {req[w]}
    /\ Goto(w, "plan")
    /\ UNCHANGED <<up, crashes, lock, lease, receipt, replies, cancelEvent,
                   marker, run, req, todo, acts, outcome, view, sweep>>

-----------------------------------------------------------------------------
(* Planning, task frames and the reply.  A lost session lease is an        *)
(* ordinary exception of the turn; a cancellation is its own.              *)

\* Check, then renew: the planner's model call starts.
BeginPlan(w) ==
    /\ pc[w] = "plan"
    /\ IF IsCancelled(req[w]) \/ ~HoldsLease(w)
       THEN /\ UNCHANGED <<lease, receipt>>
            /\ Goto(w, IF IsCancelled(req[w]) THEN "cancel" ELSE "interrupt")
       ELSE RenewLeases(w) /\ Goto(w, "planned")
    /\ UNCHANGED <<up, crashes, lock, evars, run, req, todo, acts, outcome,
                   view, sweep>>

\* Renew, then check, then persist the plan.  The plan may continue a frame
\* an earlier worker left running: live, it is an error; expired, its run is
\* abandoned and the frame is queued again.
PersistPlan(w) ==
    /\ pc[w] = "planned"
    /\ IF ~HoldsLease(w)
       THEN Goto(w, "interrupt") /\ UNCHANGED <<lease, receipt, run, todo>>
       ELSE /\ RenewLeases(w)
            /\ IF IsCancelled(req[w])
               THEN Goto(w, "cancel") /\ UNCHANGED <<run, todo>>
               ELSE \/ \E n \in 0 .. MaxFrames :
                         /\ todo' = [todo EXCEPT ![w] = n]
                         /\ Goto(w, "frames")
                         /\ UNCHANGED run
                    \/ \E o \in Workers \ {w}, n \in 1 .. MaxFrames :
                         /\ o \in running
                         /\ IF runTtl[o] > 0
                            THEN Goto(w, "interrupt") /\ UNCHANGED <<run, todo>>
                            ELSE /\ running' = running \ {o}
                                 /\ UNCHANGED runTtl
                                 /\ todo' = [todo EXCEPT ![w] = n]
                                 /\ Goto(w, "frames")
    /\ UNCHANGED <<up, crashes, lock, evars, req, acts, outcome, view, sweep>>

\* The next frame: renew, check, claim the frame and start its run.  With no
\* action left in the budget the remaining frames stay queued.
StartFrame(w) ==
    /\ pc[w] = "frames" /\ todo[w] > 0
    /\ IF ~HoldsLease(w)
       THEN Goto(w, "interrupt") /\ UNCHANGED <<lease, receipt, run, todo>>
       ELSE /\ RenewLeases(w)
            /\ IF ~HasBudget(w)
               THEN /\ todo' = [todo EXCEPT ![w] = 0]
                    /\ UNCHANGED <<run, pc>>
               ELSE IF IsCancelled(req[w])
               THEN Goto(w, "cancel") /\ UNCHANGED <<run, todo>>
               ELSE /\ running' = running \cup {w}
                    /\ runTtl' = [runTtl EXCEPT ![w] = TTL]
                    /\ todo' = [todo EXCEPT ![w] = todo[w] - 1]
                    /\ Goto(w, "run")
    /\ UNCHANGED <<up, crashes, lock, evars, req, acts, outcome, view, sweep>>

\* One tool action of the running frame.  The invoker first renews the
\* session lease, the receipt and the run together.
ToolAction(w) ==
    /\ pc[w] = "run" /\ HasBudget(w)
    /\ IF IsCancelled(req[w])
       THEN Goto(w, "cancel") /\ UNCHANGED <<lease, receipt, run, acts>>
       ELSE IF ~HoldsLease(w) \/ w \notin running \/ runTtl[w] = 0
       THEN Goto(w, "interrupt") /\ UNCHANGED <<lease, receipt, run, acts>>
       ELSE /\ RenewLeases(w)
            /\ runTtl' = [runTtl EXCEPT ![w] = TTL]
            /\ acts' = [acts EXCEPT ![w] = acts[w] - 1]
            /\ UNCHANGED <<running, pc>>
    /\ UNCHANGED <<up, crashes, lock, evars, req, todo, outcome, view, sweep>>

\* The agent's last action ends the frame.  finish_run and finish_frame carry
\* the frame's own live-lease fence.
FinishFrame(w) ==
    /\ pc[w] = "run"
    /\ IF w \in running /\ runTtl[w] > 0
       THEN /\ FinishRun(w)
            /\ acts' = [acts EXCEPT ![w] = Less(acts[w])]
            /\ Goto(w, "frames")
       ELSE Goto(w, "interrupt") /\ UNCHANGED <<run, acts>>
    /\ UNCHANGED <<up, crashes, lock, lease, receipt, evars, req, todo, outcome,
                   view, sweep>>

\* All frames done: check, renew, and the reply's model call starts.
BeginReply(w) ==
    /\ pc[w] = "frames" /\ todo[w] = 0
    /\ IF IsCancelled(req[w]) \/ ~HoldsLease(w)
       THEN /\ UNCHANGED <<lease, receipt>>
            /\ Goto(w, IF IsCancelled(req[w]) THEN "cancel" ELSE "interrupt")
       ELSE RenewLeases(w) /\ Goto(w, "compose")
    /\ UNCHANGED <<up, crashes, lock, evars, run, req, todo, acts, outcome,
                   view, sweep>>

\* The reply is composed: renew, then the last check.
Compose(w) ==
    /\ pc[w] = "compose"
    /\ IF ~HoldsLease(w)
       THEN Goto(w, "interrupt") /\ UNCHANGED <<lease, receipt>>
       ELSE /\ RenewLeases(w)
            /\ Goto(w, IF IsCancelled(req[w]) THEN "cancel" ELSE "reserve")
    /\ UNCHANGED <<up, crashes, lock, evars, run, req, todo, acts, outcome,
                   view, sweep>>

ReserveCompleted(t) == SetStatus(t, "completed")   \* mutant
Reserve(t) == SetStatus(t, "finalizing")

\* begin_completion: the durable right to publish the normal reply.
BeginCompletion(w) ==
    /\ pc[w] = "reserve"
    /\ IF Fence(w, {"started"})
       THEN /\ Reserve(req[w])
            /\ Finish(w, "finalize", "none")
       ELSE UNCHANGED receipt /\ Finish(w, "close", "lost")
    /\ UNCHANGED <<up, crashes, lock, lease, evars, run, req, todo, acts, view,
                   sweep>>

\* _finalize_turn: the reply is appended and committed, under no fence.
FinalizeTurn(w) ==
    /\ pc[w] = "finalize"
    /\ AddReply(req[w], "normal", w)
    /\ Goto(w, "complete")
    /\ UNCHANGED <<up, crashes, lock, lease, receipt, announced, cancelEvent,
                   marker, run, req, todo, acts, outcome, view, sweep>>

Complete(w) ==
    /\ pc[w] = "complete"
    /\ IF Fence(w, Active)
       THEN /\ SetStatus(req[w], "completed")
            /\ Finish(w, "close", "answered")
       ELSE UNCHANGED receipt /\ Finish(w, "close", "lost")
    /\ UNCHANGED <<up, crashes, lock, lease, evars, run, req, todo, acts, view,
                   sweep>>

-----------------------------------------------------------------------------
(* AgentLoop.handle_turn: how a worker ends when run() raises.             *)

\* A model or tool call raises (LLMError, or any other exception).
Fail(w) ==
    /\ pc[w] \in {"announce", "planned", "frames", "run", "compose"}
    /\ Goto(w, "interrupt")
    /\ UNCHANGED <<up, crashes, lock, lease, receipt, evars, run, req, todo,
                   acts, outcome, view, sweep>>

\* mark_interrupted and mark_cancelled close the attempt's run and frame
\* first.  finish_run is fenced by the run's lease: a run that expired raises
\* out of the handler and leaves the receipt active.
CloseAttempt(w) ==
    /\ pc[w] \in {"interrupt", "cancel"}
    /\ IF w \in running /\ runTtl[w] = 0
       THEN UNCHANGED run /\ Finish(w, "close", "raised")
       ELSE /\ FinishRun(w)
            /\ Finish(w, IF pc[w] = "cancel" THEN "cancelSettle" ELSE "settle",
                      "none")
    /\ UNCHANGED <<up, crashes, lock, lease, receipt, evars, req, todo, acts,
                   view, sweep>>

\* finish_with_error, the read: nothing to do on a receipt that is not active.
SettleRead(w) ==
    LET active == status[req[w]] \in Active IN
    /\ \/ pc[w] = "settle"
          /\ Goto(w, IF active THEN "settleWrite" ELSE "closeError")
       \/ pc[w] = "cancelSettle"
          /\ Goto(w, IF active THEN "cancelWrite" ELSE "cancelDedup")
    /\ UNCHANGED <<up, crashes, lock, lease, receipt, evars, run, req, todo,
                   acts, outcome, view, sweep>>

\* finish_with_error, the fenced update: raises if the receipt moved on.
SettleWrite(w) ==
    /\ pc[w] \in {"settleWrite", "cancelWrite"}
    /\ IF ~Fence(w, Active)
       THEN UNCHANGED receipt /\ Finish(w, "close", "raised")
       ELSE IF pc[w] = "settleWrite"
       THEN /\ SetStatus(req[w], "failed")
            /\ Finish(w, "closeError", "none")
       ELSE /\ SetStatus(req[w], "cancelled")
            /\ Finish(w, "cancelDedup", "none")
    /\ UNCHANGED <<up, crashes, lock, lease, evars, run, req, todo, acts, view,
                   sweep>>

\* _persist_cancelled_assistant_message: look for a reply, then append one.
CancelDedup(w) ==
    /\ pc[w] = "cancelDedup"
    /\ IF replies[req[w]] = {}
       THEN Finish(w, "cancelReply", "none")
       ELSE Finish(w, "close", "cancelled")
    /\ UNCHANGED <<up, crashes, lock, lease, receipt, evars, run, req, todo,
                   acts, view, sweep>>

CancelReply(w) ==
    /\ pc[w] = "cancelReply"
    /\ AddReply(req[w], "cancelled", w)
    /\ Finish(w, "close", "cancelled")
    /\ UNCHANGED <<up, crashes, lock, lease, receipt, announced, cancelEvent,
                   marker, run, req, todo, acts, view, sweep>>

\* The finally block and engine.close(): the markers of a finished or
\* cancelled turn are dropped, the lease and the process lock are released.
Close(w) ==
    LET t == req[w]
        dropsMarker == \/ outcome[w] \in {"cancelled", "replayed"}
                       \/ /\ owner[t] = w
                          /\ status[t] \in Terminal
    IN
    /\ pc[w] \in {"close", "closeError"}
    /\ IF holder = w THEN FreeLease ELSE UNCHANGED lease
    /\ lock' = IF lock = w THEN None ELSE lock
    /\ marker' = IF dropsMarker THEN marker \ {t} ELSE marker
    /\ Goto(w, IF pc[w] = "closeError" THEN "errorReply"
               ELSE IF outcome[w] = "raised" THEN "wrap" ELSE "done")
    /\ UNCHANGED <<up, crashes, receipt, announced, replies, cancelEvent, run,
                   req, todo, acts, outcome, view, sweep>>

\* The error path's _finalize_turn, after the session has been released.
ErrorReply(w) ==
    /\ pc[w] = "errorReply"
    /\ AddReply(req[w], "error", w)
    /\ Finish(w, "done", "failed")
    /\ UNCHANGED <<up, crashes, lock, lease, receipt, announced, cancelEvent,
                   marker, run, req, todo, acts, view, sweep>>

\* _persist_chat_turn_interrupted: only for a turn with no terminal event.
Interrupted(t) ==
    IF cancelEvent[t] = "none" /\ t \in announced
    THEN AddReplyOnce(t, "interrupted", None)
    ELSE UNCHANGED replies

\* An exception out of handle_turn: the stream worker reports the turn
\* interrupted, any other caller just sees the exception.
Wrap(w) ==
    /\ pc[w] = "wrap"
    /\ Goto(w, "done")
    /\ Interrupted(req[w]) \/ UNCHANGED replies
    /\ UNCHANGED <<up, crashes, lock, lease, receipt, announced, cancelEvent,
                   marker, run, req, todo, acts, outcome, view, sweep>>

-----------------------------------------------------------------------------
(* The cancel endpoint: a read of the turn's events and receipt, the       *)
(* transaction that cancels, and the marker published after its commit.    *)

CancelRead(c, t) ==
    /\ up /\ view[c] = NoView
    /\ \/ cancelEvent[t] = "first"
       \/ /\ cancelEvent[t] = "none"
          /\ replies[t] = {}
          /\ status[t] \in {"absent", "started", "cancelled"}
    /\ view' = [view EXCEPT ![c] =
          View(IF cancelEvent[t] = "none" THEN "new" ELSE "again", t,
               t \in announced, status[t], replies[t] = {})]
    /\ UNCHANGED <<up, crashes, lock, lease, receipt, evars, run, wvars, sweep>>

CancelSwapsActive(c) == status[view[c].turn] \in Active   \* mutant
CancelSwaps(c) == status[view[c].turn] = "started"

GiveUp(c) == view' = [view EXCEPT ![c] = NoView]

\* The first cancellation: the receipt, if it was seen started, is swapped to
\* cancelled or the call gives up; then the event and, where the user message
\* is known, the cancelled reply join the same transaction.
CancelNew(c) ==
    LET t == view[c].turn IN
    /\ view[c].kind = "new"
    /\ IF view[c].seen = "started" /\ ~CancelSwaps(c)
       THEN /\ GiveUp(c)
            /\ UNCHANGED <<receipt, replies, cancelEvent>>
       ELSE /\ IF view[c].seen = "started"
               THEN SetStatus(t, "cancelled") ELSE UNCHANGED receipt
            /\ cancelEvent' = [cancelEvent EXCEPT ![t] =
                   IF cancelEvent[t] # "none" THEN cancelEvent[t]
                   ELSE IF replies[t] = {} THEN "first" ELSE "late"]
            /\ IF view[c].known
               THEN AddReplyOnce(t, "cancelled", c)
               ELSE UNCHANGED replies
            /\ view' = [view EXCEPT ![c] = Publishing(t)]
    /\ UNCHANGED <<up, crashes, lock, lease, announced, marker, run, wvars,
                   sweep>>

\* A repeated cancellation: the receipt is swapped if still started, and the
\* reply appended where there is none.  Only the swap holds the database's
\* write lock across the look for a reply.
CancelAgain(c) ==
    LET t == view[c].turn
        fresh == IF view[c].seen = "started" THEN replies[t] = {}
                                                ELSE view[c].fresh
    IN
    /\ view[c].kind = "again"
    /\ IF view[c].seen = "started" /\ CancelSwaps(c)
       THEN SetStatus(t, "cancelled") ELSE UNCHANGED receipt
    /\ IF view[c].known /\ fresh
       THEN /\ AddReply(t, "cancelled", c)
            /\ view' = [view EXCEPT ![c] = Publishing(t)]
       ELSE UNCHANGED replies /\ GiveUp(c)
    /\ UNCHANGED <<up, crashes, lock, lease, announced, cancelEvent, marker, run,
                   wvars, sweep>>

CancelPublish(c) ==
    /\ view[c].kind = "publish"
    /\ marker' = marker \cup {view[c].turn}
    /\ view' = [view EXCEPT ![c] = NoView]
    /\ UNCHANGED <<up, crashes, lock, lease, receipt, announced, replies,
                   cancelEvent, run, wvars, sweep>>

-----------------------------------------------------------------------------
(* Recovery, crashes and time.                                             *)

\* Mutant: turns that reserved their completion are not looked at.
StartedTurns == {t \in Turns : status[t] = "started"}
ActiveTurns == {t \in Turns : status[t] \in Active}
ExpiredRuns == {w \in running : runTtl[w] = 0}
LiveRuns    == {w \in running : runTtl[w] > 0}

\* Every active turn of a session with an expired run, else the expired turns
\* of a session with no live run.
OrphanTurns ==
    IF ExpiredRuns # {} THEN ActiveTurns
    ELSE IF LiveRuns # {} THEN {}
    ELSE {t \in ActiveTurns : ttl[t] = 0}

\* Mutant: no reply for a turn whose user_message_received event is missing.
LacksReplyAnnounced(t) == replies[t] = {} /\ t \in announced
LacksReply(t) == replies[t] = {}

\* recover_orphan_harness_runs, the write: rows read earlier are overwritten
\* without a fence, a turn with no reply gets the recovery reply, and the
\* session's lease row is deleted whoever owns it.
Recover(runs, turns) ==
    /\ running' = running \ runs
    /\ runTtl' = [w \in Workers |-> IF w \in runs THEN 0 ELSE runTtl[w]]
    /\ status' = [t \in Turns |-> IF t \in turns THEN "failed" ELSE status[t]]
    /\ ttl' = [t \in Turns |-> IF t \in turns THEN 0 ELSE ttl[t]]
    /\ UNCHANGED <<owner, bound>>
    /\ replies' = [t \in Turns |->
          IF t \in turns /\ LacksReply(t)
          THEN {Reply("recovery", None)} ELSE replies[t]]
    /\ IF runs \cup turns = {} THEN UNCHANGED lease ELSE FreeLease

SweepRead ==
    /\ up /\ ~sweep.on
    /\ ExpiredRuns \cup OrphanTurns # {}
    /\ sweep' = [on |-> TRUE, runs |-> ExpiredRuns, turns |-> OrphanTurns]
    /\ UNCHANGED <<up, crashes, lock, lease, receipt, evars, run, wvars, view>>

SweepWrite ==
    /\ sweep.on
    /\ Recover(sweep.runs, sweep.turns)
    /\ sweep' = NoSweep
    /\ UNCHANGED <<up, crashes, lock, announced, cancelEvent, marker, wvars,
                   view>>

\* The process dies: its workers, lock, markers and pending reads are gone.
Crash ==
    /\ up /\ crashes < MaxCrashes
    /\ up' = FALSE
    /\ crashes' = crashes + 1
    /\ lock' = None
    /\ marker' = {}
    /\ view' = [c \in Cancellers |-> NoView]
    /\ sweep' = NoSweep
    /\ outcome' = [w \in Workers |-> IF pc[w] \in Executing
                                     THEN "crashed" ELSE outcome[w]]
    /\ pc' = [w \in Workers |-> IF pc[w] = "idle" THEN "idle" ELSE "done"]
    /\ UNCHANGED <<lease, receipt, announced, replies, cancelEvent, run, req,
                   todo, acts>>

\* Startup recovery takes every active row for an orphan, before serving.
Restart ==
    /\ ~up
    /\ up' = TRUE
    /\ Recover(running, ActiveTurns)
    /\ UNCHANGED <<crashes, lock, announced, cancelEvent, marker, wvars, view,
                   sweep>>

\* The relay gives up on a turn that was silent too long while it waits for a
\* model or a tool.  The worker does not notice.
RelayTimeout(w) ==
    /\ pc[w] \in {"planned", "run", "compose"}
    /\ leaseTtl < TTL
    /\ Interrupted(req[w])
    /\ replies' # replies
    /\ UNCHANGED <<up, crashes, lock, lease, receipt, announced, cancelEvent,
                   marker, run, wvars, view, sweep>>

Tick ==
    /\ leaseTtl' = Less(leaseTtl)
    /\ ttl' = [t \in Turns |-> Less(ttl[t])]
    /\ runTtl' = [w \in Workers |-> Less(runTtl[w])]
    /\ UNCHANGED <<up, crashes, lock, holder, status, owner, bound, evars,
                   running, wvars, view, sweep>>

-----------------------------------------------------------------------------

WorkerStep(w) ==
    \/ Arrive(w) \/ AcquireLease(w) \/ Claim(w) \/ BindUserMessage(w)
    \/ Announce(w) \/ BeginPlan(w) \/ PersistPlan(w) \/ StartFrame(w)
    \/ ToolAction(w) \/ FinishFrame(w) \/ BeginReply(w) \/ Compose(w)
    \/ BeginCompletion(w) \/ FinalizeTurn(w) \/ Complete(w)
    \/ Fail(w) \/ CloseAttempt(w) \/ SettleRead(w) \/ SettleWrite(w)
    \/ CancelDedup(w) \/ CancelReply(w) \/ Close(w) \/ ErrorReply(w) \/ Wrap(w)

CancelStep(c) ==
    \/ \E t \in Turns : CancelRead(c, t)
    \/ CancelNew(c) \/ CancelAgain(c) \/ CancelPublish(c)

Next ==
    \/ \E w \in Workers : WorkerStep(w) \/ RelayTimeout(w)
    \/ \E c \in Cancellers : CancelStep(c)
    \/ SweepRead \/ SweepWrite \/ Crash \/ Restart \/ Tick

Spec == Init /\ [][Next]_vars

\* Time passes, the sweeper's thread runs and a stopped process is started
\* again.  A worker may stay in a model or tool call for ever.
FairSpec ==
    /\ Spec
    /\ WF_vars(Tick) /\ WF_vars(SweepRead) /\ WF_vars(SweepWrite)
    /\ WF_vars(Restart)

\* Model and tool calls have timeouts, so every worker takes its next step.
LiveSpec == FairSpec /\ \A w \in Workers : WF_vars(WorkerStep(w))

-----------------------------------------------------------------------------
(* Properties.                                                             *)

KindsOf(t) == {r.kind : r \in replies[t]}

\* Cancellation and normal completion compete for the receipt, and the normal
\* reply of a turn is appended by the receipt's owner after it won: a receipt
\* that is cancelled never has a normal reply (begin_completion, cancel).
CancelExcludesReply ==
    \A t \in Turns :
        /\ status[t] \in {"absent", "started", "cancelled"}
              => "normal" \notin KindsOf(t)
        /\ \A r \in replies[t] : r.kind = "normal" => r.by = owner[t]

\* A caller is given a replay only of a turn whose normal reply it can read:
\* the receipt is completed after the reply is committed, never before.
ReplayHasReply ==
    \A w \in Workers :
        outcome[w] \in {"replayed", "answered"} => "normal" \in KindsOf(req[w])

\* A turn is executed once: whatever retries, crashes and recoveries happen,
\* one worker at most gets past the claim of a client_turn_id, then or later
\* (HarnessTurnStore.claim).
Executed(w) ==
    \/ pc[w] \in Executing
    \/ outcome[w] \in Outcomes \ {"none", "replayed", "rejected"}

OneExecutor ==
    \A v, w \in Workers :
        Executed(v) /\ Executed(w) /\ req[v] = req[w] => v = w

\* A session runs one task frame at a time: whoever stalls, fails, is recovered
\* or crashes, no second run is live beside a first.
OneLiveRun == \A v, w \in LiveRuns : v = w

\* Recovery, and it alone, may write over a terminal receipt, and only with
\* failed: no worker and no cancellation reopens or changes a finished turn.
TerminalChangesOnlyToFailed ==
    [][\A t \in Turns :
          status[t] \in Terminal =>
              \/ status'[t] = status[t]
              \/ status'[t] = "failed" /\ sweep.on]_vars

\* Every claimed turn reaches a terminal receipt, though its worker may hang
\* in a call or die with the process: time and again none is active.
ClaimedTurnEnds == []<>(\A t \in Turns : status[t] \notin Active)

\* Every user message that reached the session gets an assistant message,
\* unless the user cancelled the turn or the process stopped: recovery answers
\* active receipts only, and a crash may come after the receipt has failed and
\* before its error reply.
AnsweredOrCancelled ==
    \A t \in Turns :
        bound[t] ~> replies[t] # {} \/ cancelEvent[t] # "none" \/ crashes > 0

\* What the callers see, in TurnContract's words.  Who is about to append the
\* reply has the right to answer; it dies with the process.
States     == [t \in Turns |-> IF status[t] \in Active THEN "open" ELSE status[t]]
Executors  == [t \in Turns |-> {w \in Workers : Executed(w) /\ req[w] = t}]
Granted    == {req[w] : w \in {v \in Workers : pc[v] = "finalize"}}
Answered   == {t \in Turns : "normal" \in KindsOf(t)}
IsTold(w)  == outcome[w] \in {"replayed", "answered"}
Told       == {req[w] : w \in {v \in Workers : IsTold(v)}}

Contract ==
    INSTANCE TurnContract WITH
        Calls <- Workers, state <- States, executors <- Executors,
        granted <- Granted, answered <- Answered, told <- Told

\* The turn core keeps its promise through resends, cancellations, stalls,
\* sweeps and crashes: one execution of a turn, an answer or a cancellation,
\* completion and its announcement only behind the answer.
ImplementsContract == Contract!Spec

=============================================================================
