----------------------------- MODULE ChannelIntake -----------------------------
(***************************************************************************)
(* The inbound events of one binding and one conversation, from the        *)
(* provider to the end of their turn.  Feishu (and DingTalk and WeChat     *)
(* customer service) stage an event and leave it to a daemon; WeCom stages *)
(* it and also hands it to a consumer of its own; WeChat's poller registers*)
(* and processes it in one call.  A sweeper, once at startup, takes over   *)
(* what the process before left behind.  A user may delete the binding.    *)
(*                                                                         *)
(* An exception runs through up to three handlers, each with transactions  *)
(* of its own; between them, and between what one reads and what it        *)
(* writes, other threads go on.                                            *)
(*                                                                         *)
(* Of the turn core only what intake reads is kept: the receipt, the user  *)
(* message, and the reply, with whether anything was staged to be sent.    *)
(***************************************************************************)
EXTENDS Naturals, FiniteSets

CONSTANTS
    Events, None,
    Setups    \* instances: the channel, the events that are sent, and the bound
              \* on crashes, exceptions, busy sessions and deletions together

ASSUME IntakeAssumption ==
    /\ Setups \subseteq [channel : {"feishu", "wecom", "wechat"},
                          sent : SUBSET Events, troubles : Nat]
    /\ None \notin Events

VARIABLES
    crashes, faults, busy, deletes,
    setup,
    binding,
    up,         \* the process
    row,        \* the status of each event
    owner,      \* its processor_run_id: this process (by which of its threads,
                \* which the code cannot tell), one before it, or none
    fresh,      \* its lease has not run out
    turn,       \* the receipt of its turn
    message,    \* its user message is in the conversation
    reply,      \* none, staged for the channel, or silent: in the web page only
    notices,    \* the notices staged for it
    at, ev,     \* where each thread is, and on which event
    todo,       \* what each still has to do: the consumer's queue, the poller's
                \* batch, the sweeper's list
    pulled,     \* the poller's batch
    acked,      \* the messages its cursor has passed
    lock,       \* the lock of the conversation's session
    active,     \* the threads counted by _enter_binding_intake
    over,       \* the threads inside process_inbound with a row taken over
    paused,     \* a deletion has paused the binding: no, waits, or is quiet
    cut,        \* failed events whose notice was lost between two commits
    undone      \* events that a handler wrote although they were not, or no longer,
                \* its thread's, or opened again with a turn cut short

bounds  == <<crashes, faults, busy, deletes>>
rows    == <<row, owner, fresh>>
core    == <<turn, message, reply>>
threads == <<at, ev, todo, pulled, acked, lock, active, over>>
fixed   == <<setup, binding, up, paused, cut, undone>>
vars    == <<bounds, fixed, rows, core, notices, threads>>

Threads == {"daemon", "source", "sweeper"}
Settled == {"done", "failed"}
Staging == setup.channel # "wechat"

\* Where a thread has the event's row to itself, where a notice is due, and the
\* handlers: the inner one reads, judges and writes, the outer one resets, and
\* the sweeper, or who took a row over, drops the claim.
Holding == {"prepare", "read", "inspect", "wait", "turn", "claimed", "running",
            "refused", "ended", "raised"}
Telling == {"conflict", "error", "interrupted"}
Verdicts == {"retry", "close", "cut"}
Handling == {"except", "judge", "reset", "drop"} \cup Verdicts
Labels == {"idle", "list", "enter", "claim", "recover", "register"}
              \cup Holding \cup Telling \cup Handling

TypeOK ==
    /\ setup \in Setups
    /\ {crashes, faults, busy, deletes} \subseteq 0 .. setup.troubles
    /\ binding \in {"active", "deleted"}
    /\ up \in BOOLEAN /\ paused \in {"no", "waits", "quiet"}
    /\ cut \cup undone \subseteq Events
    /\ row \in [Events -> {"absent", "received", "processing"} \cup Settled]
    /\ owner \in [Events -> Threads \cup {"before", "none"}]
    /\ fresh \in [Events -> BOOLEAN]
    /\ turn \in [Events -> {"none", "claimed", "running"} \cup
                          {"failed", "completed"}]
    /\ message \in [Events -> BOOLEAN]
    /\ reply \in [Events -> {"none", "staged", "silent"}]
    /\ notices \in [Events -> SUBSET ({"command"} \cup Telling)]
    /\ at \in [Threads -> Labels] /\ ev \in [Threads -> Events \cup {None}]
    /\ todo \in [Threads -> SUBSET Events]
    /\ pulled \subseteq Events /\ acked \subseteq Events
    /\ lock \in Threads \cup {None} /\ active \cup over \subseteq Threads

Init ==
    /\ crashes = 0 /\ faults = 0 /\ busy = 0 /\ deletes = 0
    /\ setup \in Setups
    /\ binding = "active" /\ up = TRUE /\ paused = "no"
    /\ cut = {} /\ undone = {}
    /\ row = [e \in Events |-> "absent"] /\ owner = [e \in Events |-> "none"]
    /\ fresh = [e \in Events |-> FALSE] /\ turn = [e \in Events |-> "none"]
    /\ message = [e \in Events |-> FALSE] /\ reply = [e \in Events |-> "none"]
    /\ notices = [e \in Events |-> {}]
    /\ at = [t \in Threads |-> "idle"] /\ ev = [t \in Threads |-> None]
    /\ todo = [t \in Threads |-> {}] /\ pulled = {} /\ acked = {}
    /\ lock = None /\ active = {} /\ over = {}

\* The bound.
Trouble == crashes + faults + busy + deletes < setup.troubles

\* It is being processed, by this process.
Owned(e) == row[e] = "processing" /\ owner[e] \in Threads

SetRow(e, status, who) ==
    /\ row' = [row EXCEPT ![e] = status]
    /\ owner' = [owner EXCEPT ![e] = who]
    /\ fresh' = [fresh EXCEPT ![e] = who \in Threads]

Tell(e, kind) == notices' = [notices EXCEPT ![e] = @ \cup {kind}]

\* A thread goes on to another place.
Goes(t, label) ==
    /\ at' = [at EXCEPT ![t] = label]
    /\ UNCHANGED <<ev, todo, pulled, acked, lock, active, over>>

\* It leaves the event, the session's lock and the binding's count.
Freed(t) ==
    /\ at' = [at EXCEPT ![t] = "idle"] /\ ev' = [ev EXCEPT ![t] = None]
    /\ lock' = IF lock = t THEN None ELSE lock
    /\ active' = active \ {t} /\ over' = over \ {t}
Leaves(t) == Freed(t) /\ UNCHANGED <<todo, pulled, acked>>

-----------------------------------------------------------------------------
(* Events arrive.                                                          *)

\* stage_feishu_inbound: a second delivery of an event changes nothing.
Stage(e) ==
    /\ up /\ Staging /\ binding = "active" /\ paused = "no"
    /\ e \in setup.sent /\ row[e] = "absent"
    /\ SetRow(e, "received", "none")
    /\ todo' = IF setup.channel = "wecom"
               THEN [todo EXCEPT !["source"] = @ \cup {e}] ELSE todo
    /\ UNCHANGED <<bounds, fixed, core, notices, at, ev, pulled, acked, lock,
                   active, over>>

\* The poller reads a batch after its cursor, and moves the cursor when every
\* message of the batch has been processed.
Poll ==
    /\ ~Staging /\ up /\ binding = "active" /\ paused = "no"
    /\ at["source"] = "idle" /\ pulled = {}
    /\ \E batch \in SUBSET (setup.sent \ acked) \ {{}} :
            /\ pulled' = batch
            /\ todo' = [todo EXCEPT !["source"] = batch]
    /\ UNCHANGED <<bounds, fixed, rows, core, notices, at, ev, acked, lock,
                   active, over>>

Ack ==
    /\ at["source"] = "idle" /\ pulled # {} /\ todo["source"] = {}
    /\ acked' = acked \cup pulled /\ pulled' = {}
    /\ UNCHANGED <<bounds, fixed, rows, core, notices, at, ev, todo, lock,
                   active, over>>

\* The daemon reads the rows that are received; the others have a list.  The
\* sweeper passes over the events of a binding that is gone.
Take(t, e) ==
    /\ at[t] = "idle"
    /\ IF t = "daemon" THEN up /\ Staging /\ row[e] = "received"
       ELSE e \in todo[t]
    /\ todo' = [todo EXCEPT ![t] = @ \ {e}]
    /\ IF t = "sweeper" /\ binding = "deleted" THEN UNCHANGED <<at, ev>>
       ELSE /\ ev' = [ev EXCEPT ![t] = e]
            /\ at' = [at EXCEPT ![t] =
                        IF ~Staging THEN "register"
                        ELSE IF t = "sweeper" THEN "recover" ELSE "enter"]
    /\ UNCHANGED <<bounds, fixed, rows, core, notices, pulled, acked, lock,
                   active, over>>

-----------------------------------------------------------------------------
(* A thread claims its event.                                              *)

EnterPaused(t) == TRUE   \* mutant
Admitted(t) == paused = "no"

\* _enter_binding_intake
Enter(t) ==
    /\ at[t] = "enter"
    /\ IF Admitted(t)
       THEN /\ active' = active \cup {t}
            /\ at' = [at EXCEPT ![t] = "claim"]
            /\ UNCHANGED <<ev, todo, pulled, acked, lock, over>>
       ELSE Leaves(t)
    /\ UNCHANGED <<bounds, fixed, rows, core, notices>>

\* claim_staged_inbound
Claim(t) ==
    /\ at[t] = "claim"
    /\ IF row[ev[t]] = "received"
       THEN SetRow(ev[t], "processing", t) /\ Goes(t, "prepare")
       ELSE Leaves(t) /\ UNCHANGED rows
    /\ UNCHANGED <<bounds, fixed, core, notices>>

StaleByAge(e) == row[e] = "processing"   \* mutant
\* _claim_stale_event: never a row that a thread of this process has.
Stale(e) ==
    /\ row[e] = "processing"
    /\ owner[e] = "none" \/ (owner[e] = "before" /\ ~fresh[e])

\* sweep_stale_inbound_events
List ==
    /\ at["sweeper"] = "list"
    /\ todo' = [todo EXCEPT !["sweeper"] = {e \in Events : Stale(e)}]
    /\ at' = [at EXCEPT !["sweeper"] = "idle"]
    /\ UNCHANGED <<bounds, fixed, rows, core, notices, ev, pulled, acked, lock,
                   active, over>>

\* _recover_stale_durable_event
Recover(t) ==
    /\ at[t] = "recover"
    /\ IF binding = "active" /\ Stale(ev[t])
       THEN SetRow(ev[t], "processing", t) /\ Goes(t, "inspect")
       ELSE Leaves(t) /\ UNCHANGED rows
    /\ UNCHANGED <<bounds, fixed, core, notices>>

\* process_inbound without a staged row: a new one, or one to take over.
Register(t) ==
    /\ at[t] = "register"
    /\ \/ /\ row[ev[t]] = "absent"
          /\ SetRow(ev[t], "processing", t) /\ Goes(t, "read")
       \/ /\ Stale(ev[t])
          /\ SetRow(ev[t], "processing", t)
          /\ at' = [at EXCEPT ![t] = "inspect"] /\ over' = over \cup {t}
          /\ UNCHANGED <<ev, todo, pulled, acked, lock, active>>
       \/ /\ row[ev[t]] # "absent" /\ ~Stale(ev[t])
          /\ Leaves(t) /\ UNCHANGED rows
    /\ UNCHANGED <<bounds, fixed, core, notices>>

RerunClaimed(t) ==   \* mutant
    /\ at[t] = "inspect" /\ ~message[ev[t]]
    /\ Goes(t, IF Staging THEN "enter" ELSE "register")
    /\ UNCHANGED <<bounds, fixed, rows, core, notices>>
\* A row taken over: without a user message its turn may run (again); a turn
\* with a reply is over; one without is never run again.
Rerun(t) ==
    /\ at[t] = "inspect" /\ ~message[ev[t]]
    /\ IF Staging
       THEN IF Owned(ev[t])
            THEN SetRow(ev[t], "received", "none") /\ Goes(t, "enter")
            ELSE Leaves(t) /\ UNCHANGED rows
       ELSE SetRow(ev[t], "absent", "none") /\ Goes(t, "register")
    /\ UNCHANGED <<bounds, fixed, core, notices>>

Conclude(t) ==
    /\ at[t] = "inspect" /\ message[ev[t]] /\ reply[ev[t]] # "none"
    /\ IF ~Staging \/ Owned(ev[t]) THEN SetRow(ev[t], "done", "none")
       ELSE UNCHANGED rows
    /\ Leaves(t)
    /\ UNCHANGED <<bounds, fixed, core, notices>>

\* The status of an event whose turn was cut short.
CutShort == "failed"

\* A staged event's notice has a commit of its own.
Interrupt(t) ==
    /\ at[t] = "inspect" /\ message[ev[t]] /\ reply[ev[t]] = "none"
    /\ \/ /\ ~Staging
          /\ SetRow(ev[t], CutShort, "none") /\ Tell(ev[t], "interrupted")
          /\ Leaves(t)
       \/ /\ Staging /\ Owned(ev[t])
          /\ SetRow(ev[t], CutShort, "none") /\ Goes(t, "interrupted")
          /\ UNCHANGED notices
       \/ /\ Staging /\ ~Owned(ev[t])
          /\ Leaves(t) /\ UNCHANGED <<rows, notices>>
    /\ UNCHANGED <<bounds, fixed, core>>

-----------------------------------------------------------------------------
(* process_inbound, up to the turn.                                        *)

\* A staged event is only gone on with while its row is this process's.
Prepare(t) ==
    /\ at[t] = "prepare"
    /\ IF Owned(ev[t]) THEN Goes(t, "read") ELSE Leaves(t)
    /\ UNCHANGED <<bounds, fixed, rows, core, notices>>

\* The event turns out to be a command, or the like: answered at once, and never
\* kept as a message.
Command(t) ==
    /\ at[t] = "read" /\ ~message[ev[t]]
    /\ SetRow(ev[t], "done", "none") /\ Tell(ev[t], "command")
    /\ Leaves(t)
    /\ UNCHANGED <<bounds, fixed, core>>

\* A user message that is in the conversation already is not handled again.
Seen(t) ==
    /\ at[t] = "read"
    /\ IF message[ev[t]]
       THEN SetRow(ev[t], "done", "none") /\ Leaves(t)
       ELSE Goes(t, "wait") /\ UNCHANGED rows
    /\ UNCHANGED <<bounds, fixed, core, notices>>

Lock(t) ==
    /\ at[t] = "wait" /\ lock = None
    /\ IF row[ev[t]] = "absent" THEN Leaves(t)
       ELSE /\ lock' = t /\ at' = [at EXCEPT ![t] = "turn"]
            /\ UNCHANGED <<ev, todo, pulled, acked, active, over>>
    /\ UNCHANGED <<bounds, fixed, rows, core, notices>>

-----------------------------------------------------------------------------
(* The turn: AgentLoop.handle_turn, see HarnessTurn.                       *)

\* The session is busy with a turn that did not come through this conversation.
Busy(t) ==
    /\ at[t] = "turn" /\ Trouble /\ busy' = busy + 1
    /\ Goes(t, "refused")
    /\ UNCHANGED <<crashes, faults, deletes, fixed, rows, core, notices>>

\* A receipt that exists is replayed when completed, else it is a conflict.
Receipt(t) ==
    /\ at[t] = "turn"
    /\ \/ /\ turn[ev[t]] = "none"
          /\ turn' = [turn EXCEPT ![ev[t]] = "claimed"] /\ Goes(t, "claimed")
       \/ /\ turn[ev[t]] = "completed" /\ Goes(t, "ended") /\ UNCHANGED turn
       \/ /\ turn[ev[t]] \notin {"none", "completed"} /\ Goes(t, "refused")
          /\ UNCHANGED turn
    /\ UNCHANGED <<bounds, fixed, rows, message, reply, notices>>

UserMessage(t) ==
    /\ at[t] = "claimed"
    /\ turn' = [turn EXCEPT ![ev[t]] = "running"]
    /\ message' = [message EXCEPT ![ev[t]] = TRUE]
    /\ Goes(t, "running")
    /\ UNCHANGED <<bounds, fixed, rows, reply, notices>>

\* The reply, or the reply about an error, and its delivery.
Reply(t) ==
    /\ at[t] \in {"claimed", "running"}
    /\ \E outcome \in {"completed", "failed"} :
            /\ outcome = "completed" => message[ev[t]]
            /\ turn' = [turn EXCEPT ![ev[t]] = outcome]
    /\ reply' = [reply EXCEPT ![ev[t]] = "staged"]
    /\ Goes(t, "ended")
    /\ UNCHANGED <<bounds, fixed, rows, message, notices>>

\* The turn ends in an exception, its receipt failed, without a reply.
Raise(t) ==
    /\ at[t] \in {"claimed", "running"}
    /\ Trouble /\ faults' = faults + 1
    /\ turn' = [turn EXCEPT ![ev[t]] = "failed"]
    /\ Goes(t, "raised")
    /\ UNCHANGED <<crashes, busy, deletes, fixed, rows, message, reply,
                   notices>>

-----------------------------------------------------------------------------
(* process_inbound, after the turn.                                        *)

Settles(t, from, status, next) ==
    /\ at[t] = from
    /\ IF Owned(ev[t])
       THEN SetRow(ev[t], status, "none") /\ next
       ELSE Leaves(t) /\ UNCHANGED rows
    /\ UNCHANGED <<bounds, fixed, core, notices>>

\* _finish_owned_inbound: a refused turn is released to be tried again.
Finish(t) == Settles(t, "ended", "done", Leaves(t))
Release(t) == Settles(t, "refused", "received", Goes(t, "conflict"))
Fail(t) == Settles(t, "raised", "failed", Goes(t, "error"))

\* The notice is staged in a transaction that follows.
Notify(t) ==
    /\ at[t] \in Telling
    /\ Tell(ev[t], at[t])
    /\ Leaves(t)
    /\ UNCHANGED <<bounds, fixed, rows, core>>

-----------------------------------------------------------------------------
(* Exceptions.                                                             *)

\* The events of these threads whose notice is still due.
Untold(ts) == {ev[t] : t \in {u \in ts : at[u] \in {"error", "interrupted"}}}

\* The handler that an exception reaches next: where the binding counts the
\* thread the inner, then the outer one; then the handler of who took a row
\* over, and that of the sweeper.
Catcher(t) ==
    IF t \in active /\ at[t] \notin {"claim"} \cup Handling THEN "except"
    ELSE IF t \in active /\ at[t] # "reset" THEN "reset"
    ELSE IF \/ at[t] # "drop" /\ (t \in over \/ t = "sweeper")
            \/ at[t] = "drop" /\ t \in over /\ t = "sweeper"
         THEN "drop" ELSE "idle"

\* The exception leaves the places in between, with the session's lock.
Thrown(t, handler) ==
    /\ at' = [at EXCEPT ![t] = handler]
    /\ ev' = IF handler = "idle" THEN [ev EXCEPT ![t] = None] ELSE ev
    /\ lock' = IF lock = t THEN None ELSE lock
    /\ active' = IF handler \in {"idle", "drop"} THEN active \ {t} ELSE active
    /\ over' = IF handler = "idle" \/ at[t] = "drop" THEN over \ {t} ELSE over
    /\ UNCHANGED acked

\* The poller that an exception reaches reads its batch again.
Repolled(t) ==
    IF t = "source" /\ ~Staging
    THEN todo' = [todo EXCEPT ![t] = {}] /\ pulled' = {}
    ELSE UNCHANGED <<todo, pulled>>

\* An exception of the database or of a lookup, in a handler as well: then the
\* handler writes nothing.  One that the sweeper does not catch ends the sweep.
Fault(t) ==
    /\ at[t] \in {"claim", "recover", "register", "prepare", "read", "inspect",
                  "turn", "refused", "ended", "raised"} \cup Telling \cup Handling
    /\ Trouble /\ faults' = faults + 1
    /\ \E handler \in {Catcher(t)} \cup (IF at[t] = "prepare" THEN {"reset"} ELSE {}) :
            /\ Thrown(t, handler)
            /\ IF handler # "idle" THEN UNCHANGED <<todo, pulled>>
               ELSE IF t = "sweeper"
                    THEN todo' = [todo EXCEPT ![t] = {}] /\ UNCHANGED pulled
               ELSE Repolled(t)
    /\ cut' = cut \cup Untold({t})
    /\ UNCHANGED <<crashes, busy, deletes, setup, binding, up, paused, undone,
                   rows, core, notices>>

\* The inner handler, that of _process_claimed_staged_inbound, reads the event.
Look(t) ==
    /\ at[t] = "except"
    /\ Goes(t, IF row[ev[t]] = "processing" THEN "judge" ELSE "reset")
    /\ UNCHANGED <<bounds, fixed, rows, core, notices>>

RetryUntold(e) == IF message[e] /\ reply[e] # "none" THEN "close" ELSE "retry"   \* mutant
\* What becomes of the event, by its message and its reply.
Verdict(e) ==
    IF ~message[e] THEN "retry" ELSE IF reply[e] # "none" THEN "close" ELSE "cut"

Judge(t) ==
    /\ at[t] = "judge"
    /\ Goes(t, Verdict(ev[t]))
    /\ UNCHANGED <<bounds, fixed, rows, core, notices>>

\* The row is another thread's, or was settled by one.
Lost(t) == row[ev[t]] \in {"processing"} \cup Settled /\ owner[ev[t]] # t

CutUntold(e, verdict) ==   \* mutant
    /\ SetRow(e, IF verdict = "retry" THEN "received"
                 ELSE IF verdict = "close" THEN "done" ELSE "failed", "none")
    /\ UNCHANGED notices
\* A verdict is written by the row's key alone, whatever the row is by now.
Amended(e, verdict) ==
    CASE verdict = "retry" -> SetRow(e, "received", "none") /\ UNCHANGED notices
      [] verdict = "close" -> SetRow(e, "done", "none") /\ UNCHANGED notices
      [] verdict = "cut" -> SetRow(e, CutShort, "none") /\ Tell(e, "interrupted")

Amend(t) ==
    /\ at[t] \in Verdicts
    /\ Amended(ev[t], at[t])
    /\ Goes(t, "reset")
    /\ undone' = IF Lost(t) THEN undone \cup {ev[t]} ELSE undone
    /\ UNCHANGED <<bounds, setup, binding, up, paused, cut, core>>

\* The outer handler, that of process_staged_inbound: any row of this process is
\* open again.
Reset(t) ==
    /\ at[t] = "reset"
    /\ LET e == ev[t]
       IN  IF Owned(e)
           THEN /\ SetRow(e, "received", "none")
                /\ undone' = IF Lost(t) \/ (message[e] /\ reply[e] = "none")
                             THEN undone \cup {e} ELSE undone
           ELSE UNCHANGED <<rows, undone>>
    /\ Thrown(t, Catcher(t)) /\ UNCHANGED <<todo, pulled>>
    /\ UNCHANGED <<bounds, setup, binding, up, paused, cut, core, notices>>

\* _release_stale_event_claim, of the sweeper, and _by_key, of who took a row
\* over: any row of this process is left to a later sweep.
Drop(t) ==
    /\ at[t] = "drop"
    /\ IF Owned(ev[t])
       THEN /\ SetRow(ev[t], "processing", "none")
            /\ undone' = IF Lost(t) THEN undone \cup {ev[t]} ELSE undone
       ELSE UNCHANGED <<rows, undone>>
    /\ Thrown(t, Catcher(t)) /\ Repolled(t)
    /\ UNCHANGED <<bounds, setup, binding, up, paused, cut, core, notices>>

-----------------------------------------------------------------------------
(* Deleting the binding, and the process.                                  *)

\* delete_channel_binding: the source has stopped before intake is paused.
Pause ==
    /\ up /\ binding = "active" /\ paused = "no"
    /\ Trouble /\ deletes' = deletes + 1
    /\ at["source"] = "idle" /\ pulled = {}
    /\ paused' = "waits"
    /\ todo' = [todo EXCEPT !["source"] = {}]
    /\ UNCHANGED <<crashes, faults, busy, setup, binding, up, cut, undone, rows,
                   core, notices, at, ev, pulled, acked, lock, active, over>>

\* pause_binding_intake: nobody is inside any more.
Quiet ==
    /\ paused = "waits" /\ active = {}
    /\ paused' = "quiet"
    /\ UNCHANGED <<bounds, setup, binding, up, cut, undone, rows, core, notices,
                   threads>>

\* A turn does not end in time, or a reaction cannot be removed.
Resume ==
    /\ paused # "no" /\ paused' = "no"
    /\ UNCHANGED <<bounds, setup, binding, up, cut, undone, rows, core, notices,
                   threads>>

Delete ==
    /\ paused = "quiet"
    /\ binding' = "deleted" /\ paused' = "no"
    /\ row' = [e \in Events |-> IF row[e] \in {"received", "processing"}
                                THEN "failed" ELSE row[e]]
    /\ owner' = [e \in Events |-> IF row[e] \in {"received", "processing"}
                                  THEN "none" ELSE owner[e]]
    /\ UNCHANGED <<bounds, setup, up, cut, undone, fresh, core, notices,
                   threads>>

Crash ==
    /\ up /\ Trouble /\ crashes' = crashes + 1
    /\ up' = FALSE /\ paused' = "no"
    /\ cut' = cut \cup Untold(Threads)
    /\ owner' = [e \in Events |-> IF owner[e] \in Threads THEN "before"
                                  ELSE owner[e]]
    /\ at' = [t \in Threads |-> "idle"] /\ ev' = [t \in Threads |-> None]
    /\ todo' = [t \in Threads |-> {}] /\ pulled' = {}
    /\ lock' = None /\ active' = {} /\ over' = {}
    /\ UNCHANGED <<faults, busy, deletes, setup, binding, undone, row, fresh,
                   core, notices, acked>>

\* The process is down for longer than a lease.
Expire(e) ==
    /\ ~up /\ fresh[e]
    /\ fresh' = [fresh EXCEPT ![e] = FALSE]
    /\ UNCHANGED <<bounds, fixed, row, owner, core, notices, threads>>

\* The recovery of the turn core answers the turns that were active, in the
\* conversation only; the reply names the user message of a turn that has one.
Restart ==
    /\ ~up /\ up' = TRUE
    /\ turn' = [e \in Events |-> IF turn[e] \in {"claimed", "running"}
                                 THEN "failed" ELSE turn[e]]
    /\ reply' = [e \in Events |-> IF turn[e] = "running" /\ reply[e] = "none"
                                  THEN "silent" ELSE reply[e]]
    /\ at' = [at EXCEPT !["sweeper"] = "list"]
    /\ UNCHANGED <<bounds, setup, binding, paused, cut, undone, rows, message,
                   notices, ev, todo, pulled, acked, lock, active, over>>

-----------------------------------------------------------------------------

Works(t) ==
    \/ Enter(t) \/ Claim(t) \/ Recover(t) \/ Register(t) \/ Rerun(t)
    \/ Conclude(t) \/ Interrupt(t) \/ Prepare(t) \/ Command(t) \/ Seen(t)
    \/ Lock(t) \/ Busy(t) \/ Receipt(t) \/ UserMessage(t) \/ Reply(t)
    \/ Raise(t) \/ Finish(t) \/ Release(t) \/ Fail(t) \/ Notify(t)
    \/ Fault(t) \/ Look(t) \/ Judge(t) \/ Amend(t) \/ Reset(t) \/ Drop(t)

Next ==
    \/ \E e \in Events : \/ Stage(e) \/ Expire(e)
                         \/ \E t \in Threads : Take(t, e)
    \/ \E t \in Threads : Works(t)
    \/ Poll \/ Ack \/ List \/ Pause \/ Quiet \/ Resume \/ Delete
    \/ Crash \/ Restart

Spec == Init /\ [][Next]_vars

Takes(t) == \E e \in Events : Take(t, e)

\* Threads go on (one that waits for the lock gets it), the daemon reaches every
\* row it lists, a deletion ends, and a stopped process is started again.
FairSpec ==
    /\ Spec
    /\ SF_vars(Works("daemon"))
    /\ \A e \in Events : SF_vars(Take("daemon", e))
    /\ SF_vars(Works("source") \/ Takes("source") \/ Poll \/ Ack)
    /\ SF_vars(Works("sweeper") \/ Takes("sweeper") \/ List)
    /\ WF_vars(Quiet \/ Resume \/ Delete) /\ WF_vars(Restart)

-----------------------------------------------------------------------------
(* Properties.                                                             *)

\* No two threads work on one event: not the daemon and the consumer, not the
\* sweeper and a thread of its own process, not the sweeper and the poller;
\* unless a handler has written the event while it was another thread's.
OneWorker ==
    \A t, u \in Threads :
        /\ at[t] \in Holding /\ at[u] \in Holding
        /\ ev[t] = ev[u] /\ ev[t] \notin undone
        => t = u

\* While a turn runs its event is this process's, so its outcome is recorded:
\* a deletion waits for it.  The sweeper is not counted when it processes an
\* event of WeChat, and a deletion may pass it; and so may a handler that
\* writes an event of another thread.
TurnIsOwned ==
    \A t \in Threads :
        /\ at[t] \in {"turn", "claimed", "running"}
        /\ (Staging \/ t # "sweeper") /\ ev[t] \notin undone
        => Owned(ev[t])

\* An event is not done before its message has an answer: no retry and no take
\* over closes an event whose turn was cut short; unless a handler has written
\* it while it was another thread's, or the inner handler failed and the outer
\* one opened it again.
DoneIsAnswered ==
    \A e \in Events :
        row[e] = "done" /\ e \notin undone =>
            reply[e] # "none" \/ "command" \in notices[e]

\* An event that failed has a notice, or a thread about to stage it, unless the
\* binding was deleted or the second of the two commits never came.
FailedIsTold ==
    \A e \in Events :
        row[e] = "failed" =>
            \/ notices[e] \cap {"error", "interrupted"} # {}
            \/ \E t \in Threads : ev[t] = e /\ at[t] \in Telling
            \/ binding = "deleted" \/ e \in cut

\* How a row may stay open: its process ended and the next one swept before the
\* lease ran out; the sweeper dropped its claim after an exception; its receipt
\* was claimed without a message, so each retry is a conflict; on WeChat, its
\* turn was refused; or no thread has it after an exception, which on the other
\* channels takes a second one, in the outer handler.
Left(e) ==
    \/ row[e] = "processing" /\ owner[e] \notin Threads
    \/ turn[e] = "failed" /\ ~message[e]
    \/ ~Staging /\ row[e] = "received"
    \/ /\ row[e] = "processing" /\ \A t \in Threads : ev[t] # e
       /\ Staging => faults > 1

\* In the end every event is settled, or left in one of these ways.
EventsEnd ==
    <>[](\A e \in Events : row[e] \in Settled \cup {"absent"} \/ Left(e))

\* What the sender of a message sees, in IntakeContract's words.
Begun    == {e \in Events : turn[e] # "none"}
Ended    == {e \in Events : turn[e] \in {"failed", "completed"}}
Kept     == {e \in Events : message[e]}
Commands == {e \in Events : "command" \in notices[e]}
Done     == {e \in Events : row[e] = "done"}

Contract ==
    INSTANCE IntakeContract WITH
        begun <- Begun, ended <- Ended, kept <- Kept, answer <- reply,
        commands <- Commands, released <- undone, done <- Done

\* The intake keeps its promise across redeliveries, take-overs, exceptions,
\* deletions and crashes: one turn, one message, one answer for an event, and
\* no event closed before it.
ImplementsContract == Contract!Spec

=============================================================================
