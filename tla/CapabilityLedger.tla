-------------------------- MODULE CapabilityLedger --------------------------
(***************************************************************************)
(* The ledger of core/harness_capability_invoker.py: one task frame and    *)
(* one action with a side effect, which turn after turn may call with the  *)
(* same arguments.  All those calls have one logical_action_key.  A turn   *)
(* may stall anywhere, lose its leases to the sweep and go on beside the   *)
(* turn that took the frame over; it may be cancelled, its session may be  *)
(* reset, and the process may stop between any two commits.                *)
(*                                                                         *)
(* An action of this module is one transaction or one read.  What the      *)
(* provider does is a choice: see Send.                                    *)
(***************************************************************************)
EXTENDS Naturals, FiniteSets

CONSTANTS
    Turns,          \* the turns that may run the frame
    MaxCalls,       \* calls of the action in one turn
    MaxFaults,      \* crashes and resets
    None

ASSUME LedgerAssumption ==
    /\ MaxCalls \in Nat /\ MaxFaults \in Nat
    /\ None \notin Turns

VARIABLES
    frame,      \* HarnessTaskFrameRecord: queued, running, ended, deleted
    holder,     \* the turn with the frame's lease
    receipt,    \* HarnessTurnRecord of each turn
    marker,     \* the marker in memory of a cancelled turn: none, due, set
    at,         \* where a turn is in invoke
    calls,      \* how many calls a turn has begun
    record,     \* HarnessInvocationRecord of each call
    answer,     \* what the provider, or a check before it, has answered
    told,       \* what the turn's last call has returned to the model
    effects,    \* calls whose effect happened at the provider
    faults      \* how often the process stopped or the session was reset

vars == <<frame, holder, receipt, marker, at, calls, record, answer, told,
          effects, faults>>

Calls == Turns \X (1..MaxCalls)

Call(t) == <<t, calls[t]>>

Answers == {"success", "not_sent", "unknown"}

\* What is written if a timeout counts as a request that was not sent.
OutcomeReleases(a) ==
    IF a = "success" THEN "completed" ELSE "failed"

\* _failure_was_not_sent tells the second from the third.
Outcome(a) ==
    IF a = "success" THEN "completed"
    ELSE IF a = "not_sent" THEN "failed" ELSE "outcome_unknown"

\* Every other status has let the key go.
KeyStatuses == {"started", "completed", "outcome_unknown"}

Steps == {"idle", "entered", "read", "insert", "reread", "check", "send",
          "record", "over"}

TypeOK ==
    /\ frame \in {"queued", "running", "ended", "deleted"}
    /\ holder \in Turns \cup {None}
    /\ receipt \in [Turns -> {"absent", "started", "cancelled", "failed", "ended"}]
    /\ marker \in [Turns -> {"none", "due", "set"}]
    /\ at \in [Turns -> Steps]
    /\ calls \in [Turns -> 0..MaxCalls]
    /\ record \in [Calls -> KeyStatuses \cup {"absent", "failed", "cancelled", "deleted"}]
    /\ answer \in [Turns -> Answers \cup {None}]
    /\ told \in [Turns -> {"nothing", "completed", "failed", "outcome_unknown",
                           "replayed", "blocked", "refused", "error"}]
    /\ effects \subseteq Calls
    /\ faults \in 0..MaxFaults

Init ==
    /\ frame = "queued"
    /\ holder = None
    /\ receipt = [t \in Turns |-> "absent"]
    /\ marker = [t \in Turns |-> "none"]
    /\ at = [t \in Turns |-> "idle"]
    /\ calls = [t \in Turns |-> 0]
    /\ record = [c \in Calls |-> "absent"]
    /\ answer = [t \in Turns |-> None]
    /\ told = [t \in Turns |-> "nothing"]
    /\ effects = {}
    /\ faults = 0

-----------------------------------------------------------------------------
(* The turn around the calls. *)

turnVars == <<frame, holder, receipt, marker>>
ledgerVars == <<record, answer, told, effects>>

\* A receipt that failed is not a cancellation, a marker of this process is.
Cancelled(t) == receipt[t] = "cancelled" \/ marker[t] = "set"

\* The three leases are renewed in one transaction, each under its fence.
Leased(t) == holder = t /\ frame = "running" /\ receipt[t] = "started"

Goto(t, step) == at' = [at EXCEPT ![t] = step]

\* mark_running: a queued frame, by a turn that was just claimed.
MarkRunning(t) ==
    /\ frame = "queued" /\ receipt[t] = "absent" /\ at[t] = "idle"
    /\ frame' = "running"
    /\ holder' = t
    /\ receipt' = [receipt EXCEPT ![t] = "started"]
    /\ UNCHANGED <<marker, at, calls, ledgerVars, faults>>

\* The turn leaves the frame, when the model has finished with it or after an
\* exception.  It is queued to go on in a later turn, or has ended.
Leave(t) ==
    /\ receipt[t] # "absent" /\ at[t] \in {"idle", "over"}
    /\ holder = t
    /\ frame' \in {"queued", "ended"}
    /\ holder' = None
    /\ receipt' = [receipt EXCEPT ![t] = IF @ = "started" THEN "ended" ELSE @]
    /\ Goto(t, "over")
    /\ UNCHANGED <<marker, calls, ledgerVars, faults>>

\* The sweep finds the leases of a stalled turn expired.  It may have read the
\* receipt before a cancellation took it.
Recover ==
    /\ holder # None
    /\ frame' = "queued"
    /\ holder' = None
    /\ receipt' = [receipt EXCEPT ![holder] =
                        IF @ \in {"started", "cancelled"} THEN "failed" ELSE @]
    /\ UNCHANGED <<marker, at, calls, ledgerVars, faults>>

\* The cancel endpoint takes a started receipt, and publishes its marker after the
\* commit.  The sweep may have written failed over the receipt by then.
Cancel(t) ==
    /\ receipt[t] = "started"
    /\ receipt' = [receipt EXCEPT ![t] = "cancelled"]
    /\ marker' = [marker EXCEPT ![t] = "due"]
    /\ UNCHANGED <<frame, holder, at, calls, ledgerVars, faults>>

Mark(t) ==
    /\ marker[t] = "due"
    /\ marker' = [marker EXCEPT ![t] = "set"]
    /\ UNCHANGED <<frame, holder, receipt, at, calls, ledgerVars, faults>>

\* The user resets the session.  Only started receipts are cancelled, and the
\* records of calls under way are deleted with the frame.
Reset ==
    /\ faults < MaxFaults
    /\ faults' = faults + 1
    /\ receipt' = [t \in Turns |-> IF receipt[t] = "started" THEN "cancelled" ELSE receipt[t]]
    /\ record' = [c \in Calls |-> IF record[c] = "started" THEN "deleted" ELSE record[c]]
    /\ frame' = IF frame = "ended" THEN frame ELSE "deleted"
    /\ holder' = None
    /\ UNCHANGED <<marker, at, calls, answer, told, effects>>

\* The process stops and comes back: no turn is left, and startup recovery
\* does for all what Recover does for one.  The ledger stays as it is.
Crash ==
    /\ faults < MaxFaults
    /\ faults' = faults + 1
    /\ at' = [t \in Turns |-> IF receipt[t] = "absent" THEN at[t] ELSE "over"]
    /\ receipt' = [t \in Turns |-> IF receipt[t] = "started" THEN "failed" ELSE receipt[t]]
    /\ frame' = IF frame = "running" THEN "queued" ELSE frame
    /\ holder' = None
    /\ marker' = [t \in Turns |-> "none"]
    /\ UNCHANGED <<calls, ledgerVars>>

-----------------------------------------------------------------------------
(* One call of invoke. *)

Tells(t, result) == told' = [told EXCEPT ![t] = result]

Enter(t) ==
    /\ receipt[t] # "absent" /\ at[t] = "idle" /\ calls[t] < MaxCalls
    /\ ~Cancelled(t) /\ Leased(t)
    /\ calls' = [calls EXCEPT ![t] = @ + 1]
    /\ Goto(t, "entered")
    /\ UNCHANGED <<turnVars, ledgerVars, faults>>

\* The exception of the first check, or of the fence, ends the turn.
Fenced(t) ==
    /\ receipt[t] # "absent" /\ at[t] = "idle"
    /\ Cancelled(t) \/ ~Leased(t)
    /\ Goto(t, "over")
    /\ UNCHANGED <<turnVars, calls, ledgerVars, faults>>

\* Not in the manifest, not activated, or no longer authorised.
Refuse(t) ==
    /\ at[t] = "entered"
    /\ Tells(t, "refused")
    /\ Goto(t, "idle")
    /\ UNCHANGED <<turnVars, calls, record, answer, effects, faults>>

Authorize(t) ==
    /\ at[t] = "entered"
    /\ Goto(t, IF Cancelled(t) THEN "over" ELSE "read")
    /\ UNCHANGED <<turnVars, calls, ledgerVars, faults>>

KeyHolders == {c \in Calls : record[c] \in KeyStatuses}

\* Whether the result of a call that has the key is given again.
ReplaysUnlessUnknown(prior) == record[prior] # "outcome_unknown"

Replayable(prior) == record[prior] = "completed"

\* _replay_or_block, before the insert and after its unique key was refused.
ReplayOrBlock(t) ==
    /\ at[t] \in {"read", "reread"}
    /\ IF KeyHolders = {}
       THEN IF at[t] = "read"
            THEN Goto(t, "insert") /\ UNCHANGED told
            ELSE Goto(t, "idle") /\ Tells(t, "error")
       ELSE /\ \E prior \in KeyHolders :
                  Tells(t, IF Replayable(prior) THEN "replayed" ELSE "blocked")
            /\ Goto(t, "idle")
    /\ UNCHANGED <<turnVars, calls, record, answer, effects, faults>>

\* logical_action_key is unique.
Insert(t) ==
    /\ at[t] = "insert"
    /\ IF KeyHolders = {}
       THEN /\ record' = [record EXCEPT ![Call(t)] = "started"]
            /\ Goto(t, "check")
       ELSE UNCHANGED record /\ Goto(t, "reread")
    /\ UNCHANGED <<turnVars, calls, answer, told, effects, faults>>

\* An update of a deleted record raises and leaves the database session unusable.
Update(t, status) ==
    record' = IF record[Call(t)] = "deleted" THEN record
              ELSE [record EXCEPT ![Call(t)] = status]

\* The last check before the effect.
Check(t) ==
    /\ at[t] = "check"
    /\ IF Cancelled(t)
       THEN Update(t, "cancelled") /\ Goto(t, "over")
       ELSE UNCHANGED record /\ Goto(t, "send")
    /\ UNCHANGED <<turnVars, calls, answer, told, effects, faults>>

\* The handler of the capability.  Checks of its own may stop it before anything
\* is sent; then the provider acts or does not, and its answer arrives or not.
Send(t) ==
    /\ at[t] = "send"
    /\ \E a \in Answers :
          /\ answer' = [answer EXCEPT ![t] = a]
          /\ \/ a # "not_sent" /\ effects' = effects \cup {Call(t)}
             \/ a # "success" /\ UNCHANGED effects
    /\ Goto(t, "record")
    /\ UNCHANGED <<turnVars, calls, record, told, faults>>

\* No fence: the outcome is written whoever has the frame by now.
Record(t) ==
    /\ at[t] = "record"
    /\ Update(t, Outcome(answer[t]))
    /\ IF record[Call(t)] = "deleted"
       THEN Goto(t, "over") /\ UNCHANGED told
       ELSE Goto(t, "idle") /\ Tells(t, Outcome(answer[t]))
    /\ answer' = [answer EXCEPT ![t] = None]
    /\ UNCHANGED <<turnVars, calls, effects, faults>>

-----------------------------------------------------------------------------
Next ==
    \/ \E t \in Turns :
          \/ MarkRunning(t) \/ Leave(t) \/ Cancel(t) \/ Mark(t)
          \/ Enter(t) \/ Fenced(t) \/ Refuse(t) \/ Authorize(t)
          \/ ReplayOrBlock(t) \/ Insert(t) \/ Check(t) \/ Send(t) \/ Record(t)
    \/ Recover \/ Reset \/ Crash

Spec == Init /\ [][Next]_vars

-----------------------------------------------------------------------------
(* The action acts once, however often turns call it, stall, are swept,    *)
(* cancelled or restarted ("为避免重复提交", line 413).  With the reset of a *)
(* session the code is weaker: it deletes the record of a call under way,  *)
(* and a turn that the sweep has failed is not stopped by the last check.  *)
SweptBesideReset ==
    /\ \E c \in effects : record[c] = "deleted"
    /\ \E t \in Turns : receipt[t] = "failed"

ActsOnce == Cardinality(effects) <= 1 \/ SweptBesideReset

(* Whoever is told that the action was done, now or earlier, can rely on   *)
(* it: a replay is never that of a call which is under way, was            *)
(* interrupted, or whose outcome nobody knows.                             *)
ToldIsDone ==
    (\E t \in Turns : told[t] \in {"completed", "replayed"}) => effects # {}

=============================================================================
