---------------------------- MODULE ChannelOutbox ----------------------------
(***************************************************************************)
(* The outbox of one Feishu binding, for one inbound message.              *)
(*                                                                         *)
(* The intake marks the message as received with an emoji reaction (the    *)
(* row Add); the turn stages the answers: replies and files.  Two lanes    *)
(* of the connector, threads of one process, claim due rows by a           *)
(* compare-and-swap, take the binding's lifecycle lock, call the provider  *)
(* and commit the outcome under the generation they claimed.  A delivered  *)
(* answer stages the removal of the reaction (the row Remove).  Beside     *)
(* the lanes a user disables, enables and deletes the binding, calls fail  *)
(* or lose their answer, transactions fail, and the process crashes; each  *)
(* lane resets stale claims when it starts.                                *)
(*                                                                         *)
(* The provider forgets a message's idempotency key one hour after it      *)
(* took the message.  Retry back-off is not modelled: a pending row may    *)
(* be claimed at any time.                                                 *)
(***************************************************************************)
EXTENDS Naturals, FiniteSets

CONSTANTS
    Replies,      \* reply, error_notice and final notice rows
    Files,        \* file rows
    Add, Remove,  \* the reaction_add and reaction_remove rows
    None,         \* no row
    MaxAttempts,  \* channel_delivery_max_attempts
    MaxFaults,    \* bound on crashes and failed transactions
    MaxRequests   \* bound on the user's toggles and deletions

Answers   == Replies \cup Files
Reactions == {Add, Remove}
Rows      == Answers \cup Reactions
Lanes     == {"content", "reaction"}

ASSUME OutboxAssumption ==
    /\ MaxAttempts \in Nat \ {0}
    /\ MaxFaults \in Nat
    /\ MaxRequests \in Nat
    /\ Add # Remove
    /\ Replies \cap Files = {}
    /\ Answers \cap Reactions = {}
    /\ None \notin Rows

VARIABLES
    up,          \* the connector process runs
    faults, requests,   \* faults and user requests so far
    binding,     \* the binding row: "active", "disabled" or "deleted"
    lock,        \* holder of the binding's lifecycle lock
    st, attempts, gen,  \* the rows' status, attempts, delivery_generation
    since,       \* sending_since, of rows in sending: whether the claim is
                 \* older than SENDING_STALE_SECONDS
    age,         \* of an answer's first attempt: within the 55 minutes,
                 \* within the provider's hour, or older
    reactionId,  \* the inbound event row holds the reaction's id
    marks,       \* reactions of ours shown at the provider
    copies,      \* how often each answer is shown at the provider
    key,         \* whether the provider remembers its idempotency key
    at, item, token, \* each lane: label, row, generation of its claim
    found        \* the provider's answer named a reaction

row    == <<st, attempts, gen, since, age>>
remote == <<marks, copies, key>>
lanes  == <<at, item, token, found>>
vars   == <<up, faults, requests, binding, lock, row, reactionId, remote,
            lanes>>

-----------------------------------------------------------------------------

Statuses == {"none", "preparing", "pending", "sending", "delivered", "failed"}
Ended    == {"delivered", "failed"}
Labels   == {"boot", "idle", "claimed", "send", "ok", "retry", "refused"}
InCall   == {"send", "ok", "retry", "refused"}

TypeOK ==
    /\ up \in BOOLEAN
    /\ faults \in 0 .. MaxFaults
    /\ requests \in 0 .. MaxRequests
    /\ binding \in {"active", "disabled", "deleted"}
    /\ lock \in Lanes \cup {"free", "delete", "abort"}
    /\ st \in [Rows -> Statuses]
    /\ attempts \in [Rows -> 0 .. MaxAttempts + MaxFaults]
    /\ gen \in [Rows -> Nat]
    /\ since \in [Rows -> {"none", "recent", "stale"}]
    /\ age \in [Answers -> {"fresh", "old", "expired"}]
    /\ reactionId \in BOOLEAN
    /\ marks \in Nat
    /\ copies \in [Answers -> Nat]
    /\ key \in [Answers -> BOOLEAN]
    /\ at \in [Lanes -> Labels]
    /\ item \in [Lanes -> Rows \cup {None}]
    /\ token \in [Lanes -> Nat]
    /\ found \in [Lanes -> BOOLEAN]

\* The inbound message was received: its reaction is staged, no answer yet.
Init ==
    /\ up = TRUE
    /\ faults = 0 /\ requests = 0
    /\ binding = "active"
    /\ lock = "free"
    /\ st = [r \in Rows |-> IF r = Add THEN "pending" ELSE "none"]
    /\ attempts = [r \in Rows |-> 0]
    /\ gen = [r \in Rows |-> 0]
    /\ since = [r \in Rows |-> "none"]
    /\ age = [r \in Answers |-> "fresh"]
    /\ reactionId = FALSE
    /\ marks = 0
    /\ copies = [r \in Answers |-> 0]
    /\ key = [r \in Answers |-> FALSE]
    /\ at = [l \in Lanes |-> "idle"]
    /\ item = [l \in Lanes |-> None]
    /\ token = [l \in Lanes |-> 0]
    /\ found = [l \in Lanes |-> FALSE]

LaneRows(l) == IF l = "reaction" THEN Reactions ELSE Answers

LockIgnored == TRUE   \* mutant
LockFree == lock = "free"

-----------------------------------------------------------------------------
(* stage_channel_delivery: an answer's row, with the turn's transaction.   *)

\* The binding is read before the row is written; an inactive binding only
\* records that the reply failed.
PrepareAnswer(r) ==
    /\ up /\ r \in Answers /\ st[r] = "none"
    /\ IF binding = "active"
       THEN st' = [st EXCEPT ![r] = "preparing"]
       ELSE r \in Replies /\ st' = [st EXCEPT ![r] = "failed"]
    /\ UNCHANGED <<up, faults, requests, binding, lock, attempts, gen, since,
                   age, reactionId, remote, lanes>>

StageAnswer(r) ==
    /\ up /\ st[r] = "preparing"
    /\ st' = [st EXCEPT ![r] = "pending"]
    /\ UNCHANGED <<up, faults, requests, binding, lock, attempts, gen, since,
                   age, reactionId, remote, lanes>>

-----------------------------------------------------------------------------
(* A lane: claim, enter, call the provider, conclude.                      *)

Claim(l) ==
    /\ up /\ at[l] = "idle"
    /\ \E r \in LaneRows(l) :
        /\ st[r] = "pending"
        /\ st' = [st EXCEPT ![r] = "sending"]
        /\ attempts' = [attempts EXCEPT ![r] = @ + 1]
        /\ gen' = [gen EXCEPT ![r] = @ + 1]
        /\ since' = [since EXCEPT ![r] = "recent"]
        /\ item' = [item EXCEPT ![l] = r]
    /\ at' = [at EXCEPT ![l] = "claimed"]
    /\ UNCHANGED <<up, faults, requests, binding, lock, age, reactionId,
                   remote, token, found>>

\* A disabled binding still lets a reaction be found and removed.
BindingRefuses(r) ==
    \/ binding = "deleted"
    \/ /\ binding = "disabled"
       /\ ~ (r = Remove \/ (r = Add /\ attempts[r] > 1))

WindowForgotten(r) == FALSE   \* mutant
\* 55 minutes after the first attempt the provider may forget the key.
WindowClosed(r) == r \in Answers /\ age[r] # "fresh"

\* _finish_delivery_claim: the outcome counts for the claim's own row only.
Owns(l) == st[item[l]] = "sending" /\ gen[item[l]] = token[l]

End(r, status) ==
    /\ st' = [st EXCEPT ![r] = status]
    /\ since' = [since EXCEPT ![r] = "none"]

RefusedUnended(r) == UNCHANGED <<st, since>>   \* mutant
Refused(r) == End(r, "failed")

\* The lane is done with its row; its local variables go.
Leave(l) ==
    /\ at' = [at EXCEPT ![l] = "idle"]
    /\ item' = [item EXCEPT ![l] = None]
    /\ token' = [token EXCEPT ![l] = 0]
    /\ found' = [found EXCEPT ![l] = FALSE]

\* The lifecycle lock is taken and the row, generation included, read again.
Enter(l) ==
    LET r == item[l] IN
    /\ at[l] = "claimed" /\ LockFree
    /\ \/ /\ st[r] # "sending"
          /\ Leave(l)
          /\ UNCHANGED <<lock, st, since>>
       \/ /\ st[r] = "sending"
          /\ BindingRefuses(r) \/ WindowClosed(r)
          /\ Refused(r)
          /\ Leave(l)
          /\ UNCHANGED lock
       \/ /\ st[r] = "sending"
          /\ ~BindingRefuses(r) /\ ~WindowClosed(r)
          /\ lock' = l
          /\ at' = [at EXCEPT ![l] = "send"]
          /\ token' = [token EXCEPT ![l] = gen[r]]
          /\ UNCHANGED <<st, since, item, found>>
    /\ UNCHANGED <<up, faults, requests, binding, attempts, gen, age,
                   reactionId, remote>>

\* The provider shows an answer unless it remembers the key.
Show(r) ==
    /\ copies' = [copies EXCEPT ![r] = IF key[r] THEN @ ELSE @ + 1]
    /\ key' = [key EXCEPT ![r] = TRUE]
    /\ UNCHANGED marks

SwallowedEffect(l, r) ==   \* mutant
    UNCHANGED <<remote, found>>
NeverLookUp(r) == FALSE   \* mutant
\* A retried reaction_add first looks for a reaction of its own.
LooksUp(r) == attempts[r] > 1

\* What a call does at the provider, and whether its answer names a reaction.
Effect(l, r) ==
    \/ /\ r \in Answers
       /\ Show(r)
       /\ UNCHANGED found
    \/ /\ r = Add
       /\ marks' = IF (LooksUp(r) /\ marks > 0) \/ binding # "active"
                   THEN marks ELSE marks + 1
       /\ found' = [found EXCEPT ![l] = marks' > 0]
       /\ UNCHANGED <<copies, key>>
    \/ /\ r = Remove
       /\ marks' = IF marks > 0 THEN marks - 1 ELSE 0
       /\ UNCHANGED <<copies, key, found>>

\* The call succeeds; or takes effect and loses its answer; or is refused,
\* for now or for good.
Send(l) ==
    /\ at[l] = "send"
    /\ \/ /\ Effect(l, item[l])
          /\ \E label \in {"ok", "retry"} : at' = [at EXCEPT ![l] = label]
       \/ /\ \E label \in {"retry", "refused"} :
                at' = [at EXCEPT ![l] = label]
          /\ UNCHANGED <<remote, found>>
    /\ UNCHANGED <<up, faults, requests, binding, lock, row, reactionId, item,
                   token>>

NoResponseYet == FALSE   \* mutant
\* _event_has_delivered_response does not count files.
HasDeliveredResponse == \E r \in Replies : st[r] = "delivered"

\* What the lane writes beside the row's outcome.
NextReactionId(l) ==
    \/ item[l] = Add /\ found[l]
    \/ item[l] # Remove /\ reactionId

StagesRemoval(l) ==
    /\ st[Remove] = "none"
    /\ \/ /\ item[l] = Add /\ found[l]
          /\ binding # "active" \/ HasDeliveredResponse
       \/ item[l] \in Answers /\ reactionId

Delivered(l) ==
    /\ at[l] = "ok"
    /\ st' = [r \in Rows |->
                IF r = item[l] /\ Owns(l) THEN "delivered"
                ELSE IF r = Remove /\ StagesRemoval(l) THEN "pending"
                ELSE st[r]]
    /\ since' = IF Owns(l) THEN [since EXCEPT ![item[l]] = "none"] ELSE since
    /\ reactionId' = NextReactionId(l)
    /\ lock' = "free"
    /\ Leave(l)
    /\ UNCHANGED <<up, faults, requests, binding, attempts, gen, age, remote>>

Exhausted(r) == attempts[r] >= MaxAttempts

CallFailed(l) ==
    LET r == item[l] IN
    /\ at[l] \in {"retry", "refused"}
    /\ IF Owns(l)
       THEN End(r, IF at[l] = "refused" \/ Exhausted(r) THEN "failed"
                                                        ELSE "pending")
       ELSE UNCHANGED <<st, since>>
    /\ lock' = "free"
    /\ Leave(l)
    /\ UNCHANGED <<up, faults, requests, binding, attempts, gen, age,
                   reactionId, remote>>

\* Reading the claimed row again, or the transaction of its outcome, fails: the
\* lane goes on with other rows and this one stays in sending.
TransactionFails(l) ==
    /\ at[l] \in {"claimed", "ok", "retry", "refused"} /\ faults < MaxFaults
    /\ faults' = faults + 1
    /\ lock' = IF lock = l THEN "free" ELSE lock
    /\ Leave(l)
    /\ UNCHANGED <<up, requests, binding, row, reactionId, remote>>

-----------------------------------------------------------------------------
(* The user: toggle_channel_binding_status and delete_channel_binding.     *)

Request == up /\ requests < MaxRequests /\ LockFree /\ requests' = requests + 1

Toggle ==
    /\ Request /\ binding # "deleted"
    /\ binding' = IF binding = "active" THEN "disabled" ELSE "active"
    /\ UNCHANGED <<up, faults, lock, row, reactionId, remote, lanes>>

UncertainFailed == st[Add] = "failed"   \* mutant
\* cleanup_channel_reactions_before_binding_delete looks up the reaction of
\* a tried reaction_add without a known id, and removes a known one.
UncertainAdd ==
    attempts[Add] > 0 /\ st[Add] \in {"pending", "sending", "failed"}

\* The remote clean-up may fail half way, and the deletion with it.
DeleteBegin ==
    /\ Request /\ binding # "deleted"
    /\ \/ /\ lock' = "delete"
          /\ marks' = IF marks > 0 /\ (reactionId \/ UncertainAdd)
                      THEN marks - 1 ELSE marks
       \/ /\ lock' = "abort"
          /\ \/ UNCHANGED marks
             \/ marks > 0 /\ (reactionId \/ UncertainAdd) /\ marks' = marks - 1
    /\ UNCHANGED <<up, faults, binding, row, reactionId, copies, key, lanes>>

OpenRows == {r \in Rows : st[r] \in {"pending", "sending"}}

DeleteCommit ==
    /\ lock = "delete"
    /\ binding' = "deleted"
    /\ st' = [r \in Rows |-> IF r \in OpenRows THEN "failed" ELSE st[r]]
    /\ gen' = [r \in Rows |-> IF r \in OpenRows THEN gen[r] + 1 ELSE gen[r]]
    /\ since' = [r \in Rows |-> IF r \in OpenRows THEN "none" ELSE since[r]]
    /\ reactionId' = FALSE
    /\ lock' = "free"
    /\ UNCHANGED <<up, faults, requests, attempts, age, remote, lanes>>

DeleteAbort ==
    /\ lock = "abort"
    /\ lock' = "free"
    /\ UNCHANGED <<up, faults, requests, binding, row, reactionId, remote,
                   lanes>>

-----------------------------------------------------------------------------
(* Crash, restart and time.                                                *)

Crash ==
    /\ up /\ faults < MaxFaults
    /\ up' = FALSE
    /\ faults' = faults + 1
    /\ lock' = "free"
    /\ st' = [r \in Rows |-> IF st[r] = "preparing" THEN "none" ELSE st[r]]
    /\ at' = [l \in Lanes |-> "boot"]
    /\ item' = [l \in Lanes |-> None]
    /\ token' = [l \in Lanes |-> 0]
    /\ found' = [l \in Lanes |-> FALSE]
    /\ UNCHANGED <<requests, binding, attempts, gen, since, age, reactionId,
                   remote>>

Restart ==
    /\ ~up
    /\ up' = TRUE
    /\ UNCHANGED <<faults, requests, binding, lock, row, reactionId, remote,
                   lanes>>

Stuck(l) ==
    {r \in LaneRows(l) : st[r] = "sending" /\ since[r] # "recent"}

\* _reset_stuck_deliveries: the outcome of an answer is unknown, a reaction
\* can be taken up again.
Reset(l) ==
    /\ up /\ at[l] = "boot"
    /\ st' = [r \in Rows |->
                IF r \notin Stuck(l) THEN st[r]
                ELSE IF r \in Reactions THEN "pending" ELSE "failed"]
    /\ gen' = [r \in Rows |-> IF r \in Stuck(l) THEN gen[r] + 1 ELSE gen[r]]
    /\ since' = [r \in Rows |->
                   IF r \in Stuck(l) THEN "none" ELSE since[r]]
    /\ at' = [at EXCEPT ![l] = "idle"]
    /\ UNCHANGED <<up, faults, requests, binding, lock, attempts, age,
                   reactionId, remote, item, token, found>>

Held(r) == \E l \in Lanes : item[l] = r

\* 120 seconds pass after a claim.  Only a reset looks at this, and it finds
\* no row that a lane holds: the time a lane took may as well pass after it.
GoStale(r) ==
    /\ st[r] = "sending" /\ since[r] = "recent" /\ ~Held(r)
    /\ since' = [since EXCEPT ![r] = "stale"]
    /\ UNCHANGED <<up, faults, requests, binding, lock, st, attempts, gen, age,
                   reactionId, remote, lanes>>

\* A call that passed the 55 minute check ends before the hour is over.  The
\* age of an answer that has ended is never looked at, and stays.
Calling(r) == \E l \in Lanes : at[l] = "send" /\ item[l] = r

GrowOld(r) ==
    /\ r \in Answers /\ st[r] \in {"pending", "sending"} /\ attempts[r] > 0
    /\ \/ age[r] = "fresh" /\ age' = [age EXCEPT ![r] = "old"]
       \/ /\ age[r] = "old" /\ ~Calling(r)
          /\ age' = [age EXCEPT ![r] = "expired"]
    /\ UNCHANGED <<up, faults, requests, binding, lock, st, attempts, gen,
                   since, reactionId, remote, lanes>>

Forget(r) ==
    /\ r \in Answers /\ age[r] = "expired" /\ key[r]
    /\ key' = [key EXCEPT ![r] = FALSE]
    /\ UNCHANGED <<up, faults, requests, binding, lock, row, reactionId, marks,
                   copies, lanes>>

-----------------------------------------------------------------------------

LaneStep(l) ==
    \/ Claim(l) \/ Enter(l) \/ Send(l) \/ Delivered(l) \/ CallFailed(l)
    \/ Reset(l)

Deletion == DeleteCommit \/ DeleteAbort

Time == \E r \in Rows : GoStale(r) \/ GrowOld(r) \/ Forget(r)

Next ==
    \/ \E r \in Answers : PrepareAnswer(r) \/ StageAnswer(r)
    \/ \E l \in Lanes : LaneStep(l) \/ TransactionFails(l)
    \/ Toggle \/ DeleteBegin \/ Deletion
    \/ Crash \/ Restart
    \/ Time

Spec == Init /\ [][Next]_vars

\* The lanes and a deletion that has begun go on, and a supervisor starts the
\* process again.  Nothing is assumed of users, faults, staging or the clock.
FairSpec ==
    /\ Spec
    /\ \A l \in Lanes : WF_vars(LaneStep(l))
    /\ WF_vars(Deletion)
    /\ WF_vars(Restart)

-----------------------------------------------------------------------------
(* Properties.                                                             *)

\* No answer is shown twice at the provider, whatever calls lose their
\* answer, however late they are retried and whenever the process dies: the
\* 55 minute check and the reset that never resends together keep every
\* attempt inside the hour the provider remembers the key.
AtMostOnce == \A r \in Answers : copies[r] <= 1

\* The message never carries two reactions of ours: a reaction_add that may
\* have happened is looked up before it is repeated.
OneMark == marks <= 1

\* Once a reply is delivered and the reaction_add has its outcome, the
\* reaction is gone or its removal is staged, in whichever order the two
\* lanes got there.
ReceiptCleared ==
    /\ \E r \in Replies : st[r] = "delivered"
    /\ st[Add] = "delivered"
    => marks = 0 \/ st[Remove] \in {"pending", "sending", "failed"}

\* A lane that calls the provider holds the lifecycle lock and its row is
\* still the claim it made: nobody reset, deleted or ended it meanwhile.
CallerOwnsRow ==
    \A l \in Lanes : at[l] \in InCall => lock = l /\ Owns(l)

\* A deleted binding leaves no reaction of ours at the provider.
DeletedLeavesNoMark == binding = "deleted" => marks = 0

\* An answer is never tried more than max_attempts times; a reset may give a
\* reaction one more try per crash.
AttemptsBounded ==
    \A r \in Rows :
        attempts[r] <= MaxAttempts + IF r \in Reactions THEN faults ELSE 0

\* After the binding is deleted nothing more happens at the provider.
DeletedIsQuiet == [][binding = "deleted" => UNCHANGED <<marks, copies>>]_vars

\* A row that is delivered or failed keeps that outcome, through late
\* answers, resets and the deletion of the binding.
OutcomeIsFinal ==
    [][\A r \in Rows : st[r] \in Ended => st'[r] = st[r]]_vars

\* Every staged row ends, if no fault occurs: time and again none is open.  A
\* claim younger than 120 s at a restart is never reset, hence the condition.
StagedEnds ==
    []<>(faults > 0 \/ \A r \in Rows : st[r] \notin {"pending", "sending"})

\* What the outbox promises about the answers, in DeliveryContract's words: a
\* row is open until it ends, and the provider's copies are what is shown.
Contract ==
    INSTANCE DeliveryContract WITH
        life   <- [r \in Answers |-> IF st[r] \in Ended THEN st[r] ELSE "open"],
        shown  <- copies,
        closed <- binding = "deleted"

\* The outbox keeps its promise: an answer is shown only while it is open and
\* the binding is there, it is delivered only after it was shown, once, and no
\* outcome changes, through lost answers, crashes, resets and deletion.
ImplementsContract == Contract!Spec

=============================================================================
