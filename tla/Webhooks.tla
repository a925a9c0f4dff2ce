------------------------------ MODULE Webhooks -------------------------------
(***************************************************************************)
(* Webhook deliveries of the public API to one endpoint.  An event of a    *)
(* job stages a row and, after the commit, hands it to the process's pool  *)
(* of threads; a daemon hands over again what is queued or to be retried.  *)
(* A thread claims the row with a lease, posts the event, and records the  *)
(* outcome.                                                                *)
(*                                                                         *)
(* The outcome is assigned to the row object before the guarded update     *)
(* runs, and the session flushes the object first: the update's guard,     *)
(* "still sending", meets the outcome, and all is rolled back.  So neither *)
(* a retry nor the number of attempts is ever committed, and a row is due  *)
(* from the start; the model needs no clock but the lease.                 *)
(***************************************************************************)
EXTENDS Naturals

CONSTANTS
    Deliveries, NoDelivery,
    Threads, Nobody,
    MaxHandOvers,  \* bound: calls of deliver_webhook waiting, for a delivery
    MaxCrashes     \* bound

ASSUME WebhooksAssumption ==
    /\ NoDelivery \notin Deliveries /\ Nobody \notin Threads
    /\ MaxHandOvers \in Nat \ {0} /\ MaxCrashes \in Nat

VARIABLES
    crashes,
    endpoint,   \* the WebhookEndpoint
    row,        \* the status of each WebhookDelivery
    staged,     \* committed, and not yet handed over by who staged it
    owner,      \* delivery_owner: the thread whose token it is
    lease,      \* is lease_expires_at ahead?
    handed,     \* how many calls of deliver_webhook wait for a thread
    at, task,   \* where a thread is, and with which delivery
    heard,      \* what it heard from the receiver
    posted,     \* the event was sent at least once
    cut         \* history: deliveries a crash took from a thread

rows    == <<row, owner, lease>>
threads == <<at, task, heard>>
vars    == <<crashes, endpoint, rows, staged, handed, threads, posted, cut>>

TypeOK ==
    /\ crashes \in 0 .. MaxCrashes
    /\ endpoint \in {"active", "paused", "deleted"}
    /\ row \in [Deliveries -> {"none", "queued", "retrying", "sending",
                               "delivered", "abandoned"}]
    /\ staged \subseteq Deliveries
    /\ owner \in [Deliveries -> Threads \cup {Nobody}]
    /\ lease \in [Deliveries -> BOOLEAN]
    /\ handed \in [Deliveries -> 0 .. MaxHandOvers]
    /\ at \in [Threads -> {"idle", "claimed", "posting", "inactive", "heard"}]
    /\ task \in [Threads -> Deliveries \cup {NoDelivery}]
    /\ heard \in [Threads -> {"nothing", "success", "failure"}]
    /\ posted \subseteq Deliveries /\ cut \subseteq Deliveries

Init ==
    /\ crashes = 0 /\ endpoint = "active"
    /\ row = [d \in Deliveries |-> "none"] /\ staged = {}
    /\ owner = [d \in Deliveries |-> Nobody]
    /\ lease = [d \in Deliveries |-> FALSE]
    /\ handed = [d \in Deliveries |-> 0]
    /\ at = [t \in Threads |-> "idle"]
    /\ task = [t \in Threads |-> NoDelivery]
    /\ heard = [t \in Threads |-> "nothing"]
    /\ posted = {} /\ cut = {}

-----------------------------------------------------------------------------
(* Staging and handing over.                                               *)

\* stage_webhook_deliveries, in the transaction of the job's event.
Stage(d) ==
    /\ row[d] = "none" /\ endpoint = "active"
    /\ row' = [row EXCEPT ![d] = "queued"]
    /\ staged' = staged \cup {d}
    /\ UNCHANGED <<crashes, endpoint, owner, lease, handed, threads, posted,
                   cut>>

\* _commit_and_dispatch, after the commit.
Dispatch(d) ==
    /\ d \in staged /\ handed[d] < MaxHandOvers
    /\ staged' = staged \ {d}
    /\ handed' = [handed EXCEPT ![d] = @ + 1]
    /\ UNCHANGED <<crashes, endpoint, rows, threads, posted, cut>>

\* enqueue_due_webhook_deliveries: every 30 seconds, and at startup.
RetriesOnly(d) == row[d] = "retrying"   \* mutant
IsDue(d) == row[d] \in {"queued", "retrying"}
HandOver(d) ==
    /\ IsDue(d) /\ handed[d] < MaxHandOvers
    /\ handed' = [handed EXCEPT ![d] = @ + 1]
    /\ UNCHANGED <<crashes, endpoint, rows, staged, threads, posted, cut>>

\* pause_webhook, resume_webhook, delete_webhook
SetEndpoint ==
    /\ endpoint # "deleted"
    /\ endpoint' \in {"active", "paused", "deleted"} \ {endpoint}
    /\ UNCHANGED <<crashes, rows, staged, handed, threads, posted, cut>>

-----------------------------------------------------------------------------
(* deliver_webhook                                                         *)

Claimable(d) == row[d] \in {"queued", "retrying", "sending"} /\ ~lease[d]

Claim(t, d) ==
    /\ at[t] = "idle" /\ handed[d] > 0
    /\ handed' = [handed EXCEPT ![d] = @ - 1]
    /\ IF Claimable(d)
       THEN /\ row' = [row EXCEPT ![d] = "sending"]
            /\ owner' = [owner EXCEPT ![d] = t]
            /\ lease' = [lease EXCEPT ![d] = TRUE]
            /\ at' = [at EXCEPT ![t] = "claimed"]
            /\ task' = [task EXCEPT ![t] = d]
       ELSE UNCHANGED <<rows, at, task>>
    /\ UNCHANGED <<crashes, endpoint, staged, heard, posted, cut>>

ReadEndpoint(t) ==
    /\ at[t] = "claimed"
    /\ at' = [at EXCEPT ![t] = IF endpoint = "active" THEN "posting"
                               ELSE "inactive"]
    /\ UNCHANGED <<crashes, endpoint, rows, staged, handed, task, heard,
                   posted, cut>>

Post(t) ==
    /\ at[t] = "posting"
    /\ at' = [at EXCEPT ![t] = "heard"]
    /\ \E answer \in {"success", "failure"} :
        heard' = [heard EXCEPT ![t] = answer]
    /\ posted' = posted \cup {task[t]}
    /\ UNCHANGED <<crashes, endpoint, rows, staged, handed, task, cut>>

\* What the guard finds: the row, or the outcome that was flushed over it.
Flushed(t) == IF at[t] = "inactive" THEN row[task[t]]
              ELSE IF heard[t] = "success" THEN "delivered" ELSE "retrying"
Outcome(t) == IF at[t] = "inactive" THEN "abandoned" ELSE Flushed(t)

\* _finish_webhook_delivery.  The token of a call that is over is nobody's.
Finish(t) ==
    /\ at[t] \in {"inactive", "heard"}
    /\ LET d     == task[t]
           fence == Flushed(t) = "sending" /\ owner[d] = t
       IN  /\ row' = IF fence THEN [row EXCEPT ![d] = Outcome(t)] ELSE row
           /\ lease' = IF fence THEN [lease EXCEPT ![d] = FALSE] ELSE lease
           /\ owner' = IF owner[d] = t THEN [owner EXCEPT ![d] = Nobody]
                       ELSE owner
    /\ at' = [at EXCEPT ![t] = "idle"]
    /\ task' = [task EXCEPT ![t] = NoDelivery]
    /\ heard' = [heard EXCEPT ![t] = "nothing"]
    /\ UNCHANGED <<crashes, endpoint, staged, handed, posted, cut>>

LeaseEnds(d) ==
    /\ lease[d]
    /\ lease' = [lease EXCEPT ![d] = FALSE]
    /\ UNCHANGED <<crashes, endpoint, row, owner, staged, handed, threads,
                   posted, cut>>

\* The process stops and starts again: what was handed over is lost.
Crash ==
    /\ crashes < MaxCrashes
    /\ crashes' = crashes + 1
    /\ staged' = {} /\ handed' = [d \in Deliveries |-> 0]
    /\ owner' = [d \in Deliveries |-> Nobody]
    /\ at' = [t \in Threads |-> "idle"]
    /\ task' = [t \in Threads |-> NoDelivery]
    /\ heard' = [t \in Threads |-> "nothing"]
    /\ cut' = cut \cup {task[t] : t \in {u \in Threads : at[u] # "idle"}}
    /\ UNCHANGED <<endpoint, row, lease, posted>>

-----------------------------------------------------------------------------
Deliver(t) == ReadEndpoint(t) \/ Post(t) \/ Finish(t)
              \/ \E d \in Deliveries : Claim(t, d)

Next ==
    \/ Crash \/ SetEndpoint
    \/ \E d \in Deliveries : Stage(d) \/ Dispatch(d) \/ HandOver(d)
                             \/ LeaseEnds(d)
    \/ \E t \in Threads : Deliver(t)

Spec == Init /\ [][Next]_vars

\* The daemon and the threads go on (a post has a time limit), and the pool
\* is first in, first out: a delivery that waits is taken.
FairSpec ==
    /\ Spec
    /\ \A d \in Deliveries :
        /\ WF_vars(HandOver(d))
        /\ SF_vars(\E t \in Threads : Claim(t, d))
    /\ \A t \in Threads : WF_vars(ReadEndpoint(t) \/ Post(t) \/ Finish(t))

-----------------------------------------------------------------------------
(* Properties                                                              *)

\* enqueue_due_webhook_deliveries, webhooks.py:412: a staged event is sent, or
\* given up because its endpoint is not active, also when the process stops
\* before it has handed the row over.  A row that a crash leaves "sending" is
\* not taken up again.
Attempted ==
    \A d \in Deliveries :
        row[d] = "queued" ~> d \in posted \cup cut \/ row[d] = "abandoned"

\* deliver_webhook, webhooks.py:350, calls its last step the "persisted
\* delivery boundary": a row is sending only while a thread has it.
OutcomePersisted ==
    \A d \in Deliveries : row[d] = "sending" => \E t \in Threads : task[t] = d
=============================================================================
