------------------------------ MODULE PublicJobs ------------------------------
(***************************************************************************)
(* Runs of the public API: requests that carry one Idempotency-Key create  *)
(* jobs, a pool of threads executes each job's turn, clients cancel jobs   *)
(* and one of them follows the events of a job in a stream.  After a       *)
(* restart, recovery fails the jobs that were running and hands the queued *)
(* ones to the pool again.                                                 *)
(*                                                                         *)
(* A job is named by the request that creates it.  Of a job's events only  *)
(* the number is kept, and whether its terminal one is among them.         *)
(***************************************************************************)
EXTENDS Naturals, FiniteSets

CONSTANTS
    Requests,      \* requests with the same key and the same content
    NoJob,
    MaxCrashes, MaxCancels    \* bounds

ASSUME JobsAssumption ==
    /\ NoJob \notin Requests
    /\ MaxCrashes \in Nat /\ MaxCancels \in Nat

VARIABLES
    crashes, cancels,
    request,    \* where each request is, and the job it was answered with
    record,     \* the job of the idempotency record
    job,        \* the status of each job
    cancel,     \* cancel_requested
    canceller,  \* the job whose cancellation is under way
    pool,       \* jobs handed to the threads of this process
    at,         \* what the thread of a job does
    events,     \* how many events of a job are published
    read,       \* the number a thread has read before it publishes one
    turn,       \* the turn of a job, which has a thread of its own
    ran,        \* how often it was begun
    stream      \* the client's stream: of which job, its step, the number of
                \* the last event shown, whether the terminal one was shown

clients == <<request, record>>
flags   == <<cancel, canceller>>
work    == <<job, flags, pool, at, events, read, turn, ran>>
bounds  == <<crashes, cancels>>
vars    == <<bounds, clients, work, stream>>

Ended == {"succeeded", "failed", "cancelled"}

TypeOK ==
    /\ crashes \in 0 .. MaxCrashes /\ cancels \in 0 .. MaxCancels
    /\ request \in [Requests ->
            [at : {"new", "checked", "created", "answered", "error"},
             job : Requests \cup {NoJob}]]
    /\ record \in Requests \cup {NoJob}
    /\ job \in [Requests -> {"none", "queued", "running"} \cup Ended]
    /\ cancel \in [Requests -> BOOLEAN]
    /\ canceller \in Requests \cup {NoJob}
    /\ pool \subseteq Requests
    /\ at \in [Requests -> {"idle", "starting", "publishing", "started",
                           "turn"}]
    /\ events \in [Requests -> Nat] /\ read \in [Requests -> Nat]
    /\ turn \in [Requests -> {"none", "active", "completed", "failed"}]
    /\ ran \in [Requests -> Nat]
    /\ stream \in [of : Requests \cup {NoJob},
                   at : {"none", "status", "running", "over", "closed"},
                   cursor : Nat, complete : BOOLEAN]

Init ==
    /\ crashes = 0 /\ cancels = 0
    /\ request = [r \in Requests |-> [at |-> "new", job |-> NoJob]]
    /\ record = NoJob
    /\ job = [r \in Requests |-> "none"] /\ cancel = [r \in Requests |-> FALSE]
    /\ canceller = NoJob /\ pool = {} /\ at = [r \in Requests |-> "idle"]
    /\ events = [r \in Requests |-> 0] /\ read = [r \in Requests |-> 0]
    /\ turn = [r \in Requests |-> "none"] /\ ran = [r \in Requests |-> 0]
    /\ stream = [of |-> NoJob, at |-> "none", cursor |-> 0, complete |-> FALSE]

Go(j, label) == at' = [at EXCEPT ![j] = label]
Publishes(j) == events' = [events EXCEPT ![j] = @ + 1]

-----------------------------------------------------------------------------
(* A request: create_run_route, in three transactions.                     *)

Answers(r, j) ==
    request' = [request EXCEPT ![r] = [at |-> "answered", job |-> j]]

\* replay_idempotent_response
Replay(r) ==
    /\ request[r].at = "new"
    /\ IF record # NoJob THEN Answers(r, record)
       ELSE request' = [request EXCEPT ![r].at = "checked"]
    /\ UNCHANGED <<bounds, record, work, stream>>

\* create_job: the row and its first event, and then the pool.
Create(r) ==
    /\ request[r].at = "checked"
    /\ request' = [request EXCEPT ![r].at = "created"]
    /\ job' = [job EXCEPT ![r] = "queued"]
    /\ Publishes(r)
    /\ pool' = pool \cup {r}
    /\ UNCHANGED <<bounds, record, flags, at, read, turn, ran, stream>>

Stored == TRUE   \* mutant
Storable == record = NoJob

\* store_idempotent_response: the key is unique, and the second one an error.
Store(r) ==
    /\ request[r].at = "created"
    /\ IF Storable THEN record' = r /\ Answers(r, r)
       ELSE /\ request' = [request EXCEPT ![r].at = "error"]
            /\ UNCHANGED record
    /\ UNCHANGED <<bounds, work, stream>>

\* cancel_run sets the flag; cancel_job publishes an event with it.  Neither
\* looks again whether the job it has read has ended since.
CancelRead(j) ==
    /\ job[j] \in {"queued", "running"}
    /\ canceller = NoJob /\ canceller' = j
    /\ cancels < MaxCancels /\ cancels' = cancels + 1
    /\ UNCHANGED <<crashes, clients, job, cancel, pool, at, events, read, turn,
                   ran,
                   stream>>

CancelWrite(j) ==
    /\ canceller = j /\ canceller' = NoJob
    /\ cancel' = [cancel EXCEPT ![j] = TRUE]
    /\ Publishes(j) \/ UNCHANGED events
    /\ UNCHANGED <<bounds, clients, job, pool, at, read, turn, ran, stream>>

-----------------------------------------------------------------------------
(* A thread of the pool executes a job: run_job.                           *)

\* A running job always has an owner: only queued ones can be claimed.
Claim(j) ==
    /\ j \in pool /\ pool' = pool \ {j}
    /\ IF job[j] = "queued"
       THEN job' = [job EXCEPT ![j] = "running"] /\ Go(j, "starting")
       ELSE UNCHANGED <<job, at>>
    /\ UNCHANGED <<bounds, clients, flags, events, read, turn, ran, stream>>

\* emit_job_event reads the last number before it holds the write lock: every
\* other event of a job is written with the job's row, whose change has it.
StartRead(j) ==
    /\ at[j] = "starting"
    /\ read' = [read EXCEPT ![j] = events[j]]
    /\ Go(j, "publishing")
    /\ UNCHANGED <<bounds, clients, job, flags, pool, events, turn, ran,
                   stream>>

\* The number is taken: the exception leaves the thread, the job stays running.
StartWrite(j) ==
    /\ at[j] = "publishing"
    /\ IF events[j] = read[j] THEN Publishes(j) /\ Go(j, "started")
       ELSE Go(j, "idle") /\ UNCHANGED events
    /\ UNCHANGED <<bounds, clients, job, flags, pool, read, turn, ran, stream>>

TerminalizeSilently(j, status) ==   \* mutant
    job' = [job EXCEPT ![j] = status] /\ Go(j, "idle") /\ UNCHANGED events
\* _terminalize_job and _emit_terminal_job_event, one transaction.
Terminalize(j, status) ==
    /\ job' = [job EXCEPT ![j] = status]
    /\ Publishes(j)
    /\ Go(j, "idle")

\* execute_run: the turn is given to a thread of its own.
StartTurn(j) ==
    /\ at[j] = "started" /\ ~cancel[j]
    /\ turn' = [turn EXCEPT ![j] = "active"]
    /\ ran' = [ran EXCEPT ![j] = @ + 1]
    /\ Publishes(j)
    /\ Go(j, "turn")
    /\ UNCHANGED <<bounds, clients, job, flags, pool, read, stream>>

EndTurn(j) ==
    /\ turn[j] = "active"
    /\ \E outcome \in {"completed", "failed"} :
            turn' = [turn EXCEPT ![j] = outcome]
    /\ UNCHANGED <<bounds, clients, job, flags, pool, at, events, read, ran,
                   stream>>

\* ensure_not_cancelled, before the turn, while it runs, and after it, or an
\* exception of the handler: the job does not wait for the turn it has given up.
GiveUp(j) ==
    /\ at[j] \in {"started", "turn"}
    /\ (cancel[j] /\ Terminalize(j, "cancelled")) \/ Terminalize(j, "failed")
    /\ UNCHANGED <<bounds, clients, flags, pool, read, turn, ran, stream>>

\* A cancellation after the last look at the flag is too late.
Finish(j) ==
    /\ at[j] = "turn" /\ turn[j] \in {"completed", "failed"}
    /\ Terminalize(j, IF turn[j] = "completed" THEN "succeeded" ELSE "failed")
    /\ UNCHANGED <<bounds, clients, flags, pool, read, turn, ran, stream>>

-----------------------------------------------------------------------------
(* The client's stream: stream_job_events.                                 *)

\* The client opens a stream, or opens it again after the last event shown.
Open(j) ==
    /\ job[j] # "none" /\ stream.at = "none" /\ stream.of \in {NoJob, j}
    /\ stream' = [stream EXCEPT !.of = j, !.at = "status"]
    /\ UNCHANGED <<bounds, clients, work>>

StreamStatus ==
    /\ stream.at = "status"
    /\ stream' = [stream EXCEPT !.at = IF job[stream.of] \in Ended THEN "over"
                                       ELSE "running"]
    /\ UNCHANGED <<bounds, clients, work>>

\* Only a status that was terminal before the rows were read ends the stream.
StreamRows ==
    /\ stream.at \in {"over", "running"}
    /\ stream' =
        IF events[stream.of] > stream.cursor
        THEN [stream EXCEPT !.at = "status", !.cursor = events[stream.of],
                            !.complete = @ \/ job[stream.of] \in Ended]
        ELSE [stream EXCEPT !.at = IF @ = "over" THEN "closed" ELSE "status"]
    /\ UNCHANGED <<bounds, clients, work>>

-----------------------------------------------------------------------------

RunAgain == "queued"   \* mutant
RequeuedNone(jobs) == {}   \* mutant
\* The jobs it offers to the pool of the new process.
Requeued(jobs) == {j \in Requests : jobs[j] = "queued"}

\* What recover_public_jobs makes of a job that was running.
Recovered == "failed"

\* The process dies and starts again; recovery is one transaction, before any
\* request is served.  A client opens its stream again after its last event.
Crash ==
    /\ crashes < MaxCrashes /\ crashes' = crashes + 1
    /\ LET lost == {j \in Requests : job[j] = "running"} IN
        /\ job' = [j \in Requests |-> IF j \in lost THEN Recovered ELSE job[j]]
        /\ events' = [j \in Requests |-> IF j \in lost THEN events[j] + 1
                                         ELSE events[j]]
    /\ pool' = Requeued(job')
    /\ canceller' = NoJob
    /\ at' = [j \in Requests |-> "idle"]
    /\ turn' = [j \in Requests |->
                   IF turn[j] = "active" THEN "failed" ELSE turn[j]]
    /\ request' = [r \in Requests |->
                      IF request[r].at \in {"checked", "created"}
                      THEN [request[r] EXCEPT !.at = "error"] ELSE request[r]]
    /\ stream' = [stream EXCEPT !.at = IF @ = "closed" THEN @ ELSE "none"]
    /\ UNCHANGED <<cancels, record, cancel, read, ran>>

Serves(r) == Replay(r) \/ Create(r) \/ Store(r)
Works(j) ==
    \/ Claim(j) \/ StartRead(j) \/ StartWrite(j) \/ StartTurn(j) \/ EndTurn(j)
    \/ GiveUp(j) \/ Finish(j)
Streams == StreamStatus \/ StreamRows

Next ==
    \/ \E r \in Requests : \/ Serves(r) \/ CancelRead(r) \/ CancelWrite(r)
                           \/ Works(r) \/ Open(r)
    \/ Streams \/ Crash

Spec == Init /\ [][Next]_vars

\* The threads of the pool and of the turns go on, and so does an open stream.
FairSpec ==
    /\ Spec
    /\ \A j \in Requests : WF_vars(Works(j)) /\ WF_vars(Open(j))
    /\ WF_vars(Streams)

-----------------------------------------------------------------------------
(* Properties.                                                             *)

\* "The same path and the same content return the original resource": however
\* the requests with a key are interleaved, those answered name one job.
KeyAgrees ==
    \A r, s \in Requests :
        request[r].at = "answered" /\ request[s].at = "answered" =>
            request[r].job = request[s].job

\* The turn of a job is begun once at most: neither a second hand-over to the
\* pool nor a restart begins it again.
RunsOnce == \A j \in Requests : ran[j] <= 1

\* A stream that closes has shown the job's terminal event, across restarts.
StreamIsComplete == stream.at = "closed" => stream.complete

\* An accepted job ends, also when the process dies before or while it runs,
\* unless its cancellation is asked for, which may take the number of the event
\* with which its thread starts and stop the thread.
JobEnds ==
    []<>(\A j \in Requests : job[j] \in Ended \cup {"none"} \/ cancel[j])

\* What the clients see, in JobContract's words: a job is open from its row on
\* until it ends, in the pool or not.
Life(status) == IF status \in {"queued", "running"} THEN "open" ELSE status

Contract ==
    INSTANCE JobContract WITH
        named    <- record,
        answer   <- [r \in Requests |-> request[r].job],
        life     <- [j \in Requests |-> Life(job[j])],
        begun    <- ran,
        followed <- stream.of,
        told     <- stream.complete,
        closed   <- stream.at = "closed"

\* The API keeps its promise across restarts: one job for a key, begun once, not
\* succeeded before that, ended once and for ever, and a stream closes after it
\* has shown the end.
ImplementsContract == Contract!Spec

=============================================================================
