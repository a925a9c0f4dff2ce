----------------------------- MODULE JobContract -----------------------------
(***************************************************************************)
(* What the public API promises to the clients that share one              *)
(* Idempotency-Key.                                                        *)
(*                                                                         *)
(* The answers all name one job.  A job that was accepted is begun once at *)
(* most, succeeds only if it was begun, and when it has ended stays as it  *)
(* ended.  A stream follows one job; it closes only when it has shown how  *)
(* that job ended.  Nothing is promised about jobs that no answer names,   *)
(* but that they keep to the same life.                                    *)
(***************************************************************************)
EXTENDS Naturals

CONSTANTS Requests, NoJob   \* a job has the name of the request that made it

VARIABLES
    named,      \* the job that answers name, once there is one
    answer,     \* what each request was answered with
    life,       \* of each job: none, open, or how it ended
    begun,      \* how often its turn was begun
    followed,   \* the job of the stream
    told,       \* whether the stream has shown the end of it
    closed      \* and has closed

vars == <<named, answer, life, begun, followed, told, closed>>

Endings == {"succeeded", "failed", "cancelled"}

Init ==
    /\ named = NoJob /\ answer = [r \in Requests |-> NoJob]
    /\ life = [j \in Requests |-> "none"] /\ begun = [j \in Requests |-> 0]
    /\ followed = NoJob /\ told = FALSE /\ closed = FALSE

Accept(j) ==
    /\ life[j] = "none"
    /\ life' = [life EXCEPT ![j] = "open"]
    /\ UNCHANGED <<named, answer, begun, followed, told, closed>>

\* The first answer names the request's own job, the others the same one.
Answer(r) ==
    /\ answer[r] = NoJob
    /\ IF named = NoJob THEN life[r] # "none" /\ named' = r
       ELSE named' = named
    /\ answer' = [answer EXCEPT ![r] = named']
    /\ UNCHANGED <<life, begun, followed, told, closed>>

Begin(j) ==
    /\ life[j] = "open" /\ begun[j] = 0
    /\ begun' = [begun EXCEPT ![j] = 1]
    /\ UNCHANGED <<named, answer, life, followed, told, closed>>

\* Jobs end one at a time, or several fail at once.
End(j, ending) ==
    /\ life[j] = "open" /\ (ending = "succeeded" => begun[j] = 1)
    /\ life' = [life EXCEPT ![j] = ending]
    /\ UNCHANGED <<named, answer, begun, followed, told, closed>>

FailAll(jobs) ==
    /\ \A j \in jobs : life[j] = "open"
    /\ life' = [j \in Requests |-> IF j \in jobs THEN "failed" ELSE life[j]]
    /\ UNCHANGED <<named, answer, begun, followed, told, closed>>

Follow(j) ==
    /\ followed = NoJob /\ life[j] # "none"
    /\ followed' = j
    /\ UNCHANGED <<named, answer, life, begun, told, closed>>

Tell ==
    /\ followed # NoJob /\ life[followed] \in Endings
    /\ told' = TRUE
    /\ UNCHANGED <<named, answer, life, begun, followed, closed>>

Close ==
    /\ told /\ closed' = TRUE
    /\ UNCHANGED <<named, answer, life, begun, followed, told>>

Next ==
    \/ \E j \in Requests :
        \/ Accept(j) \/ Answer(j) \/ Begin(j) \/ Follow(j)
        \/ \E ending \in Endings : End(j, ending)
    \/ \E jobs \in SUBSET Requests : FailAll(jobs)
    \/ Tell \/ Close

Spec == Init /\ [][Next]_vars

=============================================================================
