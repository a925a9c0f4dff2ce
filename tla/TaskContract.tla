---------------------------- MODULE TaskContract ----------------------------
(***************************************************************************)
(* What a task frame may count on when it hands requests to a business     *)
(* system that takes longer than a turn.                                   *)
(*                                                                         *)
(* A request is sent once at most, and only after its task was recorded:   *)
(* whoever loses an answer can look the task up.  A task is shown as       *)
(* completed, and the frame told so, only after the business system did    *)
(* what was asked.  A frame waits only behind a recorded task.  The record *)
(* of a task may be wrong the other way: it is shown as failed or unknown  *)
(* although the request was served, or is no more shown as completed.      *)
(***************************************************************************)
EXTENDS Naturals

CONSTANTS Tasks, Results

VARIABLES
    recorded,   \* tasks that have a record
    sent,       \* how often the request of each was sent
    done,       \* tasks whose request the business system has served
    completed,  \* tasks that are shown as completed
    waits,      \* whether the frame waits
    told        \* the result the frame was resumed with last

vars == <<recorded, sent, done, completed, waits, told>>

Init ==
    /\ recorded = {} /\ sent = [k \in Tasks |-> 0]
    /\ done = {} /\ completed = {}
    /\ waits = FALSE /\ told = "none"

Record(k) ==
    /\ k \notin recorded
    /\ recorded' = recorded \cup {k}
    /\ UNCHANGED <<sent, done, completed, waits, told>>

\* The answer may be lost, and may come before the turn ends.
Send(k) ==
    /\ k \in recorded /\ sent[k] = 0
    /\ sent' = [sent EXCEPT ![k] = 1]
    /\ done' \in {done, done \cup {k}}
    /\ UNCHANGED <<recorded, completed, waits, told>>

Serve(k) ==
    /\ sent[k] = 1
    /\ done' = done \cup {k}
    /\ UNCHANGED <<recorded, sent, completed, waits, told>>

Complete(k) ==
    /\ k \in done
    /\ completed' = completed \cup {k}
    /\ UNCHANGED <<recorded, sent, done, waits, told>>

\* A late answer is written over a newer one.
Withdraw(k) ==
    /\ completed' = completed \ {k}
    /\ UNCHANGED <<recorded, sent, done, waits, told>>

Wait ==
    /\ recorded # {} /\ waits' = TRUE
    /\ UNCHANGED <<recorded, sent, done, completed, told>>

\* A turn takes the frame up.
TakeUp ==
    /\ waits' = FALSE
    /\ UNCHANGED <<recorded, sent, done, completed, told>>

\* The frame is resumed with the end of a task.
Resume(k, result) ==
    /\ k \in recorded
    /\ result = "completed" => k \in done
    /\ told' = result /\ waits' \in {waits, FALSE}
    /\ UNCHANGED <<recorded, sent, done, completed>>

Next ==
    \/ \E k \in Tasks :
        \/ Record(k) \/ Send(k) \/ Serve(k) \/ Complete(k) \/ Withdraw(k)
        \/ \E result \in Results : Resume(k, result)
    \/ Wait \/ TakeUp

Spec == Init /\ [][Next]_vars

=============================================================================
