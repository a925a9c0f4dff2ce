---------------------------- MODULE TurnContract ----------------------------
(***************************************************************************)
(* What a chat session promises to those who send it turns, resend them    *)
(* and cancel them.                                                        *)
(*                                                                         *)
(* A turn is executed by one call at most.  Before it may answer, it needs *)
(* the right to do so, which it gets while the turn is open, and which a   *)
(* cancellation then cannot take: a turn that was once cancelled is never  *)
(* answered, whatever recovery makes of it later.  A turn is completed     *)
(* only when it is answered, and only then is anybody told that it was.    *)
(* Recovery may fail any turn that was claimed, also one that had ended.   *)
(***************************************************************************)
CONSTANTS Turns, Calls

VARIABLES
    state,      \* of each turn: absent, open, completed, failed, cancelled
    executors,  \* the calls that executed it
    granted,    \* turns that may answer and have not done so
    answered,   \* turns with their answer
    told        \* turns of which somebody was told that they are answered

vars == <<state, executors, granted, answered, told>>

Init ==
    /\ state = [t \in Turns |-> "absent"] /\ executors = [t \in Turns |-> {}]
    /\ granted = {} /\ answered = {} /\ told = {}

Becomes(t, s) ==
    /\ state' = [state EXCEPT ![t] = s]
    /\ UNCHANGED <<executors, granted, answered>>

Execute(t, call) ==
    /\ state[t] = "absent" /\ executors[t] = {}
    /\ state' = [state EXCEPT ![t] = "open"]
    /\ executors' = [executors EXCEPT ![t] = {call}]
    /\ UNCHANGED <<granted, answered, told>>

Grant(t) ==
    /\ state[t] = "open" /\ t \notin answered
    /\ granted' = granted \cup {t}
    /\ UNCHANGED <<state, executors, answered, told>>

Answer(t) ==
    /\ t \in granted
    /\ granted' = granted \ {t} /\ answered' = answered \cup {t}
    /\ UNCHANGED <<state, executors, told>>

Complete(t) ==
    /\ state[t] = "open" /\ t \in answered
    /\ Becomes(t, "completed") /\ told' = told \cup {t}

\* Somebody who sends the turn again.
Replay(t) ==
    /\ state[t] = "completed"
    /\ told' = told \cup {t}
    /\ UNCHANGED <<state, executors, granted, answered>>

Cancel(t) ==
    /\ state[t] = "open" /\ t \notin granted \cup answered
    /\ Becomes(t, "cancelled") /\ UNCHANGED told

FailAll(turns) ==
    /\ \A t \in turns : state[t] # "absent"
    /\ state' = [t \in Turns |-> IF t \in turns THEN "failed" ELSE state[t]]
    /\ UNCHANGED <<executors, granted, answered, told>>

\* The process dies, and with it who had the right to answer.
Die ==
    /\ granted' = {}
    /\ UNCHANGED <<state, executors, answered, told>>

Next ==
    \/ \E t \in Turns :
        \/ \E call \in Calls : Execute(t, call)
        \/ Grant(t) \/ Answer(t) \/ Complete(t) \/ Replay(t) \/ Cancel(t)
    \/ \E turns \in SUBSET Turns : FailAll(turns)
    \/ Die

Spec == Init /\ [][Next]_vars

=============================================================================
