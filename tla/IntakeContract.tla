---------------------------- MODULE IntakeContract ----------------------------
(***************************************************************************)
(* What the sender of a message may count on, however often the provider   *)
(* delivers it and whoever takes it over.                                  *)
(*                                                                         *)
(* Its turn is begun once at most and ends once.  The message enters the   *)
(* conversation once, in its turn, and has one answer, which stays: the    *)
(* one its turn sends, or the one a restart leaves in the web page for a   *)
(* turn that was cut short.  The event is closed only behind an answer,    *)
(* and stays closed; but for an event that was released, which may be      *)
(* closed before its turn has an answer, and be open again.                *)
(***************************************************************************)
CONSTANT Events

VARIABLES
    begun, ended,   \* events whose turn was begun, and whose turn is over
    kept,           \* events whose message is in the conversation
    answer,         \* of each event: "none", "staged", or "silent"
    commands,       \* events that were answered at once, without a turn
    released,       \* events opened again although a thread, or a turn, had them
    done            \* closed events

vars == <<begun, ended, kept, answer, commands, released, done>>

Answered == {e \in Events : answer[e] # "none"} \cup commands

Init ==
    /\ begun = {} /\ ended = {} /\ kept = {} /\ commands = {}
    /\ answer = [e \in Events |-> "none"]
    /\ released = {} /\ done = {}

Begin(e) ==
    /\ e \notin begun
    /\ begun' = begun \cup {e}
    /\ UNCHANGED <<ended, kept, answer, commands, released, done>>

Keep(e) ==
    /\ e \in begun \ ended /\ e \notin kept
    /\ kept' = kept \cup {e}
    /\ UNCHANGED <<begun, ended, answer, commands, released, done>>

\* The turn ends, with an answer or in an exception.
End(e) ==
    /\ e \in begun \ ended
    /\ ended' = ended \cup {e}
    /\ answer' \in {answer, [answer EXCEPT ![e] = "staged"]}
    /\ UNCHANGED <<begun, kept, commands, released, done>>

\* The process has died, and with it the turns that were running.
Restart ==
    /\ ended' = begun
    /\ answer' = [e \in Events |-> IF e \in (begun \ ended) \cap kept
                                   THEN "silent" ELSE answer[e]]
    /\ UNCHANGED <<begun, kept, commands, released, done>>

Command(e) ==
    /\ e \notin kept
    /\ commands' = commands \cup {e} /\ done' = done \cup {e}
    /\ UNCHANGED <<begun, ended, kept, answer, released>>

Close(e) ==
    /\ e \in Answered \cup released
    /\ done' = done \cup {e}
    /\ UNCHANGED <<begun, ended, kept, answer, commands, released>>

\* An event that is released may be closed by it, or be open again.
Release(e) ==
    /\ released' = released \cup {e}
    /\ done' \in {done, done \cup ({e} \cap Answered), done \ {e}}
    /\ UNCHANGED <<begun, ended, kept, answer, commands>>

Next ==
    \/ \E e \in Events :
            Begin(e) \/ Keep(e) \/ End(e) \/ Command(e) \/ Close(e) \/ Release(e)
    \/ Restart

Spec == Init /\ [][Next]_vars

=============================================================================
