--------------------------- MODULE DeliveryContract ---------------------------
(***************************************************************************)
(* What the outbox promises about the answers to one message.              *)
(*                                                                         *)
(* An answer is open until it is delivered or failed, for ever.  While the *)
(* binding is there, an open answer may be shown, once; an answer that is  *)
(* reported as delivered has been shown.  An answer may be given up at any *)
(* time, shown or not: a failed answer says only that the outbox does not  *)
(* know better.  Once the binding is gone nothing is shown or delivered.   *)
(***************************************************************************)
EXTENDS Naturals

CONSTANT Answers   \* the answers to the message

VARIABLES
    life,     \* of each answer: "open", "delivered" or "failed"
    shown,    \* how often the reader sees it
    closed    \* the binding is deleted

vars == <<life, shown, closed>>

Open == {r \in Answers : life[r] = "open"}

Init ==
    /\ life = [r \in Answers |-> "open"]
    /\ shown = [r \in Answers |-> 0]
    /\ closed = FALSE

Show(r) ==
    /\ ~closed /\ r \in Open /\ shown[r] = 0
    /\ shown' = [shown EXCEPT ![r] = 1]
    /\ UNCHANGED <<life, closed>>

Deliver(r) ==
    /\ ~closed /\ r \in Open /\ shown[r] = 1
    /\ life' = [life EXCEPT ![r] = "delivered"]
    /\ UNCHANGED <<shown, closed>>

\* Answers are given up, alone or with others, or with the binding.
GiveUp(given) ==
    /\ life' = [r \in Answers |-> IF r \in given THEN "failed" ELSE life[r]]
    /\ closed => closed'
    /\ UNCHANGED shown

Next ==
    \/ \E r \in Answers : Show(r) \/ Deliver(r)
    \/ \E given \in SUBSET Open : GiveUp(given)

Spec == Init /\ [][Next]_vars

=============================================================================
