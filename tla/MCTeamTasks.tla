----------------------------- MODULE MCTeamTasks -----------------------------
(***************************************************************************)
(* TeamTasks for TLC: runs of two tasks, in sequence or side by side, and  *)
(* tasks outside a run, one after another or beside one that is done; few  *)
(* of them with both a further order and a trouble.                        *)
(***************************************************************************)
EXTENDS TeamTasks, TLC

CONSTANTS t1, t2, m1, m2

Setup(planned, after, done) ==
    [planned |-> planned, needs |-> (t1 :> {} @@ t2 :> after),
     needed |-> [t \in Tasks |-> IF t = t2 THEN Cardinality(after) ELSE 0],
     always |-> {}, done |-> done, who |-> [t \in Tasks |-> m1],
     orders |-> 1, troubles |-> 1]

Sequence == Setup({t1, t2}, {t1}, {})
Pair     == Setup({t1, t2}, {}, {})
Chain    == Setup({}, {t1}, {})
Reviewed == Setup({}, {}, {t2})

Few(s)  == [s EXCEPT !.orders = 0]
Calm(s) == [s EXCEPT !.troubles = 0]

FewSetups ==
    {Few(Sequence), Calm(Sequence), Calm([Sequence EXCEPT !.always = {t2}]),
     Few(Pair), Calm(Pair), Reviewed, Few(Chain)}

=============================================================================
