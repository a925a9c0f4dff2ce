---------------------------- MODULE TeamTasksProofs ----------------------------
(***************************************************************************)
(* Theorems of TeamTasks, for every value of its constants.                *)
(***************************************************************************)
EXTENDS TeamTasks, FiniteSetTheorems, TLAPS

-----------------------------------------------------------------------------
(* The inductive invariant. *)

Claiming(p) == at[p] = "enqueue_synthesis"

Ending    == {"idle", "ended", "apply"}
Following == {"hold", "reopen", "claim_run", "enqueue_synthesis"}

\* Which threads come where, and with what in hand.
PlaceOf(w) ==
    /\ w \in Orders =>
        /\ at[w] \in Ending \cup Following
                     \cup {"start", "inturn", "store", "raise", "enqueue"}
        /\ turn[w] \in {"none", "active", "failed", "completed", "asked"}
        /\ at[w] = "start" => seen[w] \in {"blocked", "pending", "rework"}
        /\ at[w] = "store" => turn[w] # "none"
    /\ w \in Reports =>
        at[w] \in Ending \cup Following \cup {"inturn", "store", "enqueue"}
    /\ w \in Syntheses =>
        at[w] \in Ending \cup {"inturn", "publish", "complete", "broke"}
    /\ w \notin Syntheses /\ at[w] \in {"store", "raise"} => seen[w] \in Statuses

\* The row of a wake that a thread executes is claimed.
RowOf(w) ==
    /\ at[w] # "idle" => wake[w] # "none"
    /\ at[w] \notin {"idle", "apply"} \cup Following => wake[w] = "claimed"

ThreadFit == \A w \in Wakes : PlaceOf(w) /\ RowOf(w)

HandFit ==
    /\ at[Sweeper] \in Following \cup {"idle", "store"}
    /\ at[Human] \in Verdicts \cup {"idle", "award", "resume", "enqueue", "apply"}
    /\ at[Sweeper] = "store" => hand[Sweeper] \in Tasks
    /\ at[Human] # "idle" => hand[Human] \in Tasks

\* What an order is about to write; an order keeps its task in progress until it
\* writes something else.
Due(w) == IF Fails(w) THEN AfterFailure(seen[w]) ELSE Outcome(w)
Holds(w) == at[w] = "inturn" \/ (at[w] = "store" /\ Due(w) # seen[w])

SlotFit == \A m \in Members : Cardinality(SlotsOf(m)) <= Limit

\* An order that is about to start is its task's assignee's, or the award was
\* rewritten meanwhile.
StartFit ==
    \A w \in Orders : at[w] = "start" => target[w] = assignee[w[2]] \/ w[2] \in moved

\* Before a crash, every task in progress is held by an order of its assignee.
HeldFit ==
    crashes = 0 =>
        \A t \in Tasks : status[t] = "in_progress" /\ t \notin moved =>
            \E w \in Orders : w[2] = t /\ target[w] = assignee[t] /\ Holds(w)

\* After one, a member of one slot starts nothing beside a task in progress.
AloneFit ==
    Limit = 1 =>
        /\ \A m \in Members : \A t, u \in InProgress(m) \ moved : t = u
        /\ \A w \in Orders : at[w] = "start" =>
               \A t \in InProgress(target[w]) : t = w[2] \/ t \in moved

Serial == SlotFit /\ StartFit /\ HeldFit /\ AloneFit

\* As long as the run was not claimed, nothing of its synthesis exists.
Unclaimed ==
    run \in Open \cup {"none"} =>
        /\ \A p \in Procs : ~Claiming(p)
        /\ \A w \in Syntheses : wake[w] = "none"

\* One thread claimed the run, and it enqueues the one synthesis.
OneClaim ==
    /\ \A p, q \in Procs : Claiming(p) /\ Claiming(q) => p = q
    /\ \A p \in Procs : Claiming(p) => \A w \in Syntheses : wake[w] = "none"
    /\ \A v, w \in Syntheses : wake[v] # "none" /\ wake[w] # "none" => v = w

\* Its answer is published once, and by every thread that a crash cut short.
AnswerKept ==
    /\ (\A w \in Syntheses : wake[w] = "none") => published = 0
    /\ \A w \in Syntheses :
        wake[w] \in {"pending", "claimed"} /\ at[w] \notin {"complete", "ended"} =>
            published <= crashes
    /\ published <= 1 + crashes

TokenFit == reverts = 0 => Unclaimed /\ OneClaim /\ AnswerKept

IInv == TypeOK /\ ThreadFit /\ HandFit /\ Serial /\ TokenFit

-----------------------------------------------------------------------------
(* Names of wakes, and what the operators return.                          *)

LEMMA Names ==
  /\ Orders \subseteq Wakes /\ Reports \subseteq Wakes /\ Syntheses \subseteq Wakes
  /\ Wakes \subseteq Procs /\ Sweeper \in Procs /\ Human \in Procs
  /\ Orders \cap Reports = {} /\ Orders \cap Syntheses = {} /\ Reports \cap Syntheses = {}
  /\ \A w \in Orders \cup Reports : w[2] \in Tasks
  /\ \A w \in Syntheses : w[2] = NoTask
  /\ Sweeper \notin Wakes /\ Human \notin Wakes /\ Sweeper # Human
<1>1. \A w \in Orders : w[1] = "order" /\ w[2] \in Tasks
  BY DEF Orders
<1>2. \A w \in Reports : w[1] = "report" /\ w[2] \in Tasks
  BY DEF Reports
<1>3. \A w \in Syntheses : w[1] = "synthesis" /\ w[2] = NoTask
  BY DEF Syntheses
<1>4. Orders \cap Reports = {} /\ Orders \cap Syntheses = {} /\ Reports \cap Syntheses = {}
  BY <1>1, <1>2, <1>3
<1>5. QED
  BY <1>1, <1>2, <1>3, <1>4, ProcsAssumption DEF Wakes, Procs

LEMMA TaskOf ==
  /\ \A w \in Wakes : Task(w) = w[2]
  /\ Task(Sweeper) = hand[Sweeper] /\ Task(Human) = hand[Human]
  BY Names DEF Task

LEMMA SetupOf ==
  ASSUME TypeOK
  PROVE  /\ setup.planned \subseteq Tasks /\ NoTask \notin setup.planned
         /\ setup.orders \in 0 .. MaxOrders /\ setup.troubles \in 0 .. MaxTroubles
         /\ setup.who \in [Tasks -> Members]
  BY TeamAssumption DEF TypeOK, SetupType

\* What a thread writes is a status, and nothing new that is in progress.
LEMMA DueStatus ==
  ASSUME NEW w, turn[w] \in Turns
  PROVE  /\ Due(w) = seen[w] \/ Due(w) \in {"done", "review", "escalated", "rework"}
         /\ turn[w] \in {"active", "failed", "completed", "asked"} /\ seen[w] = "in_progress"
                => Due(w) # seen[w]
<1>1. AfterFailure(seen[w]) = seen[w] \/ AfterFailure(seen[w]) = "escalated"
  BY DEF AfterFailure
<1>2. seen[w] = "in_progress" => AfterFailure(seen[w]) # seen[w]
  BY DEF AfterFailure, Ended
<1>3. ~Fails(w) => Outcome(w) = seen[w] \/ Outcome(w) \in {"done", "review", "escalated", "rework"}
        \/ turn[w] \notin Turns
  BY DEF Outcome, Turns, Verdicts
<1>4. turn[w] \in {"completed", "asked"} /\ seen[w] = "in_progress" => Outcome(w) # seen[w]
  BY DEF Outcome
<1>5. QED
  BY <1>1, <1>2, <1>3, <1>4 DEF Due, Fails

LEMMA PutStatus ==
  ASSUME TypeOK, NEW p \in Procs, NEW s, s \in Statuses \/ s = seen[p], Task(p) \in Tasks,
         Put(p, s)
  PROVE  /\ status' \in [Tasks -> Statuses]
         /\ s # "in_progress" \/ s = seen[p] =>
                \A t \in Tasks : status'[t] = "in_progress" => status[t] = "in_progress"
         /\ \A t \in Tasks : t # Task(p) => status'[t] = status[t]
         /\ s # seen[p] => status'[Task(p)] = s
  BY DEF TypeOK, Put

\* A handler goes on to the run, and a person's request and a synthesis do not.
LEMMA RunPlace ==
  ASSUME TypeOK, NEW p \in Procs, ChecksRun(p)
  PROVE  /\ \E label \in {"idle", "hold", "reopen", "claim_run"} :
               /\ at' = [at EXCEPT ![p] = label]
               /\ p = Human \/ p \in Syntheses => label = "idle"
         /\ hand' \in [{Sweeper, Human} -> Tasks \cup {NoTask}]
         /\ p \in Wakes => hand' = hand
         /\ p = Sweeper => hand'[Human] = hand[Human]
<1>1. p \in Syntheses => Task(p) \notin setup.planned
  BY Names, TaskOf, SetupOf
<1>2. Judgement \in {"idle", "hold", "reopen", "claim_run"}
  BY DEF Judgement
<1>3. PICK label : label = IF p # Human /\ Task(p) \in setup.planned THEN Judgement ELSE "idle"
  OBVIOUS
<1>4. at' = [at EXCEPT ![p] = label]
  BY <1>3 DEF ChecksRun, Go
<1>5. label \in {"idle", "hold", "reopen", "claim_run"} /\ (p = Human \/ p \in Syntheses => label = "idle")
  BY <1>1, <1>2, <1>3
<1>6. hand' = IF p \in {Sweeper, Human} THEN [hand EXCEPT ![p] = NoTask] ELSE hand
  BY DEF ChecksRun
<1>7. hand \in [{Sweeper, Human} -> Tasks \cup {NoTask}]
  BY DEF TypeOK
<1>8. /\ hand' \in [{Sweeper, Human} -> Tasks \cup {NoTask}]
      /\ p \in Wakes => hand' = hand
      /\ p = Sweeper => hand'[Human] = hand[Human]
  BY <1>6, <1>7, Names
<1>9. QED
  BY <1>4, <1>5, <1>8

LEMMA ActPlace ==
  ASSUME TypeOK, NEW p \in Procs \ {Sweeper}, Activates(p)
  PROVE  /\ \E label \in {"idle", "hold", "reopen", "claim_run", "apply"} :
               /\ at' = [at EXCEPT ![p] = label]
               /\ p = Human \/ p \in Syntheses => label \in {"idle", "apply"}
               /\ p = Human /\ label = "apply" => hand' = hand
         /\ hand' \in [{Sweeper, Human} -> Tasks \cup {NoTask}]
         /\ p \in Wakes => hand' = hand
         /\ plan' \in [Procs -> Plans]
         /\ orders' \in 0 .. MaxOrders
<1> DEFINE ready == Ready(status')
           gone  == Impossible(status')
<1>1. ready \subseteq Tasks /\ gone \subseteq Tasks
  BY DEF Ready, Impossible, Blocked
<1>2. CASE ready \cup gone # {}
  <2>1. /\ plan' = [plan EXCEPT ![p] = [ready |-> ready, gone |-> gone]]
        /\ orders + Cardinality(Twice(p, ready)) <= setup.orders
        /\ orders' = orders + Cardinality(Twice(p, ready))
        /\ at' = [at EXCEPT ![p] = "apply"] /\ hand' = hand
    BY <1>2 DEF Activates, Go
  <2>2. Cardinality(Twice(p, ready)) \in Nat
    <3>1. IsFiniteSet(Twice(p, ready))
      BY <1>1, FS_Subset, TeamAssumption DEF Twice
    <3>2. QED
      BY <3>1, FS_CardinalityType
  <2>3. orders' \in 0 .. MaxOrders
    BY <2>1, <2>2, SetupOf, TeamAssumption DEF TypeOK
  <2>4. plan' \in [Procs -> Plans]
    BY <2>1, <1>1 DEF TypeOK, Plans
  <2>5. hand' \in [{Sweeper, Human} -> Tasks \cup {NoTask}]
    BY <2>1 DEF TypeOK
  <2>6. QED
    BY <2>1, <2>3, <2>4, <2>5
<1>3. CASE ready \cup gone = {}
  <2>1. UNCHANGED <<plan, orders>> /\ ChecksRun(p)
    BY <1>3 DEF Activates
  <2>2. QED
    BY <2>1, RunPlace DEF TypeOK
<1>4. QED
  BY <1>2, <1>3

\* Every step is one of these.
LEMMA StepCases ==
  ASSUME [Next]_vars
  PROVE
    \/ \E w \in Wakes :
        \/ Recover(w) \/ TakeOrder(w) \/ TakeReport(w) \/ TakeSynthesis(w)
        \/ Start(w) \/ EndTurn(w) \/ Store(w) \/ Raise(w) \/ Publish(w)
        \/ Complete(w) \/ End(w)
    \/ \E p \in Procs : WriteRun(p) \/ ClaimRun(p) \/ EnqueueSynthesis(p)
    \/ \E p \in Procs \ {Sweeper} : Enqueue(p) \/ Apply(p)
    \/ \E t \in Tasks : SweepRead(t)
    \/ SweepWrite
    \/ \E t \in Tasks, label \in Verdicts \cup {"award", "resume"} :
        /\ Requests(t, label)
        /\ overrides' = overrides \/ Overrides
    \/ \E v \in Verdicts : OverrideReview(v)
    \/ \E m \in Members : OverrideAward(m)
    \/ Resume \/ Crash
    \/ UNCHANGED vars
<1>1. \A w \in Wakes : w \in Procs \ {Sweeper}
  BY Names
<1>2. Sweeper \in Procs /\ Human \in Procs \ {Sweeper}
  BY Names
<1>3. ASSUME NEW t \in Tasks, (\E v \in Verdicts : AskReview(t, v)) \/ AskAward(t) \/ AskResume(t)
      PROVE  \E label \in Verdicts \cup {"award", "resume"} :
                Requests(t, label) /\ (overrides' = overrides \/ Overrides)
  BY <1>3 DEF AskReview, AskAward, AskResume
<1>4. CASE Next
  BY <1>1, <1>2, <1>3, <1>4 DEF Next, Works, Executes, Follows, Sweeps, Persons
<1>5. QED
  BY <1>4

-----------------------------------------------------------------------------
(* Types. *)

LEMMA OverType ==
  ASSUME TypeOK, NEW w \in Wakes, status' \in [Tasks -> Statuses], Over(w)
  PROVE  at' \in [Procs -> Labels] /\ seen' \in [Procs -> Statuses \cup {"none"}]
<1>1. w \in Procs /\ (w \notin Syntheses => Task(w) \in Tasks)
  BY Names, TaskOf DEF Wakes
<1>2. QED
  BY <1>1 DEF TypeOK, Over, Go, Loads, Labels

LEMMA EntersType ==
  ASSUME TypeOK, NEW w \in Wakes, status' \in [Tasks -> Statuses], Enters(w)
  PROVE  /\ at' \in [Procs -> Labels] /\ seen' \in [Procs -> Statuses \cup {"none"}]
         /\ turn' \in [Wakes -> Turns]
<1>1. CASE turn[w] = "none" \/ w \in Reports
  <2>1. w \in Procs
    BY Names
  <2>2. QED
    BY <1>1, <2>1 DEF TypeOK, Enters, Go, Forgets, Labels, Turns
<1>2. CASE ~(turn[w] = "none" \/ w \in Reports)
  BY <1>2, OverType DEF Enters, TypeOK
<1>3. QED
  BY <1>1, <1>2

LEMMA OrderType ==
  ASSUME TypeOK, NEW t \in Tasks, Order(t)
  PROVE  /\ wake' \in [Wakes -> {"none", "pending", "claimed", "over"}]
         /\ target' \in [Orders -> Members]
  BY Names DEF TypeOK, Order, Of

LEMMA EnqueuesType ==
  ASSUME TypeOK, NEW kind, kind \subseteq Wakes, Enqueues(kind)
  PROVE  wake' \in [Wakes -> {"none", "pending", "claimed", "over"}]
  BY DEF TypeOK, Enqueues

LEMMA InitHolds == Init => IInv
<1> SUFFICES ASSUME Init PROVE IInv
  OBVIOUS
<1> USE DEF Init
<1>1. setup \in SetupType
  BY TeamAssumption
<1>2. assignee \in [Tasks -> Members]
  BY <1>1 DEF SetupType
<1>3. \A w \in Orders : w[2] \in Tasks
  BY Names
<1>4. /\ crashes \in Nat /\ overrides \in Nat /\ reverts \in Nat
      /\ orders \in 0 .. MaxOrders /\ published \in Nat
  BY TeamAssumption
<1>5. status \in [Tasks -> Statuses] /\ target \in [Orders -> Members]
  BY <1>2, <1>3 DEF Statuses
<1>6. wake \in [Wakes -> {"none", "pending", "claimed", "over"}] /\ turn \in [Wakes -> Turns]
  BY DEF Turns
<1>7. at \in [Procs -> Labels] /\ hand \in [{Sweeper, Human} -> Tasks \cup {NoTask}]
  BY DEF Labels
<1>8. seen \in [Procs -> Statuses \cup {"none"}] /\ plan \in [Procs -> Plans]
  BY DEF Plans, NoPlan
<1>9. TypeOK
  BY <1>1, <1>2, <1>4, <1>5, <1>6, <1>7, <1>8 DEF TypeOK
<1>10. \A p \in Procs : at[p] = "idle"
  OBVIOUS
<1>11. ThreadFit /\ HandFit
  <2>1. \A w \in Wakes : turn[w] = "none"
    OBVIOUS
  <2>2. QED
    BY <2>1, <1>10, Names DEF ThreadFit, PlaceOf, RowOf, HandFit, Ending
<1>12. SlotFit
  <2>1. \A m \in Members : SlotsOf(m) = {}
    BY <1>10, Names DEF SlotsOf, InSlot
  <2>2. Cardinality({}) <= Limit
    BY FS_EmptySet, TeamAssumption
  <2>3. QED
    BY <2>1, <2>2 DEF SlotFit
<1>13. \A t \in Tasks : status[t] # "in_progress"
  OBVIOUS
<1>14. StartFit /\ HeldFit /\ AloneFit
  BY <1>10, <1>13, Names DEF StartFit, HeldFit, AloneFit, InProgress
<1>15. \A w \in Syntheses : wake[w] = "none"
  BY Names
<1>16. TokenFit
  BY <1>10, <1>15, Names DEF TokenFit, Unclaimed, OneClaim, AnswerKept, Claiming
<1>17. QED
  BY <1>9, <1>11, <1>12, <1>14, <1>16 DEF IInv, Serial

\* Every action keeps the types.
LEMMA TypeStep ==
  ASSUME TypeOK, ThreadFit, HandFit, [Next]_vars
  PROVE  TypeOK'
<1> USE TeamAssumption, SetupOf DEF history, rows, Trouble
<1>1. ASSUME NEW w \in Wakes, Recover(w) PROVE TypeOK'
  BY <1>1 DEF TypeOK, Recover
<1>2. ASSUME NEW w \in Wakes, TakeOrder(w) PROVE TypeOK'
  <2>1. UNCHANGED <<history, setup, rows, run, target, published, hand, plan>>
    BY <1>2 DEF TakeOrder
  <2>2. wake' \in [Wakes -> {"none", "pending", "claimed", "over"}]
    BY <1>2 DEF TakeOrder, Takes, TypeOK
  <2>3. status' \in [Tasks -> Statuses] /\ w \in Procs /\ Task(w) \in Tasks
    BY <2>1, <1>2, Names, TaskOf DEF TypeOK, TakeOrder
  <2>4. /\ at' \in [Procs -> Labels] /\ seen' \in [Procs -> Statuses \cup {"none"}]
        /\ turn' \in [Wakes -> Turns]
    <3>1. CASE Enters(w)
      BY <3>1, <2>3, EntersType
    <3>2. CASE ~Enters(w)
      BY <3>2, <1>2, <2>3 DEF TakeOrder, Skips, Loads, Go, TypeOK, Labels
    <3>3. QED
      BY <3>1, <3>2
  <2>5. QED
    BY <2>1, <2>2, <2>4 DEF TypeOK
<1>3. ASSUME NEW w \in Wakes, TakeReport(w) \/ TakeSynthesis(w) PROVE TypeOK'
  <2>1. UNCHANGED <<history, setup, rows, run, target, published, hand, plan>>
    BY <1>3 DEF TakeReport, TakeSynthesis
  <2>2. wake' \in [Wakes -> {"none", "pending", "claimed", "over"}]
    BY <1>3 DEF TakeReport, TakeSynthesis, Takes, TypeOK
  <2>3. status' \in [Tasks -> Statuses] /\ w \in Procs
    BY <2>1, Names DEF TypeOK
  <2>4. /\ at' \in [Procs -> Labels] /\ seen' \in [Procs -> Statuses \cup {"none"}]
        /\ turn' \in [Wakes -> Turns]
    <3>1. CASE Enters(w)
      BY <3>1, <2>3, EntersType
    <3>2. CASE ~Enters(w)
      BY <3>2, <1>3, <2>3 DEF TakeReport, TakeSynthesis, Skips, Go, TypeOK, Labels
    <3>3. QED
      BY <3>1, <3>2
  <2>5. QED
    BY <2>1, <2>2, <2>4 DEF TypeOK
<1>4. ASSUME NEW w \in Wakes, Start(w) PROVE TypeOK'
  <2>1. w \in Orders /\ w \in Procs /\ Task(w) \in Tasks
    BY <1>4, Names, TaskOf DEF Start, ThreadFit, PlaceOf, Ending, Following, Wakes
  <2>2. status' \in [Tasks -> Statuses]
    BY <1>4, <2>1, PutStatus DEF Start, Statuses
  <2>3. /\ at' \in [Procs -> Labels] /\ seen' \in [Procs -> Statuses \cup {"none"}]
        /\ turn' \in [Wakes -> Turns]
    BY <1>4, <2>2, EntersType DEF Start
  <2>4. UNCHANGED <<history, setup, assignee, asks, orders, run, wake, target,
                   published, hand, plan>>
    BY <1>4 DEF Start
  <2>5. QED
    BY <2>2, <2>3, <2>4 DEF TypeOK
<1>5. ASSUME NEW w \in Wakes, EndTurn(w) PROVE TypeOK'
  <2>1. UNCHANGED <<history, setup, status, assignee, asks, run, wake, target,
                   published, hand, plan>>
    BY <1>5 DEF EndTurn
  <2>2. status' \in [Tasks -> Statuses]
    BY <2>1 DEF TypeOK
  <2>3. at' \in [Procs -> Labels] /\ seen' \in [Procs -> Statuses \cup {"none"}]
    BY <1>5, <2>2, OverType DEF EndTurn
  <2>4. Results(w) \subseteq Turns
    BY DEF Results, Turns
  <2>5. turn' \in [Wakes -> Turns] /\ orders' \in 0 .. MaxOrders
    BY <1>5, <2>4 DEF EndTurn, TypeOK
  <2>6. QED
    BY <2>1, <2>3, <2>5 DEF TypeOK
<1>6. ASSUME NEW w \in Wakes, Store(w) PROVE TypeOK'
  <2>1. w \in Orders \cup Reports /\ w \in Procs /\ Task(w) \in Tasks /\ Task(w) = w[2]
    BY <1>6, Names, TaskOf DEF Store, ThreadFit, PlaceOf, Ending, Wakes
  <2>2. Put(w, Due(w)) /\ turn[w] \in Turns
    BY <1>6 DEF Store, Due, TypeOK
  <2>3. status' \in [Tasks -> Statuses]
    BY <2>1, <2>2, PutStatus, DueStatus DEF Statuses
  <2>4. asks' \in [Tasks -> BOOLEAN]
    BY <1>6, <2>1 DEF Store, TypeOK
  <2>5. /\ at' \in [Procs -> Labels] /\ seen' \in [Procs -> Statuses \cup {"none"}]
        /\ UNCHANGED <<history, setup, assignee, orders, run, wake, target, turn,
                   published, hand, plan>>
    BY <1>6, <2>1 DEF Store, Go, Forgets, TypeOK, Labels
  <2>6. QED
    BY <2>3, <2>4, <2>5 DEF TypeOK
<1>7. ASSUME NEW w \in Wakes, Raise(w) PROVE TypeOK'
  <2>1. w \in Orders /\ w \in Procs /\ Task(w) \in Tasks
    BY <1>7, Names, TaskOf DEF Raise, ThreadFit, PlaceOf, Ending, Following, Wakes
  <2>2. status' \in [Tasks -> Statuses]
    BY <1>7, <2>1, PutStatus DEF Raise, AfterFailure, Statuses
  <2>3. /\ at' \in [Procs -> Labels] /\ seen' \in [Procs -> Statuses \cup {"none"}]
        /\ UNCHANGED <<history, setup, assignee, asks, orders, run, wake, target, turn,
                   published, hand, plan>>
    BY <1>7, <2>1 DEF Raise, Go, Forgets, TypeOK, Labels
  <2>4. QED
    BY <2>2, <2>3 DEF TypeOK
<1>8. ASSUME NEW w \in Wakes, Publish(w) \/ Complete(w) PROVE TypeOK'
  BY <1>8, Names DEF Publish, Complete, Go, TypeOK, Labels
<1>9. ASSUME NEW w \in Wakes, End(w) PROVE TypeOK'
  <2>1. UNCHANGED <<history, setup, status, assignee, asks, target, published, seen>>
    BY <1>9 DEF End
  <2>2. /\ wake' \in [Wakes -> {"none", "pending", "claimed", "over"}]
        /\ turn' \in [Wakes -> Turns]
        /\ run' \in {"none", "running", "awaiting_input", "synthesizing", "completed", "failed"}
    BY <1>9 DEF End, TypeOK, Turns
  <2>3. Activates(w) /\ w \in Procs \ {Sweeper}
    BY <1>9, Names DEF End
  <2>4. /\ at' \in [Procs -> Labels]
        /\ hand' \in [{Sweeper, Human} -> Tasks \cup {NoTask}]
        /\ plan' \in [Procs -> Plans] /\ orders' \in 0 .. MaxOrders
    BY <2>3, ActPlace DEF TypeOK, Labels
  <2>5. QED
    BY <2>1, <2>2, <2>4 DEF TypeOK
<1>10. ASSUME NEW p \in Procs, WriteRun(p) \/ ClaimRun(p) PROVE TypeOK'
  BY <1>10 DEF WriteRun, ClaimRun, Go, TypeOK, Labels
<1>11. ASSUME NEW p \in Procs, EnqueueSynthesis(p) PROVE TypeOK'
  BY <1>11, EnqueuesType, Names DEF EnqueueSynthesis, Go, TypeOK, Labels
<1>12. ASSUME NEW p \in Procs \ {Sweeper}, Enqueue(p) PROVE TypeOK'
  <2>1. UNCHANGED <<history, setup, rows, run, turn, published, seen, plan>>
    BY <1>12 DEF Enqueue
  <2>2. p \in Orders \/ Task(p) \in Tasks
    BY <1>12, Names, TaskOf DEF Enqueue, ThreadFit, PlaceOf, HandFit, Ending, Procs, Wakes
  <2>3. p \in Orders => Of(Reports, p[2]) \subseteq Wakes
    BY Names DEF Of
  <2>4. /\ wake' \in [Wakes -> {"none", "pending", "claimed", "over"}]
        /\ target' \in [Orders -> Members]
    BY <1>12, <2>2, <2>3, OrderType, EnqueuesType DEF Enqueue, TypeOK
  <2>5. at' \in [Procs -> Labels] /\ hand' \in [{Sweeper, Human} -> Tasks \cup {NoTask}]
    BY <1>12 DEF Enqueue, Go, TypeOK, Labels
  <2>6. QED
    BY <2>1, <2>4, <2>5 DEF TypeOK
<1>13. ASSUME NEW p \in Procs \ {Sweeper}, Apply(p) PROVE TypeOK'
  <2>1. UNCHANGED <<history, setup, assignee, asks, orders, run, turn, published, seen>>
    BY <1>13 DEF Apply
  <2>2. /\ wake' \in [Wakes -> {"none", "pending", "claimed", "over"}]
        /\ status' \in [Tasks -> Statuses]
    BY <1>13 DEF Apply, TypeOK, Statuses
  <2>3. target' \in [Orders -> Members]
    BY <1>13, SetupOf, Names DEF Apply, TypeOK
  <2>4. plan' \in [Procs -> Plans]
    BY <1>13 DEF Apply, TypeOK, Plans, NoPlan
  <2>5. at' \in [Procs -> Labels] /\ hand' \in [{Sweeper, Human} -> Tasks \cup {NoTask}]
    BY <1>13, RunPlace DEF Apply, TypeOK, Labels
  <2>6. QED
    BY <2>1, <2>2, <2>3, <2>4, <2>5 DEF TypeOK
<1>14. ASSUME NEW t \in Tasks, SweepRead(t) PROVE TypeOK'
  BY <1>14, Names DEF SweepRead, Go, TypeOK, Labels
<1>15. CASE SweepWrite
  <2>1. Task(Sweeper) \in Tasks /\ Sweeper \in Procs
    BY <1>15, TaskOf, Names DEF SweepWrite, HandFit
  <2>2. status' \in [Tasks -> Statuses]
    BY <1>15, <2>1, PutStatus DEF SweepWrite, Statuses
  <2>3. /\ wake' \in [Wakes -> {"none", "pending", "claimed", "over"}] /\ late' \in BOOLEAN
        /\ seen' \in [Procs -> Statuses \cup {"none"}]
    BY <1>15, <2>1 DEF SweepWrite, TypeOK, Forgets
  <2>4. at' \in [Procs -> Labels] /\ hand' \in [{Sweeper, Human} -> Tasks \cup {NoTask}]
    BY <1>15, <2>1, RunPlace DEF SweepWrite, TypeOK, Labels
  <2>5. UNCHANGED <<crashes, overrides, moved, reverts, setup, assignee, asks, orders, run,
                   target, turn, published, plan>>
    BY <1>15 DEF SweepWrite
  <2>6. QED
    BY <2>2, <2>3, <2>4, <2>5 DEF TypeOK
<1>16. ASSUME NEW t \in Tasks, NEW label \in Verdicts \cup {"award", "resume"},
              Requests(t, label), overrides' = overrides \/ Overrides
       PROVE  TypeOK'
  BY <1>16, Names DEF Requests, Overrides, Go, TypeOK, Labels
<1>17. ASSUME NEW v \in Verdicts, OverrideReview(v) PROVE TypeOK'
  <2>1. Task(Human) \in Tasks /\ Human \in Procs \ {Sweeper}
    BY <1>17, TaskOf, Names DEF OverrideReview, HandFit, Verdicts
  <2>2. status' \in [Tasks -> Statuses]
    BY <1>17, <2>1, PutStatus DEF OverrideReview, Statuses, Verdicts
  <2>3. UNCHANGED <<history, setup, assignee, asks, run, wake, target, turn, published>>
    BY <1>17 DEF OverrideReview
  <2>4. seen' \in [Procs -> Statuses \cup {"none"}]
    BY <1>17, <2>1 DEF OverrideReview, Forgets, TypeOK
  <2>5. /\ at' \in [Procs -> Labels] /\ hand' \in [{Sweeper, Human} -> Tasks \cup {NoTask}]
        /\ plan' \in [Procs -> Plans] /\ orders' \in 0 .. MaxOrders
    BY <1>17, <2>1, ActPlace DEF OverrideReview, Go, TypeOK, Labels
  <2>6. QED
    BY <2>2, <2>3, <2>4, <2>5 DEF TypeOK
<1>18. ASSUME NEW m \in Members, OverrideAward(m) PROVE TypeOK'
  BY <1>18, Names DEF OverrideAward, HandFit, Go, Forgets, TypeOK, Labels
<1>19. CASE Resume
  <2>1. Task(Human) \in Tasks /\ Human \in Procs /\ hand[Human] \in Tasks
    BY <1>19, TaskOf, Names DEF Resume, HandFit
  <2>2. status' \in [Tasks -> Statuses]
    BY <1>19, <2>1, PutStatus DEF Resume, Statuses
  <2>3. /\ wake' \in [Wakes -> {"none", "pending", "claimed", "over"}]
        /\ target' \in [Orders -> Members]
    BY <1>19, <2>1, OrderType DEF Resume
  <2>4. /\ asks' \in [Tasks -> BOOLEAN] /\ at' \in [Procs -> Labels]
        /\ seen' \in [Procs -> Statuses \cup {"none"}]
        /\ hand' \in [{Sweeper, Human} -> Tasks \cup {NoTask}]
        /\ UNCHANGED <<history, setup, assignee, orders, run, turn, published, plan>>
    BY <1>19, <2>1 DEF Resume, Go, Forgets, TypeOK, Labels
  <2>5. QED
    BY <2>2, <2>3, <2>4 DEF TypeOK
<1>20. CASE Crash
  BY <1>20 DEF Crash, TypeOK, Labels, Turns, Plans, NoPlan
<1>21. CASE UNCHANGED vars
  BY <1>21 DEF vars, TypeOK
<1>22. QED
  BY <1>1, <1>2, <1>3, <1>4, <1>5, <1>6, <1>7, <1>8, <1>9, <1>10, <1>11, <1>12, <1>13,
     <1>14, <1>15, <1>16, <1>17, <1>18, <1>19, <1>20, <1>21, StepCases

-----------------------------------------------------------------------------
(* Places. *)

\* Nothing of the other threads changes, but for new wakes and wakes that nobody
\* has begun.
Others(p) ==
    /\ \A u \in Procs \ {p} : at'[u] = at[u] /\ seen'[u] = seen[u]
    /\ \A u \in Wakes \ {p} :
        /\ turn'[u] = turn[u]
        /\ wake'[u] = wake[u] \/ (wake[u] \in {"none", "pending"} /\ wake'[u] # "none")

LEMMA ThreadKeeps ==
  ASSUME TypeOK, ThreadFit, NEW p \in Procs, Others(p),
         p \in Wakes => PlaceOf(p)' /\ RowOf(p)'
  PROVE  ThreadFit'
<1> SUFFICES ASSUME NEW u \in Wakes, u # p PROVE PlaceOf(u)' /\ RowOf(u)'
  BY DEF ThreadFit
<1>1. /\ at'[u] = at[u] /\ seen'[u] = seen[u] /\ turn'[u] = turn[u]
      /\ wake'[u] = wake[u] \/ (wake[u] \in {"none", "pending"} /\ wake'[u] # "none")
  BY Names DEF Others
<1>2. PlaceOf(u) /\ RowOf(u)
  BY DEF ThreadFit
<1>3. PlaceOf(u)'
  BY <1>1, <1>2 DEF PlaceOf
<1>4. RowOf(u)'
  BY <1>1, <1>2 DEF RowOf
<1>5. QED
  BY <1>3, <1>4

\* A thread that enters its turn is in it, or has its result already.
LEMMA OverPlace ==
  ASSUME TypeOK, NEW w \in Wakes, Over(w)
  PROVE  /\ at' = [at EXCEPT ![w] = IF w \in Syntheses THEN "publish" ELSE "store"]
         /\ \A u \in Procs \ {w} : at'[u] = at[u] /\ seen'[u] = seen[u]
         /\ w \notin Syntheses => seen'[w] = status'[w[2]]
  BY Names, TaskOf DEF TypeOK, Over, Go, Loads

LEMMA EntersPlace ==
  ASSUME TypeOK, NEW w \in Wakes, Enters(w)
  PROVE  /\ at' = [at EXCEPT ![w] = at'[w]]
         /\ \A u \in Procs \ {w} : at'[u] = at[u] /\ seen'[u] = seen[u]
         /\ \A u \in Wakes \ {w} : turn'[u] = turn[u]
         /\ \/ at'[w] = "inturn" /\ turn'[w] = "active"
            \/ /\ turn'[w] = turn[w] /\ turn[w] # "none"
               /\ at'[w] = IF w \in Syntheses THEN "publish" ELSE "store"
               /\ w \notin Syntheses => seen'[w] = status'[w[2]]
<1>1. CASE turn[w] = "none" \/ w \in Reports
  BY <1>1, Names DEF TypeOK, Enters, Go, Forgets
<1>2. CASE ~(turn[w] = "none" \/ w \in Reports)
  <2>1. Over(w) /\ turn' = turn /\ turn[w] # "none"
    BY <1>2 DEF Enters
  <2>2. QED
    BY <2>1, OverPlace, Names DEF TypeOK
<1>3. QED
  BY <1>1, <1>2

\* What entering gives to the thread.
LEMMA EntersFit ==
  ASSUME TypeOK, ThreadFit, NEW w \in Wakes, Enters(w), status' \in [Tasks -> Statuses],
         wake'[w] = "claimed"
  PROVE  PlaceOf(w)' /\ RowOf(w)'
<1>1. PlaceOf(w)
  BY DEF ThreadFit
<1>2. w \notin Syntheses => status'[w[2]] \in Statuses
  BY Names DEF Wakes
<1>3. PlaceOf(w)'
  BY <1>1, <1>2, EntersPlace, Names DEF PlaceOf, Ending, Following
<1>4. RowOf(w)'
  BY EntersPlace DEF RowOf
<1>5. QED
  BY <1>3, <1>4

\* How new wakes change the rows.
LEMMA OrderRows ==
  ASSUME TypeOK, NEW t \in Tasks, Order(t)
  PROVE  \A u \in Wakes : wake'[u] = wake[u] \/ (wake[u] = "none" /\ wake'[u] = "pending")
  BY Names DEF TypeOK, Order, Of, IsNew

LEMMA EnqueuesRows ==
  ASSUME TypeOK, NEW kind, kind \subseteq Wakes, Enqueues(kind)
  PROVE  \A u \in Wakes : wake'[u] = wake[u] \/ (wake[u] = "none" /\ wake'[u] = "pending")
  BY DEF TypeOK, Enqueues, IsNew

LEMMA PlaceStep ==
  ASSUME TypeOK, ThreadFit, HandFit, [Next]_vars
  PROVE  ThreadFit' /\ HandFit'
<1> USE DEF history, rows
<1>1. TypeOK'
  BY TypeStep
<1>2. ASSUME NEW w \in Wakes, Others(w), PlaceOf(w)', RowOf(w)', hand' = hand
      PROVE  ThreadFit' /\ HandFit'
  <2>1. w \in Procs /\ w # Sweeper /\ w # Human /\ Sweeper \in Procs /\ Human \in Procs
    BY Names
  <2>2. ThreadFit'
    BY <1>2, <2>1, ThreadKeeps
  <2>3. HandFit'
    BY <1>2, <2>1 DEF HandFit, Others
  <2>4. QED
    BY <2>2, <2>3
<1>3. \A w \in Wakes : PlaceOf(w) /\ RowOf(w) /\ w \in Procs
  BY Names DEF ThreadFit
<1>4. ASSUME NEW w \in Wakes, Recover(w) PROVE ThreadFit' /\ HandFit'
  <2>1. Others(w) /\ hand' = hand /\ at' = at /\ turn' = turn /\ seen' = seen
    BY <1>4 DEF Recover, Others, TypeOK
  <2>2. PlaceOf(w)' /\ RowOf(w)'
    BY <1>4, <2>1, <1>3 DEF Recover, PlaceOf, RowOf, TypeOK
  <2>3. QED
    BY <2>1, <2>2, <1>2
<1>5. ASSUME NEW w \in Wakes, TakeOrder(w) \/ TakeReport(w) \/ TakeSynthesis(w)
      PROVE  ThreadFit' /\ HandFit'
  <2>1. hand' = hand /\ status' = status /\ wake' = [wake EXCEPT ![w] = "claimed"]
    BY <1>5 DEF TakeOrder, TakeReport, TakeSynthesis, Takes
  <2>2. wake'[w] = "claimed" /\ \A u \in Wakes \ {w} : wake'[u] = wake[u]
    BY <2>1 DEF TypeOK
  <2>3. CASE Enters(w)
    <3>1. Others(w)
      BY <2>2, <2>3, EntersPlace DEF Others
    <3>2. PlaceOf(w)' /\ RowOf(w)'
      BY <2>1, <2>2, <2>3, EntersFit DEF TypeOK
    <3>3. QED
      BY <3>1, <3>2, <2>1, <1>2
  <2>4. CASE ~Enters(w)
    <3>1. CASE TakeOrder(w)
      <4>1. Task(w) = w[2] /\ w \in Orders /\ w \notin Reports /\ w \notin Syntheses /\ w[2] \in Tasks
        BY <3>1, TaskOf, Names DEF TakeOrder
      <4>2. /\ turn' = turn
            /\ \/ at' = [at EXCEPT ![w] = "ended"] /\ seen' = seen
               \/ /\ at' = [at EXCEPT ![w] = "raise"]
                  /\ seen' = [seen EXCEPT ![w] = status[w[2]]]
               \/ /\ at' = [at EXCEPT ![w] = "start"]
                  /\ seen' = [seen EXCEPT ![w] = status[w[2]]]
                  /\ status[w[2]] \in {"blocked", "pending", "rework"}
        BY <3>1, <2>4, <2>1, <4>1 DEF TakeOrder, Skips, Loads, Go
      <4>3. Others(w)
        BY <4>2, <2>2 DEF Others, TypeOK
      <4>4. PlaceOf(w)'
        BY <4>1, <4>2, <1>3 DEF PlaceOf, Ending, Statuses, TypeOK
      <4>5. RowOf(w)'
        BY <2>2 DEF RowOf
      <4>6. QED
        BY <4>3, <4>4, <4>5, <2>1, <1>2
    <3>2. CASE TakeReport(w) \/ TakeSynthesis(w)
      <4>1. w \notin Orders
        BY <3>2, Names DEF TakeReport, TakeSynthesis
      <4>2. /\ turn' = turn /\ seen' = seen
            /\ at' = [at EXCEPT ![w] = "ended"]
               \/ (w \in Syntheses /\ at' = [at EXCEPT ![w] = "broke"])
        BY <3>2, <2>4 DEF TakeReport, TakeSynthesis, Skips, Go
      <4>3. Others(w)
        BY <4>2, <2>2 DEF Others, TypeOK
      <4>4. PlaceOf(w)'
        BY <4>1, <4>2, <1>3, Names DEF PlaceOf, Ending, TypeOK
      <4>5. RowOf(w)'
        BY <2>2 DEF RowOf
      <4>6. QED
        BY <4>3, <4>4, <4>5, <2>1, <1>2
    <3>3. QED
      BY <1>5, <3>1, <3>2
  <2>5. QED
    BY <2>3, <2>4
<1>6. ASSUME NEW w \in Wakes, Start(w) PROVE ThreadFit' /\ HandFit'
  <2>1. hand' = hand /\ wake' = wake /\ Enters(w) /\ wake[w] = "claimed"
    BY <1>6, <1>3 DEF Start, RowOf, Following
  <2>2. Others(w)
    BY <2>1, EntersPlace DEF Others
  <2>3. PlaceOf(w)' /\ RowOf(w)'
    BY <2>1, <1>1, EntersFit DEF TypeOK
  <2>4. QED
    BY <2>1, <2>2, <2>3, <1>2
<1>7. ASSUME NEW w \in Wakes, EndTurn(w) PROVE ThreadFit' /\ HandFit'
  <2>1. /\ hand' = hand /\ wake' = wake /\ wake[w] = "claimed" /\ Over(w)
        /\ \E result \in Results(w) : turn' = [turn EXCEPT ![w] = result]
    BY <1>7, <1>3 DEF EndTurn, RowOf, Following
  <2>2. Others(w)
    BY <2>1, OverPlace DEF Others, TypeOK
  <2>3. w \in Orders => turn'[w] \in {"failed", "completed", "asked"}
    BY <2>1 DEF Results, TypeOK
  <2>4. w \notin Syntheses => w[2] \in Tasks
    BY Names DEF Wakes
  <2>5. PlaceOf(w)'
    BY <2>1, <2>3, <2>4, <1>1, <1>3, OverPlace, Names DEF PlaceOf, Ending, TypeOK
  <2>6. RowOf(w)'
    BY <2>1 DEF RowOf
  <2>7. QED
    BY <2>1, <2>2, <2>5, <2>6, <1>2
<1>8. ASSUME NEW w \in Wakes, NEW label \in {"ended", "enqueue", "complete", "broke"},
             at' = [at EXCEPT ![w] = label], at[w] \in {"store", "raise", "enqueue", "publish", "complete"},
             \A u \in Procs \ {w} : seen'[u] = seen[u],
             turn' = turn, hand' = hand, wake[w] = "claimed" => wake'[w] = "claimed",
             \A u \in Wakes : wake'[u] = wake[u] \/ (wake[u] = "none" /\ wake'[u] = "pending"),
             label = "enqueue" => w \notin Syntheses,
             label \in {"complete", "broke"} => w \in Syntheses
      PROVE  ThreadFit' /\ HandFit'
  <2>1. Others(w)
    BY <1>8 DEF Others, TypeOK
  <2>2. at'[w] = label /\ wake'[w] = "claimed"
    BY <1>8, <1>3 DEF RowOf, Following, TypeOK
  <2>3. PlaceOf(w)'
    BY <1>8, <2>2, <1>3, Names DEF PlaceOf, Ending
  <2>4. RowOf(w)'
    BY <2>2 DEF RowOf
  <2>5. QED
    BY <2>1, <2>3, <2>4, <1>2, <1>8
<1>9. ASSUME NEW w \in Wakes, Store(w) PROVE ThreadFit' /\ HandFit'
  <2>1. w \notin Syntheses
    BY <1>9, <1>3 DEF Store, PlaceOf, Ending
  <2>2. PICK label \in {"ended", "enqueue"} : at' = [at EXCEPT ![w] = label]
    BY <1>9 DEF Store, Go
  <2>3. /\ \A u \in Procs \ {w} : seen'[u] = seen[u]
        /\ turn' = turn /\ hand' = hand /\ wake' = wake /\ at[w] = "store"
    BY <1>9 DEF Store, Forgets, TypeOK
  <2>4. QED
    BY <1>8, <2>1, <2>2, <2>3
<1>10. ASSUME NEW w \in Wakes, Raise(w) PROVE ThreadFit' /\ HandFit'
  <2>1. /\ \A u \in Procs \ {w} : seen'[u] = seen[u]
        /\ turn' = turn /\ hand' = hand /\ wake' = wake /\ at[w] = "raise"
        /\ at' = [at EXCEPT ![w] = "ended"]
    BY <1>10 DEF Raise, Forgets, Go, TypeOK
  <2>2. QED
    BY <1>8, <2>1
<1>11. ASSUME NEW w \in Wakes, Publish(w) \/ Complete(w) PROVE ThreadFit' /\ HandFit'
  <2>1. w \in Syntheses
    BY <1>11, <1>3 DEF Publish, Complete, PlaceOf, Ending, Following, Wakes
  <2>2. PICK label \in {"ended", "complete", "broke"} : at' = [at EXCEPT ![w] = label]
    BY <1>11 DEF Publish, Complete, Go
  <2>3. seen' = seen /\ turn' = turn /\ hand' = hand /\ wake' = wake /\ at[w] \in {"publish", "complete"}
    BY <1>11 DEF Publish, Complete
  <2>4. QED
    BY <1>8, <2>1, <2>2, <2>3
<1>12. ASSUME NEW w \in Wakes, Enqueue(w) PROVE ThreadFit' /\ HandFit'
  <2>1. /\ at' = [at EXCEPT ![w] = "ended"] /\ at[w] = "enqueue"
        /\ seen' = seen /\ turn' = turn /\ hand' = hand
    BY <1>12, Names DEF Enqueue, Go
  <2>2. w \in Orders \cup Reports /\ w[2] \in Tasks /\ Task(w) = w[2]
    BY <1>12, <1>3, Names, TaskOf DEF Enqueue, PlaceOf, Ending, Wakes
  <2>3. \A u \in Wakes : wake'[u] = wake[u] \/ (wake[u] = "none" /\ wake'[u] = "pending")
    <3>1. Of(Reports, w[2]) \subseteq Wakes
      BY Names DEF Of
    <3>2. QED
      BY <1>12, <2>2, <3>1, OrderRows, EnqueuesRows DEF Enqueue
  <2>4. wake[w] = "claimed" => wake'[w] = "claimed"
    BY <2>3
  <2>5. QED
    BY <1>8, <2>1, <2>3, <2>4, <2>2, Names
<1>13. ASSUME NEW p \in Wakes, NEW label \in {"idle", "hold", "reopen", "claim_run", "apply", "enqueue_synthesis"},
              at' = [at EXCEPT ![p] = label], seen' = seen, hand' = hand,
              \A u \in Wakes \ {p} : turn'[u] = turn[u],
              turn'[p] \in {turn[p], "none"},
              \A u \in Wakes : wake'[u] = wake[u] \/ (wake[u] = "none" /\ wake'[u] = "pending")
                                \/ (u = p /\ wake'[u] = "over"),
              at[p] # "idle",
              p \in Syntheses => label \in {"idle", "apply"}
       PROVE  ThreadFit' /\ HandFit'
  <2>1. Others(p)
    BY <1>13 DEF Others, TypeOK
  <2>2. at'[p] = label /\ wake'[p] # "none"
    BY <1>13, <1>3 DEF RowOf, TypeOK
  <2>3. PlaceOf(p)'
    BY <1>13, <2>2, <1>3, Names DEF PlaceOf, Ending, Following
  <2>4. RowOf(p)'
    BY <2>2 DEF RowOf, Following
  <2>5. QED
    BY <2>1, <2>3, <2>4, <1>2, <1>13
<1>14. ASSUME NEW w \in Wakes, End(w) PROVE ThreadFit' /\ HandFit'
  <2>1. Activates(w) /\ w \in Procs \ {Sweeper} /\ w # Human
    BY <1>14, Names DEF End
  <2>2. PICK label \in {"idle", "hold", "reopen", "claim_run", "apply"} :
            at' = [at EXCEPT ![w] = label] /\ (w \in Syntheses => label \in {"idle", "apply"})
    BY <2>1, ActPlace
  <2>3. hand' = hand
    BY <2>1, ActPlace
  <2>4. /\ seen' = seen /\ at[w] # "idle"
        /\ turn' = [turn EXCEPT ![w] = "none"] /\ wake' = [wake EXCEPT ![w] = "over"]
    BY <1>14 DEF End
  <2>5. QED
    BY <1>13, <2>2, <2>3, <2>4 DEF TypeOK
<1>15. ASSUME NEW p \in Procs, WriteRun(p) \/ ClaimRun(p) \/ EnqueueSynthesis(p)
       PROVE  ThreadFit' /\ HandFit'
  <2>1. PICK label \in {"idle", "enqueue_synthesis"} :
            /\ at' = [at EXCEPT ![p] = label]
            /\ label = "enqueue_synthesis" => at[p] = "claim_run"
    BY <1>15 DEF WriteRun, ClaimRun, EnqueueSynthesis, Go
  <2>2. at[p] \in Following
    BY <1>15 DEF WriteRun, ClaimRun, EnqueueSynthesis, Following
  <2>3. seen' = seen /\ hand' = hand /\ turn' = turn
    BY <1>15 DEF WriteRun, ClaimRun, EnqueueSynthesis
  <2>4. \A u \in Wakes : wake'[u] = wake[u] \/ (wake[u] = "none" /\ wake'[u] = "pending")
    BY <1>15, EnqueuesRows, Names DEF WriteRun, ClaimRun, EnqueueSynthesis
  <2>5. CASE p \in Wakes
    <3>1. p \notin Syntheses /\ at[p] # "idle"
      BY <2>2, <2>5, <1>3 DEF PlaceOf, Ending, Following
    <3>2. QED
      BY <1>13, <2>1, <2>3, <2>4, <2>5, <3>1
  <2>6. CASE p \notin Wakes
    <3>1. p = Sweeper
      BY <2>2, <2>6 DEF Procs, HandFit, Following, Verdicts
    <3>2. Others(p)
      BY <2>1, <2>3, <2>4 DEF Others, TypeOK
    <3>3. ThreadFit'
      BY <3>2, <2>6, ThreadKeeps
    <3>4. HandFit'
      BY <3>1, <2>1, <2>3, Names DEF HandFit, TypeOK, Following
    <3>5. QED
      BY <3>3, <3>4
  <2>7. QED
    BY <2>5, <2>6
<1>16. ASSUME NEW p \in Wakes, Apply(p) PROVE ThreadFit' /\ HandFit'
  <2>1. /\ ChecksRun(p) /\ at[p] # "idle" /\ seen' = seen /\ turn' = turn /\ p \in Procs /\ p # Human
        /\ \A u \in Wakes : wake'[u] = wake[u] \/ (wake[u] = "none" /\ wake'[u] = "pending")
    BY <1>16, Names DEF Apply, IsNew, TypeOK
  <2>2. PICK label \in {"idle", "hold", "reopen", "claim_run"} :
            at' = [at EXCEPT ![p] = label] /\ (p \in Syntheses => label = "idle")
    BY <2>1, RunPlace
  <2>3. hand' = hand
    BY <2>1, RunPlace
  <2>4. QED
    BY <1>13, <2>1, <2>2, <2>3
<1>17. ASSUME NEW p \in {Sweeper, Human}, NEW label, at' = [at EXCEPT ![p] = label],
              \A u \in Procs \ {p} : seen'[u] = seen[u], turn' = turn,
              \A u \in Wakes : wake'[u] = wake[u]
                                \/ (wake[u] \in {"none", "pending"} /\ wake'[u] # "none"),
              p = Sweeper => /\ label \in {"idle", "store"} \cup Following
                             /\ hand'[Human] = hand[Human]
                             /\ label = "store" => hand'[Sweeper] \in Tasks,
              p = Human => /\ label \in Verdicts \cup {"idle", "award", "resume", "enqueue", "apply"}
                           /\ hand'[Sweeper] = hand[Sweeper]
                           /\ label # "idle" => hand'[Human] \in Tasks
       PROVE  ThreadFit' /\ HandFit'
  <2>1. p \in Procs /\ p \notin Wakes /\ Sweeper \in Procs /\ Human \in Procs /\ Sweeper # Human
    BY Names
  <2>2. Others(p)
    BY <1>17, <2>1 DEF Others, TypeOK
  <2>3. ThreadFit'
    BY <2>1, <2>2, ThreadKeeps
  <2>4. HandFit'
    BY <1>17, <2>1 DEF HandFit, TypeOK
  <2>5. QED
    BY <2>3, <2>4
<1>18. Sweeper # Human /\ Sweeper \in Procs /\ Human \in Procs \ {Sweeper}
       /\ Human \notin Wakes /\ Sweeper \notin Wakes
  BY Names
<1>19. ASSUME Enqueue(Human) PROVE ThreadFit' /\ HandFit'
  <2>1. /\ at' = [at EXCEPT ![Human] = "idle"] /\ seen' = seen /\ turn' = turn
        /\ hand' = [hand EXCEPT ![Human] = NoTask] /\ Order(Task(Human))
    BY <1>19, <1>18, Names DEF Enqueue, Go
  <2>2. Task(Human) \in Tasks
    BY <1>19, TaskOf DEF Enqueue, HandFit
  <2>3. hand'[Sweeper] = hand[Sweeper]
    BY <2>1, <1>18 DEF TypeOK
  <2>4. QED
    BY <1>17, <1>18, <2>1, <2>2, <2>3, OrderRows
<1>20. ASSUME Apply(Human) PROVE ThreadFit' /\ HandFit'
  <2>1. /\ ChecksRun(Human) /\ seen' = seen /\ turn' = turn
        /\ \A u \in Wakes : wake'[u] = wake[u] \/ (wake[u] = "none" /\ wake'[u] = "pending")
    BY <1>20, Names DEF Apply, IsNew, TypeOK
  <2>2. at' = [at EXCEPT ![Human] = "idle"] /\ hand' = [hand EXCEPT ![Human] = NoTask]
    BY <2>1 DEF ChecksRun, Go
  <2>3. hand'[Sweeper] = hand[Sweeper]
    BY <2>2, <1>18 DEF TypeOK
  <2>4. QED
    BY <1>17, <1>18, <2>1, <2>2, <2>3
<1>21. ASSUME NEW t \in Tasks, SweepRead(t) PROVE ThreadFit' /\ HandFit'
  <2>1. /\ at' = [at EXCEPT ![Sweeper] = "store"] /\ turn' = turn /\ wake' = wake
        /\ hand' = [hand EXCEPT ![Sweeper] = t] /\ seen' = [seen EXCEPT ![Sweeper] = status[t]]
    BY <1>21 DEF SweepRead, Go
  <2>2. hand'[Human] = hand[Human] /\ hand'[Sweeper] \in Tasks
        /\ \A u \in Procs \ {Sweeper} : seen'[u] = seen[u]
    BY <2>1, <1>18 DEF TypeOK
  <2>3. QED
    BY <1>17, <1>18, <2>1, <2>2
<1>22. CASE SweepWrite
  <2>1. ChecksRun(Sweeper) /\ turn' = turn /\ \A u \in Procs \ {Sweeper} : seen'[u] = seen[u]
    BY <1>22, <1>18 DEF SweepWrite, Forgets, TypeOK
  <2>2. PICK label \in {"idle", "hold", "reopen", "claim_run"} : at' = [at EXCEPT ![Sweeper] = label]
    BY <2>1, <1>18, RunPlace
  <2>3. hand'[Human] = hand[Human]
    BY <2>1, <1>18, RunPlace
  <2>4. \A u \in Wakes : wake'[u] = wake[u] \/ (wake[u] \in {"none", "pending"} /\ wake'[u] # "none")
    BY <1>22 DEF SweepWrite
  <2>5. label \in {"idle", "store"} \cup Following /\ label # "store"
    BY DEF Following
  <2>6. QED
    BY <1>17, <1>18, <2>1, <2>2, <2>3, <2>4, <2>5
<1>23. ASSUME NEW t \in Tasks, NEW label \in Verdicts \cup {"award", "resume"}, Requests(t, label)
       PROVE  ThreadFit' /\ HandFit'
  <2>1. /\ at' = [at EXCEPT ![Human] = label] /\ turn' = turn /\ wake' = wake
        /\ hand' = [hand EXCEPT ![Human] = t] /\ seen' = [seen EXCEPT ![Human] = status[t]]
    BY <1>23 DEF Requests, Go
  <2>2. hand'[Sweeper] = hand[Sweeper] /\ hand'[Human] \in Tasks
        /\ \A u \in Procs \ {Human} : seen'[u] = seen[u]
    BY <2>1, <1>18 DEF TypeOK
  <2>3. QED
    BY <1>17, <1>18, <2>1, <2>2
<1>24. ASSUME NEW v \in Verdicts, OverrideReview(v) PROVE ThreadFit' /\ HandFit'
  <2>1. /\ turn' = turn /\ wake' = wake /\ hand[Human] \in Tasks
        /\ \A u \in Procs \ {Human} : seen'[u] = seen[u]
    BY <1>24, <1>18 DEF OverrideReview, Forgets, HandFit, TypeOK, Verdicts
  <2>2. CASE v = "rework"
    <3>1. at' = [at EXCEPT ![Human] = "enqueue"] /\ hand' = hand
      BY <1>24, <2>2 DEF OverrideReview, Go
    <3>2. QED
      BY <1>17, <1>18, <2>1, <3>1
  <2>3. CASE v # "rework"
    <3>1. Activates(Human)
      BY <1>24, <2>3 DEF OverrideReview
    <3>2. PICK label \in {"idle", "apply"} :
            at' = [at EXCEPT ![Human] = label] /\ (label = "apply" => hand' = hand)
      BY <3>1, <1>18, ActPlace
    <3>3. hand'[Sweeper] = hand[Sweeper]
      BY <3>1, <1>18 DEF Activates, ChecksRun, TypeOK
    <3>4. QED
      BY <1>17, <1>18, <2>1, <3>2, <3>3
  <2>4. QED
    BY <2>2, <2>3
<1>25. ASSUME NEW m \in Members, OverrideAward(m) PROVE ThreadFit' /\ HandFit'
  <2>1. /\ at' = [at EXCEPT ![Human] = "enqueue"] /\ turn' = turn /\ wake' = wake /\ hand' = hand
        /\ hand[Human] \in Tasks /\ \A u \in Procs \ {Human} : seen'[u] = seen[u]
    BY <1>25, <1>18 DEF OverrideAward, Forgets, Go, HandFit, TypeOK
  <2>2. QED
    BY <1>17, <1>18, <2>1
<1>26. CASE Resume
  <2>1. /\ at' = [at EXCEPT ![Human] = "idle"] /\ turn' = turn /\ Order(hand[Human])
        /\ hand' = [hand EXCEPT ![Human] = NoTask] /\ hand[Human] \in Tasks
        /\ \A u \in Procs \ {Human} : seen'[u] = seen[u]
    BY <1>26, <1>18 DEF Resume, Forgets, Go, HandFit, TypeOK
  <2>2. hand'[Sweeper] = hand[Sweeper]
    BY <2>1, <1>18 DEF TypeOK
  <2>3. QED
    BY <1>17, <1>18, <2>1, <2>2, OrderRows
<1>27. CASE Crash
  <2>1. /\ \A p \in Procs : at'[p] = "idle"
        /\ \A w \in Wakes : turn'[w] = IF turn[w] = "active" THEN "failed" ELSE turn[w]
    BY <1>27 DEF Crash
  <2>2. \A w \in Wakes : PlaceOf(w)' /\ RowOf(w)'
    BY <2>1, <1>3, Names DEF PlaceOf, RowOf, Ending
  <2>3. QED
    BY <2>1, <2>2, <1>18 DEF ThreadFit, HandFit
<1>28. CASE UNCHANGED vars
  BY <1>28 DEF vars, ThreadFit, PlaceOf, RowOf, HandFit
<1>29. ASSUME NEW p \in Procs \ {Sweeper}, Enqueue(p) \/ Apply(p)
       PROVE  ThreadFit' /\ HandFit'
  BY <1>29, <1>12, <1>16, <1>19, <1>20 DEF Procs
<1>30. QED
  BY <1>4, <1>5, <1>6, <1>7, <1>9, <1>10, <1>11, <1>14, <1>15, <1>21, <1>22, <1>23, <1>24,
     <1>25, <1>26, <1>27, <1>28, <1>29, StepCases

-----------------------------------------------------------------------------
(* A member's tasks in progress. *)

LEMMA SlotsFinite == \A m : IsFiniteSet(SlotsOf(m))
<1>1. IsFiniteSet(0 .. MaxOrders)
  BY FS_Interval, TeamAssumption
<1>2. IsFiniteSet(Tasks \X (0 .. MaxOrders))
  BY <1>1, FS_Product, TeamAssumption
<1>3. IsFiniteSet(Orders)
  <2>1. DEFINE f == [c \in Tasks \X (0 .. MaxOrders) |-> <<"order", c[1], c[2]>>]
  <2>2. f \in Surjection(Tasks \X (0 .. MaxOrders), Orders)
    <3>1. \A c \in Tasks \X (0 .. MaxOrders) : f[c] \in Orders
      BY DEF Orders
    <3>2. ASSUME NEW w \in Orders PROVE \E c \in Tasks \X (0 .. MaxOrders) : f[c] = w
      <4>1. PICK t \in Tasks, n \in 0 .. MaxOrders : w = <<"order", t, n>>
        BY DEF Orders
      <4>2. <<t, n>> \in Tasks \X (0 .. MaxOrders) /\ f[<<t, n>>] = w
        BY <4>1
      <4>3. QED
        BY <4>2
    <3>3. QED
      BY <3>1, <3>2 DEF Surjection
  <2>3. QED
    BY <1>2, <2>2, FS_Surjection
<1>4. QED
  BY <1>3, FS_Subset DEF SlotsOf

\* Two orders of a member of one slot are one.
LEMMA OneSlot ==
  ASSUME SlotFit, Limit = 1, NEW m \in Members, NEW v \in SlotsOf(m), NEW w \in SlotsOf(m)
  PROVE  v = w
<1>1. Cardinality(SlotsOf(m)) <= 1 /\ IsFiniteSet(SlotsOf(m))
  BY SlotsFinite DEF SlotFit
<1>2. SUFFICES ASSUME v # w PROVE FALSE
  OBVIOUS
<1>3. IsFiniteSet({w}) /\ Cardinality({w}) = 1
  BY FS_Singleton
<1>4. Cardinality({w} \cup {v}) = 2
  <2>1. v \notin {w}
    BY <1>2
  <2>2. Cardinality({w} \cup {v}) = Cardinality({w}) + 1
    BY <1>3, <2>1, FS_AddElement
  <2>3. QED
    BY <1>3, <2>2
<1>5. Cardinality({w} \cup {v}) <= Cardinality(SlotsOf(m))
  BY <1>1, FS_Subset
<1>6. Cardinality(SlotsOf(m)) \in Nat
  BY <1>1, FS_CardinalityType
<1>7. QED
  BY <1>1, <1>4, <1>5, <1>6

\* The slots of a member do not grow when no order of its enters one.
LEMMA SlotsKeep ==
  ASSUME SlotFit, \A w \in Orders : InSlot(w)' => InSlot(w) /\ target'[w] = target[w]
  PROVE  SlotFit'
<1> SUFFICES ASSUME NEW m \in Members PROVE Cardinality(SlotsOf(m)') <= Limit
  BY DEF SlotFit
<1>1. SlotsOf(m)' \subseteq SlotsOf(m)
  BY DEF SlotsOf
<1>2. IsFiniteSet(SlotsOf(m)) /\ IsFiniteSet(SlotsOf(m)')
  BY <1>1, SlotsFinite, FS_Subset
<1>3. Cardinality(SlotsOf(m)') <= Cardinality(SlotsOf(m))
  BY <1>1, <1>2, FS_Subset
<1>4. Cardinality(SlotsOf(m)) <= Limit /\ Cardinality(SlotsOf(m)) \in Nat /\ Cardinality(SlotsOf(m)') \in Nat
  BY <1>2, FS_CardinalityType DEF SlotFit
<1>5. QED
  BY <1>3, <1>4, TeamAssumption

\* A step in which nobody starts.
Quiet ==
    /\ crashes' = 0 => crashes = 0
    /\ moved \subseteq moved'
    /\ \A t \in Tasks : status'[t] = "in_progress" => status[t] = "in_progress"
    /\ \A t \in Tasks : assignee'[t] # assignee[t] /\ (status[t] = "in_progress" \/ Starting(t)) =>
            t \in moved'
    /\ \A w \in Orders :
        /\ at'[w] = "start" => at[w] = "start"
        /\ InSlot(w)' => InSlot(w) /\ target'[w] = target[w]
        /\ crashes' = 0 /\ Holds(w) => Holds(w)' \/ status'[w[2]] # "in_progress"

LEMMA QuietSerial ==
  ASSUME TypeOK, TypeOK', Serial, Quiet
  PROVE  Serial'
<1> USE DEF Serial
<1>1. SlotFit'
  BY SlotsKeep DEF Quiet
<1>2. StartFit'
  <2> SUFFICES ASSUME NEW w \in Orders, at'[w] = "start"
               PROVE  target'[w] = assignee'[w[2]] \/ w[2] \in moved'
    BY DEF StartFit
  <2>1. at[w] = "start" /\ target'[w] = target[w] /\ w[2] \in Tasks
    BY Names DEF Quiet, InSlot
  <2>2. Starting(w[2])
    BY <2>1 DEF Starting
  <2>3. QED
    BY <2>1, <2>2 DEF StartFit, Quiet
<1>3. HeldFit'
  <2> SUFFICES ASSUME crashes' = 0, NEW t \in Tasks, status'[t] = "in_progress", t \notin moved'
               PROVE  \E w \in Orders : w[2] = t /\ target'[w] = assignee'[t] /\ Holds(w)'
    BY DEF HeldFit
  <2>1. crashes = 0 /\ status[t] = "in_progress" /\ t \notin moved /\ assignee'[t] = assignee[t]
    BY DEF Quiet
  <2>2. PICK w \in Orders : w[2] = t /\ target[w] = assignee[t] /\ Holds(w)
    BY <2>1 DEF HeldFit
  <2>3. Holds(w)'
    BY <2>2 DEF Quiet
  <2>4. target'[w] = target[w]
    BY <2>3 DEF Holds, InSlot, Quiet
  <2>5. QED
    BY <2>1, <2>2, <2>3, <2>4
<1>4. AloneFit'
  <2> SUFFICES ASSUME Limit = 1 PROVE AloneFit'
    BY DEF AloneFit
  <2>1. \A m \in Members : \A t \in InProgress(m)' : t \in moved' \/ (t \in InProgress(m) /\ t \notin moved)
    BY DEF InProgress, Quiet
  <2>2. \A m \in Members : \A t, u \in InProgress(m)' \ moved' : t = u
    BY <2>1 DEF AloneFit
  <2>3. ASSUME NEW w \in Orders, at'[w] = "start", NEW t \in InProgress(target[w])'
        PROVE  t = w[2] \/ t \in moved'
    <3>1. at[w] = "start" /\ target'[w] = target[w] /\ target[w] \in Members
      BY <2>3 DEF Quiet, InSlot, TypeOK
    <3>2. t \in moved' \/ (t \in InProgress(target[w]) /\ t \notin moved)
      BY <3>1, <2>1, <2>3
    <3>3. QED
      BY <3>1, <3>2 DEF AloneFit
  <2>4. QED
    BY <2>2, <2>3 DEF AloneFit
<1>5. QED
  BY <1>1, <1>2, <1>3, <1>4

\* A thread that nothing happens to holds what it held.
LEMMA SameHolds ==
  ASSUME NEW w, setup' = setup, at'[w] = at[w], seen'[w] = seen[w], turn'[w] = turn[w]
  PROVE  Holds(w)' <=> Holds(w)
<1>1. \A t : Transitions(t)' = Transitions(t)
  BY DEF Transitions
<1>2. \A t, a, b : Legal(t, a, b)' <=> Legal(t, a, b)
  BY <1>1 DEF Legal
<1>3. Outcome(w)' = Outcome(w)
  BY DEF Outcome
<1>4. Fails(w)' <=> Fails(w)
  BY <1>2, <1>3 DEF Fails
<1>5. Due(w)' = Due(w)
  BY <1>3, <1>4 DEF Due, AfterFailure
<1>6. QED
  BY <1>5 DEF Holds

\* One thread's step is quiet when it neither starts nor lets go of its task.
LEMMA OnesQuiet ==
  ASSUME TypeOK, ThreadFit, NEW p \in Procs,
         crashes' = crashes, setup' = setup, moved \subseteq moved',
         \A t \in Tasks : status'[t] = "in_progress" => status[t] = "in_progress",
         \A t \in Tasks : assignee'[t] # assignee[t] /\ (status[t] = "in_progress" \/ Starting(t)) =>
            t \in moved',
         \A u \in Procs \ {p} : at'[u] = at[u] /\ seen'[u] = seen[u],
         \A u \in Wakes \ {p} : turn'[u] = turn[u],
         \A w \in Orders : wake[w] # "none" => target'[w] = target[w],
         p \in Orders => /\ at'[p] # "start" /\ (InSlot(p)' => InSlot(p))
                         /\ Holds(p) => Holds(p)' \/ status'[p[2]] # "in_progress"
  PROVE  Quiet
<1>1. ASSUME NEW w \in Orders
      PROVE  /\ at'[w] = "start" => at[w] = "start"
             /\ InSlot(w)' => InSlot(w) /\ target'[w] = target[w]
             /\ Holds(w) => Holds(w)' \/ status'[w[2]] # "in_progress"
  <2>1. w \in Wakes /\ w \in Procs
    BY Names
  <2>2. InSlot(w)' => InSlot(w)
    BY <2>1 DEF InSlot
  <2>3. InSlot(w) => wake[w] # "none"
    BY <2>1 DEF InSlot, ThreadFit, RowOf
  <2>4. w # p => (Holds(w) <=> Holds(w)')
    BY <2>1, SameHolds
  <2>5. QED
    BY <2>1, <2>2, <2>3, <2>4
<1>2. QED
  BY <1>1 DEF Quiet

\* An order that is taken finds a slot, and its member alone if it has one.
LEMMA TakeOrderSerial ==
  ASSUME TypeOK, ThreadFit, Serial, NEW w \in Orders, TakeOrder(w)
  PROVE  Serial'
<1> USE DEF Serial
<1>1. /\ w \in Wakes /\ w \in Procs /\ w[2] \in Tasks
      /\ UNCHANGED <<history, setup, rows, target>>
      /\ at[w] = "idle" /\ target[w] \in Members
  BY Names DEF TakeOrder, Takes, TypeOK, rows
<1>2. UNCHANGED <<crashes, moved, status, assignee>>
  BY <1>1 DEF history, rows
<1>3. /\ \A u \in Procs \ {w} : at'[u] = at[u] /\ seen'[u] = seen[u]
      /\ \A u \in Wakes \ {w} : turn'[u] = turn[u]
      /\ at'[w] = "start" => assignee[w[2]] = target[w]
  <2>1. CASE Enters(w)
    BY <2>1, <1>1, EntersPlace
  <2>2. CASE ~Enters(w)
    BY <2>2, <1>1, TaskOf DEF TakeOrder, Skips, Loads, Go, TypeOK
  <2>3. QED
    BY <2>1, <2>2
<1>4. ~(Cardinality(SlotsOf(target[w])) >= Limit)
      /\ ~(Cardinality(InProgress(target[w]) \ {w[2]}) >= Limit)
  BY DEF TakeOrder, Busy
<1>5. SlotFit'
  <2> SUFFICES ASSUME NEW m \in Members PROVE Cardinality(SlotsOf(m)') <= Limit
    BY DEF SlotFit
  <2>1. IsFiniteSet(SlotsOf(m)) /\ Cardinality(SlotsOf(m)) \in Nat /\ Cardinality(SlotsOf(m)) <= Limit
    BY SlotsFinite, FS_CardinalityType DEF SlotFit
  <2>2. SlotsOf(m)' \subseteq SlotsOf(m) \cup {w}
    BY <1>1, <1>3, Names DEF SlotsOf, InSlot
  <2>3. CASE m = target[w]
    <3>1. w \notin SlotsOf(m)
      BY <1>1 DEF SlotsOf, InSlot
    <3>2. IsFiniteSet(SlotsOf(m) \cup {w}) /\ Cardinality(SlotsOf(m) \cup {w}) = Cardinality(SlotsOf(m)) + 1
      BY <2>1, <3>1, FS_AddElement
    <3>3. Cardinality(SlotsOf(m)') <= Cardinality(SlotsOf(m)) + 1 /\ Cardinality(SlotsOf(m)') \in Nat
      BY <2>2, <3>2, FS_Subset, FS_CardinalityType
    <3>4. QED
      BY <1>4, <2>1, <2>3, <3>3, TeamAssumption
  <2>4. CASE m # target[w]
    <3>1. SlotsOf(m)' \subseteq SlotsOf(m)
      BY <2>2, <2>4, <1>1 DEF SlotsOf
    <3>2. Cardinality(SlotsOf(m)') <= Cardinality(SlotsOf(m)) /\ Cardinality(SlotsOf(m)') \in Nat
      BY <2>1, <3>1, FS_Subset, FS_CardinalityType
    <3>3. QED
      BY <2>1, <3>2, TeamAssumption
  <2>5. QED
    BY <2>3, <2>4
<1>6. StartFit'
  BY <1>1, <1>2, <1>3, Names DEF StartFit
<1>7. HeldFit'
  <2> SUFFICES ASSUME crashes' = 0, NEW t \in Tasks, status'[t] = "in_progress", t \notin moved'
               PROVE  \E v \in Orders : v[2] = t /\ target'[v] = assignee'[t] /\ Holds(v)'
    BY DEF HeldFit
  <2>1. PICK v \in Orders : v[2] = t /\ target[v] = assignee[t] /\ Holds(v)
    BY <1>2 DEF HeldFit
  <2>2. v # w /\ v \in Wakes \ {w} /\ v \in Procs \ {w}
    BY <1>1, <2>1, Names DEF Holds
  <2>3. Holds(v)'
    BY <1>1, <1>3, <2>1, <2>2, SameHolds
  <2>4. QED
    BY <1>1, <1>2, <2>1, <2>3
<1>8. AloneFit'
  <2> SUFFICES ASSUME Limit = 1 PROVE AloneFit'
    BY DEF AloneFit
  <2>1. \A m : InProgress(m)' = InProgress(m)
    BY <1>2 DEF InProgress
  <2>2. \A t \in InProgress(target[w]) : t = w[2]
    <3>1. IsFiniteSet(InProgress(target[w]) \ {w[2]})
      BY FS_Subset, TeamAssumption DEF InProgress
    <3>2. Cardinality(InProgress(target[w]) \ {w[2]}) = 0
      BY <1>4, <3>1, FS_CardinalityType
    <3>3. InProgress(target[w]) \ {w[2]} = {}
      BY <3>1, <3>2, FS_EmptySet
    <3>4. QED
      BY <3>3
  <2>3. ASSUME NEW v \in Orders, at'[v] = "start", NEW t \in InProgress(target[v])'
        PROVE  t = v[2] \/ t \in moved'
    BY <1>1, <1>2, <1>3, <2>1, <2>2, <2>3, Names DEF AloneFit
  <2>4. QED
    BY <1>2, <2>1, <2>3 DEF AloneFit
<1>9. QED
  BY <1>5, <1>6, <1>7, <1>8

\* The one that starts puts its task in progress and holds it.
LEMMA StartSerial ==
  ASSUME TypeOK, ThreadFit, Serial, NEW w \in Orders, Start(w)
  PROVE  Serial'
<1> USE DEF Serial
<1>1. /\ w \in Wakes /\ w \in Procs /\ w[2] \in Tasks /\ Task(w) = w[2]
      /\ at[w] = "start" /\ PlaceOf(w) /\ target[w] \in Members
      /\ UNCHANGED <<crashes, moved, setup, assignee, target>>
  BY Names, TaskOf DEF Start, ThreadFit, TypeOK, history
<1>2. status' = [status EXCEPT ![w[2]] = "in_progress"]
  BY <1>1 DEF Start, Put, PlaceOf
<1>3. /\ \A u \in Procs \ {w} : at'[u] = at[u] /\ seen'[u] = seen[u]
      /\ \A u \in Wakes \ {w} : turn'[u] = turn[u]
      /\ \/ at'[w] = "inturn"
         \/ at'[w] = "store" /\ turn'[w] = turn[w] /\ turn[w] # "none" /\ seen'[w] = "in_progress"
  BY <1>1, <1>2, EntersPlace, Names DEF Start, TypeOK
<1>4. Holds(w)'
  <2>1. CASE at'[w] = "inturn"
    BY <2>1 DEF Holds
  <2>2. CASE at'[w] = "store" /\ turn'[w] = turn[w] /\ turn[w] # "none" /\ seen'[w] = "in_progress"
    <3>1. turn'[w] \in {"active", "failed", "completed", "asked"}
      BY <1>1, <2>2 DEF PlaceOf
    <3>2. Due(w)' # seen'[w]
      BY <2>2, <3>1 DEF Due, Fails, Outcome, AfterFailure, Ended
    <3>3. QED
      BY <2>2, <3>2 DEF Holds
  <2>3. QED
    BY <1>3, <2>1, <2>2
<1>5. SlotFit'
  <2>1. \A v \in Orders : InSlot(v)' => InSlot(v) /\ target'[v] = target[v]
    BY <1>1, <1>3, Names DEF InSlot
  <2>2. QED
    BY <2>1, SlotsKeep
<1>6. StartFit'
  BY <1>1, <1>3, Names DEF StartFit
<1>7. \A t \in Tasks : t # w[2] => status'[t] = status[t]
  BY <1>2 DEF TypeOK
<1>8. HeldFit'
  <2> SUFFICES ASSUME crashes' = 0, NEW t \in Tasks, status'[t] = "in_progress", t \notin moved'
               PROVE  \E v \in Orders : v[2] = t /\ target'[v] = assignee'[t] /\ Holds(v)'
    BY DEF HeldFit
  <2>1. CASE t = w[2]
    BY <2>1, <1>1, <1>4 DEF StartFit
  <2>2. CASE t # w[2]
    <3>1. PICK v \in Orders : v[2] = t /\ target[v] = assignee[t] /\ Holds(v)
      BY <1>1, <1>7, <2>2 DEF HeldFit
    <3>2. v # w /\ v \in Wakes \ {w} /\ v \in Procs \ {w}
      BY <2>2, <3>1, Names
    <3>3. Holds(v)'
      BY <1>1, <1>3, <3>1, <3>2, SameHolds
    <3>4. QED
      BY <1>1, <3>1, <3>3
  <2>3. QED
    BY <2>1, <2>2
<1>9. AloneFit'
  <2> SUFFICES ASSUME Limit = 1 PROVE AloneFit'
    BY DEF AloneFit
  <2>1. \A m : \A t \in InProgress(m)' : t = w[2] \/ t \in InProgress(m)
    BY <1>1, <1>7 DEF InProgress
  <2>2. \A m : w[2] \in InProgress(m)' => m = assignee[w[2]]
    BY <1>1 DEF InProgress
  <2>3. w[2] \in moved \/ target[w] = assignee[w[2]]
    BY <1>1 DEF StartFit
  <2>4. \A t \in InProgress(target[w]) : t = w[2] \/ t \in moved
    BY <1>1 DEF AloneFit
  <2>5. \A m \in Members : \A t, u \in InProgress(m)' \ moved' : t = u
    BY <1>1, <2>1, <2>2, <2>3, <2>4 DEF AloneFit
  <2>6. ASSUME NEW v \in Orders, at'[v] = "start", NEW t \in InProgress(target[v])'
        PROVE  t = v[2] \/ t \in moved'
    <3>1. v # w /\ at[v] = "start" /\ target'[v] = target[v] /\ target[v] \in Members
      BY <1>1, <1>3, <2>6, Names DEF TypeOK
    <3>2. CASE t \in InProgress(target[v])
      BY <1>1, <3>1, <3>2 DEF AloneFit
    <3>3. CASE t = w[2] /\ t \notin moved
      <4>1. target[v] = target[w]
        BY <2>2, <2>3, <2>6, <3>1, <3>3
      <4>2. v \in SlotsOf(target[w]) /\ w \in SlotsOf(target[w])
        BY <1>1, <3>1, <4>1 DEF SlotsOf, InSlot
      <4>3. QED
        BY <1>1, <3>1, <4>2, OneSlot
    <3>4. QED
      BY <1>1, <2>1, <2>6, <3>1, <3>2, <3>3
  <2>7. QED
    BY <2>5, <2>6 DEF AloneFit
<1>10. QED
  BY <1>5, <1>6, <1>8, <1>9

\* Every action keeps the tasks in progress and their holders.
LEMMA SerialStep ==
  ASSUME TypeOK, TypeOK', ThreadFit, HandFit, Serial, [Next]_vars
  PROVE  Serial'
<1> USE DEF history, rows
<1>1. Sweeper \in Procs /\ Human \in Procs /\ Sweeper \notin Orders /\ Human \notin Orders
      /\ Sweeper \notin Wakes /\ Human \notin Wakes /\ Sweeper # Human
  BY Names
<1>2. ASSUME NEW w \in Wakes PROVE w \in Procs /\ PlaceOf(w) /\ turn[w] \in Turns
  BY Names DEF ThreadFit, TypeOK
<1>3. ASSUME NEW w \in Wakes, Recover(w) PROVE Quiet
  BY <1>3, <1>2, OnesQuiet DEF Recover, InSlot, Holds
<1>4. ASSUME NEW w \in Wakes, TakeReport(w) \/ TakeSynthesis(w) PROVE Quiet
  <2>1. /\ UNCHANGED <<history, setup, rows, target>>
        /\ w \notin Orders
    BY <1>4, Names DEF TakeReport, TakeSynthesis
  <2>2. /\ \A u \in Procs \ {w} : at'[u] = at[u] /\ seen'[u] = seen[u]
        /\ \A u \in Wakes \ {w} : turn'[u] = turn[u]
    <3>1. CASE Enters(w)
      BY <3>1, EntersPlace
    <3>2. CASE ~Enters(w)
      BY <3>2, <1>4, <1>2 DEF TakeReport, TakeSynthesis, Skips, Go, TypeOK
    <3>3. QED
      BY <3>1, <3>2
  <2>3. QED
    BY <2>1, <2>2, <1>2, OnesQuiet
<1>5. ASSUME NEW w \in Wakes, EndTurn(w) PROVE Quiet
  <2>1. /\ UNCHANGED <<history, setup, target, status, assignee>> /\ Over(w) /\ at[w] = "inturn"
        /\ \A u \in Wakes \ {w} : turn'[u] = turn[u]
    BY <1>5, <1>2 DEF EndTurn, TypeOK
  <2>2. w \in Orders => turn'[w] \in {"failed", "completed", "asked"}
    BY <1>5, Names DEF EndTurn, Results, TypeOK
  <2>3. /\ \A u \in Procs \ {w} : at'[u] = at[u] /\ seen'[u] = seen[u]
        /\ w \in Orders => at'[w] = "store" /\ seen'[w] = status'[w[2]]
    BY <2>1, <1>2, OverPlace, Names DEF TypeOK
  <2>4. w \in Orders => Holds(w)' \/ status'[w[2]] # "in_progress"
    BY <2>2, <2>3 DEF Holds, Due, Fails, Outcome, AfterFailure, Ended
  <2>5. w \in Orders => at'[w] # "start" /\ InSlot(w)
    BY <2>1, <2>3 DEF InSlot
  <2>6. QED
    BY <2>1, <2>3, <2>4, <2>5, <1>2, OnesQuiet
<1>6. ASSUME NEW w \in Wakes, Store(w) PROVE Quiet
  <2>1. /\ UNCHANGED <<history, setup, target, assignee, turn>> /\ at[w] = "store"
        /\ Put(w, Due(w)) /\ at'[w] \in {"enqueue", "ended"}
        /\ \A u \in Procs \ {w} : at'[u] = at[u] /\ seen'[u] = seen[u]
    BY <1>6, <1>2 DEF Store, Due, Go, Forgets, TypeOK
  <2>2. w \notin Syntheses /\ Task(w) = w[2] /\ w[2] \in Tasks
    BY <2>1, <1>2, Names, TaskOf DEF PlaceOf, Ending, Wakes
  <2>3. Due(w) = seen[w] \/ Due(w) \in {"done", "review", "escalated", "rework"}
    BY <1>2, DueStatus
  <2>4. Due(w) \in Statuses \/ Due(w) = seen[w]
    BY <2>3 DEF Statuses
  <2>5. Due(w) # "in_progress" \/ Due(w) = seen[w]
    BY <2>3
  <2>6. /\ \A t \in Tasks : status'[t] = "in_progress" => status[t] = "in_progress"
        /\ Due(w) # seen[w] => status'[w[2]] = Due(w)
    BY <2>1, <2>2, <2>4, <2>5, <1>2, PutStatus
  <2>7. Holds(w) => status'[w[2]] # "in_progress"
    BY <2>1, <2>3, <2>6 DEF Holds
  <2>8. InSlot(w) /\ at'[w] # "start"
    BY <2>1 DEF InSlot
  <2>9. QED
    BY <2>1, <2>6, <2>7, <2>8, <1>2, OnesQuiet
<1>7. ASSUME NEW w \in Wakes, Raise(w) PROVE Quiet
  <2>1. /\ UNCHANGED <<history, setup, target, assignee, turn>> /\ at[w] = "raise"
        /\ Put(w, AfterFailure(seen[w])) /\ at'[w] = "ended"
        /\ \A u \in Procs \ {w} : at'[u] = at[u] /\ seen'[u] = seen[u]
    BY <1>7, <1>2 DEF Raise, Go, Forgets, TypeOK
  <2>2. Task(w) = w[2] /\ w[2] \in Tasks
    BY <2>1, <1>2, Names, TaskOf DEF PlaceOf, Ending, Following, Wakes
  <2>3. AfterFailure(seen[w]) = seen[w] \/ AfterFailure(seen[w]) = "escalated"
    BY DEF AfterFailure
  <2>4. AfterFailure(seen[w]) \in Statuses \/ AfterFailure(seen[w]) = seen[w]
    BY <2>3 DEF Statuses
  <2>5. AfterFailure(seen[w]) # "in_progress" \/ AfterFailure(seen[w]) = seen[w]
    BY <2>3
  <2>6. \A t \in Tasks : status'[t] = "in_progress" => status[t] = "in_progress"
    BY <2>1, <2>2, <2>4, <2>5, <1>2, PutStatus
  <2>7. InSlot(w) /\ at'[w] # "start" /\ ~Holds(w)
    BY <2>1 DEF InSlot, Holds
  <2>8. QED
    BY <2>1, <2>6, <2>7, <1>2, OnesQuiet
<1>8. ASSUME NEW w \in Wakes, Publish(w) \/ Complete(w) PROVE Quiet
  <2>1. w \notin Orders
    BY <1>8, <1>2 DEF Publish, Complete, PlaceOf, Ending, Following
  <2>2. /\ UNCHANGED <<history, setup, rows, target, turn, seen>>
        /\ \A u \in Procs \ {w} : at'[u] = at[u]
    BY <1>8, <1>2 DEF Publish, Complete, Go, TypeOK
  <2>3. QED
    BY <2>1, <2>2, <1>2, OnesQuiet
<1>9. ASSUME NEW w \in Wakes, End(w) PROVE Quiet
  <2>1. /\ UNCHANGED <<history, setup, target, status, assignee, seen>> /\ Activates(w)
        /\ \A u \in Wakes \ {w} : turn'[u] = turn[u]
        /\ at[w] \in {"ended", "broke"} /\ w # Sweeper
    BY <1>9, <1>1, <1>2 DEF End, TypeOK
  <2>2. /\ at'[w] \in {"idle", "hold", "reopen", "claim_run", "apply"}
        /\ \A u \in Procs \ {w} : at'[u] = at[u]
    BY <2>1, <1>2, ActPlace DEF TypeOK
  <2>3. ~Holds(w) /\ ~InSlot(w)' /\ at'[w] # "start"
    BY <2>1, <2>2 DEF Holds, InSlot
  <2>4. QED
    BY <2>1, <2>2, <2>3, <1>2, OnesQuiet
<1>10. ASSUME NEW p \in Procs, WriteRun(p) \/ ClaimRun(p) \/ EnqueueSynthesis(p) PROVE Quiet
  <2>1. /\ UNCHANGED <<crashes, moved, setup, rows, target, turn, seen>>
        /\ at[p] \in Following /\ at'[p] \in {"idle", "enqueue_synthesis"}
        /\ \A u \in Procs \ {p} : at'[u] = at[u]
    BY <1>10 DEF WriteRun, ClaimRun, EnqueueSynthesis, Go, TypeOK, Following
  <2>2. ~Holds(p) /\ ~InSlot(p)' /\ at'[p] # "start"
    BY <2>1 DEF Holds, InSlot, Following
  <2>3. QED
    BY <2>1, <2>2, OnesQuiet
<1>11. ASSUME NEW t \in Tasks, Order(t) PROVE \A w \in Orders : wake[w] # "none" => target'[w] = target[w]
  BY <1>11 DEF Order, IsNew, TypeOK
<1>12. ASSUME NEW p \in Procs \ {Sweeper}, Enqueue(p) PROVE Quiet
  <2>1. /\ UNCHANGED <<history, setup, rows, turn, seen>>
        /\ at[p] = "enqueue" /\ at'[p] \in {"idle", "ended"}
        /\ \A u \in Procs \ {p} : at'[u] = at[u]
    BY <1>12 DEF Enqueue, Go, TypeOK
  <2>2. \A w \in Orders : wake[w] # "none" => target'[w] = target[w]
    <3>1. CASE p \in Orders
      BY <3>1, <1>12 DEF Enqueue
    <3>2. CASE p \notin Orders
      <4>1. Task(p) \in Tasks
        BY <2>1, <3>2, <1>1, <1>2, Names, TaskOf DEF PlaceOf, Ending, HandFit, Wakes, Procs
      <4>2. QED
        BY <3>2, <4>1, <1>11, <1>12 DEF Enqueue
    <3>3. QED
      BY <3>1, <3>2
  <2>3. ~Holds(p) /\ InSlot(p) /\ at'[p] # "start"
    BY <2>1 DEF Holds, InSlot
  <2>4. QED
    BY <2>1, <2>2, <2>3, OnesQuiet
<1>13. ASSUME NEW p \in Procs \ {Sweeper}, Apply(p) PROVE Quiet
  <2>1. /\ UNCHANGED <<history, setup, assignee, turn, seen>> /\ ChecksRun(p) /\ at[p] = "apply"
        /\ \A t \in Tasks : status'[t] = "in_progress" => status[t] = "in_progress"
        /\ \A w \in Orders : wake[w] # "none" => target'[w] = target[w]
    BY <1>13 DEF Apply, IsNew
  <2>2. /\ at'[p] \in {"idle", "hold", "reopen", "claim_run"}
        /\ \A u \in Procs \ {p} : at'[u] = at[u]
    BY <2>1, RunPlace DEF TypeOK
  <2>3. ~Holds(p) /\ ~InSlot(p)' /\ at'[p] # "start"
    BY <2>1, <2>2 DEF Holds, InSlot
  <2>4. QED
    BY <2>1, <2>2, <2>3, OnesQuiet
<1>14. ASSUME NEW t \in Tasks, SweepRead(t) PROVE Quiet
  <2>1. /\ UNCHANGED <<history, setup, rows, target, turn>>
        /\ \A u \in Procs \ {Sweeper} : at'[u] = at[u] /\ seen'[u] = seen[u]
    BY <1>14 DEF SweepRead, Go, TypeOK
  <2>2. QED
    BY <2>1, <1>1, OnesQuiet
<1>15. CASE SweepWrite
  <2>1. /\ UNCHANGED <<crashes, moved, setup, assignee, target, turn>>
        /\ Put(Sweeper, "escalated") /\ ChecksRun(Sweeper) /\ Task(Sweeper) \in Tasks
        /\ \A u \in Procs \ {Sweeper} : seen'[u] = seen[u]
    BY <1>15, <1>1, TaskOf DEF SweepWrite, Forgets, TypeOK, HandFit
  <2>2. \A u \in Procs \ {Sweeper} : at'[u] = at[u]
    BY <2>1, <1>1, RunPlace DEF TypeOK
  <2>3. \A t \in Tasks : status'[t] = "in_progress" => status[t] = "in_progress"
    BY <2>1, <1>1, PutStatus DEF Statuses
  <2>4. Quiet
    BY <2>1, <2>2, <2>3, <1>1, OnesQuiet
  <2>5. QED
    BY <2>4, QuietSerial
<1>16. ASSUME NEW t \in Tasks, NEW label, Requests(t, label) PROVE Quiet
  <2>1. /\ UNCHANGED <<crashes, moved, setup, status, assignee, target, turn>>
        /\ \A u \in Procs \ {Human} : at'[u] = at[u] /\ seen'[u] = seen[u]
    BY <1>16 DEF Requests, Go, TypeOK
  <2>2. QED
    BY <2>1, <1>1, OnesQuiet
<1>17. ASSUME NEW v \in Verdicts, OverrideReview(v) PROVE Quiet
  <2>1. /\ UNCHANGED <<history, setup, assignee, target, turn>>
        /\ \A u \in Procs \ {Human} : seen'[u] = seen[u]
    BY <1>17 DEF OverrideReview, Forgets, TypeOK
  <2>2. \A t \in Tasks : status'[t] = "in_progress" => status[t] = "in_progress"
    <3>1. PICK s \in {"done", "rework", "escalated"} : Put(Human, s)
      BY <1>17 DEF OverrideReview, Verdicts
    <3>2. Task(Human) \in Tasks
      BY <1>17, TaskOf DEF OverrideReview, HandFit, Verdicts
    <3>3. s \in Statuses /\ s # "in_progress"
      BY DEF Statuses
    <3>4. QED
      BY <1>1, <3>1, <3>2, <3>3, PutStatus
  <2>3. \A u \in Procs \ {Human} : at'[u] = at[u]
    <3>1. CASE v = "rework"
      BY <1>17, <3>1 DEF OverrideReview, Go, TypeOK
    <3>2. CASE v # "rework"
      BY <1>1, <1>17, <3>2, ActPlace DEF OverrideReview, TypeOK
    <3>3. QED
      BY <3>1, <3>2
  <2>4. QED
    BY <2>1, <2>2, <2>3, <1>1, OnesQuiet
<1>18. ASSUME NEW m \in Members, OverrideAward(m) PROVE Quiet
  <2>1. /\ UNCHANGED <<crashes, setup, status, target, turn>> /\ moved \subseteq moved'
        /\ \A u \in Procs \ {Human} : at'[u] = at[u] /\ seen'[u] = seen[u]
    BY <1>18 DEF OverrideAward, Go, Forgets, TypeOK
  <2>2. \A t \in Tasks : assignee'[t] # assignee[t] /\ (status[t] = "in_progress" \/ Starting(t)) =>
            t \in moved'
    BY <1>18 DEF OverrideAward, TypeOK
  <2>3. QED
    BY <2>1, <2>2, <1>1, OnesQuiet
<1>19. CASE Resume
  <2>1. /\ UNCHANGED <<history, setup, assignee, turn>> /\ hand[Human] \in Tasks
        /\ Put(Human, "rework") /\ Order(hand[Human]) /\ Task(Human) = hand[Human]
        /\ \A u \in Procs \ {Human} : at'[u] = at[u] /\ seen'[u] = seen[u]
    BY <1>19, TaskOf DEF Resume, Go, Forgets, TypeOK, HandFit
  <2>2. \A t \in Tasks : status'[t] = "in_progress" => status[t] = "in_progress"
    BY <2>1, <1>1, PutStatus DEF Statuses
  <2>3. Quiet
    BY <2>1, <2>2, <1>1, <1>11, OnesQuiet
  <2>4. QED
    BY <2>3, QuietSerial
<1>20. CASE Crash
  <2>1. /\ UNCHANGED <<moved, status, assignee>> /\ crashes' # 0
        /\ \A p \in Procs : at'[p] = "idle"
    BY <1>20 DEF Crash, TypeOK
  <2>2. Quiet
    BY <2>1, Names DEF Quiet, InSlot
  <2>3. QED
    BY <2>2, QuietSerial
<1>21. CASE UNCHANGED vars
  <2>1. \A w : Holds(w)' <=> Holds(w)
    BY <1>21, SameHolds DEF vars
  <2>2. Quiet
    BY <1>21, <2>1 DEF vars, Quiet, InSlot
  <2>3. QED
    BY <2>2, QuietSerial
<1>22. ASSUME NEW w \in Wakes, TakeOrder(w) PROVE Serial'
  BY <1>22, TakeOrderSerial DEF TakeOrder
<1>23. ASSUME NEW w \in Wakes, Start(w) PROVE Serial'
  <2>1. w \in Orders
    BY <1>23, <1>2 DEF Start, PlaceOf, Ending, Following, Wakes
  <2>2. QED
    BY <1>23, <2>1, StartSerial
<1>24. CASE Quiet
  BY <1>24, QuietSerial
<1>25. QED
  BY <1>3, <1>4, <1>5, <1>6, <1>7, <1>8, <1>9, <1>10, <1>12, <1>13, <1>14, <1>15, <1>16, <1>17,
     <1>18, <1>19, <1>20, <1>21, <1>22, <1>23, <1>24, StepCases

-----------------------------------------------------------------------------
(* A run is claimed once and answered once. *)

\* The step of one thread that neither claims the run, nor enqueues its
\* synthesis, nor publishes.
LEMMA OnesToken ==
  ASSUME TypeOK, TokenFit, NEW p \in Procs,
         crashes' = crashes, published' = published, reverts' = 0 => reverts = 0,
         run' = run \/ run' \notin Open \cup {"none"},
         \A q \in Procs \ {p} : at'[q] = at[q],
         at'[p] # "enqueue_synthesis",
         \A w \in Syntheses :
            \/ wake'[w] = wake[w]
            \/ wake[w] \in {"pending", "claimed"} /\ wake'[w] \in {"pending", "claimed", "over"},
         p \in Syntheses => \/ at[p] \notin {"complete", "ended"}
                            \/ at'[p] \in {"complete", "ended"} \/ wake'[p] = "over"
  PROVE  TokenFit'
<1> SUFFICES ASSUME reverts' = 0 PROVE Unclaimed' /\ OneClaim' /\ AnswerKept'
  BY DEF TokenFit
<1>1. Unclaimed /\ OneClaim /\ AnswerKept
  BY DEF TokenFit
<1>2. \A q \in Procs : Claiming(q)' => Claiming(q)
  BY DEF Claiming
<1>3. \A w \in Syntheses : /\ wake'[w] = "none" <=> wake[w] = "none"
                           /\ wake'[w] \in {"pending", "claimed"} => wake[w] \in {"pending", "claimed"}
  OBVIOUS
<1>4. Unclaimed'
  BY <1>1, <1>2, <1>3 DEF Unclaimed, Open
<1>5. OneClaim'
  BY <1>1, <1>2, <1>3 DEF OneClaim
<1>6. AnswerKept'
  <2>1. \A w \in Syntheses : wake'[w] \in {"pending", "claimed"} /\ at'[w] \notin {"complete", "ended"}
            => at[w] \notin {"complete", "ended"}
    BY Names
  <2>2. QED
    BY <1>1, <1>3, <2>1 DEF AnswerKept
<1>7. QED
  BY <1>4, <1>5, <1>6

LEMMA ClaimToken ==
  ASSUME TypeOK, TokenFit, NEW p \in Procs, ClaimRun(p)
  PROVE  TokenFit'
<1>1. CASE Claimable
  <2>1. /\ run \in Open /\ run' = "synthesizing" /\ at' = [at EXCEPT ![p] = "enqueue_synthesis"]
        /\ UNCHANGED <<history, wake, published>>
    BY <1>1 DEF ClaimRun, Claimable, Go
  <2>2. SUFFICES ASSUME reverts' = 0 PROVE Unclaimed' /\ OneClaim' /\ AnswerKept'
    BY DEF TokenFit
  <2>3. Unclaimed /\ OneClaim /\ AnswerKept
    BY <2>1, <2>2 DEF TokenFit, history
  <2>4. /\ \A q \in Procs : ~Claiming(q)
        /\ \A w \in Syntheses : wake[w] = "none"
    BY <2>1, <2>3 DEF Unclaimed
  <2>5. \A q \in Procs : Claiming(q)' => q = p
    BY <2>1, <2>4 DEF Claiming, TypeOK
  <2>6. Unclaimed'
    BY <2>1 DEF Unclaimed, Open
  <2>7. OneClaim'
    BY <2>1, <2>4, <2>5 DEF OneClaim
  <2>8. AnswerKept'
    BY <2>1, <2>3, <2>4 DEF AnswerKept, history
  <2>9. QED
    BY <2>6, <2>7, <2>8
<1>2. CASE ~Claimable
  <2>1. /\ UNCHANGED <<history, run, wake, published>> /\ at' = [at EXCEPT ![p] = "idle"]
        /\ at[p] = "claim_run"
    BY <1>2 DEF ClaimRun, Go
  <2>2. QED
    BY <2>1, OnesToken DEF TypeOK, history
<1>3. QED
  BY <1>1, <1>2

LEMMA EnqueueToken ==
  ASSUME TypeOK, TokenFit, NEW p \in Procs, EnqueueSynthesis(p)
  PROVE  TokenFit'
<1>1. /\ at[p] = "enqueue_synthesis" /\ at' = [at EXCEPT ![p] = "idle"]
      /\ UNCHANGED <<history, run, published>>
  BY DEF EnqueueSynthesis, Go
<1>2. PICK w \in Syntheses : wake' = [wake EXCEPT ![w] = "pending"]
  BY DEF EnqueueSynthesis, Enqueues, IsNew
<1> SUFFICES ASSUME reverts' = 0 PROVE Unclaimed' /\ OneClaim' /\ AnswerKept'
  BY DEF TokenFit
<1>3. Unclaimed /\ OneClaim /\ AnswerKept
  BY <1>1 DEF TokenFit, history
<1>4. Claiming(p) /\ (\A q \in Procs : Claiming(q)' => q # p /\ Claiming(q))
  BY <1>1 DEF Claiming, TypeOK
<1>5. /\ \A v \in Syntheses : wake[v] = "none"
      /\ \A q \in Procs : ~Claiming(q)'
  BY <1>3, <1>4 DEF OneClaim
<1>6. run \notin Open \cup {"none"} /\ published = 0
  BY <1>3, <1>4, <1>5 DEF Unclaimed, AnswerKept
<1>7. Unclaimed'
  BY <1>1, <1>6 DEF Unclaimed, Open
<1>8. wake'[w] = "pending" /\ \A v \in Syntheses : v # w => wake'[v] = "none"
  BY <1>2, <1>5, Names DEF TypeOK
<1>9. OneClaim'
  BY <1>5, <1>8 DEF OneClaim
<1>10. AnswerKept'
  BY <1>1, <1>6, <1>8 DEF AnswerKept, TypeOK, history
<1>11. QED
  BY <1>7, <1>9, <1>10

LEMMA PublishToken ==
  ASSUME TypeOK, ThreadFit, TokenFit, NEW w \in Syntheses, Publish(w)
  PROVE  TokenFit'
<1>0. w \in Wakes /\ w \in Procs
  BY Names
<1>1. CASE turn[w] = "completed"
  <2>1. /\ at[w] = "publish" /\ at' = [at EXCEPT ![w] = "complete"] /\ published' = published + 1
        /\ UNCHANGED <<history, run, wake>>
    BY <1>1 DEF Publish, Go
  <2>2. wake[w] = "claimed"
    BY <2>1, <1>0 DEF ThreadFit, RowOf, Following
  <2>3. SUFFICES ASSUME reverts' = 0 PROVE Unclaimed' /\ OneClaim' /\ AnswerKept'
    BY DEF TokenFit
  <2>4. Unclaimed /\ OneClaim /\ AnswerKept
    BY <2>1, <2>3 DEF TokenFit, history
  <2>5. published <= crashes
    BY <2>1, <2>2, <2>4 DEF AnswerKept
  <2>6. \A q \in Procs : Claiming(q)' => Claiming(q)
    BY <2>1 DEF Claiming, TypeOK
  <2>7. Unclaimed' /\ OneClaim'
    BY <2>1, <2>4, <2>6 DEF Unclaimed, OneClaim, Open
  <2>8. \A v \in Syntheses : wake'[v] # "none" => v = w
    BY <2>1, <2>2, <2>4 DEF OneClaim
  <2>9. at'[w] = "complete"
    BY <2>1, <1>0 DEF TypeOK
  <2>10. AnswerKept'
    BY <2>1, <2>2, <2>5, <2>8, <2>9 DEF AnswerKept, TypeOK, history
  <2>11. QED
    BY <2>7, <2>10
<1>2. CASE turn[w] # "completed"
  <2>1. /\ at[w] = "publish" /\ at' = [at EXCEPT ![w] = "broke"] /\ published' = published
        /\ UNCHANGED <<history, run, wake>>
    BY <1>2 DEF Publish, Go
  <2>2. QED
    BY <2>1, <1>0, OnesToken DEF TypeOK, history
<1>3. QED
  BY <1>1, <1>2

\* Every action keeps what is known of the run's claim.
LEMMA TokenStep ==
  ASSUME TypeOK, TypeOK', ThreadFit, HandFit, TokenFit, [Next]_vars
  PROVE  TokenFit'
<1> USE DEF history, rows
<1>1. Sweeper \in Procs /\ Human \in Procs /\ Sweeper \notin Wakes /\ Human \notin Wakes
      /\ Sweeper # Human /\ Syntheses \subseteq Wakes /\ Wakes \subseteq Procs
      /\ \A w \in Syntheses : w \notin Orders /\ w \notin Reports
  BY Names
<1>2. ASSUME NEW w \in Wakes PROVE w \in Procs /\ PlaceOf(w) /\ RowOf(w)
  BY Names DEF ThreadFit
<1>3. ASSUME NEW w \in Wakes, Recover(w) PROVE TokenFit'
  BY <1>3, <1>1, <1>2, OnesToken DEF Recover, TypeOK
<1>4. ASSUME NEW w \in Wakes, TakeOrder(w) \/ TakeReport(w) \/ TakeSynthesis(w) PROVE TokenFit'
  <2>1. /\ UNCHANGED <<crashes, reverts, run, published>> /\ Takes(w)
    BY <1>4 DEF TakeOrder, TakeReport, TakeSynthesis
  <2>2. /\ \A u \in Procs \ {w} : at'[u] = at[u]
        /\ at'[w] \in {"start", "raise", "inturn", "store", "publish", "ended", "broke"}
    <3>1. CASE Enters(w)
      BY <3>1, EntersPlace
    <3>2. CASE ~Enters(w)
      BY <3>2, <1>4, <1>2 DEF TakeOrder, TakeReport, TakeSynthesis, Skips, Go, TypeOK
    <3>3. QED
      BY <3>1, <3>2
  <2>3. at[w] = "idle" /\ \A v \in Wakes : wake'[v] = wake[v]
            \/ (wake[v] \in {"pending", "claimed"} /\ wake'[v] \in {"pending", "claimed", "over"})
    BY <2>1 DEF Takes, TypeOK
  <2>4. QED
    BY <2>1, <2>2, <2>3, <1>1, <1>2, OnesToken
<1>5. ASSUME NEW w \in Wakes, Start(w) \/ EndTurn(w) PROVE TokenFit'
  <2>1. UNCHANGED <<crashes, reverts, run, wake, published>> /\ at[w] \in {"start", "inturn"}
    BY <1>5 DEF Start, EndTurn
  <2>2. /\ \A u \in Procs \ {w} : at'[u] = at[u]
        /\ at'[w] \in {"inturn", "store", "publish"}
    <3>1. CASE Start(w)
      BY <3>1, EntersPlace DEF Start
    <3>2. CASE EndTurn(w)
      BY <3>2, <1>2, OverPlace DEF EndTurn, TypeOK
    <3>3. QED
      BY <1>5, <3>1, <3>2
  <2>3. QED
    BY <2>1, <2>2, <1>1, <1>2, OnesToken
<1>6. ASSUME NEW w \in Wakes, Store(w) \/ Raise(w) PROVE TokenFit'
  <2>1. /\ UNCHANGED <<crashes, reverts, run, wake, published>>
        /\ at[w] \in {"store", "raise"} /\ at'[w] \in {"enqueue", "ended"}
        /\ \A u \in Procs \ {w} : at'[u] = at[u]
    BY <1>6, <1>2 DEF Store, Raise, Go, TypeOK
  <2>2. QED
    BY <2>1, <1>1, <1>2, OnesToken
<1>7. ASSUME NEW w \in Wakes, Publish(w) \/ Complete(w) PROVE TokenFit'
  <2>1. w \in Syntheses
    BY <1>7, <1>2 DEF Publish, Complete, PlaceOf, Ending, Following, Wakes
  <2>2. CASE Complete(w)
    <3>1. /\ UNCHANGED <<crashes, reverts, wake, published>> /\ run' = "completed"
          /\ at'[w] = "ended" /\ \A u \in Procs \ {w} : at'[u] = at[u]
      BY <2>2, <1>2 DEF Complete, Go, TypeOK
    <3>2. run' \notin Open \cup {"none"}
      BY <3>1 DEF Open
    <3>3. QED
      BY <3>1, <3>2, <1>1, <1>2, OnesToken
  <2>3. QED
    BY <1>7, <2>1, <2>2, PublishToken
<1>8. ASSUME NEW w \in Wakes, End(w) PROVE TokenFit'
  <2>1. /\ UNCHANGED <<crashes, reverts, published>> /\ Activates(w) /\ w # Sweeper
        /\ wake' = [wake EXCEPT ![w] = "over"] /\ at[w] \in {"ended", "broke"}
        /\ run' = run \/ run' = "failed"
    BY <1>8, <1>1 DEF End
  <2>2. wake[w] = "claimed"
    BY <2>1, <1>2 DEF RowOf, Following
  <2>3. /\ at'[w] \in {"idle", "hold", "reopen", "claim_run", "apply"}
        /\ \A u \in Procs \ {w} : at'[u] = at[u]
    BY <2>1, <1>2, ActPlace DEF TypeOK
  <2>4. /\ wake'[w] = "over"
        /\ \A v \in Wakes : wake'[v] = wake[v]
            \/ (wake[v] \in {"pending", "claimed"} /\ wake'[v] \in {"pending", "claimed", "over"})
    BY <2>1, <2>2 DEF TypeOK
  <2>5. run' = run \/ run' \notin Open \cup {"none"}
    BY <2>1 DEF Open
  <2>6. QED
    BY <2>1, <2>3, <2>4, <2>5, <1>1, <1>2, OnesToken
<1>9. ASSUME NEW p \in Procs, WriteRun(p) PROVE TokenFit'
  <2>1. /\ UNCHANGED <<crashes, wake, published>>
        /\ at[p] \in {"hold", "reopen"} /\ at'[p] = "idle"
        /\ \A q \in Procs \ {p} : at'[q] = at[q]
        /\ run' \in Open /\ reverts' = IF run \in Open THEN reverts ELSE reverts + 1
    BY <1>9 DEF WriteRun, Go, TypeOK, Open
  <2>2. SUFFICES ASSUME reverts' = 0 PROVE Unclaimed' /\ OneClaim' /\ AnswerKept'
    BY DEF TokenFit
  <2>3. reverts = 0 /\ run \in Open
    BY <2>1, <2>2 DEF TypeOK
  <2>4. Unclaimed /\ OneClaim /\ AnswerKept
    BY <2>3 DEF TokenFit
  <2>5. \A q \in Procs : ~Claiming(q)'
    BY <2>1, <2>3, <2>4 DEF Unclaimed, Claiming
  <2>6. \A w \in Syntheses : wake'[w] = "none"
    BY <2>1, <2>3, <2>4 DEF Unclaimed
  <2>7. Unclaimed' /\ OneClaim'
    BY <2>5, <2>6 DEF Unclaimed, OneClaim
  <2>8. AnswerKept'
    BY <2>1, <2>4, <2>6 DEF AnswerKept
  <2>9. QED
    BY <2>7, <2>8
<1>10. ASSUME NEW p \in Procs \ {Sweeper}, Enqueue(p) PROVE TokenFit'
  <2>1. /\ UNCHANGED <<crashes, reverts, run, published>>
        /\ at[p] = "enqueue" /\ at'[p] \in {"idle", "ended"}
        /\ \A u \in Procs \ {p} : at'[u] = at[u]
    BY <1>10 DEF Enqueue, Go, TypeOK
  <2>2. p \notin Syntheses
    BY <2>1, <1>1, <1>2 DEF PlaceOf, Ending
  <2>3. \A w \in Syntheses : wake'[w] = wake[w]
    <3>1. CASE p \in Orders
      BY <3>1, <1>10, <1>1 DEF Enqueue, Enqueues, IsNew, Of, TypeOK
    <3>2. CASE p \notin Orders
      BY <3>2, <1>10, <1>1 DEF Enqueue, Order, IsNew, Of, TypeOK
    <3>3. QED
      BY <3>1, <3>2
  <2>4. QED
    BY <2>1, <2>2, <2>3, OnesToken
<1>11. ASSUME NEW p \in Procs \ {Sweeper}, Apply(p) PROVE TokenFit'
  <2>1. /\ UNCHANGED <<crashes, reverts, run, published>> /\ ChecksRun(p) /\ at[p] = "apply"
        /\ \A w \in Syntheses : wake'[w] = wake[w]
    BY <1>11, <1>1 DEF Apply, IsNew, Of
  <2>2. /\ at'[p] \in {"idle", "hold", "reopen", "claim_run"}
        /\ \A u \in Procs \ {p} : at'[u] = at[u]
    BY <2>1, RunPlace DEF TypeOK
  <2>3. QED
    BY <2>1, <2>2, OnesToken
<1>12. ASSUME NEW t \in Tasks, SweepRead(t) PROVE TokenFit'
  <2>1. /\ UNCHANGED <<crashes, reverts, run, wake, published>> /\ at'[Sweeper] = "store"
        /\ \A u \in Procs \ {Sweeper} : at'[u] = at[u]
    BY <1>12, <1>1 DEF SweepRead, Go, TypeOK
  <2>2. QED
    BY <2>1, <1>1, OnesToken
<1>13. CASE SweepWrite
  <2>1. /\ UNCHANGED <<crashes, reverts, run, published>> /\ ChecksRun(Sweeper)
        /\ hand[Sweeper] \in Tasks
        /\ wake' = [w \in Wakes |-> IF w[2] = hand[Sweeper] /\ wake[w] = "pending"
                                    THEN "over" ELSE wake[w]]
    BY <1>13 DEF SweepWrite, HandFit
  <2>2. \A w \in Syntheses : wake'[w] = wake[w]
    BY <2>1, Names, TeamAssumption
  <2>3. /\ at'[Sweeper] \in {"idle", "hold", "reopen", "claim_run"}
        /\ \A u \in Procs \ {Sweeper} : at'[u] = at[u]
    BY <2>1, <1>1, RunPlace DEF TypeOK
  <2>4. QED
    BY <2>1, <2>2, <2>3, <1>1, OnesToken
<1>14. ASSUME NEW t \in Tasks, NEW label \in Verdicts \cup {"award", "resume"}, Requests(t, label)
       PROVE  TokenFit'
  <2>1. /\ UNCHANGED <<crashes, reverts, run, wake, published>> /\ at'[Human] # "enqueue_synthesis"
        /\ \A u \in Procs \ {Human} : at'[u] = at[u]
    BY <1>14, <1>1 DEF Requests, Go, TypeOK, Verdicts
  <2>2. QED
    BY <2>1, <1>1, OnesToken
<1>15. ASSUME NEW v \in Verdicts, OverrideReview(v) PROVE TokenFit'
  <2>1. UNCHANGED <<crashes, reverts, run, wake, published>>
    BY <1>15 DEF OverrideReview
  <2>2. /\ at'[Human] \in {"enqueue", "idle", "hold", "reopen", "claim_run", "apply"}
        /\ \A u \in Procs \ {Human} : at'[u] = at[u]
    <3>1. CASE v = "rework"
      BY <1>1, <1>15, <3>1 DEF OverrideReview, Go, TypeOK
    <3>2. CASE v # "rework"
      BY <1>1, <1>15, <3>2, ActPlace DEF OverrideReview, TypeOK
    <3>3. QED
      BY <3>1, <3>2
  <2>3. QED
    BY <2>1, <2>2, <1>1, OnesToken
<1>16. ASSUME (\E m \in Members : OverrideAward(m)) \/ Resume PROVE TokenFit'
  <2>1. /\ UNCHANGED <<crashes, reverts, run, published>> /\ at'[Human] \in {"enqueue", "idle"}
        /\ \A u \in Procs \ {Human} : at'[u] = at[u]
    BY <1>16, <1>1 DEF OverrideAward, Resume, Go, TypeOK
  <2>2. \A w \in Syntheses : wake'[w] = wake[w]
    BY <1>16, <1>1 DEF OverrideAward, Resume, Order, IsNew, Of, TypeOK
  <2>3. QED
    BY <2>1, <2>2, <1>1, OnesToken
<1>17. CASE Crash
  <2>1. /\ UNCHANGED <<reverts, run, wake, published>> /\ crashes' = crashes + 1
        /\ \A p \in Procs : at'[p] = "idle"
    BY <1>17 DEF Crash
  <2>2. SUFFICES ASSUME reverts = 0 PROVE Unclaimed' /\ OneClaim' /\ AnswerKept'
    BY <2>1 DEF TokenFit
  <2>3. Unclaimed /\ OneClaim /\ AnswerKept
    BY <2>2 DEF TokenFit
  <2>4. \A p \in Procs : ~Claiming(p)'
    BY <2>1 DEF Claiming
  <2>5. Unclaimed' /\ OneClaim'
    BY <2>1, <2>3, <2>4 DEF Unclaimed, OneClaim
  <2>6. AnswerKept'
    BY <2>1, <2>3 DEF AnswerKept, TypeOK
  <2>7. QED
    BY <2>5, <2>6
<1>18. CASE UNCHANGED vars
  BY <1>18 DEF vars, TokenFit, Unclaimed, OneClaim, AnswerKept, Claiming
<1>19. QED
  BY <1>3, <1>4, <1>5, <1>6, <1>7, <1>8, <1>9, <1>10, <1>11, <1>12, <1>13, <1>14, <1>15, <1>16,
     <1>17, <1>18, ClaimToken, EnqueueToken, StepCases

-----------------------------------------------------------------------------
(* The theorems. *)

LEMMA IInvStep == IInv /\ [Next]_vars => IInv'
<1> SUFFICES ASSUME IInv, [Next]_vars PROVE IInv'
  OBVIOUS
<1> USE DEF IInv
<1>1. TypeOK'
  BY TypeStep
<1>2. ThreadFit' /\ HandFit'
  BY PlaceStep
<1>3. Serial'
  BY <1>1, SerialStep
<1>4. TokenFit'
  BY <1>1, TokenStep
<1>5. QED
  BY <1>1, <1>2, <1>3, <1>4

LEMMA SerialMeans == IInv => MemberSerial
<1> SUFFICES ASSUME IInv, crashes = 0 \/ Limit = 1, NEW m \in Members
             PROVE  Cardinality(InProgress(m) \ moved) <= Limit
  BY DEF MemberSerial
<1> DEFINE S == InProgress(m) \ moved
<1>1. IsFiniteSet(S)
  BY FS_Subset, TeamAssumption DEF InProgress
<1>2. CASE Limit = 1
  <2>1. \A t, u \in S : t = u
    BY <1>2 DEF IInv, Serial, AloneFit
  <2>2. CASE S = {}
    BY <2>2, <1>2, FS_EmptySet
  <2>3. CASE S # {}
    <3>1. PICK t \in S : S = {t}
      BY <2>1, <2>3
    <3>2. Cardinality({t}) = 1
      BY FS_Singleton
    <3>3. QED
      BY <3>1, <3>2, <1>2
  <2>4. QED
    BY <2>2, <2>3
<1>3. CASE crashes = 0
  <2> DEFINE D == {w \in SlotsOf(m) : w[2] \in S}
             f == [w \in D |-> w[2]]
  <2>1. IsFiniteSet(SlotsOf(m)) /\ Cardinality(SlotsOf(m)) <= Limit
    BY SlotsFinite DEF IInv, Serial, SlotFit
  <2>2. IsFiniteSet(D) /\ Cardinality(D) <= Cardinality(SlotsOf(m))
    BY <2>1, FS_Subset
  <2>3. ASSUME NEW t \in S PROVE \E w \in D : f[w] = t
    <3>1. t \in Tasks /\ status[t] = "in_progress" /\ assignee[t] = m /\ t \notin moved
      BY DEF InProgress
    <3>2. PICK w \in Orders : w[2] = t /\ target[w] = assignee[t] /\ Holds(w)
      BY <1>3, <3>1 DEF IInv, Serial, HeldFit
    <3>3. w \in SlotsOf(m)
      BY <3>1, <3>2 DEF SlotsOf, InSlot, Holds
    <3>4. QED
      BY <3>2, <3>3
  <2>4. f \in Surjection(D, S)
    BY <2>3 DEF Surjection
  <2>5. Cardinality(S) <= Cardinality(D)
    BY <2>2, <2>4, FS_Surjection
  <2>6. Cardinality(S) \in Nat /\ Cardinality(D) \in Nat /\ Cardinality(SlotsOf(m)) \in Nat
    BY <1>1, <2>1, <2>2, FS_CardinalityType
  <2>7. QED
    BY <2>1, <2>2, <2>5, <2>6, TeamAssumption
<1>4. QED
  BY <1>2, <1>3

LEMMA TokenMeans == IInv => AnswerOnce
  BY DEF IInv, TokenFit, AnswerKept, AnswerOnce

LEMMA Invariant == Spec => []IInv
  BY InitHolds, IInvStep, PTL DEF Spec

\* Threads, rows and what each thread has loaded stay what the code makes them.
THEOREM TypeCorrect == Spec => []TypeOK
<1>1. IInv => TypeOK
  BY DEF IInv
<1>2. QED
  BY <1>1, Invariant, PTL

\* However many orders of a member are taken together, whatever the sweeper and
\* people write over a status that a thread has loaded, whenever an award is
\* rewritten and the process dies, the member has no more than Limit tasks in
\* progress, but those whose award was rewritten under their start.  Every such
\* task is held by an order in one of the member's slots; after a crash, when
\* it is held by nobody, a member of one slot starts no other beside it.
THEOREM MemberSerialHolds == Spec => []MemberSerial
  BY Invariant, SerialMeans, PTL

\* Whoever judges the run at the same time, one thread claims it, that thread
\* enqueues one synthesis, and only one that a crash cut short publishes again,
\* as long as no judgement is written over the claim.
THEOREM AnswerOnceHolds == Spec => []AnswerOnce
  BY Invariant, TokenMeans, PTL

=============================================================================
