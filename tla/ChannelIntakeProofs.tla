-------------------------- MODULE ChannelIntakeProofs --------------------------
(***************************************************************************)
(* Theorems of ChannelIntake, for every value of its constants.            *)
(***************************************************************************)
EXTENDS ChannelIntake, TLAPS

-----------------------------------------------------------------------------
(* The inductive invariant. *)

\* A thread past the first steps has an event.
EventFit == \A t \in Threads : at[t] \notin {"idle", "list"} => ev[t] \in Events

\* Events of WeChat are registered, by its poller or the sweeper, and processed
\* without the handlers of staged ones; those are claimed, and only the sweeper
\* takes one over.
PlaceFit ==
    /\ Staging => over = {}
    /\ \A t \in Threads :
        /\ Staging => at[t] # "register"
        /\ Staging /\ at[t] \in {"list", "recover", "inspect", "interrupted", "drop"}
            => t = "sweeper"
        /\ ~Staging => /\ at[t] \notin {"enter", "claim", "recover", "prepare",
                                       "interrupted"} \cup (Handling \ {"drop"})
                       /\ at["daemon"] = "idle"

\* The places of a thread that the binding counts.
Inside == ({"claim", "conflict", "error"} \cup Holding \cup Handling)
              \ {"inspect", "drop"}

\* It counts the threads that process a staged event, and those only.
ActiveFit == \A t \in Threads : t \in active <=> Staging /\ at[t] \in Inside

\* A deletion goes on when nobody is counted, and the source has stopped for good.
PausedFit ==
    /\ paused = "quiet" => active = {}
    /\ paused # "no" \/ binding = "deleted" =>
            at["source"] = "idle" /\ todo["source"] = {} /\ pulled = {}

\* A process that is down has no threads.
DownFit ==
    ~up => /\ paused = "no" /\ pulled = {}
           /\ \A t \in Threads : at[t] = "idle" /\ todo[t] = {}

\* Only a row that is being processed has an owner.
RowFit == \A e \in Events : row[e] # "processing" => owner[e] = "none"

\* A thread's own row, and an event that a deletion has closed under the sweeper.
Own(t) == row[ev[t]] = "processing" /\ owner[ev[t]] = t
Passed(t) ==
    /\ binding = "deleted" /\ row[ev[t]] = "failed" /\ t = "sweeper"
    /\ Staging => at[t] = "inspect"

\* Who holds an event owns its row.
OwnerFit ==
    \A t \in Threads :
        at[t] \in Holding /\ ev[t] \notin undone => Own(t) \/ Passed(t)

\* No message before its turn, and none without a reply when the event is tried
\* again; a verdict fits as long as the row is the thread's own.
MessageFit ==
    /\ \A e \in Events :
        /\ turn[e] = "completed" => message[e] /\ reply[e] # "none"
        /\ e \notin undone =>
            /\ row[e] = "absent" => ~message[e]
            /\ row[e] = "received" /\ message[e] => reply[e] # "none"
    /\ \A t \in Threads :
        /\ at[t] = "close" => reply[ev[t]] # "none"
        /\ ev[t] \notin undone =>
            /\ at[t] \in {"wait", "turn", "claimed", "refused"} => ~message[ev[t]]
            /\ at[t] \in {"prepare", "read"} /\ message[ev[t]] => reply[ev[t]] # "none"
            /\ at[t] = "retry" /\ Own(t) /\ message[ev[t]] => reply[ev[t]] # "none"
            /\ at[t] = "ended" => reply[ev[t]] # "none"

\* FailedIsTold, with the threads whose notice is of a failure.
ToldFit ==
    \A e \in Events :
        row[e] = "failed" =>
            \/ notices[e] \cap {"error", "interrupted"} # {}
            \/ \E t \in Threads : ev[t] = e /\ at[t] \in {"error", "interrupted"}
            \/ binding = "deleted" \/ e \in cut

-----------------------------------------------------------------------------
(* The initial states, and the steps, one for each part. *)

Safe ==
    /\ EventFit /\ PlaceFit /\ ActiveFit /\ PausedFit /\ DownFit
    /\ RowFit /\ OwnerFit /\ MessageFit /\ ToldFit
    /\ DoneIsAnswered

IInv == TypeOK /\ Safe

LEMMA InitHolds == Init => IInv
<1> SUFFICES ASSUME Init PROVE IInv
  OBVIOUS
<1> USE DEF Init, Threads, Labels, Holding, Telling, Handling, Verdicts,
              Settled
<1>1. TypeOK
  BY IntakeAssumption DEF TypeOK
<1>2. Safe
  BY <1>1, IntakeAssumption
  DEF Safe, EventFit, PlaceFit, ActiveFit, PausedFit, DownFit, RowFit, OwnerFit,
      OneWorker, Own, Passed, MessageFit, ToldFit, DoneIsAnswered, Inside, TypeOK
<1>3. QED
  BY <1>1, <1>2 DEF IInv

\* The parts of TypeOK that the steps of a thread disturb.
RowsOK ==
    /\ row \in [Events -> {"absent", "received", "processing"} \cup Settled]
    /\ owner \in [Events -> Threads \cup {"before", "none"}]
    /\ fresh \in [Events -> BOOLEAN]
NoticesOK == notices \in [Events -> SUBSET ({"command"} \cup Telling)]
ThreadsOK ==
    /\ at \in [Threads -> Labels] /\ ev \in [Threads -> Events \cup {None}]
    /\ todo \in [Threads -> SUBSET Events]
    /\ pulled \subseteq Events /\ acked \subseteq Events
    /\ lock \in Threads \cup {None} /\ active \cup over \subseteq Threads

LEMMA TypeParts == TypeOK => RowsOK /\ NoticesOK /\ ThreadsOK
  BY DEF TypeOK, RowsOK, NoticesOK, ThreadsOK

LEMMA TypeKept ==
  ASSUME TypeOK, RowsOK', NoticesOK', ThreadsOK', UNCHANGED <<bounds, fixed, core>>
  PROVE  TypeOK'
  BY DEF TypeOK, RowsOK, NoticesOK, ThreadsOK, bounds, fixed, core

LEMMA SetRowType ==
  ASSUME RowsOK, NEW e \in Events,
         NEW status \in {"absent", "received", "processing", "done", "failed"},
         NEW who \in Threads \cup {"before", "none"}, SetRow(e, status, who)
  PROVE  RowsOK'
  BY DEF RowsOK, SetRow, Settled

LEMMA TellType ==
  ASSUME NoticesOK, NEW e \in Events, NEW kind \in {"command"} \cup Telling,
         Tell(e, kind)
  PROVE  NoticesOK'
  BY DEF NoticesOK, Tell

LEMMA GoesType ==
  ASSUME ThreadsOK, NEW t \in Threads, NEW label \in Labels, Goes(t, label)
  PROVE  ThreadsOK'
  BY DEF ThreadsOK, Goes

LEMMA LeavesType ==
  ASSUME ThreadsOK, NEW t \in Threads, Leaves(t)
  PROVE  ThreadsOK'
  BY DEF ThreadsOK, Leaves, Freed, Labels

\* Where a step leaves a part alone.
LEMMA Stays ==
  /\ RowsOK /\ UNCHANGED rows => RowsOK'
  /\ NoticesOK /\ UNCHANGED notices => NoticesOK'
  BY DEF RowsOK, NoticesOK, rows

LEMMA ThrownType ==
  ASSUME ThreadsOK, NEW t \in Threads, NEW handler \in {"idle", "except", "reset",
  "drop"},
         Thrown(t, handler), Repolled(t) \/ UNCHANGED <<todo, pulled>>
  PROVE  ThreadsOK'
  BY DEF ThreadsOK, Thrown, Repolled, Labels, Handling

LEMMA AmendedType ==
  ASSUME RowsOK, NoticesOK, NEW e \in Events, NEW verdict \in Verdicts,
         Amended(e, verdict)
  PROVE  RowsOK' /\ NoticesOK'
<1>1. CASE verdict = "retry"
  BY <1>1, SetRowType, Stays DEF Amended
<1>2. CASE verdict = "close"
  BY <1>2, SetRowType, Stays DEF Amended
<1>3. CASE verdict = "cut"
  BY <1>3, SetRowType, TellType DEF Amended, CutShort, Telling
<1>4. QED
  BY <1>1, <1>2, <1>3 DEF Verdicts

LEMMA UntoldType ==
  ASSUME EventFit, NEW ts \in SUBSET Threads
  PROVE  Untold(ts) \subseteq Events
  BY DEF EventFit, Untold

\* The steps that handle the row of the event.
LEMMA HandlingType ==
  ASSUME TypeOK, EventFit, NEW t \in Threads,
         \/ Claim(t) \/ Recover(t) \/ Rerun(t) \/ Conclude(t) \/ Interrupt(t)
         \/ Command(t) \/ Seen(t) \/ Finish(t) \/ Release(t) \/ Fail(t)
         \/ Register(t)
  PROVE  TypeOK'
<1>1. RowsOK /\ NoticesOK /\ ThreadsOK
  BY TypeParts
<1>2. ev[t] \in Events
  BY DEF EventFit, Claim, Recover, Rerun, Conclude, Interrupt, Command, Seen, Finish,
         Release, Fail, Settles, Register
<1>3. {"enter", "register", "prepare", "read", "inspect", "wait", "conflict", "error",
       "interrupted"} \subseteq Labels
  BY DEF Labels, Holding, Telling
<1> USE <1>1, <1>2, <1>3, TypeKept, Stays, SetRowType, GoesType, LeavesType
<1>4. CASE Claim(t)
  BY <1>4 DEF Claim
<1>5. CASE Recover(t)
  BY <1>5 DEF Recover
<1>6. CASE Rerun(t)
  BY <1>6 DEF Rerun
<1>7. CASE Conclude(t)
  BY <1>7 DEF Conclude
<1>8. CASE Interrupt(t)
  BY <1>8, TellType DEF Interrupt, CutShort, Telling
<1>9. CASE Command(t)
  BY <1>9, TellType DEF Command, Telling
<1>10. CASE Seen(t)
  BY <1>10 DEF Seen
<1>11. CASE Finish(t)
  BY <1>11 DEF Finish, Settles
<1>12. CASE Release(t)
  BY <1>12 DEF Release, Settles
<1>13. CASE Fail(t)
  BY <1>13 DEF Fail, Settles
<1>14. CASE Register(t)
  <2>1. CASE at' = [at EXCEPT ![t] = "inspect"] /\ over' = over \cup {t}
             /\ UNCHANGED <<ev, todo, pulled, acked, lock, active>>
    <3>1. ThreadsOK'
      BY <2>1 DEF ThreadsOK
    <3>2. QED
      BY <1>14, <3>1 DEF Register, Stale
  <2>2. CASE Goes(t, "read") \/ Leaves(t)
    BY <1>14, <2>2 DEF Register, Stale
  <2>3. QED
    BY <1>14, <2>1, <2>2 DEF Register
<1>15. QED
  BY <1>4, <1>5, <1>6, <1>7, <1>8, <1>9, <1>10, <1>11, <1>12, <1>13, <1>14

\* Exceptions: bounds and histories change as well.
LEMMA ExceptionType ==
  ASSUME TypeOK, EventFit, NEW t \in Threads,
         Fault(t) \/ Amend(t) \/ Reset(t) \/ Drop(t)
  PROVE  TypeOK'
<1>1. RowsOK /\ NoticesOK /\ ThreadsOK /\ ev[t] \in Events
  BY TypeParts DEF EventFit, Fault, Amend, Reset, Drop, Telling, Handling, Verdicts
<1>2. RowsOK' /\ NoticesOK'
  BY <1>1, AmendedType, SetRowType, Stays DEF Fault, Amend, Reset, Drop
<1>3. ThreadsOK'
  <2>1. Catcher(t) \in {"idle", "except", "reset", "drop"}
    BY DEF Catcher
  <2>2. CASE Amend(t)
    BY <1>1, <2>2, GoesType DEF Amend, Labels, Handling
  <2>3. CASE Reset(t) \/ Drop(t)
    BY <1>1, <2>1, <2>3, ThrownType DEF Reset, Drop
  <2>4. CASE Fault(t)
    <3>1. PICK handler \in {"idle", "except", "reset", "drop"} :
            /\ Thrown(t, handler)
            /\ \/ Repolled(t) \/ UNCHANGED <<todo, pulled>>
               \/ todo' = [todo EXCEPT ![t] = {}] /\ UNCHANGED pulled
      BY <2>1, <2>4 DEF Fault
    <3>2. CASE todo' = [todo EXCEPT ![t] = {}] /\ UNCHANGED pulled
      BY <1>1, <3>1, <3>2 DEF ThreadsOK, Thrown, Labels, Handling
    <3>3. QED
      BY <1>1, <3>1, <3>2, ThrownType
  <2>5. QED
    BY <2>2, <2>3, <2>4
<1>4. cut' \subseteq Events /\ undone' \subseteq Events
  BY <1>1, UntoldType DEF Fault, Amend, Reset, Drop, TypeOK
<1>5. {crashes', faults', busy', deletes'} \subseteq 0 .. setup'.troubles
  BY IntakeAssumption DEF TypeOK, Fault, Amend, Reset, Drop, Trouble, bounds
<1>6. QED
  BY <1>2, <1>3, <1>4, <1>5
  DEF TypeOK, RowsOK, NoticesOK, ThreadsOK, Fault, Amend, Reset, Drop, core

\* What a verdict writes.
LEMMA AmendCases ==
  ASSUME NEW t \in Threads, Amend(t)
  PROVE  /\ owner' = [owner EXCEPT ![ev[t]] = "none"]
         /\ \/ /\ at[t] = "retry" /\ row' = [row EXCEPT ![ev[t]] = "received"]
               /\ notices' = notices
            \/ /\ at[t] = "close" /\ row' = [row EXCEPT ![ev[t]] = "done"]
               /\ notices' = notices
            \/ /\ at[t] = "cut" /\ row' = [row EXCEPT ![ev[t]] = "failed"]
               /\ notices' = [notices EXCEPT ![ev[t]] = @ \cup {"interrupted"}]
         /\ at' = [at EXCEPT ![t] = "reset"]
         /\ undone' = IF Lost(t) THEN undone \cup {ev[t]} ELSE undone
         /\ UNCHANGED <<setup, binding, up, paused, cut, turn, message, reply, ev,
                        todo, pulled, acked, lock, active, over>>
<1> USE DEF Amend, SetRow, Goes, core
<1>1. CASE at[t] = "retry"
  BY <1>1 DEF Amended
<1>2. CASE at[t] = "close"
  BY <1>2 DEF Amended
<1>3. CASE at[t] = "cut"
  BY <1>3 DEF Amended, CutShort, Tell
<1>4. QED
  BY <1>1, <1>2, <1>3 DEF Verdicts

\* It tells of an event that it fails, and takes no notice back.
LEMMA AmendTells ==
  ASSUME TypeOK, EventFit, NEW t \in Threads, Amend(t), NEW e \in Events
  PROVE  /\ notices[e] \subseteq notices'[e]
         /\ row'[e] = "failed" => row[e] = "failed" \/ "interrupted" \in notices'[e]
<1>1. ev[t] \in Events /\ e \in DOMAIN notices /\ e \in DOMAIN row
  BY DEF EventFit, Amend, Verdicts, TypeOK
<1>2. CASE /\ notices' = notices
           /\ \E s \in {"received", "done"} : row' = [row EXCEPT ![ev[t]] = s]
  BY <1>1, <1>2
<1>3. CASE /\ row' = [row EXCEPT ![ev[t]] = "failed"]
           /\ notices' = [notices EXCEPT ![ev[t]] = @ \cup {"interrupted"}]
  <2>1. CASE e = ev[t]
    <3>1. notices'[e] = notices[e] \cup {"interrupted"}
      BY <1>1, <1>3, <2>1
    <3>2. QED
      BY <3>1
  <2>2. CASE e # ev[t]
    BY <1>1, <1>3, <2>2
  <2>3. QED
    BY <2>1, <2>2
<1>4. QED
  BY <1>2, <1>3, AmendCases

\* The types.
LEMMA TypeStep ==
  ASSUME TypeOK, EventFit, [Next]_vars
  PROVE  TypeOK'
<1> USE IntakeAssumption DEF TypeOK, EventFit, Threads, Labels, Holding, Telling,
            Handling, Verdicts,
            Settled, bounds, fixed, rows, core, threads
<1>1. ASSUME NEW e \in Events, Stage(e) PROVE TypeOK'
  BY <1>1 DEF Stage, SetRow
<1>2. ASSUME NEW e \in Events, Expire(e) PROVE TypeOK'
  BY <1>2 DEF Expire
<1>3. ASSUME NEW e \in Events, NEW t \in Threads, Take(t, e) PROVE TypeOK'
  BY <1>3 DEF Take
<1>4. ASSUME NEW t \in Threads, Enter(t) PROVE TypeOK'
  BY <1>4 DEF Enter, Admitted, Leaves, Freed
<1>5. ASSUME NEW t \in Threads, Claim(t) PROVE TypeOK'
  BY <1>5, HandlingType
<1>6. ASSUME NEW t \in Threads, Recover(t) PROVE TypeOK'
  BY <1>6, HandlingType
<1>7. ASSUME NEW t \in Threads, Register(t) PROVE TypeOK'
  BY <1>7, HandlingType
<1>8. ASSUME NEW t \in Threads, Rerun(t) PROVE TypeOK'
  BY <1>8, HandlingType
<1>9. ASSUME NEW t \in Threads, Conclude(t) PROVE TypeOK'
  BY <1>9, HandlingType
<1>10. ASSUME NEW t \in Threads, Interrupt(t) PROVE TypeOK'
  BY <1>10, HandlingType
<1>11. ASSUME NEW t \in Threads, Prepare(t) PROVE TypeOK'
  BY <1>11 DEF Prepare, Owned, Goes, Leaves, Freed
<1>12. ASSUME NEW t \in Threads, Command(t) PROVE TypeOK'
  BY <1>12, HandlingType
<1>13. ASSUME NEW t \in Threads, Seen(t) PROVE TypeOK'
  BY <1>13, HandlingType
<1>14. ASSUME NEW t \in Threads, Lock(t) PROVE TypeOK'
  BY <1>14 DEF Lock, Leaves, Freed
<1>15. ASSUME NEW t \in Threads, Busy(t) PROVE TypeOK'
  BY <1>15 DEF Busy, Trouble, Goes
<1>16. ASSUME NEW t \in Threads, Receipt(t) PROVE TypeOK'
  BY <1>16 DEF Receipt, Goes
<1>17. ASSUME NEW t \in Threads, UserMessage(t) PROVE TypeOK'
  BY <1>17 DEF UserMessage, Goes
<1>18. ASSUME NEW t \in Threads, Reply(t) PROVE TypeOK'
  BY <1>18 DEF Reply, Goes
<1>19. ASSUME NEW t \in Threads, Raise(t) PROVE TypeOK'
  BY <1>19 DEF Raise, Trouble, Goes
<1>20. ASSUME NEW t \in Threads, Finish(t) PROVE TypeOK'
  BY <1>20, HandlingType
<1>21. ASSUME NEW t \in Threads, Release(t) PROVE TypeOK'
  BY <1>21, HandlingType
<1>22. ASSUME NEW t \in Threads, Fail(t) PROVE TypeOK'
  BY <1>22, HandlingType
<1>23. ASSUME NEW t \in Threads, Notify(t) PROVE TypeOK'
  BY <1>23 DEF Notify, Tell, Leaves, Freed
<1>24. ASSUME NEW t \in Threads, Fault(t) PROVE TypeOK'
  BY <1>24, ExceptionType
<1>25. ASSUME NEW t \in Threads, Look(t) PROVE TypeOK'
  BY <1>25 DEF Look, Goes
<1>26. ASSUME NEW t \in Threads, Judge(t) PROVE TypeOK'
  BY <1>26 DEF Judge, Verdict, Goes
<1>27. ASSUME NEW t \in Threads, Amend(t) PROVE TypeOK'
  BY <1>27, ExceptionType
<1>28. ASSUME NEW t \in Threads, Reset(t) PROVE TypeOK'
  BY <1>28, ExceptionType
<1>29. ASSUME NEW t \in Threads, Drop(t) PROVE TypeOK'
  BY <1>29, ExceptionType
<1>30. CASE Poll
  BY <1>30 DEF Poll
<1>31. CASE Ack
  BY <1>31 DEF Ack
<1>32. CASE List
  BY <1>32 DEF List, Stale
<1>33. CASE Pause
  BY <1>33 DEF Pause, Trouble
<1>34. CASE Quiet
  BY <1>34 DEF Quiet
<1>35. CASE Resume
  BY <1>35 DEF Resume
<1>36. CASE Delete
  BY <1>36 DEF Delete
<1>37. CASE Crash
  <2> USE <1>37 DEF Crash, Trouble
  <2>1. cut' \subseteq Events
    BY UntoldType
  <2>2. owner' \in [Events -> Threads \cup {"before", "none"}]
    OBVIOUS
  <2>3. {crashes', faults', busy', deletes'} \subseteq 0 .. setup'.troubles
    BY IntakeAssumption
  <2>4. /\ at' \in [Threads -> Labels] /\ ev' \in [Threads -> Events \cup {None}]
        /\ todo' \in [Threads -> SUBSET Events]
    BY DEF Labels
  <2>5. QED
    BY <2>1, <2>2, <2>3, <2>4
<1>38. CASE Restart
  BY <1>38 DEF Restart
<1>39. CASE UNCHANGED vars
  BY <1>39 DEF vars
<1>40. QED
  <2> HIDE DEF TypeOK, EventFit, Threads
  <2> QED
    BY <1>1, <1>2, <1>3, <1>4, <1>5, <1>6, <1>7, <1>8, <1>9, <1>10, <1>11, <1>12,
       <1>13, <1>14, <1>15, <1>16, <1>17, <1>18, <1>19, <1>20, <1>21, <1>22, <1>23,
       <1>24, <1>25, <1>26, <1>27, <1>28, <1>29, <1>30, <1>31, <1>32, <1>33, <1>34,
       <1>35, <1>36, <1>37, <1>38, <1>39
    DEF Next, Works

\* EventFit.
LEMMA EventStep ==
  ASSUME TypeOK, EventFit, [Next]_vars
  PROVE  EventFit'
<1> USE IntakeAssumption DEF TypeOK, EventFit, Threads, Labels, Holding, Telling,
            Handling, Verdicts,
            Settled, bounds, fixed, rows, core, threads
<1>1. ASSUME NEW e \in Events, Stage(e) PROVE EventFit'
  BY <1>1 DEF Stage, SetRow
<1>2. ASSUME NEW e \in Events, Expire(e) PROVE EventFit'
  BY <1>2 DEF Expire
<1>3. ASSUME NEW e \in Events, NEW t \in Threads, Take(t, e) PROVE EventFit'
  BY <1>3 DEF Take
<1>4. ASSUME NEW t \in Threads, Enter(t) PROVE EventFit'
  BY <1>4 DEF Enter, Admitted, Leaves, Freed
<1>5. ASSUME NEW t \in Threads, Claim(t) PROVE EventFit'
  BY <1>5 DEF Claim, Goes, SetRow, Leaves, Freed
<1>6. ASSUME NEW t \in Threads, Recover(t) PROVE EventFit'
  BY <1>6 DEF Recover, Stale, Goes, SetRow, Leaves, Freed
<1>7. ASSUME NEW t \in Threads, Register(t) PROVE EventFit'
  BY <1>7 DEF Register, Stale, Goes, SetRow, Leaves, Freed
<1>8. ASSUME NEW t \in Threads, Rerun(t) PROVE EventFit'
  BY <1>8 DEF Rerun, Owned, Goes, SetRow, Leaves, Freed
<1>9. ASSUME NEW t \in Threads, Conclude(t) PROVE EventFit'
  BY <1>9 DEF Conclude, Owned, SetRow, Leaves, Freed
<1>10. ASSUME NEW t \in Threads, Interrupt(t) PROVE EventFit'
  BY <1>10 DEF Interrupt, CutShort, Owned, Tell, Goes, SetRow, Leaves, Freed
<1>11. ASSUME NEW t \in Threads, Prepare(t) PROVE EventFit'
  BY <1>11 DEF Prepare, Owned, Goes, Leaves, Freed
<1>12. ASSUME NEW t \in Threads, Command(t) PROVE EventFit'
  BY <1>12 DEF Command, Tell, SetRow, Leaves, Freed
<1>13. ASSUME NEW t \in Threads, Seen(t) PROVE EventFit'
  BY <1>13 DEF Seen, Goes, SetRow, Leaves, Freed
<1>14. ASSUME NEW t \in Threads, Lock(t) PROVE EventFit'
  BY <1>14 DEF Lock, Leaves, Freed
<1>15. ASSUME NEW t \in Threads, Busy(t) PROVE EventFit'
  BY <1>15 DEF Busy, Trouble, Goes
<1>16. ASSUME NEW t \in Threads, Receipt(t) PROVE EventFit'
  BY <1>16 DEF Receipt, Goes
<1>17. ASSUME NEW t \in Threads, UserMessage(t) PROVE EventFit'
  BY <1>17 DEF UserMessage, Goes
<1>18. ASSUME NEW t \in Threads, Reply(t) PROVE EventFit'
  BY <1>18 DEF Reply, Goes
<1>19. ASSUME NEW t \in Threads, Raise(t) PROVE EventFit'
  BY <1>19 DEF Raise, Trouble, Goes
<1>20. ASSUME NEW t \in Threads, Finish(t) PROVE EventFit'
  BY <1>20 DEF Finish, Settles, Owned, SetRow, Leaves, Freed
<1>21. ASSUME NEW t \in Threads, Release(t) PROVE EventFit'
  BY <1>21 DEF Release, Settles, Owned, Goes, SetRow, Leaves, Freed
<1>22. ASSUME NEW t \in Threads, Fail(t) PROVE EventFit'
  BY <1>22 DEF Fail, Settles, Owned, Goes, SetRow, Leaves, Freed
<1>23. ASSUME NEW t \in Threads, Notify(t) PROVE EventFit'
  BY <1>23 DEF Notify, Tell, Leaves, Freed
<1>24. ASSUME NEW t \in Threads, Fault(t) PROVE EventFit'
  BY <1>24 DEF Fault, Trouble, Catcher, Thrown, Repolled, Untold
<1>25. ASSUME NEW t \in Threads, Look(t) PROVE EventFit'
  BY <1>25 DEF Look, Goes
<1>26. ASSUME NEW t \in Threads, Judge(t) PROVE EventFit'
  BY <1>26 DEF Judge, Verdict, Goes
<1>27. ASSUME NEW t \in Threads, Amend(t) PROVE EventFit'
  BY <1>27, AmendCases DEF Lost
<1>28. ASSUME NEW t \in Threads, Reset(t) PROVE EventFit'
  BY <1>28 DEF Reset, Owned, Lost, SetRow, Catcher, Thrown
<1>29. ASSUME NEW t \in Threads, Drop(t) PROVE EventFit'
  BY <1>29 DEF Drop, Owned, Lost, SetRow, Catcher, Thrown, Repolled
<1>30. CASE Poll
  BY <1>30 DEF Poll
<1>31. CASE Ack
  BY <1>31 DEF Ack
<1>32. CASE List
  BY <1>32 DEF List, Stale
<1>33. CASE Pause
  BY <1>33 DEF Pause, Trouble
<1>34. CASE Quiet
  BY <1>34 DEF Quiet
<1>35. CASE Resume
  BY <1>35 DEF Resume
<1>36. CASE Delete
  BY <1>36 DEF Delete
<1>37. CASE Crash
  BY <1>37 DEF Crash, Trouble, Untold
<1>38. CASE Restart
  BY <1>38 DEF Restart
<1>39. CASE UNCHANGED vars
  BY <1>39 DEF vars
<1>40. QED
  <2> HIDE DEF TypeOK, EventFit, Threads, Labels, Holding, Telling, Handling, Verdicts,
  Settled, bounds,
               fixed, rows, core, threads
  <2> QED
    BY <1>1, <1>2, <1>3, <1>4, <1>5, <1>6, <1>7, <1>8, <1>9, <1>10, <1>11, <1>12,
       <1>13, <1>14, <1>15, <1>16, <1>17, <1>18, <1>19, <1>20, <1>21, <1>22, <1>23,
       <1>24, <1>25, <1>26, <1>27, <1>28, <1>29, <1>30, <1>31, <1>32, <1>33, <1>34,
       <1>35, <1>36, <1>37, <1>38, <1>39
    DEF Next, Works

\* PlaceFit.
LEMMA PlaceStep ==
  ASSUME TypeOK, PlaceFit, ActiveFit, [Next]_vars
  PROVE  PlaceFit'
<1> USE IntakeAssumption DEF TypeOK, PlaceFit, ActiveFit, Inside, Staging, Threads,
            Labels, Holding, Telling, Handling, Verdicts, Settled, bounds, fixed, rows,
            core, threads
<1>1. ASSUME NEW e \in Events, Stage(e) PROVE PlaceFit'
  BY <1>1 DEF Stage, SetRow
<1>2. ASSUME NEW e \in Events, Expire(e) PROVE PlaceFit'
  BY <1>2 DEF Expire
<1>3. ASSUME NEW e \in Events, NEW t \in Threads, Take(t, e) PROVE PlaceFit'
  BY <1>3 DEF Take
<1>4. ASSUME NEW t \in Threads, Enter(t) PROVE PlaceFit'
  BY <1>4 DEF Enter, Admitted, Leaves, Freed
<1>5. ASSUME NEW t \in Threads, Claim(t) PROVE PlaceFit'
  BY <1>5 DEF Claim, Goes, SetRow, Leaves, Freed
<1>6. ASSUME NEW t \in Threads, Recover(t) PROVE PlaceFit'
  BY <1>6 DEF Recover, Stale, Goes, SetRow, Leaves, Freed
<1>7. ASSUME NEW t \in Threads, Register(t) PROVE PlaceFit'
  BY <1>7 DEF Register, Stale, Goes, SetRow, Leaves, Freed
<1>8. ASSUME NEW t \in Threads, Rerun(t) PROVE PlaceFit'
  BY <1>8 DEF Rerun, Owned, Goes, SetRow, Leaves, Freed
<1>9. ASSUME NEW t \in Threads, Conclude(t) PROVE PlaceFit'
  BY <1>9 DEF Conclude, Owned, SetRow, Leaves, Freed
<1>10. ASSUME NEW t \in Threads, Interrupt(t) PROVE PlaceFit'
  BY <1>10 DEF Interrupt, CutShort, Owned, Tell, Goes, SetRow, Leaves, Freed
<1>11. ASSUME NEW t \in Threads, Prepare(t) PROVE PlaceFit'
  BY <1>11 DEF Prepare, Owned, Goes, Leaves, Freed
<1>12. ASSUME NEW t \in Threads, Command(t) PROVE PlaceFit'
  BY <1>12 DEF Command, Tell, SetRow, Leaves, Freed
<1>13. ASSUME NEW t \in Threads, Seen(t) PROVE PlaceFit'
  BY <1>13 DEF Seen, Goes, SetRow, Leaves, Freed
<1>14. ASSUME NEW t \in Threads, Lock(t) PROVE PlaceFit'
  BY <1>14 DEF Lock, Leaves, Freed
<1>15. ASSUME NEW t \in Threads, Busy(t) PROVE PlaceFit'
  BY <1>15 DEF Busy, Trouble, Goes
<1>16. ASSUME NEW t \in Threads, Receipt(t) PROVE PlaceFit'
  BY <1>16 DEF Receipt, Goes
<1>17. ASSUME NEW t \in Threads, UserMessage(t) PROVE PlaceFit'
  BY <1>17 DEF UserMessage, Goes
<1>18. ASSUME NEW t \in Threads, Reply(t) PROVE PlaceFit'
  BY <1>18 DEF Reply, Goes
<1>19. ASSUME NEW t \in Threads, Raise(t) PROVE PlaceFit'
  BY <1>19 DEF Raise, Trouble, Goes
<1>20. ASSUME NEW t \in Threads, Finish(t) PROVE PlaceFit'
  BY <1>20 DEF Finish, Settles, Owned, SetRow, Leaves, Freed
<1>21. ASSUME NEW t \in Threads, Release(t) PROVE PlaceFit'
  BY <1>21 DEF Release, Settles, Owned, Goes, SetRow, Leaves, Freed
<1>22. ASSUME NEW t \in Threads, Fail(t) PROVE PlaceFit'
  BY <1>22 DEF Fail, Settles, Owned, Goes, SetRow, Leaves, Freed
<1>23. ASSUME NEW t \in Threads, Notify(t) PROVE PlaceFit'
  BY <1>23 DEF Notify, Tell, Leaves, Freed
<1>24. ASSUME NEW t \in Threads, Fault(t) PROVE PlaceFit'
  BY <1>24 DEF Fault, Trouble, Catcher, Thrown, Repolled, Untold
<1>25. ASSUME NEW t \in Threads, Look(t) PROVE PlaceFit'
  BY <1>25 DEF Look, Goes
<1>26. ASSUME NEW t \in Threads, Judge(t) PROVE PlaceFit'
  BY <1>26 DEF Judge, Verdict, Goes
<1>27. ASSUME NEW t \in Threads, Amend(t) PROVE PlaceFit'
  BY <1>27, AmendCases DEF Lost
<1>28. ASSUME NEW t \in Threads, Reset(t) PROVE PlaceFit'
  BY <1>28 DEF Reset, Owned, Lost, SetRow, Catcher, Thrown
<1>29. ASSUME NEW t \in Threads, Drop(t) PROVE PlaceFit'
  BY <1>29 DEF Drop, Owned, Lost, SetRow, Catcher, Thrown, Repolled
<1>30. CASE Poll
  BY <1>30 DEF Poll
<1>31. CASE Ack
  BY <1>31 DEF Ack
<1>32. CASE List
  BY <1>32 DEF List, Stale
<1>33. CASE Pause
  BY <1>33 DEF Pause, Trouble
<1>34. CASE Quiet
  BY <1>34 DEF Quiet
<1>35. CASE Resume
  BY <1>35 DEF Resume
<1>36. CASE Delete
  BY <1>36 DEF Delete
<1>37. CASE Crash
  BY <1>37 DEF Crash, Trouble, Untold
<1>38. CASE Restart
  BY <1>38 DEF Restart
<1>39. CASE UNCHANGED vars
  BY <1>39 DEF vars
<1>40. QED
  <2> HIDE DEF TypeOK, PlaceFit, ActiveFit, Threads
  <2> QED
    BY <1>1, <1>2, <1>3, <1>4, <1>5, <1>6, <1>7, <1>8, <1>9, <1>10, <1>11, <1>12,
       <1>13, <1>14, <1>15, <1>16, <1>17, <1>18, <1>19, <1>20, <1>21, <1>22, <1>23,
       <1>24, <1>25, <1>26, <1>27, <1>28, <1>29, <1>30, <1>31, <1>32, <1>33, <1>34,
       <1>35, <1>36, <1>37, <1>38, <1>39
    DEF Next, Works

\* ActiveFit.
LEMMA ActiveStep ==
  ASSUME TypeOK, ActiveFit, PlaceFit, DownFit, [Next]_vars
  PROVE  ActiveFit'
<1> USE IntakeAssumption DEF TypeOK, ActiveFit, PlaceFit, DownFit, Inside, Staging,
            Threads, Labels, Holding, Telling, Handling, Verdicts, Settled, bounds,
            fixed, rows, core,
            threads
<1>1. ASSUME NEW e \in Events, Stage(e) PROVE ActiveFit'
  BY <1>1 DEF Stage, SetRow
<1>2. ASSUME NEW e \in Events, Expire(e) PROVE ActiveFit'
  BY <1>2 DEF Expire
<1>3. ASSUME NEW e \in Events, NEW t \in Threads, Take(t, e) PROVE ActiveFit'
  BY <1>3 DEF Take
<1>4. ASSUME NEW t \in Threads, Enter(t) PROVE ActiveFit'
  BY <1>4 DEF Enter, Admitted, Leaves, Freed
<1>5. ASSUME NEW t \in Threads, Claim(t) PROVE ActiveFit'
  BY <1>5 DEF Claim, Goes, SetRow, Leaves, Freed
<1>6. ASSUME NEW t \in Threads, Recover(t) PROVE ActiveFit'
  BY <1>6 DEF Recover, Stale, Goes, SetRow, Leaves, Freed
<1>7. ASSUME NEW t \in Threads, Register(t) PROVE ActiveFit'
  BY <1>7 DEF Register, Stale, Goes, SetRow, Leaves, Freed
<1>8. ASSUME NEW t \in Threads, Rerun(t) PROVE ActiveFit'
  BY <1>8 DEF Rerun, Owned, Goes, SetRow, Leaves, Freed
<1>9. ASSUME NEW t \in Threads, Conclude(t) PROVE ActiveFit'
  BY <1>9 DEF Conclude, Owned, SetRow, Leaves, Freed
<1>10. ASSUME NEW t \in Threads, Interrupt(t) PROVE ActiveFit'
  BY <1>10 DEF Interrupt, CutShort, Owned, Tell, Goes, SetRow, Leaves, Freed
<1>11. ASSUME NEW t \in Threads, Prepare(t) PROVE ActiveFit'
  BY <1>11 DEF Prepare, Owned, Goes, Leaves, Freed
<1>12. ASSUME NEW t \in Threads, Command(t) PROVE ActiveFit'
  BY <1>12 DEF Command, Tell, SetRow, Leaves, Freed
<1>13. ASSUME NEW t \in Threads, Seen(t) PROVE ActiveFit'
  BY <1>13 DEF Seen, Goes, SetRow, Leaves, Freed
<1>14. ASSUME NEW t \in Threads, Lock(t) PROVE ActiveFit'
  BY <1>14 DEF Lock, Leaves, Freed
<1>15. ASSUME NEW t \in Threads, Busy(t) PROVE ActiveFit'
  BY <1>15 DEF Busy, Trouble, Goes
<1>16. ASSUME NEW t \in Threads, Receipt(t) PROVE ActiveFit'
  BY <1>16 DEF Receipt, Goes
<1>17. ASSUME NEW t \in Threads, UserMessage(t) PROVE ActiveFit'
  BY <1>17 DEF UserMessage, Goes
<1>18. ASSUME NEW t \in Threads, Reply(t) PROVE ActiveFit'
  BY <1>18 DEF Reply, Goes
<1>19. ASSUME NEW t \in Threads, Raise(t) PROVE ActiveFit'
  BY <1>19 DEF Raise, Trouble, Goes
<1>20. ASSUME NEW t \in Threads, Finish(t) PROVE ActiveFit'
  BY <1>20 DEF Finish, Settles, Owned, SetRow, Leaves, Freed
<1>21. ASSUME NEW t \in Threads, Release(t) PROVE ActiveFit'
  BY <1>21 DEF Release, Settles, Owned, Goes, SetRow, Leaves, Freed
<1>22. ASSUME NEW t \in Threads, Fail(t) PROVE ActiveFit'
  BY <1>22 DEF Fail, Settles, Owned, Goes, SetRow, Leaves, Freed
<1>23. ASSUME NEW t \in Threads, Notify(t) PROVE ActiveFit'
  BY <1>23 DEF Notify, Tell, Leaves, Freed
<1>24. ASSUME NEW t \in Threads, Fault(t) PROVE ActiveFit'
  BY <1>24 DEF Fault, Trouble, Catcher, Thrown, Repolled, Untold
<1>25. ASSUME NEW t \in Threads, Look(t) PROVE ActiveFit'
  BY <1>25 DEF Look, Goes
<1>26. ASSUME NEW t \in Threads, Judge(t) PROVE ActiveFit'
  BY <1>26 DEF Judge, Verdict, Goes
<1>27. ASSUME NEW t \in Threads, Amend(t) PROVE ActiveFit'
  BY <1>27, AmendCases DEF Lost
<1>28. ASSUME NEW t \in Threads, Reset(t) PROVE ActiveFit'
  BY <1>28 DEF Reset, Owned, Lost, SetRow, Catcher, Thrown
<1>29. ASSUME NEW t \in Threads, Drop(t) PROVE ActiveFit'
  BY <1>29 DEF Drop, Owned, Lost, SetRow, Catcher, Thrown, Repolled
<1>30. CASE Poll
  BY <1>30 DEF Poll
<1>31. CASE Ack
  BY <1>31 DEF Ack
<1>32. CASE List
  BY <1>32 DEF List, Stale
<1>33. CASE Pause
  BY <1>33 DEF Pause, Trouble
<1>34. CASE Quiet
  BY <1>34 DEF Quiet
<1>35. CASE Resume
  BY <1>35 DEF Resume
<1>36. CASE Delete
  BY <1>36 DEF Delete
<1>37. CASE Crash
  BY <1>37 DEF Crash, Trouble, Untold
<1>38. CASE Restart
  BY <1>38 DEF Restart
<1>39. CASE UNCHANGED vars
  BY <1>39 DEF vars
<1>40. QED
  <2> HIDE DEF TypeOK, ActiveFit, PlaceFit, DownFit, Threads
  <2> QED
    BY <1>1, <1>2, <1>3, <1>4, <1>5, <1>6, <1>7, <1>8, <1>9, <1>10, <1>11, <1>12,
       <1>13, <1>14, <1>15, <1>16, <1>17, <1>18, <1>19, <1>20, <1>21, <1>22, <1>23,
       <1>24, <1>25, <1>26, <1>27, <1>28, <1>29, <1>30, <1>31, <1>32, <1>33, <1>34,
       <1>35, <1>36, <1>37, <1>38, <1>39
    DEF Next, Works

\* PausedFit.
LEMMA PausedStep ==
  ASSUME TypeOK, PausedFit, PlaceFit, [Next]_vars
  PROVE  PausedFit'
<1> USE IntakeAssumption DEF TypeOK, PausedFit, PlaceFit, Staging, Threads, Labels,
            Holding, Telling, Handling, Verdicts, Settled, bounds, fixed, rows, core,
            threads
<1>1. ASSUME NEW e \in Events, Stage(e) PROVE PausedFit'
  BY <1>1 DEF Stage, SetRow
<1>2. ASSUME NEW e \in Events, Expire(e) PROVE PausedFit'
  BY <1>2 DEF Expire
<1>3. ASSUME NEW e \in Events, NEW t \in Threads, Take(t, e) PROVE PausedFit'
  BY <1>3 DEF Take
<1>4. ASSUME NEW t \in Threads, Enter(t) PROVE PausedFit'
  BY <1>4 DEF Enter, Admitted, Leaves, Freed
<1>5. ASSUME NEW t \in Threads, Claim(t) PROVE PausedFit'
  BY <1>5 DEF Claim, Goes, SetRow, Leaves, Freed
<1>6. ASSUME NEW t \in Threads, Recover(t) PROVE PausedFit'
  BY <1>6 DEF Recover, Stale, Goes, SetRow, Leaves, Freed
<1>7. ASSUME NEW t \in Threads, Register(t) PROVE PausedFit'
  BY <1>7 DEF Register, Stale, Goes, SetRow, Leaves, Freed
<1>8. ASSUME NEW t \in Threads, Rerun(t) PROVE PausedFit'
  BY <1>8 DEF Rerun, Owned, Goes, SetRow, Leaves, Freed
<1>9. ASSUME NEW t \in Threads, Conclude(t) PROVE PausedFit'
  BY <1>9 DEF Conclude, Owned, SetRow, Leaves, Freed
<1>10. ASSUME NEW t \in Threads, Interrupt(t) PROVE PausedFit'
  BY <1>10 DEF Interrupt, CutShort, Owned, Tell, Goes, SetRow, Leaves, Freed
<1>11. ASSUME NEW t \in Threads, Prepare(t) PROVE PausedFit'
  BY <1>11 DEF Prepare, Owned, Goes, Leaves, Freed
<1>12. ASSUME NEW t \in Threads, Command(t) PROVE PausedFit'
  BY <1>12 DEF Command, Tell, SetRow, Leaves, Freed
<1>13. ASSUME NEW t \in Threads, Seen(t) PROVE PausedFit'
  BY <1>13 DEF Seen, Goes, SetRow, Leaves, Freed
<1>14. ASSUME NEW t \in Threads, Lock(t) PROVE PausedFit'
  BY <1>14 DEF Lock, Leaves, Freed
<1>15. ASSUME NEW t \in Threads, Busy(t) PROVE PausedFit'
  BY <1>15 DEF Busy, Trouble, Goes
<1>16. ASSUME NEW t \in Threads, Receipt(t) PROVE PausedFit'
  BY <1>16 DEF Receipt, Goes
<1>17. ASSUME NEW t \in Threads, UserMessage(t) PROVE PausedFit'
  BY <1>17 DEF UserMessage, Goes
<1>18. ASSUME NEW t \in Threads, Reply(t) PROVE PausedFit'
  BY <1>18 DEF Reply, Goes
<1>19. ASSUME NEW t \in Threads, Raise(t) PROVE PausedFit'
  BY <1>19 DEF Raise, Trouble, Goes
<1>20. ASSUME NEW t \in Threads, Finish(t) PROVE PausedFit'
  BY <1>20 DEF Finish, Settles, Owned, SetRow, Leaves, Freed
<1>21. ASSUME NEW t \in Threads, Release(t) PROVE PausedFit'
  BY <1>21 DEF Release, Settles, Owned, Goes, SetRow, Leaves, Freed
<1>22. ASSUME NEW t \in Threads, Fail(t) PROVE PausedFit'
  BY <1>22 DEF Fail, Settles, Owned, Goes, SetRow, Leaves, Freed
<1>23. ASSUME NEW t \in Threads, Notify(t) PROVE PausedFit'
  BY <1>23 DEF Notify, Tell, Leaves, Freed
<1>24. ASSUME NEW t \in Threads, Fault(t) PROVE PausedFit'
  BY <1>24 DEF Fault, Trouble, Catcher, Thrown, Repolled, Untold
<1>25. ASSUME NEW t \in Threads, Look(t) PROVE PausedFit'
  BY <1>25 DEF Look, Goes
<1>26. ASSUME NEW t \in Threads, Judge(t) PROVE PausedFit'
  BY <1>26 DEF Judge, Verdict, Goes
<1>27. ASSUME NEW t \in Threads, Amend(t) PROVE PausedFit'
  BY <1>27, AmendCases DEF Lost
<1>28. ASSUME NEW t \in Threads, Reset(t) PROVE PausedFit'
  BY <1>28 DEF Reset, Owned, Lost, SetRow, Catcher, Thrown
<1>29. ASSUME NEW t \in Threads, Drop(t) PROVE PausedFit'
  BY <1>29 DEF Drop, Owned, Lost, SetRow, Catcher, Thrown, Repolled
<1>30. CASE Poll
  BY <1>30 DEF Poll
<1>31. CASE Ack
  BY <1>31 DEF Ack
<1>32. CASE List
  BY <1>32 DEF List, Stale
<1>33. CASE Pause
  BY <1>33 DEF Pause, Trouble
<1>34. CASE Quiet
  BY <1>34 DEF Quiet
<1>35. CASE Resume
  BY <1>35 DEF Resume
<1>36. CASE Delete
  BY <1>36 DEF Delete
<1>37. CASE Crash
  BY <1>37 DEF Crash, Trouble, Untold
<1>38. CASE Restart
  BY <1>38 DEF Restart
<1>39. CASE UNCHANGED vars
  BY <1>39 DEF vars
<1>40. QED
  <2> HIDE DEF TypeOK, PausedFit, PlaceFit, Staging, Threads, Labels, Holding, Telling,
  Handling, Verdicts,
               Settled, bounds, fixed, rows, core, threads
  <2> QED
    BY <1>1, <1>2, <1>3, <1>4, <1>5, <1>6, <1>7, <1>8, <1>9, <1>10, <1>11, <1>12,
       <1>13, <1>14, <1>15, <1>16, <1>17, <1>18, <1>19, <1>20, <1>21, <1>22, <1>23,
       <1>24, <1>25, <1>26, <1>27, <1>28, <1>29, <1>30, <1>31, <1>32, <1>33, <1>34,
       <1>35, <1>36, <1>37, <1>38, <1>39
    DEF Next, Works

\* DownFit.
LEMMA DownStep ==
  ASSUME TypeOK, DownFit, [Next]_vars
  PROVE  DownFit'
<1> USE IntakeAssumption DEF TypeOK, DownFit, Staging, Threads, Labels, Holding,
            Telling, Handling, Verdicts, Settled, bounds, fixed, rows, core, threads
<1>1. ASSUME NEW e \in Events, Stage(e) PROVE DownFit'
  BY <1>1 DEF Stage, SetRow
<1>2. ASSUME NEW e \in Events, Expire(e) PROVE DownFit'
  BY <1>2 DEF Expire
<1>3. ASSUME NEW e \in Events, NEW t \in Threads, Take(t, e) PROVE DownFit'
  BY <1>3 DEF Take
<1>4. ASSUME NEW t \in Threads, Enter(t) PROVE DownFit'
  BY <1>4 DEF Enter, Admitted, Leaves, Freed
<1>5. ASSUME NEW t \in Threads, Claim(t) PROVE DownFit'
  BY <1>5 DEF Claim, Goes, SetRow, Leaves, Freed
<1>6. ASSUME NEW t \in Threads, Recover(t) PROVE DownFit'
  BY <1>6 DEF Recover, Stale, Goes, SetRow, Leaves, Freed
<1>7. ASSUME NEW t \in Threads, Register(t) PROVE DownFit'
  BY <1>7 DEF Register, Stale, Goes, SetRow, Leaves, Freed
<1>8. ASSUME NEW t \in Threads, Rerun(t) PROVE DownFit'
  BY <1>8 DEF Rerun, Owned, Goes, SetRow, Leaves, Freed
<1>9. ASSUME NEW t \in Threads, Conclude(t) PROVE DownFit'
  BY <1>9 DEF Conclude, Owned, SetRow, Leaves, Freed
<1>10. ASSUME NEW t \in Threads, Interrupt(t) PROVE DownFit'
  BY <1>10 DEF Interrupt, CutShort, Owned, Tell, Goes, SetRow, Leaves, Freed
<1>11. ASSUME NEW t \in Threads, Prepare(t) PROVE DownFit'
  BY <1>11 DEF Prepare, Owned, Goes, Leaves, Freed
<1>12. ASSUME NEW t \in Threads, Command(t) PROVE DownFit'
  BY <1>12 DEF Command, Tell, SetRow, Leaves, Freed
<1>13. ASSUME NEW t \in Threads, Seen(t) PROVE DownFit'
  BY <1>13 DEF Seen, Goes, SetRow, Leaves, Freed
<1>14. ASSUME NEW t \in Threads, Lock(t) PROVE DownFit'
  BY <1>14 DEF Lock, Leaves, Freed
<1>15. ASSUME NEW t \in Threads, Busy(t) PROVE DownFit'
  BY <1>15 DEF Busy, Trouble, Goes
<1>16. ASSUME NEW t \in Threads, Receipt(t) PROVE DownFit'
  BY <1>16 DEF Receipt, Goes
<1>17. ASSUME NEW t \in Threads, UserMessage(t) PROVE DownFit'
  BY <1>17 DEF UserMessage, Goes
<1>18. ASSUME NEW t \in Threads, Reply(t) PROVE DownFit'
  BY <1>18 DEF Reply, Goes
<1>19. ASSUME NEW t \in Threads, Raise(t) PROVE DownFit'
  BY <1>19 DEF Raise, Trouble, Goes
<1>20. ASSUME NEW t \in Threads, Finish(t) PROVE DownFit'
  BY <1>20 DEF Finish, Settles, Owned, SetRow, Leaves, Freed
<1>21. ASSUME NEW t \in Threads, Release(t) PROVE DownFit'
  BY <1>21 DEF Release, Settles, Owned, Goes, SetRow, Leaves, Freed
<1>22. ASSUME NEW t \in Threads, Fail(t) PROVE DownFit'
  BY <1>22 DEF Fail, Settles, Owned, Goes, SetRow, Leaves, Freed
<1>23. ASSUME NEW t \in Threads, Notify(t) PROVE DownFit'
  BY <1>23 DEF Notify, Tell, Leaves, Freed
<1>24. ASSUME NEW t \in Threads, Fault(t) PROVE DownFit'
  BY <1>24 DEF Fault, Trouble, Catcher, Thrown, Repolled, Untold
<1>25. ASSUME NEW t \in Threads, Look(t) PROVE DownFit'
  BY <1>25 DEF Look, Goes
<1>26. ASSUME NEW t \in Threads, Judge(t) PROVE DownFit'
  BY <1>26 DEF Judge, Verdict, Goes
<1>27. ASSUME NEW t \in Threads, Amend(t) PROVE DownFit'
  BY <1>27, AmendCases DEF Lost
<1>28. ASSUME NEW t \in Threads, Reset(t) PROVE DownFit'
  BY <1>28 DEF Reset, Owned, Lost, SetRow, Catcher, Thrown
<1>29. ASSUME NEW t \in Threads, Drop(t) PROVE DownFit'
  BY <1>29 DEF Drop, Owned, Lost, SetRow, Catcher, Thrown, Repolled
<1>30. CASE Poll
  BY <1>30 DEF Poll
<1>31. CASE Ack
  BY <1>31 DEF Ack
<1>32. CASE List
  BY <1>32 DEF List, Stale
<1>33. CASE Pause
  BY <1>33 DEF Pause, Trouble
<1>34. CASE Quiet
  BY <1>34 DEF Quiet
<1>35. CASE Resume
  BY <1>35 DEF Resume
<1>36. CASE Delete
  BY <1>36 DEF Delete
<1>37. CASE Crash
  BY <1>37 DEF Crash, Trouble, Untold
<1>38. CASE Restart
  BY <1>38 DEF Restart
<1>39. CASE UNCHANGED vars
  BY <1>39 DEF vars
<1>40. QED
  <2> HIDE DEF TypeOK, DownFit, Staging, Threads, Labels, Holding, Telling, Handling,
  Verdicts, Settled,
               bounds, fixed, rows, core, threads
  <2> QED
    BY <1>1, <1>2, <1>3, <1>4, <1>5, <1>6, <1>7, <1>8, <1>9, <1>10, <1>11, <1>12,
       <1>13, <1>14, <1>15, <1>16, <1>17, <1>18, <1>19, <1>20, <1>21, <1>22, <1>23,
       <1>24, <1>25, <1>26, <1>27, <1>28, <1>29, <1>30, <1>31, <1>32, <1>33, <1>34,
       <1>35, <1>36, <1>37, <1>38, <1>39
    DEF Next, Works

\* OwnerFit.
LEMMA OwnerStep ==
  ASSUME TypeOK, EventFit, PlaceFit, ActiveFit, PausedFit, DownFit, OwnerFit,
         RowFit, [Next]_vars
  PROVE  OwnerFit'
<1> USE IntakeAssumption DEF TypeOK, EventFit, PlaceFit, ActiveFit, PausedFit, DownFit,
            OwnerFit, RowFit, Inside, Staging, Own, Passed, Owned, Threads,
            Labels, Holding, Telling, Handling, Verdicts, Settled, bounds, fixed, rows,
            core, threads
<1>1. ASSUME NEW e \in Events, Stage(e) PROVE OwnerFit'
  BY <1>1 DEF Stage, SetRow
<1>2. ASSUME NEW e \in Events, Expire(e) PROVE OwnerFit'
  BY <1>2 DEF Expire
<1>3. ASSUME NEW e \in Events, NEW t \in Threads, Take(t, e) PROVE OwnerFit'
  BY <1>3 DEF Take
<1>4. ASSUME NEW t \in Threads, Enter(t) PROVE OwnerFit'
  BY <1>4 DEF Enter, Admitted, Leaves, Freed
<1>5. ASSUME NEW t \in Threads, Claim(t) PROVE OwnerFit'
  BY <1>5 DEF Claim, Goes, SetRow, Leaves, Freed
<1>6. ASSUME NEW t \in Threads, Recover(t) PROVE OwnerFit'
  BY <1>6 DEF Recover, Stale, Goes, SetRow, Leaves, Freed
<1>7. ASSUME NEW t \in Threads, Register(t) PROVE OwnerFit'
  BY <1>7 DEF Register, Stale, Goes, SetRow, Leaves, Freed
<1>8. ASSUME NEW t \in Threads, Rerun(t) PROVE OwnerFit'
  BY <1>8 DEF Rerun, Owned, Goes, SetRow, Leaves, Freed
<1>9. ASSUME NEW t \in Threads, Conclude(t) PROVE OwnerFit'
  BY <1>9 DEF Conclude, Owned, SetRow, Leaves, Freed
<1>10. ASSUME NEW t \in Threads, Interrupt(t) PROVE OwnerFit'
  BY <1>10 DEF Interrupt, CutShort, Owned, Tell, Goes, SetRow, Leaves, Freed
<1>11. ASSUME NEW t \in Threads, Prepare(t) PROVE OwnerFit'
  BY <1>11 DEF Prepare, Owned, Goes, Leaves, Freed
<1>12. ASSUME NEW t \in Threads, Command(t) PROVE OwnerFit'
  BY <1>12 DEF Command, Tell, SetRow, Leaves, Freed
<1>13. ASSUME NEW t \in Threads, Seen(t) PROVE OwnerFit'
  BY <1>13 DEF Seen, Goes, SetRow, Leaves, Freed
<1>14. ASSUME NEW t \in Threads, Lock(t) PROVE OwnerFit'
  BY <1>14 DEF Lock, Leaves, Freed
<1>15. ASSUME NEW t \in Threads, Busy(t) PROVE OwnerFit'
  BY <1>15 DEF Busy, Trouble, Goes
<1>16. ASSUME NEW t \in Threads, Receipt(t) PROVE OwnerFit'
  BY <1>16 DEF Receipt, Goes
<1>17. ASSUME NEW t \in Threads, UserMessage(t) PROVE OwnerFit'
  BY <1>17 DEF UserMessage, Goes
<1>18. ASSUME NEW t \in Threads, Reply(t) PROVE OwnerFit'
  BY <1>18 DEF Reply, Goes
<1>19. ASSUME NEW t \in Threads, Raise(t) PROVE OwnerFit'
  BY <1>19 DEF Raise, Trouble, Goes
<1>20. ASSUME NEW t \in Threads, Finish(t) PROVE OwnerFit'
  BY <1>20 DEF Finish, Settles, Owned, SetRow, Leaves, Freed
<1>21. ASSUME NEW t \in Threads, Release(t) PROVE OwnerFit'
  BY <1>21 DEF Release, Settles, Owned, Goes, SetRow, Leaves, Freed
<1>22. ASSUME NEW t \in Threads, Fail(t) PROVE OwnerFit'
  BY <1>22 DEF Fail, Settles, Owned, Goes, SetRow, Leaves, Freed
<1>23. ASSUME NEW t \in Threads, Notify(t) PROVE OwnerFit'
  BY <1>23 DEF Notify, Tell, Leaves, Freed
<1>24. ASSUME NEW t \in Threads, Fault(t) PROVE OwnerFit'
  BY <1>24 DEF Fault, Trouble, Catcher, Thrown, Repolled, Untold
<1>25. ASSUME NEW t \in Threads, Look(t) PROVE OwnerFit'
  BY <1>25 DEF Look, Goes
<1>26. ASSUME NEW t \in Threads, Judge(t) PROVE OwnerFit'
  BY <1>26 DEF Judge, Verdict, Goes
<1>27. ASSUME NEW t \in Threads, Amend(t) PROVE OwnerFit'
  BY <1>27, AmendCases DEF Lost
<1>28. ASSUME NEW t \in Threads, Reset(t) PROVE OwnerFit'
  BY <1>28 DEF Reset, Owned, Lost, SetRow, Catcher, Thrown
<1>29. ASSUME NEW t \in Threads, Drop(t) PROVE OwnerFit'
  BY <1>29 DEF Drop, Owned, Lost, SetRow, Catcher, Thrown, Repolled
<1>30. CASE Poll
  BY <1>30 DEF Poll
<1>31. CASE Ack
  BY <1>31 DEF Ack
<1>32. CASE List
  BY <1>32 DEF List, Stale
<1>33. CASE Pause
  BY <1>33 DEF Pause, Trouble
<1>34. CASE Quiet
  BY <1>34 DEF Quiet
<1>35. CASE Resume
  BY <1>35 DEF Resume
<1>36. CASE Delete
  BY <1>36 DEF Delete
<1>37. CASE Crash
  BY <1>37 DEF Crash, Trouble, Untold
<1>38. CASE Restart
  BY <1>38 DEF Restart
<1>39. CASE UNCHANGED vars
  BY <1>39 DEF vars
<1>40. QED
  <2> HIDE DEF TypeOK, EventFit, PlaceFit, ActiveFit, PausedFit, DownFit, OwnerFit,
             RowFit, Threads
  <2> QED
    BY <1>1, <1>2, <1>3, <1>4, <1>5, <1>6, <1>7, <1>8, <1>9, <1>10, <1>11, <1>12,
       <1>13, <1>14, <1>15, <1>16, <1>17, <1>18, <1>19, <1>20, <1>21, <1>22, <1>23,
       <1>24, <1>25, <1>26, <1>27, <1>28, <1>29, <1>30, <1>31, <1>32, <1>33, <1>34,
       <1>35, <1>36, <1>37, <1>38, <1>39
    DEF Next, Works

\* OneWorker.
LEMMA Worker == OwnerFit => OneWorker
  BY DEF OwnerFit, OneWorker, Own, Passed, Holding

\* RowFit.
LEMMA RowStep ==
  ASSUME TypeOK, EventFit, PlaceFit, ActiveFit, PausedFit, DownFit, OwnerFit,
         RowFit, [Next]_vars
  PROVE  RowFit'
<1> USE IntakeAssumption DEF TypeOK, EventFit, PlaceFit, ActiveFit, PausedFit, DownFit,
            OwnerFit, RowFit, Inside, Staging, Own, Passed, Owned, Threads,
            Labels, Holding, Telling, Handling, Verdicts, Settled, bounds, fixed, rows,
            core, threads
<1>1. ASSUME NEW e \in Events, Stage(e) PROVE RowFit'
  BY <1>1 DEF Stage, SetRow
<1>2. ASSUME NEW e \in Events, Expire(e) PROVE RowFit'
  BY <1>2 DEF Expire
<1>3. ASSUME NEW e \in Events, NEW t \in Threads, Take(t, e) PROVE RowFit'
  BY <1>3 DEF Take
<1>4. ASSUME NEW t \in Threads, Enter(t) PROVE RowFit'
  BY <1>4 DEF Enter, Admitted, Leaves, Freed
<1>5. ASSUME NEW t \in Threads, Claim(t) PROVE RowFit'
  BY <1>5 DEF Claim, Goes, SetRow, Leaves, Freed
<1>6. ASSUME NEW t \in Threads, Recover(t) PROVE RowFit'
  BY <1>6 DEF Recover, Stale, Goes, SetRow, Leaves, Freed
<1>7. ASSUME NEW t \in Threads, Register(t) PROVE RowFit'
  BY <1>7 DEF Register, Stale, Goes, SetRow, Leaves, Freed
<1>8. ASSUME NEW t \in Threads, Rerun(t) PROVE RowFit'
  BY <1>8 DEF Rerun, Owned, Goes, SetRow, Leaves, Freed
<1>9. ASSUME NEW t \in Threads, Conclude(t) PROVE RowFit'
  BY <1>9 DEF Conclude, Owned, SetRow, Leaves, Freed
<1>10. ASSUME NEW t \in Threads, Interrupt(t) PROVE RowFit'
  BY <1>10 DEF Interrupt, CutShort, Owned, Tell, Goes, SetRow, Leaves, Freed
<1>11. ASSUME NEW t \in Threads, Prepare(t) PROVE RowFit'
  BY <1>11 DEF Prepare, Owned, Goes, Leaves, Freed
<1>12. ASSUME NEW t \in Threads, Command(t) PROVE RowFit'
  BY <1>12 DEF Command, Tell, SetRow, Leaves, Freed
<1>13. ASSUME NEW t \in Threads, Seen(t) PROVE RowFit'
  BY <1>13 DEF Seen, Goes, SetRow, Leaves, Freed
<1>14. ASSUME NEW t \in Threads, Lock(t) PROVE RowFit'
  BY <1>14 DEF Lock, Leaves, Freed
<1>15. ASSUME NEW t \in Threads, Busy(t) PROVE RowFit'
  BY <1>15 DEF Busy, Trouble, Goes
<1>16. ASSUME NEW t \in Threads, Receipt(t) PROVE RowFit'
  BY <1>16 DEF Receipt, Goes
<1>17. ASSUME NEW t \in Threads, UserMessage(t) PROVE RowFit'
  BY <1>17 DEF UserMessage, Goes
<1>18. ASSUME NEW t \in Threads, Reply(t) PROVE RowFit'
  BY <1>18 DEF Reply, Goes
<1>19. ASSUME NEW t \in Threads, Raise(t) PROVE RowFit'
  BY <1>19 DEF Raise, Trouble, Goes
<1>20. ASSUME NEW t \in Threads, Finish(t) PROVE RowFit'
  BY <1>20 DEF Finish, Settles, Owned, SetRow, Leaves, Freed
<1>21. ASSUME NEW t \in Threads, Release(t) PROVE RowFit'
  BY <1>21 DEF Release, Settles, Owned, Goes, SetRow, Leaves, Freed
<1>22. ASSUME NEW t \in Threads, Fail(t) PROVE RowFit'
  BY <1>22 DEF Fail, Settles, Owned, Goes, SetRow, Leaves, Freed
<1>23. ASSUME NEW t \in Threads, Notify(t) PROVE RowFit'
  BY <1>23 DEF Notify, Tell, Leaves, Freed
<1>24. ASSUME NEW t \in Threads, Fault(t) PROVE RowFit'
  BY <1>24 DEF Fault, Trouble, Catcher, Thrown, Repolled, Untold
<1>25. ASSUME NEW t \in Threads, Look(t) PROVE RowFit'
  BY <1>25 DEF Look, Goes
<1>26. ASSUME NEW t \in Threads, Judge(t) PROVE RowFit'
  BY <1>26 DEF Judge, Verdict, Goes
<1>27. ASSUME NEW t \in Threads, Amend(t) PROVE RowFit'
  BY <1>27, AmendCases DEF Lost
<1>28. ASSUME NEW t \in Threads, Reset(t) PROVE RowFit'
  BY <1>28 DEF Reset, Owned, Lost, SetRow, Catcher, Thrown
<1>29. ASSUME NEW t \in Threads, Drop(t) PROVE RowFit'
  BY <1>29 DEF Drop, Owned, Lost, SetRow, Catcher, Thrown, Repolled
<1>30. CASE Poll
  BY <1>30 DEF Poll
<1>31. CASE Ack
  BY <1>31 DEF Ack
<1>32. CASE List
  BY <1>32 DEF List, Stale
<1>33. CASE Pause
  BY <1>33 DEF Pause, Trouble
<1>34. CASE Quiet
  BY <1>34 DEF Quiet
<1>35. CASE Resume
  BY <1>35 DEF Resume
<1>36. CASE Delete
  BY <1>36 DEF Delete
<1>37. CASE Crash
  BY <1>37 DEF Crash, Trouble, Untold
<1>38. CASE Restart
  BY <1>38 DEF Restart
<1>39. CASE UNCHANGED vars
  BY <1>39 DEF vars
<1>40. QED
  <2> HIDE DEF TypeOK, EventFit, PlaceFit, ActiveFit, PausedFit, DownFit, OwnerFit,
             RowFit, Threads
  <2> QED
    BY <1>1, <1>2, <1>3, <1>4, <1>5, <1>6, <1>7, <1>8, <1>9, <1>10, <1>11, <1>12,
       <1>13, <1>14, <1>15, <1>16, <1>17, <1>18, <1>19, <1>20, <1>21, <1>22, <1>23,
       <1>24, <1>25, <1>26, <1>27, <1>28, <1>29, <1>30, <1>31, <1>32, <1>33, <1>34,
       <1>35, <1>36, <1>37, <1>38, <1>39
    DEF Next, Works

\* MessageFit.
LEMMA MessageStep ==
  ASSUME TypeOK, EventFit, PlaceFit, ActiveFit, PausedFit, DownFit, OwnerFit,
         RowFit, MessageFit, [Next]_vars
  PROVE  MessageFit'
<1> USE IntakeAssumption DEF TypeOK, MessageFit, EventFit, PlaceFit, ActiveFit,
            PausedFit, DownFit, OwnerFit, RowFit, Inside, Staging, Own, Passed,
            Owned, Threads, Labels, Holding, Telling, Handling, Verdicts, Settled,
            bounds, fixed, rows,
            core, threads
<1>1. ASSUME NEW e \in Events, Stage(e) PROVE MessageFit'
  BY <1>1 DEF Stage, SetRow
<1>2. ASSUME NEW e \in Events, Expire(e) PROVE MessageFit'
  BY <1>2 DEF Expire
<1>3. ASSUME NEW e \in Events, NEW t \in Threads, Take(t, e) PROVE MessageFit'
  BY <1>3 DEF Take
<1>4. ASSUME NEW t \in Threads, Enter(t) PROVE MessageFit'
  BY <1>4 DEF Enter, Admitted, Leaves, Freed
<1>5. ASSUME NEW t \in Threads, Claim(t) PROVE MessageFit'
  BY <1>5 DEF Claim, Goes, SetRow, Leaves, Freed
<1>6. ASSUME NEW t \in Threads, Recover(t) PROVE MessageFit'
  BY <1>6 DEF Recover, Stale, Goes, SetRow, Leaves, Freed
<1>7. ASSUME NEW t \in Threads, Register(t) PROVE MessageFit'
  BY <1>7 DEF Register, Stale, Goes, SetRow, Leaves, Freed
<1>8. ASSUME NEW t \in Threads, Rerun(t) PROVE MessageFit'
  BY <1>8 DEF Rerun, Owned, Goes, SetRow, Leaves, Freed
<1>9. ASSUME NEW t \in Threads, Conclude(t) PROVE MessageFit'
  BY <1>9 DEF Conclude, Owned, SetRow, Leaves, Freed
<1>10. ASSUME NEW t \in Threads, Interrupt(t) PROVE MessageFit'
  BY <1>10 DEF Interrupt, CutShort, Owned, Tell, Goes, SetRow, Leaves, Freed
<1>11. ASSUME NEW t \in Threads, Prepare(t) PROVE MessageFit'
  BY <1>11 DEF Prepare, Owned, Goes, Leaves, Freed
<1>12. ASSUME NEW t \in Threads, Command(t) PROVE MessageFit'
  BY <1>12 DEF Command, Tell, SetRow, Leaves, Freed
<1>13. ASSUME NEW t \in Threads, Seen(t) PROVE MessageFit'
  BY <1>13 DEF Seen, Goes, SetRow, Leaves, Freed
<1>14. ASSUME NEW t \in Threads, Lock(t) PROVE MessageFit'
  BY <1>14 DEF Lock, Leaves, Freed
<1>15. ASSUME NEW t \in Threads, Busy(t) PROVE MessageFit'
  BY <1>15 DEF Busy, Trouble, Goes
<1>16. ASSUME NEW t \in Threads, Receipt(t) PROVE MessageFit'
  BY <1>16 DEF Receipt, Goes
<1>17. ASSUME NEW t \in Threads, UserMessage(t) PROVE MessageFit'
  BY <1>17 DEF UserMessage, Goes
<1>18. ASSUME NEW t \in Threads, Reply(t) PROVE MessageFit'
  BY <1>18 DEF Reply, Goes
<1>19. ASSUME NEW t \in Threads, Raise(t) PROVE MessageFit'
  BY <1>19 DEF Raise, Trouble, Goes
<1>20. ASSUME NEW t \in Threads, Finish(t) PROVE MessageFit'
  BY <1>20 DEF Finish, Settles, Owned, SetRow, Leaves, Freed
<1>21. ASSUME NEW t \in Threads, Release(t) PROVE MessageFit'
  BY <1>21 DEF Release, Settles, Owned, Goes, SetRow, Leaves, Freed
<1>22. ASSUME NEW t \in Threads, Fail(t) PROVE MessageFit'
  BY <1>22 DEF Fail, Settles, Owned, Goes, SetRow, Leaves, Freed
<1>23. ASSUME NEW t \in Threads, Notify(t) PROVE MessageFit'
  BY <1>23 DEF Notify, Tell, Leaves, Freed
<1>24. ASSUME NEW t \in Threads, Fault(t) PROVE MessageFit'
  BY <1>24 DEF Fault, Trouble, Catcher, Thrown, Repolled, Untold
<1>25. ASSUME NEW t \in Threads, Look(t) PROVE MessageFit'
  BY <1>25 DEF Look, Goes
<1>26. ASSUME NEW t \in Threads, Judge(t) PROVE MessageFit'
  BY <1>26 DEF Judge, Verdict, Goes
<1>27. ASSUME NEW t \in Threads, Amend(t) PROVE MessageFit'
  BY <1>27, AmendCases DEF Lost
<1>28. ASSUME NEW t \in Threads, Reset(t) PROVE MessageFit'
  BY <1>28 DEF Reset, Owned, Lost, SetRow, Catcher, Thrown
<1>29. ASSUME NEW t \in Threads, Drop(t) PROVE MessageFit'
  BY <1>29 DEF Drop, Owned, Lost, SetRow, Catcher, Thrown, Repolled
<1>30. CASE Poll
  BY <1>30 DEF Poll
<1>31. CASE Ack
  BY <1>31 DEF Ack
<1>32. CASE List
  BY <1>32 DEF List, Stale
<1>33. CASE Pause
  BY <1>33 DEF Pause, Trouble
<1>34. CASE Quiet
  BY <1>34 DEF Quiet
<1>35. CASE Resume
  BY <1>35 DEF Resume
<1>36. CASE Delete
  BY <1>36 DEF Delete
<1>37. CASE Crash
  BY <1>37 DEF Crash, Trouble, Untold
<1>38. CASE Restart
  BY <1>38 DEF Restart
<1>39. CASE UNCHANGED vars
  BY <1>39 DEF vars
<1>40. QED
  <2> HIDE DEF TypeOK, MessageFit, EventFit, PlaceFit, ActiveFit, PausedFit, DownFit,
      OwnerFit, RowFit,
            Threads, Labels, Holding, Telling, Handling, Verdicts, bounds, fixed, rows,
            core, threads
  <2> QED
    BY <1>1, <1>2, <1>3, <1>4, <1>5, <1>6, <1>7, <1>8, <1>9, <1>10, <1>11, <1>12,
       <1>13, <1>14, <1>15, <1>16, <1>17, <1>18, <1>19, <1>20, <1>21, <1>22, <1>23,
       <1>24, <1>25, <1>26, <1>27, <1>28, <1>29, <1>30, <1>31, <1>32, <1>33, <1>34,
       <1>35, <1>36, <1>37, <1>38, <1>39
    DEF Next, Works

\* ToldFit.
LEMMA ToldStep ==
  ASSUME TypeOK, EventFit, PlaceFit, DownFit, ToldFit, [Next]_vars
  PROVE  ToldFit'
<1> USE IntakeAssumption DEF TypeOK, EventFit, PlaceFit, DownFit, ToldFit, Staging,
            Owned, Threads, Labels, Holding, Telling, Handling, Verdicts, Settled,
            bounds, fixed, rows,
            core, threads
<1>1. ASSUME NEW e \in Events, Stage(e) PROVE ToldFit'
  BY <1>1 DEF Stage, SetRow
<1>2. ASSUME NEW e \in Events, Expire(e) PROVE ToldFit'
  BY <1>2 DEF Expire
<1>3. ASSUME NEW e \in Events, NEW t \in Threads, Take(t, e) PROVE ToldFit'
  BY <1>3 DEF Take
<1>4. ASSUME NEW t \in Threads, Enter(t) PROVE ToldFit'
  BY <1>4 DEF Enter, Admitted, Leaves, Freed
<1>5. ASSUME NEW t \in Threads, Claim(t) PROVE ToldFit'
  BY <1>5 DEF Claim, Goes, SetRow, Leaves, Freed
<1>6. ASSUME NEW t \in Threads, Recover(t) PROVE ToldFit'
  BY <1>6 DEF Recover, Stale, Goes, SetRow, Leaves, Freed
<1>7. ASSUME NEW t \in Threads, Register(t) PROVE ToldFit'
  BY <1>7 DEF Register, Stale, Goes, SetRow, Leaves, Freed
<1>8. ASSUME NEW t \in Threads, Rerun(t) PROVE ToldFit'
  BY <1>8 DEF Rerun, Owned, Goes, SetRow, Leaves, Freed
<1>9. ASSUME NEW t \in Threads, Conclude(t) PROVE ToldFit'
  BY <1>9 DEF Conclude, Owned, SetRow, Leaves, Freed
<1>10. ASSUME NEW t \in Threads, Interrupt(t) PROVE ToldFit'
  <2> USE <1>10 DEF Interrupt, CutShort
  <2>1. ev[t] \in Events
    OBVIOUS
  <2>2. CASE ~Staging
    <3>1. /\ "interrupted" \in notices'[ev[t]]
          /\ \A e \in Events \ {ev[t]} :
                row'[e] = row[e] /\ notices'[e] = notices[e]
      BY <2>1, <2>2 DEF SetRow, Tell
    <3>2. \A u \in Threads \ {t} : at'[u] = at[u] /\ ev'[u] = ev[u]
      BY <2>2 DEF Leaves, Freed
    <3>3. at[t] \notin {"error", "interrupted"} /\ cut' = cut /\ binding' = binding
      OBVIOUS
    <3>4. QED
      BY <2>1, <3>1, <3>2, <3>3
  <2>3. CASE Staging /\ Owned(ev[t])
    BY <2>1, <2>3 DEF SetRow, Goes
  <2>4. CASE Staging /\ ~Owned(ev[t])
    BY <2>1, <2>4 DEF Leaves, Freed
  <2>5. QED
    BY <2>2, <2>3, <2>4
<1>11. ASSUME NEW t \in Threads, Prepare(t) PROVE ToldFit'
  BY <1>11 DEF Prepare, Owned, Goes, Leaves, Freed
<1>12. ASSUME NEW t \in Threads, Command(t) PROVE ToldFit'
  BY <1>12 DEF Command, Tell, SetRow, Leaves, Freed
<1>13. ASSUME NEW t \in Threads, Seen(t) PROVE ToldFit'
  BY <1>13 DEF Seen, Goes, SetRow, Leaves, Freed
<1>14. ASSUME NEW t \in Threads, Lock(t) PROVE ToldFit'
  BY <1>14 DEF Lock, Leaves, Freed
<1>15. ASSUME NEW t \in Threads, Busy(t) PROVE ToldFit'
  BY <1>15 DEF Busy, Trouble, Goes
<1>16. ASSUME NEW t \in Threads, Receipt(t) PROVE ToldFit'
  BY <1>16 DEF Receipt, Goes
<1>17. ASSUME NEW t \in Threads, UserMessage(t) PROVE ToldFit'
  BY <1>17 DEF UserMessage, Goes
<1>18. ASSUME NEW t \in Threads, Reply(t) PROVE ToldFit'
  BY <1>18 DEF Reply, Goes
<1>19. ASSUME NEW t \in Threads, Raise(t) PROVE ToldFit'
  BY <1>19 DEF Raise, Trouble, Goes
<1>20. ASSUME NEW t \in Threads, Finish(t) PROVE ToldFit'
  BY <1>20 DEF Finish, Settles, Owned, SetRow, Leaves, Freed
<1>21. ASSUME NEW t \in Threads, Release(t) PROVE ToldFit'
  BY <1>21 DEF Release, Settles, Owned, Goes, SetRow, Leaves, Freed
<1>22. ASSUME NEW t \in Threads, Fail(t) PROVE ToldFit'
  BY <1>22 DEF Fail, Settles, Owned, Goes, SetRow, Leaves, Freed
<1>23. ASSUME NEW t \in Threads, Notify(t) PROVE ToldFit'
  BY SMTT(30), <1>23 DEF Notify, Tell, Leaves, Freed
<1>24. ASSUME NEW t \in Threads, Fault(t) PROVE ToldFit'
  BY <1>24 DEF Fault, Trouble, Catcher, Thrown, Repolled, Untold
<1>25. ASSUME NEW t \in Threads, Look(t) PROVE ToldFit'
  BY <1>25 DEF Look, Goes
<1>26. ASSUME NEW t \in Threads, Judge(t) PROVE ToldFit'
  BY <1>26 DEF Judge, Verdict, Goes
<1>27. ASSUME NEW t \in Threads, Amend(t) PROVE ToldFit'
  <2>1. ev[t] \in Events /\ at[t] \notin {"error", "interrupted"}
    BY <1>27 DEF Amend
  <2>2. /\ \A u \in Threads : at[u] \in {"error", "interrupted"} =>
                                at'[u] = at[u] /\ ev'[u] = ev[u]
        /\ UNCHANGED <<binding, cut>>
    BY <1>27, <2>1, AmendCases
  <2>3. \A e \in Events :
            /\ notices[e] \subseteq notices'[e]
            /\ row'[e] = "failed" => row[e] = "failed" \/ "interrupted" \in notices'[e]
    BY <1>27, AmendTells
  <2>4. QED
    BY <2>2, <2>3
<1>28. ASSUME NEW t \in Threads, Reset(t) PROVE ToldFit'
  BY <1>28 DEF Reset, Owned, Lost, SetRow, Catcher, Thrown
<1>29. ASSUME NEW t \in Threads, Drop(t) PROVE ToldFit'
  BY <1>29 DEF Drop, Owned, Lost, SetRow, Catcher, Thrown, Repolled
<1>30. CASE Poll
  BY <1>30 DEF Poll
<1>31. CASE Ack
  BY <1>31 DEF Ack
<1>32. CASE List
  BY <1>32 DEF List, Stale
<1>33. CASE Pause
  BY <1>33 DEF Pause, Trouble
<1>34. CASE Quiet
  BY <1>34 DEF Quiet
<1>35. CASE Resume
  BY <1>35 DEF Resume
<1>36. CASE Delete
  BY <1>36 DEF Delete
<1>37. CASE Crash
  BY <1>37 DEF Crash, Trouble, Untold
<1>38. CASE Restart
  BY <1>38 DEF Restart
<1>39. CASE UNCHANGED vars
  BY <1>39 DEF vars
<1>40. QED
  <2> HIDE DEF TypeOK, EventFit, PlaceFit, DownFit, ToldFit, Threads
  <2> QED
    BY <1>1, <1>2, <1>3, <1>4, <1>5, <1>6, <1>7, <1>8, <1>9, <1>10, <1>11, <1>12,
       <1>13, <1>14, <1>15, <1>16, <1>17, <1>18, <1>19, <1>20, <1>21, <1>22, <1>23,
       <1>24, <1>25, <1>26, <1>27, <1>28, <1>29, <1>30, <1>31, <1>32, <1>33, <1>34,
       <1>35, <1>36, <1>37, <1>38, <1>39
    DEF Next, Works

\* DoneIsAnswered.
LEMMA DoneStep ==
  ASSUME TypeOK, EventFit, PlaceFit, ActiveFit, PausedFit, DownFit, OwnerFit,
         RowFit, MessageFit, DoneIsAnswered, [Next]_vars
  PROVE  DoneIsAnswered'
<1> USE IntakeAssumption DEF TypeOK, MessageFit, DoneIsAnswered, EventFit, PlaceFit,
            ActiveFit, PausedFit, DownFit, OwnerFit, RowFit, Inside,
            Staging, Own, Passed, Owned, Threads, Labels, Holding, Telling, Handling,
            Verdicts, Settled, bounds,
            fixed, rows, core, threads
<1>1. ASSUME NEW e \in Events, Stage(e) PROVE DoneIsAnswered'
  BY <1>1 DEF Stage, SetRow
<1>2. ASSUME NEW e \in Events, Expire(e) PROVE DoneIsAnswered'
  BY <1>2 DEF Expire
<1>3. ASSUME NEW e \in Events, NEW t \in Threads, Take(t, e) PROVE DoneIsAnswered'
  BY <1>3 DEF Take
<1>4. ASSUME NEW t \in Threads, Enter(t) PROVE DoneIsAnswered'
  BY <1>4 DEF Enter, Admitted, Leaves, Freed
<1>5. ASSUME NEW t \in Threads, Claim(t) PROVE DoneIsAnswered'
  BY <1>5 DEF Claim, Goes, SetRow, Leaves, Freed
<1>6. ASSUME NEW t \in Threads, Recover(t) PROVE DoneIsAnswered'
  BY <1>6 DEF Recover, Stale, Goes, SetRow, Leaves, Freed
<1>7. ASSUME NEW t \in Threads, Register(t) PROVE DoneIsAnswered'
  BY <1>7 DEF Register, Stale, Goes, SetRow, Leaves, Freed
<1>8. ASSUME NEW t \in Threads, Rerun(t) PROVE DoneIsAnswered'
  BY <1>8 DEF Rerun, Owned, Goes, SetRow, Leaves, Freed
<1>9. ASSUME NEW t \in Threads, Conclude(t) PROVE DoneIsAnswered'
  BY <1>9 DEF Conclude, Owned, SetRow, Leaves, Freed
<1>10. ASSUME NEW t \in Threads, Interrupt(t) PROVE DoneIsAnswered'
  BY <1>10 DEF Interrupt, CutShort, Owned, Tell, Goes, SetRow, Leaves, Freed
<1>11. ASSUME NEW t \in Threads, Prepare(t) PROVE DoneIsAnswered'
  BY <1>11 DEF Prepare, Owned, Goes, Leaves, Freed
<1>12. ASSUME NEW t \in Threads, Command(t) PROVE DoneIsAnswered'
  BY <1>12 DEF Command, Tell, SetRow, Leaves, Freed
<1>13. ASSUME NEW t \in Threads, Seen(t) PROVE DoneIsAnswered'
  BY <1>13 DEF Seen, Goes, SetRow, Leaves, Freed
<1>14. ASSUME NEW t \in Threads, Lock(t) PROVE DoneIsAnswered'
  BY <1>14 DEF Lock, Leaves, Freed
<1>15. ASSUME NEW t \in Threads, Busy(t) PROVE DoneIsAnswered'
  BY <1>15 DEF Busy, Trouble, Goes
<1>16. ASSUME NEW t \in Threads, Receipt(t) PROVE DoneIsAnswered'
  BY <1>16 DEF Receipt, Goes
<1>17. ASSUME NEW t \in Threads, UserMessage(t) PROVE DoneIsAnswered'
  BY <1>17 DEF UserMessage, Goes
<1>18. ASSUME NEW t \in Threads, Reply(t) PROVE DoneIsAnswered'
  BY <1>18 DEF Reply, Goes
<1>19. ASSUME NEW t \in Threads, Raise(t) PROVE DoneIsAnswered'
  BY <1>19 DEF Raise, Trouble, Goes
<1>20. ASSUME NEW t \in Threads, Finish(t) PROVE DoneIsAnswered'
  BY <1>20 DEF Finish, Settles, Owned, SetRow, Leaves, Freed
<1>21. ASSUME NEW t \in Threads, Release(t) PROVE DoneIsAnswered'
  BY <1>21 DEF Release, Settles, Owned, Goes, SetRow, Leaves, Freed
<1>22. ASSUME NEW t \in Threads, Fail(t) PROVE DoneIsAnswered'
  BY <1>22 DEF Fail, Settles, Owned, Goes, SetRow, Leaves, Freed
<1>23. ASSUME NEW t \in Threads, Notify(t) PROVE DoneIsAnswered'
  BY <1>23 DEF Notify, Tell, Leaves, Freed
<1>24. ASSUME NEW t \in Threads, Fault(t) PROVE DoneIsAnswered'
  BY <1>24 DEF Fault, Trouble, Catcher, Thrown, Repolled, Untold
<1>25. ASSUME NEW t \in Threads, Look(t) PROVE DoneIsAnswered'
  BY <1>25 DEF Look, Goes
<1>26. ASSUME NEW t \in Threads, Judge(t) PROVE DoneIsAnswered'
  BY <1>26 DEF Judge, Verdict, Goes
<1>27. ASSUME NEW t \in Threads, Amend(t) PROVE DoneIsAnswered'
  <2>1. ev[t] \in Events
    BY <1>27 DEF Amend
  <2>2. /\ UNCHANGED reply /\ undone \subseteq undone'
        /\ \A e \in Events : "command" \in notices[e] => "command" \in notices'[e]
    BY <1>27, AmendCases, AmendTells
  <2>3. \A e \in Events : row'[e] = "done" => row[e] = "done" \/ reply[e] # "none"
    BY <1>27, <2>1, AmendCases
  <2>4. QED
    BY <2>2, <2>3
<1>28. ASSUME NEW t \in Threads, Reset(t) PROVE DoneIsAnswered'
  BY <1>28 DEF Reset, Owned, Lost, SetRow, Catcher, Thrown
<1>29. ASSUME NEW t \in Threads, Drop(t) PROVE DoneIsAnswered'
  BY <1>29 DEF Drop, Owned, Lost, SetRow, Catcher, Thrown, Repolled
<1>30. CASE Poll
  BY <1>30 DEF Poll
<1>31. CASE Ack
  BY <1>31 DEF Ack
<1>32. CASE List
  BY <1>32 DEF List, Stale
<1>33. CASE Pause
  BY <1>33 DEF Pause, Trouble
<1>34. CASE Quiet
  BY <1>34 DEF Quiet
<1>35. CASE Resume
  BY <1>35 DEF Resume
<1>36. CASE Delete
  BY <1>36 DEF Delete
<1>37. CASE Crash
  BY <1>37 DEF Crash, Trouble, Untold
<1>38. CASE Restart
  BY <1>38 DEF Restart
<1>39. CASE UNCHANGED vars
  BY <1>39 DEF vars
<1>40. QED
  <2> HIDE DEF TypeOK, MessageFit, DoneIsAnswered, EventFit, PlaceFit, ActiveFit,
      PausedFit, DownFit, OwnerFit, RowFit,
            Threads, Labels, Holding, Telling, Handling, Verdicts, bounds, fixed, rows,
            core, threads
  <2> QED
    BY <1>1, <1>2, <1>3, <1>4, <1>5, <1>6, <1>7, <1>8, <1>9, <1>10, <1>11, <1>12,
       <1>13, <1>14, <1>15, <1>16, <1>17, <1>18, <1>19, <1>20, <1>21, <1>22, <1>23,
       <1>24, <1>25, <1>26, <1>27, <1>28, <1>29, <1>30, <1>31, <1>32, <1>33, <1>34,
       <1>35, <1>36, <1>37, <1>38, <1>39
    DEF Next, Works

LEMMA InvHolds == Spec => []IInv
<1>1. IInv /\ [Next]_vars => IInv'
  BY TypeStep, EventStep, PlaceStep, ActiveStep, PausedStep, DownStep, OwnerStep,
     RowStep, MessageStep, ToldStep, DoneStep DEF IInv, Safe
<1>2. QED
  BY InitHolds, <1>1, PTL DEF Spec

-----------------------------------------------------------------------------
(* A staged event that is settled. *)

\* No retry, take over or deletion opens a settled event again, or settles it
\* another way, unless a handler writes it that read it before.
SettledStays ==
    \A e \in Events :
        Staging /\ row[e] \in Settled /\ e \notin undone' => row'[e] = row[e]

\* SettledStays.
LEMMA SettledStep ==
  ASSUME TypeOK, EventFit, PlaceFit, RowFit, OwnerFit, [Next]_vars
  PROVE  SettledStays
<1> USE IntakeAssumption DEF SettledStays, TypeOK, EventFit, PlaceFit, RowFit,
            OwnerFit, Own, Passed, Staging,
            Owned, Threads, Labels, Holding, Telling, Handling, Verdicts, Settled,
            bounds, fixed, rows,
            core, threads
<1>1. ASSUME NEW e \in Events, Stage(e) PROVE SettledStays
  BY <1>1 DEF Stage, SetRow
<1>2. ASSUME NEW e \in Events, Expire(e) PROVE SettledStays
  BY <1>2 DEF Expire
<1>3. ASSUME NEW e \in Events, NEW t \in Threads, Take(t, e) PROVE SettledStays
  BY <1>3 DEF Take
<1>4. ASSUME NEW t \in Threads, Enter(t) PROVE SettledStays
  BY <1>4 DEF Enter, Admitted, Leaves, Freed
<1>5. ASSUME NEW t \in Threads, Claim(t) PROVE SettledStays
  BY <1>5 DEF Claim, Goes, SetRow, Leaves, Freed
<1>6. ASSUME NEW t \in Threads, Recover(t) PROVE SettledStays
  BY <1>6 DEF Recover, Stale, Goes, SetRow, Leaves, Freed
<1>7. ASSUME NEW t \in Threads, Register(t) PROVE SettledStays
  BY <1>7 DEF Register, Stale, Goes, SetRow, Leaves, Freed
<1>8. ASSUME NEW t \in Threads, Rerun(t) PROVE SettledStays
  BY <1>8 DEF Rerun, Owned, Goes, SetRow, Leaves, Freed
<1>9. ASSUME NEW t \in Threads, Conclude(t) PROVE SettledStays
  BY <1>9 DEF Conclude, Owned, SetRow, Leaves, Freed
<1>10. ASSUME NEW t \in Threads, Interrupt(t) PROVE SettledStays
  BY <1>10 DEF Interrupt, CutShort, Owned, Tell, Goes, SetRow, Leaves, Freed
<1>11. ASSUME NEW t \in Threads, Prepare(t) PROVE SettledStays
  BY <1>11 DEF Prepare, Owned, Goes, Leaves, Freed
<1>12. ASSUME NEW t \in Threads, Command(t) PROVE SettledStays
  BY <1>12 DEF Command, Tell, SetRow, Leaves, Freed
<1>13. ASSUME NEW t \in Threads, Seen(t) PROVE SettledStays
  BY <1>13 DEF Seen, Goes, SetRow, Leaves, Freed
<1>14. ASSUME NEW t \in Threads, Lock(t) PROVE SettledStays
  BY <1>14 DEF Lock, Leaves, Freed
<1>15. ASSUME NEW t \in Threads, Busy(t) PROVE SettledStays
  BY <1>15 DEF Busy, Trouble, Goes
<1>16. ASSUME NEW t \in Threads, Receipt(t) PROVE SettledStays
  BY <1>16 DEF Receipt, Goes
<1>17. ASSUME NEW t \in Threads, UserMessage(t) PROVE SettledStays
  BY <1>17 DEF UserMessage, Goes
<1>18. ASSUME NEW t \in Threads, Reply(t) PROVE SettledStays
  BY <1>18 DEF Reply, Goes
<1>19. ASSUME NEW t \in Threads, Raise(t) PROVE SettledStays
  BY <1>19 DEF Raise, Trouble, Goes
<1>20. ASSUME NEW t \in Threads, Finish(t) PROVE SettledStays
  BY <1>20 DEF Finish, Settles, Owned, SetRow, Leaves, Freed
<1>21. ASSUME NEW t \in Threads, Release(t) PROVE SettledStays
  BY <1>21 DEF Release, Settles, Owned, Goes, SetRow, Leaves, Freed
<1>22. ASSUME NEW t \in Threads, Fail(t) PROVE SettledStays
  BY <1>22 DEF Fail, Settles, Owned, Goes, SetRow, Leaves, Freed
<1>23. ASSUME NEW t \in Threads, Notify(t) PROVE SettledStays
  BY <1>23 DEF Notify, Tell, Leaves, Freed
<1>24. ASSUME NEW t \in Threads, Fault(t) PROVE SettledStays
  BY <1>24 DEF Fault, Trouble, Catcher, Thrown, Repolled, Untold
<1>25. ASSUME NEW t \in Threads, Look(t) PROVE SettledStays
  BY <1>25 DEF Look, Goes
<1>26. ASSUME NEW t \in Threads, Judge(t) PROVE SettledStays
  BY <1>26 DEF Judge, Verdict, Goes
<1>27. ASSUME NEW t \in Threads, Amend(t) PROVE SettledStays
  BY <1>27, AmendCases DEF Lost
<1>28. ASSUME NEW t \in Threads, Reset(t) PROVE SettledStays
  BY <1>28 DEF Reset, Owned, Lost, SetRow, Catcher, Thrown
<1>29. ASSUME NEW t \in Threads, Drop(t) PROVE SettledStays
  BY <1>29 DEF Drop, Owned, Lost, SetRow, Catcher, Thrown, Repolled
<1>30. CASE Poll
  BY <1>30 DEF Poll
<1>31. CASE Ack
  BY <1>31 DEF Ack
<1>32. CASE List
  BY <1>32 DEF List, Stale
<1>33. CASE Pause
  BY <1>33 DEF Pause, Trouble
<1>34. CASE Quiet
  BY <1>34 DEF Quiet
<1>35. CASE Resume
  BY <1>35 DEF Resume
<1>36. CASE Delete
  BY <1>36 DEF Delete
<1>37. CASE Crash
  BY <1>37 DEF Crash, Trouble, Untold
<1>38. CASE Restart
  BY <1>38 DEF Restart
<1>39. CASE UNCHANGED vars
  BY <1>39 DEF vars
<1>40. QED
  <2> HIDE DEF SettledStays, TypeOK, EventFit, PlaceFit, RowFit, Staging, Owned,
               Threads, Labels, Holding, Telling, Handling, Verdicts, Settled, bounds,
               fixed, rows, core,
               threads
  <2> QED
    BY <1>1, <1>2, <1>3, <1>4, <1>5, <1>6, <1>7, <1>8, <1>9, <1>10, <1>11, <1>12,
       <1>13, <1>14, <1>15, <1>16, <1>17, <1>18, <1>19, <1>20, <1>21, <1>22, <1>23,
       <1>24, <1>25, <1>26, <1>27, <1>28, <1>29, <1>30, <1>31, <1>32, <1>33, <1>34,
       <1>35, <1>36, <1>37, <1>38, <1>39
    DEF Next, Works

-----------------------------------------------------------------------------
(* The theorems. *)

\* Every variable of the intake keeps its type.
THEOREM TypeCorrect == Spec => []TypeOK
  BY InvHolds, PTL DEF IInv

\* Two threads never work on one event, for any number of events and troubles,
\* unless a handler has written it while it was another thread's.
THEOREM OneWorkerHolds == Spec => []OneWorker
<1>1. IInv => OneWorker
  BY Worker DEF IInv, Safe
<1>2. QED
  BY InvHolds, <1>1, PTL

\* The event of a turn that runs is this process's, but for the sweeper on WeChat
\* and an event that a handler wrote while it was another thread's.
THEOREM TurnIsOwnedHolds == Spec => []TurnIsOwned
<1>1. IInv => TurnIsOwned
  BY DEF IInv, Safe, OwnerFit, TurnIsOwned, Owned, Own, Passed, Holding
<1>2. QED
  BY <1>1, InvHolds, PTL

\* An event that is done has an answer, or its command's, unless a handler wrote it
\* while it was another thread's, or opened it again with its turn cut short.
THEOREM DoneIsAnsweredHolds == Spec => []DoneIsAnswered
  BY InvHolds, PTL DEF IInv, Safe

\* An event that failed has a notice, or a thread that is about to stage it,
\* unless its binding was deleted or a crash or an exception came between.
THEOREM FailedIsToldHolds == Spec => []FailedIsTold
<1>1. IInv => FailedIsTold
  BY DEF IInv, Safe, ToldFit, FailedIsTold, Telling
<1>2. QED
  BY <1>1, InvHolds, PTL

\* On a channel that stages its events a settled event stays as it is, unless a
\* handler writes it that read it before.
THEOREM SettledIsFinal == Spec => [][SettledStays]_vars
<1>1. IInv /\ [Next]_vars => [SettledStays]_vars
  BY SettledStep DEF IInv, Safe
<1>2. QED
  BY <1>1, InvHolds, PTL DEF Spec

-----------------------------------------------------------------------------
(* ChannelIntake implements IntakeContract. *)

Turning == {"claimed", "running"}

\* A turn that has begun is one thread's, its message is kept when it runs, and it has
\* no answer before it ends.
TurnFit ==
    /\ \A e \in Events :
        /\ turn[e] \in {"none", "claimed"} => ~message[e]
        /\ turn[e] = "running" => message[e]
        /\ turn[e] \in {"none", "claimed", "running"} => reply[e] = "none"
    /\ \A t \in Threads : at[t] \in Turning => turn[ev[t]] = at[t]
    /\ \A t, u \in Threads :
        at[t] \in Turning /\ at[u] \in Turning /\ ev[t] = ev[u] => t = u

\* TurnFit.
LEMMA TurnStep ==
  ASSUME TypeOK, EventFit, DownFit, TurnFit, [Next]_vars
  PROVE  TurnFit'
<1> USE IntakeAssumption DEF TurnFit, Turning, TypeOK, EventFit, DownFit, Threads,
            Labels,
            Holding, Telling, Handling, Verdicts, bounds, fixed, rows, core, threads
<1>1. ASSUME NEW e \in Events, Stage(e) PROVE TurnFit'
  BY <1>1 DEF Stage, SetRow
<1>2. ASSUME NEW e \in Events, Expire(e) PROVE TurnFit'
  BY <1>2 DEF Expire
<1>3. ASSUME NEW e \in Events, NEW t \in Threads, Take(t, e) PROVE TurnFit'
  BY <1>3 DEF Take
<1>4. ASSUME NEW t \in Threads, Enter(t) PROVE TurnFit'
  BY <1>4 DEF Enter, Admitted, Leaves, Freed
<1>5. ASSUME NEW t \in Threads, Claim(t) PROVE TurnFit'
  BY <1>5 DEF Claim, Goes, SetRow, Leaves, Freed
<1>6. ASSUME NEW t \in Threads, Recover(t) PROVE TurnFit'
  BY <1>6 DEF Recover, Stale, Goes, SetRow, Leaves, Freed
<1>7. ASSUME NEW t \in Threads, Register(t) PROVE TurnFit'
  BY <1>7 DEF Register, Stale, Goes, SetRow, Leaves, Freed
<1>8. ASSUME NEW t \in Threads, Rerun(t) PROVE TurnFit'
  BY <1>8 DEF Rerun, Owned, Goes, SetRow, Leaves, Freed
<1>9. ASSUME NEW t \in Threads, Conclude(t) PROVE TurnFit'
  BY <1>9 DEF Conclude, Owned, SetRow, Leaves, Freed
<1>10. ASSUME NEW t \in Threads, Interrupt(t) PROVE TurnFit'
  BY <1>10 DEF Interrupt, CutShort, Owned, Tell, Goes, SetRow, Leaves, Freed
<1>11. ASSUME NEW t \in Threads, Prepare(t) PROVE TurnFit'
  BY <1>11 DEF Prepare, Owned, Goes, Leaves, Freed
<1>12. ASSUME NEW t \in Threads, Command(t) PROVE TurnFit'
  BY <1>12 DEF Command, Tell, SetRow, Leaves, Freed
<1>13. ASSUME NEW t \in Threads, Seen(t) PROVE TurnFit'
  BY <1>13 DEF Seen, Goes, SetRow, Leaves, Freed
<1>14. ASSUME NEW t \in Threads, Lock(t) PROVE TurnFit'
  BY <1>14 DEF Lock, Leaves, Freed
<1>15. ASSUME NEW t \in Threads, Busy(t) PROVE TurnFit'
  BY <1>15 DEF Busy, Trouble, Goes
<1>16. ASSUME NEW t \in Threads, Receipt(t) PROVE TurnFit'
  BY <1>16 DEF Receipt, Goes
<1>17. ASSUME NEW t \in Threads, UserMessage(t) PROVE TurnFit'
  BY <1>17 DEF UserMessage, Goes
<1>18. ASSUME NEW t \in Threads, Reply(t) PROVE TurnFit'
  BY <1>18 DEF Reply, Goes
<1>19. ASSUME NEW t \in Threads, Raise(t) PROVE TurnFit'
  BY <1>19 DEF Raise, Trouble, Goes
<1>20. ASSUME NEW t \in Threads, Finish(t) PROVE TurnFit'
  BY <1>20 DEF Finish, Settles, Owned, SetRow, Leaves, Freed
<1>21. ASSUME NEW t \in Threads, Release(t) PROVE TurnFit'
  BY <1>21 DEF Release, Settles, Owned, Goes, SetRow, Leaves, Freed
<1>22. ASSUME NEW t \in Threads, Fail(t) PROVE TurnFit'
  BY <1>22 DEF Fail, Settles, Owned, Goes, SetRow, Leaves, Freed
<1>23. ASSUME NEW t \in Threads, Notify(t) PROVE TurnFit'
  BY <1>23 DEF Notify, Tell, Leaves, Freed
<1>24. ASSUME NEW t \in Threads, Fault(t) PROVE TurnFit'
  BY <1>24 DEF Fault, Trouble, Catcher, Thrown, Repolled, Untold
<1>25. ASSUME NEW t \in Threads, Look(t) PROVE TurnFit'
  BY <1>25 DEF Look, Goes
<1>26. ASSUME NEW t \in Threads, Judge(t) PROVE TurnFit'
  BY <1>26 DEF Judge, Verdict, Goes
<1>27. ASSUME NEW t \in Threads, Amend(t) PROVE TurnFit'
  BY <1>27, AmendCases DEF Lost
<1>28. ASSUME NEW t \in Threads, Reset(t) PROVE TurnFit'
  BY <1>28 DEF Reset, Owned, Lost, SetRow, Catcher, Thrown
<1>29. ASSUME NEW t \in Threads, Drop(t) PROVE TurnFit'
  BY <1>29 DEF Drop, Owned, Lost, SetRow, Catcher, Thrown, Repolled
<1>30. CASE Poll
  BY <1>30 DEF Poll
<1>31. CASE Ack
  BY <1>31 DEF Ack
<1>32. CASE List
  BY <1>32 DEF List, Stale
<1>33. CASE Pause
  BY <1>33 DEF Pause, Trouble
<1>34. CASE Quiet
  BY <1>34 DEF Quiet
<1>35. CASE Resume
  BY <1>35 DEF Resume
<1>36. CASE Delete
  BY <1>36 DEF Delete
<1>37. CASE Crash
  BY <1>37 DEF Crash, Trouble, Untold
<1>38. CASE Restart
  BY <1>38 DEF Restart
<1>39. CASE UNCHANGED vars
  BY <1>39 DEF vars
<1>40. QED
  <2> HIDE DEF TurnFit, TypeOK, EventFit, DownFit, Threads, Labels, Holding, Telling,
  Handling, Verdicts,
               bounds, fixed, rows, core, threads
  <2> QED
    BY <1>1, <1>2, <1>3, <1>4, <1>5, <1>6, <1>7, <1>8, <1>9, <1>10, <1>11, <1>12,
       <1>13, <1>14, <1>15, <1>16, <1>17, <1>18, <1>19, <1>20, <1>21, <1>22, <1>23,
       <1>24, <1>25, <1>26, <1>27, <1>28, <1>29, <1>30, <1>31, <1>32, <1>33, <1>34,
       <1>35, <1>36, <1>37, <1>38, <1>39
    DEF Next, Works

\* The contract does not see a row that is neither closed nor taken back from it.
LEMMA Hidden ==
  ASSUME TypeOK, UNCHANGED <<core, undone>>, Commands' = Commands,
         \/ row' = row
         \/ \E e \in Events : \E s \in {"absent", "received", "processing", "failed"} :
                row[e] # "done" /\ row' = [row EXCEPT ![e] = s]
  PROVE  UNCHANGED Contract!vars
<1>1. Done' = Done
  BY DEF Done, TypeOK
<1>2. QED
  BY <1>1 DEF Contract!vars, Begun, Ended, Kept, core

\* The notice of a failure is no answer of a command.
LEMMA Noticed ==
  ASSUME TypeOK, NEW e \in Events, NEW kind \in Telling, Tell(e, kind)
  PROVE  Commands' = Commands
  BY DEF Commands, Tell, Telling, TypeOK

\* An event that is closed behind an answer, or when it was released.
LEMMA Closes ==
  ASSUME TypeOK, NEW e \in Events, row' = [row EXCEPT ![e] = "done"],
         reply[e] # "none" \/ e \in undone,
         UNCHANGED <<core, undone, notices>>
  PROVE  Contract!Next
<1>1. Done' = Done \cup {e}
  BY DEF Done, TypeOK
<1>2. Contract!Close(e)
  BY <1>1 DEF Contract!Close, Contract!Answered, Begun, Ended, Kept, Commands, core
<1>3. QED
  BY <1>2 DEF Contract!Next

\* An event that is released, whatever becomes of its row.
LEMMA Releases ==
  ASSUME TypeOK, NEW e \in Events, UNCHANGED core, Commands' = Commands,
         undone' = undone \cup {e},
         \/ row' = [row EXCEPT ![e] = "done"] /\ reply[e] # "none"
         \/ \E s \in {"absent", "received", "processing", "failed"} :
                row' = [row EXCEPT ![e] = s]
  PROVE  Contract!Next
<1>1. Done' \in {Done, Done \cup ({e} \cap Contract!Answered), Done \ {e}}
  BY DEF Done, Contract!Answered, TypeOK
<1>2. Contract!Release(e)
  BY <1>1 DEF Contract!Release, Begun, Ended, Kept, core
<1>3. QED
  BY <1>2 DEF Contract!Next

\* A row that is written by its key.
LEMMA Reopens ==
  ASSUME TypeOK, NEW e \in Events, UNCHANGED <<core, undone>>, Commands' = Commands,
         row[e] # "done" \/ e \in undone,
         \E s \in {"absent", "received", "processing", "failed"} :
                row' = [row EXCEPT ![e] = s]
  PROVE  [Contract!Next]_(Contract!vars)
<1>1. CASE row[e] # "done"
  BY <1>1, Hidden
<1>2. CASE e \in undone
  BY <1>2, Releases
<1>3. QED
  BY <1>1, <1>2

\* Who may write a row that it holds finds it open, but for an event released.
LEMMA HolderOpen ==
  ASSUME PlaceFit, OwnerFit, NEW t \in Threads, at[t] \in Holding,
         ~Staging \/ Owned(ev[t])
  PROVE  row[ev[t]] # "done" \/ ev[t] \in undone
  BY DEF PlaceFit, OwnerFit, Owned, Own, Passed

\* Each step of the intake is one of the contract's, or is not seen by it.
LEMMA ContractStep ==
  ASSUME TypeOK, EventFit, PlaceFit, RowFit, OwnerFit, MessageFit, TurnFit, [Next]_vars
  PROVE  [Contract!Next]_(Contract!vars)
<1> USE IntakeAssumption DEF TypeOK, EventFit, PlaceFit, OwnerFit, MessageFit, TurnFit,
            Turning, Threads, Labels, Holding, Telling, Handling, Verdicts, bounds,
            fixed, rows, core, threads
<1>1. ASSUME NEW e \in Events, Stage(e) PROVE [Contract!Next]_(Contract!vars)
  <2>1. row[e] # "done" /\ row' = [row EXCEPT ![e] = "received"]
    BY <1>1 DEF Stage, SetRow
  <2>2. UNCHANGED <<core, undone>> /\ Commands' = Commands
    BY <1>1 DEF Stage, Commands
  <2>3. QED
    BY <2>1, <2>2, Hidden
<1>2. ASSUME NEW e \in Events, Expire(e) PROVE [Contract!Next]_(Contract!vars)
  BY <1>2, Hidden DEF Expire, Commands
<1>3. ASSUME NEW e \in Events, NEW t \in Threads, Take(t, e)
       PROVE [Contract!Next]_(Contract!vars)
  BY <1>3, Hidden DEF Take, Commands
<1>4. ASSUME NEW t \in Threads, Enter(t) PROVE [Contract!Next]_(Contract!vars)
  BY <1>4, Hidden DEF Enter, Leaves, Freed, Commands
<1>5. ASSUME NEW t \in Threads, Claim(t) PROVE [Contract!Next]_(Contract!vars)
  BY <1>5, Hidden DEF Claim, Goes, SetRow, Leaves, Freed, Commands
<1>6. ASSUME NEW t \in Threads, Recover(t) PROVE [Contract!Next]_(Contract!vars)
  BY <1>6, Hidden DEF Recover, Stale, Goes, SetRow, Leaves, Freed, Commands
<1>7. ASSUME NEW t \in Threads, Register(t) PROVE [Contract!Next]_(Contract!vars)
  BY <1>7, Hidden DEF Register, Stale, Goes, SetRow, Leaves, Freed, Commands
<1>8. ASSUME NEW t \in Threads, Rerun(t) PROVE [Contract!Next]_(Contract!vars)
  <2>1. ev[t] \in Events /\ UNCHANGED <<core, undone>> /\ Commands' = Commands
    BY <1>8 DEF Rerun, Commands
  <2>2. \/ row' = row
        \/ /\ ~Staging \/ Owned(ev[t])
           /\ \E s \in {"absent", "received"} : row' = [row EXCEPT ![ev[t]] = s]
    BY <1>8 DEF Rerun, SetRow
  <2>3. QED
    BY <1>8, <2>1, <2>2, HolderOpen, Hidden, Reopens DEF Rerun
<1>9. ASSUME NEW t \in Threads, Conclude(t) PROVE [Contract!Next]_(Contract!vars)
  <2>1. CASE ~Staging \/ Owned(ev[t])
    BY <1>9, <2>1, Closes DEF Conclude, SetRow, Leaves, Freed
  <2>2. CASE ~(~Staging \/ Owned(ev[t]))
    BY <1>9, <2>2, Hidden DEF Commands, Conclude, Leaves, Freed
  <2>3. QED
    BY <2>1, <2>2
<1>10. ASSUME NEW t \in Threads, Interrupt(t) PROVE [Contract!Next]_(Contract!vars)
  <2>1. Commands' = Commands
    BY <1>10, Noticed DEF Interrupt, Telling, Commands
  <2>2. ev[t] \in Events /\ UNCHANGED <<core, undone>>
    BY <1>10 DEF Interrupt
  <2>3. CASE Staging /\ ~Owned(ev[t])
    BY <1>10, <2>1, <2>2, <2>3, Hidden DEF Interrupt
  <2>4. CASE ~Staging \/ Owned(ev[t])
    <3>1. row' = [row EXCEPT ![ev[t]] = "failed"]
      BY <1>10, <2>4 DEF Interrupt, CutShort, SetRow
    <3>2. row[ev[t]] # "done" \/ ev[t] \in undone
      BY <1>10, <2>4, HolderOpen DEF Interrupt
    <3>3. QED
      BY <2>1, <2>2, <3>1, <3>2, Reopens
  <2>5. QED
    BY <2>3, <2>4
<1>11. ASSUME NEW t \in Threads, Prepare(t) PROVE [Contract!Next]_(Contract!vars)
  BY <1>11, Hidden DEF Prepare, Goes, Leaves, Freed, Commands
<1>12. ASSUME NEW t \in Threads, Command(t) PROVE [Contract!Next]_(Contract!vars)
  <2>1. /\ Commands' = Commands \cup {ev[t]} /\ Done' = Done \cup {ev[t]}
        /\ ev[t] \notin Kept /\ ev[t] \in Events
    BY <1>12 DEF Command, Tell, SetRow, Commands, Done, Kept
  <2>2. UNCHANGED <<Begun, Ended, Kept, reply, undone>>
    BY <1>12 DEF Command, Begun, Ended, Kept
  <2>3. Contract!Command(ev[t])
    BY <2>1, <2>2 DEF Contract!Command
  <2>4. QED
    BY <2>1, <2>3 DEF Contract!Next
<1>13. ASSUME NEW t \in Threads, Seen(t) PROVE [Contract!Next]_(Contract!vars)
  <2>1. CASE row' = row
    BY <1>13, <2>1, Hidden DEF Commands, Seen
  <2>2. CASE message[ev[t]] /\ row' = [row EXCEPT ![ev[t]] = "done"]
    <3>1. at[t] = "read" /\ ev[t] \in Events /\ UNCHANGED <<core, undone, notices>>
      BY <1>13 DEF Seen
    <3>2. reply[ev[t]] # "none" \/ ev[t] \in undone
      BY <2>2, <3>1
    <3>3. QED
      BY <2>2, <3>1, <3>2, Closes
  <2>3. QED
    BY <1>13, <2>1, <2>2 DEF Seen, SetRow
<1>14. ASSUME NEW t \in Threads, Lock(t) PROVE [Contract!Next]_(Contract!vars)
  BY <1>14, Hidden DEF Lock, Leaves, Freed, Commands
<1>15. ASSUME NEW t \in Threads, Busy(t) PROVE [Contract!Next]_(Contract!vars)
  BY <1>15, Hidden DEF Busy, Goes, Commands
<1>16. ASSUME NEW t \in Threads, Receipt(t) PROVE [Contract!Next]_(Contract!vars)
  <2>1. CASE turn' = turn
    BY <1>16, <2>1, Hidden DEF Commands, Receipt
  <2>2. CASE turn[ev[t]] = "none" /\ turn' = [turn EXCEPT ![ev[t]] = "claimed"]
    <3>1. /\ Begun' = Begun \cup {ev[t]} /\ ev[t] \notin Begun /\ ev[t] \in Events
          /\ Ended' = Ended
      BY <1>16, <2>2 DEF Receipt, Begun, Ended
    <3>2. UNCHANGED <<Kept, reply, Commands, undone, Done>>
      BY <1>16 DEF Receipt, Kept, Commands, Done
    <3>3. Contract!Begin(ev[t])
      BY <3>1, <3>2 DEF Contract!Begin
    <3>4. QED
      BY <3>1, <3>3 DEF Contract!Next
  <2>3. QED
    BY <1>16, <2>1, <2>2 DEF Receipt
<1>17. ASSUME NEW t \in Threads, UserMessage(t) PROVE [Contract!Next]_(Contract!vars)
  <2>1. turn[ev[t]] = "claimed" /\ ~message[ev[t]] /\ ev[t] \in Events
    BY <1>17 DEF UserMessage
  <2>2. Kept' = Kept \cup {ev[t]} /\ ev[t] \notin Kept
    BY <1>17, <2>1 DEF UserMessage, Kept
  <2>3. UNCHANGED <<Begun, Ended, reply, Commands, undone,
  Done>> /\ ev[t] \in Begun \ Ended
    BY <1>17, <2>1 DEF UserMessage, Begun, Ended, Commands, Done
  <2>4. Contract!Keep(ev[t])
    BY <2>2, <2>3 DEF Contract!Keep
  <2>5. QED
    BY <2>1, <2>4 DEF Contract!Next
<1>18. ASSUME NEW t \in Threads, Reply(t) PROVE [Contract!Next]_(Contract!vars)
  <2>1. turn[ev[t]] \in {"claimed", "running"} /\ ev[t] \in Events
    BY <1>18 DEF Reply
  <2>2. Ended' = Ended \cup {ev[t]} /\ Begun' = Begun /\ ev[t] \in Begun \ Ended
    BY <1>18, <2>1 DEF Reply, Begun, Ended
  <2>3. UNCHANGED <<Kept, Commands, undone, Done>>
    BY <1>18 DEF Reply, Kept, Commands, Done
  <2>4. reply' = [reply EXCEPT ![ev[t]] = "staged"]
    BY <1>18 DEF Reply
  <2>5. Contract!End(ev[t])
    BY <2>2, <2>3, <2>4 DEF Contract!End
  <2>6. QED
    BY <2>1, <2>5 DEF Contract!Next
<1>19. ASSUME NEW t \in Threads, Raise(t) PROVE [Contract!Next]_(Contract!vars)
  <2>1. turn[ev[t]] \in {"claimed", "running"} /\ ev[t] \in Events
    BY <1>19 DEF Raise
  <2>2. Ended' = Ended \cup {ev[t]} /\ Begun' = Begun /\ ev[t] \in Begun \ Ended
    BY <1>19, <2>1 DEF Raise, Begun, Ended
  <2>3. UNCHANGED <<Kept, Commands, undone, Done>>
    BY <1>19 DEF Raise, Kept, Commands, Done
  <2>4. reply' = reply
    BY <1>19 DEF Raise
  <2>5. Contract!End(ev[t])
    BY <2>2, <2>3, <2>4 DEF Contract!End
  <2>6. QED
    BY <2>1, <2>5 DEF Contract!Next
<1>20. ASSUME NEW t \in Threads, Finish(t) PROVE [Contract!Next]_(Contract!vars)
  <2>1. CASE Owned(ev[t])
    BY <1>20, <2>1, Closes DEF Finish, Settles, SetRow, Leaves, Freed
  <2>2. CASE ~Owned(ev[t])
    BY <1>20, <2>2, Hidden DEF Commands, Finish, Settles, Leaves, Freed
  <2>3. QED
    BY <2>1, <2>2
<1>21. ASSUME NEW t \in Threads, Release(t) PROVE [Contract!Next]_(Contract!vars)
  <2>1. row' = row \/ row[ev[t]] # "done"
    BY <1>21 DEF Release, Settles, Owned
  <2>2. QED
    BY <1>21, <2>1, Hidden DEF Commands, Release, Settles, Goes, SetRow, Leaves, Freed
<1>22. ASSUME NEW t \in Threads, Fail(t) PROVE [Contract!Next]_(Contract!vars)
  <2>1. row' = row \/ row[ev[t]] # "done"
    BY <1>22 DEF Fail, Settles, Owned
  <2>2. QED
    BY <1>22, <2>1, Hidden DEF Commands, Fail, Settles, Goes, SetRow, Leaves, Freed
<1>23. ASSUME NEW t \in Threads, Notify(t) PROVE [Contract!Next]_(Contract!vars)
  <2>1. Commands' = Commands
    BY <1>23, Noticed DEF Notify
  <2>2. QED
    BY <1>23, <2>1, Hidden DEF Notify
<1>24. ASSUME NEW t \in Threads, Fault(t) PROVE [Contract!Next]_(Contract!vars)
  BY <1>24, Hidden DEF Fault, Commands
<1>25. ASSUME NEW t \in Threads, Look(t) PROVE [Contract!Next]_(Contract!vars)
  BY <1>25, Hidden DEF Look, Goes, Commands
<1>26. ASSUME NEW t \in Threads, Judge(t) PROVE [Contract!Next]_(Contract!vars)
  BY <1>26, Hidden DEF Judge, Goes, Commands
<1>27. ASSUME NEW t \in Threads, Amend(t) PROVE [Contract!Next]_(Contract!vars)
  <2> DEFINE e == ev[t]
  <2>1. e \in Events /\ UNCHANGED core
    BY <1>27 DEF Amend
  <2>2. \/ row' = [row EXCEPT ![e] = "done"] /\ reply[e] # "none" /\ notices' = notices
        \/ /\ \E s \in {"received", "failed"} : row' = [row EXCEPT ![e] = s]
           /\ Tell(e, "interrupted") \/ notices' = notices
    BY <1>27 DEF Amend, Amended, CutShort, SetRow
  <2>3. Commands' = Commands
    BY <2>1, <2>2, Noticed DEF Commands, Telling
  <2>4. CASE undone' = undone /\ (row[e] # "done" \/ e \in undone)
    BY <2>1, <2>2, <2>3, <2>4, Closes, Hidden, Reopens
  <2>5. CASE undone' = undone \cup {e}
    BY <2>1, <2>2, <2>3, <2>5, Releases
  <2>6. QED
    BY <1>27, <2>4, <2>5 DEF Amend, Lost, RowFit, Settled
<1>28. ASSUME NEW t \in Threads, Reset(t) PROVE [Contract!Next]_(Contract!vars)
  <2> DEFINE e == ev[t]
  <2>1. e \in Events /\ UNCHANGED <<core, notices>> /\ Commands' = Commands
    BY <1>28 DEF Reset, Commands
  <2>2. \/ row' = row /\ undone' = undone
        \/ /\ row[e] # "done" /\ row' = [row EXCEPT ![e] = "received"]
           /\ undone' \in {undone, undone \cup {e}}
    BY <1>28 DEF Reset, Owned, SetRow
  <2>3. QED
    BY <2>1, <2>2, Hidden, Releases
<1>29. ASSUME NEW t \in Threads, Drop(t) PROVE [Contract!Next]_(Contract!vars)
  <2> DEFINE e == ev[t]
  <2>1. e \in Events /\ UNCHANGED <<core, notices>> /\ Commands' = Commands
    BY <1>29 DEF Drop, Commands
  <2>2. \/ row' = row /\ undone' = undone
        \/ /\ row[e] # "done" /\ row' = [row EXCEPT ![e] = "processing"]
           /\ undone' \in {undone, undone \cup {e}}
    BY <1>29 DEF Drop, Owned, SetRow
  <2>3. QED
    BY <2>1, <2>2, Hidden, Releases
<1>30. CASE Poll
  BY <1>30, Hidden DEF Poll, Commands
<1>31. CASE Ack
  BY <1>31, Hidden DEF Ack, Commands
<1>32. CASE List
  BY <1>32, Hidden DEF List, Commands
<1>33. CASE Pause
  BY <1>33, Hidden DEF Pause, Commands
<1>34. CASE Quiet
  BY <1>34, Hidden DEF Quiet, Commands
<1>35. CASE Resume
  BY <1>35, Hidden DEF Resume, Commands
<1>36. CASE Delete
  <2>1. Done' = Done
    BY <1>36 DEF Delete, Done
  <2>2. QED
    BY <1>36, <2>1 DEF Delete, Contract!vars, Begun, Ended, Kept, Commands
<1>37. CASE Crash
  BY <1>37, Hidden DEF Crash, Commands
<1>38. CASE Restart
  <2>1. Ended' = Begun /\ Begun' = Begun
    BY <1>38 DEF Restart, Begun, Ended
  <2>2. \A e \in Events : e \in (Begun \ Ended) \cap Kept <=> turn[e] = "running"
    BY DEF Begun, Ended, Kept
  <2>3. reply' = [e \in Events |-> IF e \in (Begun \ Ended) \cap Kept
                                  THEN "silent" ELSE reply[e]]
    BY <1>38, <2>2 DEF Restart
  <2>4. UNCHANGED <<Kept, Commands, undone, Done>>
    BY <1>38 DEF Restart, Kept, Commands, Done
  <2>5. Contract!Restart
    BY <2>1, <2>3, <2>4 DEF Contract!Restart
  <2>6. QED
    BY <2>5 DEF Contract!Next
<1>39. CASE UNCHANGED vars
  BY <1>39, Hidden DEF vars, Commands
<1>40. QED
  <2> HIDE DEF TypeOK, EventFit, PlaceFit, OwnerFit, MessageFit, TurnFit, Turning,
  Threads,
               Labels, Holding, Telling, Handling, Verdicts, bounds, fixed, rows, core,
               threads
  <2> QED
    BY <1>1, <1>2, <1>3, <1>4, <1>5, <1>6, <1>7, <1>8, <1>9, <1>10, <1>11, <1>12,
       <1>13, <1>14, <1>15, <1>16, <1>17, <1>18, <1>19, <1>20, <1>21, <1>22, <1>23,
       <1>24, <1>25, <1>26, <1>27, <1>28, <1>29, <1>30, <1>31, <1>32, <1>33, <1>34,
       <1>35, <1>36, <1>37, <1>38, <1>39
    DEF Next, Works

\* For any number of events and troubles the intake implements its contract.
THEOREM ImplementsContractHolds == Spec => ImplementsContract
<1>1. Init => Contract!Init /\ TurnFit
  BY DEF Init, Contract!Init, Begun, Ended, Kept, Commands, Done, TurnFit, Turning
<1>2. IInv /\ TurnFit /\ [Next]_vars => TurnFit'
  BY TurnStep DEF IInv, Safe
<1>3. IInv /\ TurnFit /\ [Next]_vars => [Contract!Next]_(Contract!vars)
  BY ContractStep DEF IInv, Safe
<1>4. QED
  BY InvHolds, <1>1, <1>2, <1>3, PTL DEF Spec, ImplementsContract, Contract!Spec

=============================================================================
