------------------------- MODULE FeishuProcessesProofs -------------------------
(***************************************************************************)
(* Theorems of FeishuProcesses, for every value of its constants.          *)
(***************************************************************************)
EXTENDS FeishuProcesses, TLAPS

-----------------------------------------------------------------------------
(* The inductive invariant. *)

\* A revision was asked for by a request, which counts as a trouble.
RevisionFit ==
    /\ binding.revision <= troubles + 1
    /\ at["request"] \in {"wait", "commit"} => binding.revision <= troubles

\* Who has the operation lock spawns, and then there is no child on record, or
\* stops the child on record.
OperationFit ==
    operation # "nobody" =>
        \/ at[operation] = "spawn" /\ record.child = NoChild
        \/ at[operation] = "stopping" /\ record.child # NoChild

Safe == RevisionFit /\ OperationFit /\ OneChild

IInv == TypeOK /\ Safe

-----------------------------------------------------------------------------
(* The steps, with the supervisor's operations for any thread: those go on to one  *)
(* of these places, besides "spawn" and "stopping".                        *)

Places == {"idle", "start", "started", "stopped", "write", "done"}

Supervises ==
    \E t \in Threads, revision \in Revisions, x \in Places, y \in Places :
        \/ Start(t, revision, x, y) \/ Spawn(t, revision, x) \/ SpawnFails(t, x)
        \/ Stop(t, x) \/ Stopped(t, x, y) \/ StopTimesOut(t, x)

LEMMA SupervisorSteps ==
  ASSUME TypeOK, Reconciles \/ Stops \/ Ensures
  PROVE  Supervises
<1> USE DEF TypeOK, Binding, View, Places, Threads
<1>1. view.revision \in Revisions /\ binding.revision \in Revisions
  OBVIOUS
<1>2. CASE Reconciles
  BY <1>1, <1>2 DEF Reconciles, Supervises
<1>3. CASE Stops
  <2>1. 1 \in Revisions
    BY ProcessesAssumption DEF Revisions
  <2>2. QED
    BY <1>3, <2>1 DEF Stops, Supervises
<1>4. CASE Ensures
  BY <1>1, <1>4 DEF Ensures, Supervises
<1>5. QED
  BY <1>2, <1>3, <1>4

\* The records the model writes are of their types.
LEMMA NewRecords == NoProcess \in Child /\ NoRecord \in Record
  BY ProcessesAssumption DEF NoProcess, NoRecord, Child, Record, Revisions

LEMMA ChildFields ==
  ASSUME NEW p \in Child, NEW word \in {"nothing", "up", "down"},
         NEW step \in {"none", "spawned", "holding", "serving", "connected", "dead"}
  PROVE  /\ [p EXCEPT !.at = step, !.says = word] \in Child
         /\ [p EXCEPT !.says = word] \in Child
         /\ [p EXCEPT !.at = step] \in Child
         /\ [p EXCEPT !.doomed = TRUE] \in Child
         /\ [p EXCEPT !.orphan = TRUE, !.doomed = TRUE] \in Child
  BY DEF Child

LEMMA InitHolds == Init => IInv
<1> SUFFICES ASSUME Init PROVE IInv
  OBVIOUS
<1>1. 1 \in Revisions /\ 0 \in 0 .. MaxTroubles
  BY ProcessesAssumption DEF Revisions
<1>2. binding \in Binding /\ view \in View /\ change \in Change
  BY <1>1 DEF Init, Binding, View, Change, Statuses, Kinds
<1>3. record \in Record /\ child \in [Children -> Child]
  BY NewRecords DEF Init
<1>4. TypeOK
  BY <1>1, <1>2, <1>3 DEF Init, TypeOK, Threads, Labels
<1>5. Safe
  BY DEF Init, Safe, RevisionFit, OperationFit, OneChild, Alive, NoProcess, Threads
<1>6. QED
  BY <1>4, <1>5 DEF IInv

\* Revisions stay within their bound, since each is asked for.
LEMMA TypeStep ==
  ASSUME TypeOK, RevisionFit, OperationFit, [Next]_vars
  PROVE  TypeOK'
<1> USE ProcessesAssumption DEF TypeOK, RevisionFit, OperationFit, manager, supervisor,
       Go, Alive, Places, Threads
<1>1. ASSUME NEW t \in Threads, NEW revision \in Revisions, NEW x \in Places,
       NEW y \in Places, Start(t, revision, x, y) PROVE TypeOK'
  <2>1. UNCHANGED <<troubles, binding, paused, known, backoff, view, change>>
    BY <1>1 DEF Start, NoRecord, NoProcess
  <2>2. record' \in Record
    BY <1>1, NewRecords DEF Start
  <2>3. operation' \in Threads \cup {"nobody"}
    BY <1>1 DEF Start, NoRecord, NoProcess
  <2>4. at' \in [Threads -> Labels]
    BY <1>1 DEF Start, NoRecord, NoProcess, Labels
  <2>5. child' \in [Children -> Child]
    BY <1>1, NewRecords DEF Start
  <2>6. QED
    BY <2>1, <2>2, <2>3, <2>4, <2>5
<1>2. ASSUME NEW t \in Threads, NEW revision \in Revisions, NEW x \in Places,
       NEW y \in Places, Spawn(t, revision, x) PROVE TypeOK'
  <2>1. UNCHANGED <<troubles, binding, paused, known, backoff, view, change>>
    BY <1>2 DEF Spawn, NoProcess
  <2>2. record' \in Record
    BY <1>2 DEF Spawn, NoProcess, Record
  <2>3. operation' \in Threads \cup {"nobody"}
    BY <1>2 DEF Spawn, NoProcess
  <2>4. at' \in [Threads -> Labels]
    BY <1>2 DEF Spawn, NoProcess, Labels
  <2>5. child' \in [Children -> Child]
    BY <1>2 DEF Spawn, NoProcess, Child
  <2>6. QED
    BY <2>1, <2>2, <2>3, <2>4, <2>5
<1>3. ASSUME NEW t \in Threads, NEW revision \in Revisions, NEW x \in Places,
       NEW y \in Places, SpawnFails(t, x) PROVE TypeOK'
  <2>1. UNCHANGED <<troubles, binding, paused, known, record, backoff, view, change,
         child>>
    BY <1>3 DEF SpawnFails
  <2>2. operation' \in Threads \cup {"nobody"}
    BY <1>3 DEF SpawnFails
  <2>3. at' \in [Threads -> Labels]
    BY <1>3 DEF SpawnFails, Labels
  <2>4. QED
    BY <2>1, <2>2, <2>3
<1>4. ASSUME NEW t \in Threads, NEW revision \in Revisions, NEW x \in Places,
       NEW y \in Places, Stop(t, x) PROVE TypeOK'
  <2>1. UNCHANGED <<troubles, binding, paused, known, backoff, view, change>>
    BY <1>4 DEF Stop
  <2>2. record' \in Record
    BY <1>4 DEF Stop, Record
  <2>3. operation' \in Threads \cup {"nobody"}
    BY <1>4 DEF Stop
  <2>4. at' \in [Threads -> Labels]
    BY <1>4 DEF Stop, Labels
  <2>5. child' \in [Children -> Child]
    <3>1. \A c \in Children : [child[c] EXCEPT !.doomed = TRUE] \in Child
      BY ChildFields
    <3>2. record.child = NoChild \/ record.child \in Children
      BY DEF Record
    <3>3. QED
      BY <1>4, <3>1, <3>2 DEF Stop
  <2>6. QED
    BY <2>1, <2>2, <2>3, <2>4, <2>5
<1>5. ASSUME NEW t \in Threads, NEW revision \in Revisions, NEW x \in Places,
       NEW y \in Places, Stopped(t, x, y) PROVE TypeOK'
  <2>1. UNCHANGED <<troubles, binding, paused, known, backoff, view, change>>
    BY <1>5 DEF Stopped, NoRecord, NoProcess
  <2>2. record' \in Record
    BY <1>5 DEF Stopped, NoRecord, NoProcess, Record
  <2>3. operation' \in Threads \cup {"nobody"}
    BY <1>5 DEF Stopped, NoRecord, NoProcess
  <2>4. at' \in [Threads -> Labels]
    BY <1>5 DEF Stopped, NoRecord, NoProcess, Labels
  <2>5. child' \in [Children -> Child]
    BY <1>5, NewRecords DEF Stopped
  <2>6. QED
    BY <2>1, <2>2, <2>3, <2>4, <2>5
<1>6. ASSUME NEW t \in Threads, NEW revision \in Revisions, NEW x \in Places,
       NEW y \in Places, StopTimesOut(t, x) PROVE TypeOK'
  <2>1. UNCHANGED <<troubles, binding, paused, known, record, backoff, view, change,
         child>>
    BY <1>6 DEF StopTimesOut
  <2>2. operation' \in Threads \cup {"nobody"}
    BY <1>6 DEF StopTimesOut
  <2>3. at' \in [Threads -> Labels]
    BY <1>6 DEF StopTimesOut, Labels
  <2>4. QED
    BY <2>1, <2>2, <2>3
<1>7. CASE ReadBinding
  <2>1. UNCHANGED <<troubles, binding, paused, known, record, backoff, operation,
         change, child>>
    BY <1>7 DEF ReadBinding
  <2>2. view' \in View
    BY <1>7 DEF ReadBinding, View, Binding
  <2>3. at' \in [Threads -> Labels]
    BY <1>7 DEF ReadBinding, Labels
  <2>4. QED
    BY <2>1, <2>2, <2>3
<1>8. CASE LookAtPaused
  <2>1. UNCHANGED <<troubles, binding, paused, known, record, backoff, operation,
         change, child>>
    BY <1>8 DEF LookAtPaused
  <2>2. view' \in View
    BY <1>8 DEF LookAtPaused, View, Binding
  <2>3. at' \in [Threads -> Labels]
    BY <1>8 DEF LookAtPaused, Labels
  <2>4. QED
    BY <2>1, <2>2, <2>3
<1>9. CASE Knows
  <2>1. UNCHANGED <<troubles, binding, paused, record, backoff, operation, view, change,
         child>>
    BY <1>9 DEF Knows
  <2>2. known' \in Revisions \cup {0}
    BY <1>9 DEF Knows, View, Binding
  <2>3. at' \in [Threads -> Labels]
    BY <1>9 DEF Knows, Labels
  <2>4. QED
    BY <2>1, <2>2, <2>3
<1>10. CASE WriteConnected
  <2>1. UNCHANGED <<troubles, paused, known, record, backoff, operation, view, change,
         child>>
    BY <1>10 DEF WriteConnected, Connected
  <2>2. binding' \in Binding
    BY <1>10 DEF WriteConnected, Connected, Binding, Statuses, Revisions
  <2>3. at' \in [Threads -> Labels]
    BY <1>10 DEF WriteConnected, Connected, Labels
  <2>4. QED
    BY <2>1, <2>2, <2>3
<1>11. CASE Forget
  <2>1. UNCHANGED <<troubles, binding, paused, record, backoff, operation, view, change,
         child>>
    BY <1>11 DEF Forget
  <2>2. known' \in Revisions \cup {0}
    BY <1>11 DEF Forget, View, Binding
  <2>3. at' \in [Threads -> Labels]
    BY <1>11 DEF Forget, Labels
  <2>4. QED
    BY <2>1, <2>2, <2>3
<1>12. CASE Waited
  <2>1. UNCHANGED <<troubles, binding, paused, known, record, backoff, operation, view,
         change, child>>
    BY <1>12 DEF Waited
  <2>2. at' \in [Threads -> Labels]
    BY <1>12 DEF Waited, Labels
  <2>3. QED
    BY <2>1, <2>2
<1>13. CASE WaitTimesOut
  <2>1. UNCHANGED <<troubles, binding, paused, known, record, backoff, operation, view,
         child>>
    BY <1>13 DEF WaitTimesOut
  <2>2. change' \in Change
    BY <1>13 DEF WaitTimesOut, Change
  <2>3. at' \in [Threads -> Labels]
    BY <1>13 DEF WaitTimesOut, Labels
  <2>4. QED
    BY <2>1, <2>2, <2>3
<1>14. CASE Commit
  <2>1. UNCHANGED <<troubles, paused, known, record, backoff, operation, view, child>>
    BY <1>14 DEF Commit
  <2>2. binding' \in Binding
    BY <1>14 DEF Commit, Binding, Statuses, Revisions
  <2>3. change' \in Change
    <3>1. change' = [change EXCEPT !.start = change.kind \in {"rotate", "enable"}]
      BY <1>14 DEF Commit
    <3>2. (change.kind \in {"rotate", "enable"}) \in BOOLEAN
      OBVIOUS
    <3>3. QED
      BY <3>1, <3>2 DEF Change
  <2>4. at' \in [Threads -> Labels]
    BY <1>14 DEF Commit, Labels
  <2>5. QED
    BY <2>1, <2>2, <2>3, <2>4
<1>15. CASE CommitFails
  <2>1. UNCHANGED <<troubles, binding, paused, known, record, backoff, operation, view,
         change, child>>
    BY <1>15 DEF CommitFails
  <2>2. at' \in [Threads -> Labels]
    BY <1>15 DEF CommitFails, Labels
  <2>3. QED
    BY <2>1, <2>2
<1>16. CASE Resume
  <2>1. UNCHANGED <<troubles, binding, known, record, operation, view, change, child>>
    BY <1>16 DEF Resume
  <2>2. paused' \in BOOLEAN
    BY <1>16 DEF Resume
  <2>3. backoff' \in BOOLEAN
    BY <1>16 DEF Resume
  <2>4. at' \in [Threads -> Labels]
    BY <1>16 DEF Resume, Labels
  <2>5. QED
    BY <2>1, <2>2, <2>3, <2>4
<1>17. CASE Ensured
  <2>1. UNCHANGED <<troubles, binding, paused, record, backoff, operation, view, change,
         child>>
    BY <1>17 DEF Ensured
  <2>2. known' \in Revisions \cup {0}
    BY <1>17 DEF Ensured, View, Binding
  <2>3. at' \in [Threads -> Labels]
    BY <1>17 DEF Ensured, Labels
  <2>4. QED
    BY <2>1, <2>2, <2>3
<1>18. CASE Hear
  <2>1. UNCHANGED <<troubles, binding, paused, known, backoff, operation, at, view,
         change>>
    BY <1>18 DEF Hear
  <2>2. record' \in Record
    BY <1>18 DEF Hear, Record
  <2>3. child' \in [Children -> Child]
    <3>1. \A c \in Children : [child[c] EXCEPT !.says = "nothing"] \in Child
      BY ChildFields
    <3>2. QED
      BY <1>18, <3>1 DEF Hear
  <2>4. QED
    BY <2>1, <2>2, <2>3
<1>19. CASE Notice
  <2>1. UNCHANGED <<troubles, binding, paused, known, operation, at, view, change, child>>
    BY <1>19 DEF Notice
  <2>2. record' \in Record
    BY <1>19 DEF Notice, Record
  <2>3. backoff' \in BOOLEAN
    BY <1>19 DEF Notice
  <2>4. QED
    BY <2>1, <2>2, <2>3
<1>20. CASE BackoffEnds
  <2>1. UNCHANGED <<troubles, binding, paused, known, record, operation, at, view,
         change, child>>
    BY <1>20 DEF BackoffEnds
  <2>2. backoff' \in BOOLEAN
    BY <1>20 DEF BackoffEnds
  <2>3. QED
    BY <2>1, <2>2
<1>21. CASE Crash
  <2>1. UNCHANGED <<binding, view, change>>
    BY <1>21 DEF Crash, NoRecord, NoProcess
  <2>2. troubles' \in 0 .. MaxTroubles
    <3>1. troubles < MaxTroubles /\ troubles' = troubles + 1
      BY <1>21 DEF Crash
    <3>2. QED
      BY <3>1
  <2>3. paused' \in BOOLEAN
    BY <1>21 DEF Crash, NoRecord, NoProcess
  <2>4. known' \in Revisions \cup {0}
    BY <1>21 DEF Crash, NoRecord, NoProcess, View, Binding
  <2>5. record' \in Record
    BY <1>21 DEF Crash, NoRecord, NoProcess, Record
  <2>6. backoff' \in BOOLEAN
    BY <1>21 DEF Crash, NoRecord, NoProcess
  <2>7. operation' \in Threads \cup {"nobody"}
    BY <1>21 DEF Crash, NoRecord, NoProcess
  <2>8. at' \in [Threads -> Labels]
    BY <1>21 DEF Crash, NoRecord, NoProcess, Labels
  <2>9. child' \in [Children -> Child]
    <3>1. \A c \in Children : [child[c] EXCEPT !.orphan = TRUE, !.doomed = TRUE] \in Child
      BY ChildFields
    <3>2. QED
      BY <1>21, <3>1, NewRecords DEF Crash
  <2>10. QED
    BY <2>1, <2>2, <2>3, <2>4, <2>5, <2>6, <2>7, <2>8, <2>9
<1>22. ASSUME NEW kind \in Kinds, Request(kind) PROVE TypeOK'
  <2>1. UNCHANGED <<binding, known, record, backoff, operation, view, child>>
    BY <1>22 DEF Request
  <2>2. troubles' \in 0 .. MaxTroubles
    BY <1>22 DEF Request
  <2>3. change' \in Change
    BY <1>22 DEF Request, Change
  <2>4. paused' \in BOOLEAN
    BY <1>22 DEF Request
  <2>5. at' \in [Threads -> Labels]
    BY <1>22 DEF Request, Labels
  <2>6. QED
    BY <2>1, <2>2, <2>3, <2>4, <2>5
<1>23. ASSUME NEW c \in Children, TakeLock(c) PROVE TypeOK'
  <2>1. UNCHANGED <<troubles, binding, paused, known, record, backoff, operation, at,
         view, change>>
    BY <1>23 DEF TakeLock, Becomes, OnlyChild
  <2>2. child' \in [Children -> Child]
    <3>1. [child[c] EXCEPT !.at = IF Locked THEN "dead" ELSE "holding", !.says =
           "nothing"] \in Child
      BY ChildFields
    <3>2. QED
      BY <1>23, <3>1 DEF TakeLock, Becomes
  <2>3. QED
    BY <2>1, <2>2
<1>24. ASSUME NEW c \in Children, Fence(c) PROVE TypeOK'
  <2>1. UNCHANGED <<troubles, binding, paused, known, record, backoff, operation, at,
         view, change>>
    BY <1>24 DEF Fence, Becomes, OnlyChild
  <2>2. child' \in [Children -> Child]
    <3>1. [child[c] EXCEPT !.at = IF Served(c) THEN "serving" ELSE "dead", !.says =
           "nothing"] \in Child
      BY ChildFields
    <3>2. QED
      BY <1>24, <3>1 DEF Fence, Becomes
  <2>3. QED
    BY <2>1, <2>2
<1>25. ASSUME NEW c \in Children, Connect(c) PROVE TypeOK'
  <2>1. UNCHANGED <<troubles, binding, paused, known, record, backoff, operation, at,
         view, change>>
    BY <1>25 DEF Connect, Becomes, OnlyChild
  <2>2. child' \in [Children -> Child]
    <3>1. [child[c] EXCEPT !.at = "connected", !.says = "up"] \in Child
      BY ChildFields
    <3>2. QED
      BY <1>25, <3>1 DEF Connect, Becomes
  <2>3. QED
    BY <2>1, <2>2
<1>26. ASSUME NEW c \in Children, Exit(c) PROVE TypeOK'
  <2>1. UNCHANGED <<troubles, binding, paused, known, record, backoff, operation, at,
         view, change>>
    BY <1>26 DEF Exit, Gone, OnlyChild, NoProcess
  <2>2. child' \in [Children -> Child]
    <3>1. Gone(c) \in Child
      BY ChildFields, NewRecords DEF Gone
    <3>2. QED
      BY <1>26, <3>1 DEF Exit
  <2>3. QED
    BY <2>1, <2>2
<1>27. ASSUME NEW c \in Children, LoseConnection(c) PROVE TypeOK'
  <2>1. UNCHANGED <<binding, paused, known, record, backoff, operation, at, view, change>>
    BY <1>27 DEF LoseConnection, Becomes
  <2>2. troubles' \in 0 .. MaxTroubles
    BY <1>27 DEF LoseConnection, Becomes
  <2>3. child' \in [Children -> Child]
    <3>1. [child[c] EXCEPT !.at = "serving", !.says = "down"] \in Child
      BY ChildFields
    <3>2. QED
      BY <1>27, <3>1 DEF LoseConnection, Becomes
  <2>4. QED
    BY <2>1, <2>2, <2>3
<1>28. ASSUME NEW c \in Children, Die(c) PROVE TypeOK'
  <2>1. UNCHANGED <<binding, paused, known, record, backoff, operation, at, view, change>>
    BY <1>28 DEF Die, Gone, NoProcess
  <2>2. troubles' \in 0 .. MaxTroubles
    BY <1>28 DEF Die, Gone, NoProcess
  <2>3. child' \in [Children -> Child]
    <3>1. Gone(c) \in Child
      BY ChildFields, NewRecords DEF Gone
    <3>2. QED
      BY <1>28, <3>1 DEF Die
  <2>4. QED
    BY <2>1, <2>2, <2>3
<1>29. CASE UNCHANGED vars
  BY <1>29 DEF vars
<1>30. ASSUME Reconciles \/ Stops \/ Ensures PROVE TypeOK'
  <2> HIDE DEF TypeOK, RevisionFit, OperationFit, manager, supervisor, Go, Alive,
         Places, Threads
  <2>1. Supervises
    BY <1>30, SupervisorSteps
  <2>2. PICK t \in Threads, revision \in Revisions, x \in Places, y \in Places :
            \/ Start(t, revision, x, y) \/ Spawn(t, revision, x) \/ SpawnFails(t, x)
            \/ Stop(t, x) \/ Stopped(t, x, y) \/ StopTimesOut(t, x)
    BY <2>1 DEF Supervises
  <2>3. QED
    BY <2>2, <1>1, <1>2, <1>3, <1>4, <1>5, <1>6
<1>31. QED
  BY <1>30, <1>7, <1>8, <1>9, <1>10, <1>11, <1>12, <1>13,
     <1>14, <1>15, <1>16, <1>17, <1>18, <1>19, <1>20, <1>21, <1>22, <1>23, <1>24, <1>25,
     <1>26, <1>27, <1>28, <1>29
  DEF Next, Manage, Handle, Watch, Run, Process

\* A request commits one revision.
LEMMA RevisionStep ==
  ASSUME TypeOK, RevisionFit, OperationFit, [Next]_vars
  PROVE  RevisionFit'
<1> USE ProcessesAssumption DEF TypeOK, RevisionFit, OperationFit, Revisions, Kinds,
       manager, supervisor, Go, Alive, Places, Threads, Binding, Record, Child,
       Statuses, Labels
<1>1. ASSUME NEW t \in Threads, NEW revision \in Revisions, NEW x \in Places,
       NEW y \in Places, Start(t, revision, x, y) PROVE RevisionFit'
  BY <1>1 DEF Start, NoRecord, NoProcess
<1>2. ASSUME NEW t \in Threads, NEW revision \in Revisions, NEW x \in Places,
       NEW y \in Places, Spawn(t, revision, x) PROVE RevisionFit'
  BY <1>2 DEF Spawn, NoProcess
<1>3. ASSUME NEW t \in Threads, NEW revision \in Revisions, NEW x \in Places,
       NEW y \in Places, SpawnFails(t, x) PROVE RevisionFit'
  BY <1>3 DEF SpawnFails
<1>4. ASSUME NEW t \in Threads, NEW revision \in Revisions, NEW x \in Places,
       NEW y \in Places, Stop(t, x) PROVE RevisionFit'
  BY <1>4 DEF Stop
<1>5. ASSUME NEW t \in Threads, NEW revision \in Revisions, NEW x \in Places,
       NEW y \in Places, Stopped(t, x, y) PROVE RevisionFit'
  BY <1>5 DEF Stopped, NoRecord, NoProcess
<1>6. ASSUME NEW t \in Threads, NEW revision \in Revisions, NEW x \in Places,
       NEW y \in Places, StopTimesOut(t, x) PROVE RevisionFit'
  BY <1>6 DEF StopTimesOut
<1>7. CASE ReadBinding
  BY <1>7 DEF ReadBinding
<1>8. CASE LookAtPaused
  BY <1>8 DEF LookAtPaused
<1>9. CASE Knows
  BY <1>9 DEF Knows
<1>10. CASE WriteConnected
  BY <1>10 DEF WriteConnected, Connected
<1>11. CASE Forget
  BY <1>11 DEF Forget
<1>12. CASE Waited
  BY <1>12 DEF Waited
<1>13. CASE WaitTimesOut
  BY <1>13 DEF WaitTimesOut
<1>14. CASE Commit
  BY <1>14 DEF Commit
<1>15. CASE CommitFails
  BY <1>15 DEF CommitFails
<1>16. CASE Resume
  BY <1>16 DEF Resume
<1>17. CASE Ensured
  BY <1>17 DEF Ensured
<1>18. CASE Hear
  BY <1>18 DEF Hear
<1>19. CASE Notice
  BY <1>19 DEF Notice
<1>20. CASE BackoffEnds
  BY <1>20 DEF BackoffEnds
<1>21. CASE Crash
  <2>1. troubles' = troubles + 1 /\ binding' = binding /\ at'["request"] = "idle"
    BY <1>21 DEF Crash
  <2>2. binding.revision \in 1 .. MaxTroubles + 1
    BY DEF Binding
  <2>3. QED
    BY <2>1, <2>2
<1>22. ASSUME NEW kind \in Kinds, Request(kind) PROVE RevisionFit'
  BY <1>22 DEF Request
<1>23. ASSUME NEW c \in Children, TakeLock(c) PROVE RevisionFit'
  BY <1>23 DEF TakeLock, Becomes, OnlyChild
<1>24. ASSUME NEW c \in Children, Fence(c) PROVE RevisionFit'
  BY <1>24 DEF Fence, Becomes, OnlyChild
<1>25. ASSUME NEW c \in Children, Connect(c) PROVE RevisionFit'
  BY <1>25 DEF Connect, Becomes, OnlyChild
<1>26. ASSUME NEW c \in Children, Exit(c) PROVE RevisionFit'
  BY <1>26 DEF Exit, Gone, OnlyChild, NoProcess
<1>27. ASSUME NEW c \in Children, LoseConnection(c) PROVE RevisionFit'
  BY <1>27 DEF LoseConnection, Becomes
<1>28. ASSUME NEW c \in Children, Die(c) PROVE RevisionFit'
  BY <1>28 DEF Die, Gone, NoProcess
<1>29. CASE UNCHANGED vars
  BY <1>29 DEF vars
<1>30. ASSUME Reconciles \/ Stops \/ Ensures PROVE RevisionFit'
  <2> HIDE DEF TypeOK, RevisionFit, OperationFit, Revisions, Kinds, manager, supervisor,
         Go, Alive, Places, Threads, Binding, Record, Child, Statuses, Labels
  <2>1. Supervises
    BY <1>30, SupervisorSteps
  <2>2. PICK t \in Threads, revision \in Revisions, x \in Places, y \in Places :
            \/ Start(t, revision, x, y) \/ Spawn(t, revision, x) \/ SpawnFails(t, x)
            \/ Stop(t, x) \/ Stopped(t, x, y) \/ StopTimesOut(t, x)
    BY <2>1 DEF Supervises
  <2>3. QED
    BY <2>2, <1>1, <1>2, <1>3, <1>4, <1>5, <1>6
<1>31. QED
  BY <1>30, <1>7, <1>8, <1>9, <1>10, <1>11, <1>12, <1>13,
     <1>14, <1>15, <1>16, <1>17, <1>18, <1>19, <1>20, <1>21, <1>22, <1>23, <1>24, <1>25,
     <1>26, <1>27, <1>28, <1>29
  DEF Next, Manage, Handle, Watch, Run, Process

\* While a thread has the operation lock no other changes the record's child.
LEMMA OperationStep ==
  ASSUME TypeOK, OperationFit, [Next]_vars
  PROVE  OperationFit'
<1> USE ProcessesAssumption DEF TypeOK, OperationFit, Kinds, manager, supervisor, Go,
       Alive, Places, Threads, Binding, Record, Child, Statuses, Labels
<1>1. ASSUME NEW t \in Threads, NEW revision \in Revisions, NEW x \in Places,
       NEW y \in Places, Start(t, revision, x, y) PROVE OperationFit'
  BY <1>1 DEF Start, NoRecord, NoProcess
<1>2. ASSUME NEW t \in Threads, NEW revision \in Revisions, NEW x \in Places,
       NEW y \in Places, Spawn(t, revision, x) PROVE OperationFit'
  BY <1>2 DEF Spawn, NoProcess
<1>3. ASSUME NEW t \in Threads, NEW revision \in Revisions, NEW x \in Places,
       NEW y \in Places, SpawnFails(t, x) PROVE OperationFit'
  BY <1>3 DEF SpawnFails
<1>4. ASSUME NEW t \in Threads, NEW revision \in Revisions, NEW x \in Places,
       NEW y \in Places, Stop(t, x) PROVE OperationFit'
  BY <1>4 DEF Stop
<1>5. ASSUME NEW t \in Threads, NEW revision \in Revisions, NEW x \in Places,
       NEW y \in Places, Stopped(t, x, y) PROVE OperationFit'
  BY <1>5 DEF Stopped, NoRecord, NoProcess
<1>6. ASSUME NEW t \in Threads, NEW revision \in Revisions, NEW x \in Places,
       NEW y \in Places, StopTimesOut(t, x) PROVE OperationFit'
  BY <1>6 DEF StopTimesOut
<1>7. CASE ReadBinding
  BY <1>7 DEF ReadBinding
<1>8. CASE LookAtPaused
  BY <1>8 DEF LookAtPaused
<1>9. CASE Knows
  BY <1>9 DEF Knows
<1>10. CASE WriteConnected
  BY <1>10 DEF WriteConnected, Connected
<1>11. CASE Forget
  BY <1>11 DEF Forget
<1>12. CASE Waited
  BY <1>12 DEF Waited
<1>13. CASE WaitTimesOut
  BY <1>13 DEF WaitTimesOut
<1>14. CASE Commit
  BY <1>14 DEF Commit
<1>15. CASE CommitFails
  BY <1>15 DEF CommitFails
<1>16. CASE Resume
  BY <1>16 DEF Resume
<1>17. CASE Ensured
  BY <1>17 DEF Ensured
<1>18. CASE Hear
  BY <1>18 DEF Hear
<1>19. CASE Notice
  BY <1>19 DEF Notice
<1>20. CASE BackoffEnds
  BY <1>20 DEF BackoffEnds
<1>21. CASE Crash
  BY <1>21 DEF Crash, NoRecord, NoProcess
<1>22. ASSUME NEW kind \in Kinds, Request(kind) PROVE OperationFit'
  BY <1>22 DEF Request
<1>23. ASSUME NEW c \in Children, TakeLock(c) PROVE OperationFit'
  BY <1>23 DEF TakeLock, Becomes, OnlyChild
<1>24. ASSUME NEW c \in Children, Fence(c) PROVE OperationFit'
  BY <1>24 DEF Fence, Becomes, OnlyChild
<1>25. ASSUME NEW c \in Children, Connect(c) PROVE OperationFit'
  BY <1>25 DEF Connect, Becomes, OnlyChild
<1>26. ASSUME NEW c \in Children, Exit(c) PROVE OperationFit'
  BY <1>26 DEF Exit, Gone, OnlyChild, NoProcess
<1>27. ASSUME NEW c \in Children, LoseConnection(c) PROVE OperationFit'
  BY <1>27 DEF LoseConnection, Becomes
<1>28. ASSUME NEW c \in Children, Die(c) PROVE OperationFit'
  BY <1>28 DEF Die, Gone, NoProcess
<1>29. CASE UNCHANGED vars
  BY <1>29 DEF vars
<1>30. ASSUME Reconciles \/ Stops \/ Ensures PROVE OperationFit'
  <2> HIDE DEF TypeOK, OperationFit, Kinds, manager, supervisor, Go, Alive, Places,
         Threads, Binding, Record, Child, Statuses, Labels
  <2>1. Supervises
    BY <1>30, SupervisorSteps
  <2>2. PICK t \in Threads, revision \in Revisions, x \in Places, y \in Places :
            \/ Start(t, revision, x, y) \/ Spawn(t, revision, x) \/ SpawnFails(t, x)
            \/ Stop(t, x) \/ Stopped(t, x, y) \/ StopTimesOut(t, x)
    BY <2>1 DEF Supervises
  <2>3. QED
    BY <2>2, <1>1, <1>2, <1>3, <1>4, <1>5, <1>6
<1>31. QED
  BY <1>30, <1>7, <1>8, <1>9, <1>10, <1>11, <1>12, <1>13,
     <1>14, <1>15, <1>16, <1>17, <1>18, <1>19, <1>20, <1>21, <1>22, <1>23, <1>24, <1>25,
     <1>26, <1>27, <1>28, <1>29
  DEF Next, Manage, Handle, Watch, Run, Process

\* A child is spawned only while none is on record, and taken off the record only
\* when it is dead.
LEMMA ChildStep ==
  ASSUME TypeOK, OperationFit, OneChild, [Next]_vars
  PROVE  OneChild'
<1> USE ProcessesAssumption DEF TypeOK, OperationFit, OneChild, manager, supervisor, Go,
       Alive, Places, Threads, Binding, Record, Child, Statuses, Labels
<1>1. ASSUME NEW t \in Threads, NEW revision \in Revisions, NEW x \in Places,
       NEW y \in Places, Start(t, revision, x, y) PROVE OneChild'
  BY <1>1 DEF Start, NoRecord, NoProcess
<1>2. ASSUME NEW t \in Threads, NEW revision \in Revisions, NEW x \in Places,
       NEW y \in Places, Spawn(t, revision, x) PROVE OneChild'
  BY <1>2 DEF Spawn, NoProcess
<1>3. ASSUME NEW t \in Threads, NEW revision \in Revisions, NEW x \in Places,
       NEW y \in Places, SpawnFails(t, x) PROVE OneChild'
  BY <1>3 DEF SpawnFails
<1>4. ASSUME NEW t \in Threads, NEW revision \in Revisions, NEW x \in Places,
       NEW y \in Places, Stop(t, x) PROVE OneChild'
  BY <1>4 DEF Stop
<1>5. ASSUME NEW t \in Threads, NEW revision \in Revisions, NEW x \in Places,
       NEW y \in Places, Stopped(t, x, y) PROVE OneChild'
  BY <1>5 DEF Stopped, NoRecord, NoProcess
<1>6. ASSUME NEW t \in Threads, NEW revision \in Revisions, NEW x \in Places,
       NEW y \in Places, StopTimesOut(t, x) PROVE OneChild'
  BY <1>6 DEF StopTimesOut
<1>7. CASE ReadBinding
  BY <1>7 DEF ReadBinding
<1>8. CASE LookAtPaused
  BY <1>8 DEF LookAtPaused
<1>9. CASE Knows
  BY <1>9 DEF Knows
<1>10. CASE WriteConnected
  BY <1>10 DEF WriteConnected, Connected
<1>11. CASE Forget
  BY <1>11 DEF Forget
<1>12. CASE Waited
  BY <1>12 DEF Waited
<1>13. CASE WaitTimesOut
  BY <1>13 DEF WaitTimesOut
<1>14. CASE Commit
  BY <1>14 DEF Commit
<1>15. CASE CommitFails
  BY <1>15 DEF CommitFails
<1>16. CASE Resume
  BY <1>16 DEF Resume
<1>17. CASE Ensured
  BY <1>17 DEF Ensured
<1>18. CASE Hear
  BY <1>18 DEF Hear
<1>19. CASE Notice
  BY <1>19 DEF Notice
<1>20. CASE BackoffEnds
  BY <1>20 DEF BackoffEnds
<1>21. CASE Crash
  BY ZenonT(30), <1>21 DEF Crash, NoRecord, NoProcess
<1>22. ASSUME NEW kind \in Kinds, Request(kind) PROVE OneChild'
  BY <1>22 DEF Request
<1>23. ASSUME NEW c \in Children, TakeLock(c) PROVE OneChild'
  BY <1>23 DEF TakeLock, Becomes, OnlyChild
<1>24. ASSUME NEW c \in Children, Fence(c) PROVE OneChild'
  BY <1>24 DEF Fence, Becomes, OnlyChild
<1>25. ASSUME NEW c \in Children, Connect(c) PROVE OneChild'
  BY <1>25 DEF Connect, Becomes, OnlyChild
<1>26. ASSUME NEW c \in Children, Exit(c) PROVE OneChild'
  BY <1>26 DEF Exit, Gone, OnlyChild, NoProcess
<1>27. ASSUME NEW c \in Children, LoseConnection(c) PROVE OneChild'
  BY <1>27 DEF LoseConnection, Becomes
<1>28. ASSUME NEW c \in Children, Die(c) PROVE OneChild'
  BY <1>28 DEF Die, Gone, NoProcess
<1>29. CASE UNCHANGED vars
  BY <1>29 DEF vars
<1>30. ASSUME Reconciles \/ Stops \/ Ensures PROVE OneChild'
  <2> HIDE DEF TypeOK, OperationFit, OneChild, manager, supervisor, Go, Alive, Places,
         Threads, Binding, Record, Child, Statuses, Labels
  <2>1. Supervises
    BY <1>30, SupervisorSteps
  <2>2. PICK t \in Threads, revision \in Revisions, x \in Places, y \in Places :
            \/ Start(t, revision, x, y) \/ Spawn(t, revision, x) \/ SpawnFails(t, x)
            \/ Stop(t, x) \/ Stopped(t, x, y) \/ StopTimesOut(t, x)
    BY <2>1 DEF Supervises
  <2>3. QED
    BY <2>2, <1>1, <1>2, <1>3, <1>4, <1>5, <1>6
<1>31. QED
  BY <1>30, <1>7, <1>8, <1>9, <1>10, <1>11, <1>12, <1>13,
     <1>14, <1>15, <1>16, <1>17, <1>18, <1>19, <1>20, <1>21, <1>22, <1>23, <1>24, <1>25,
     <1>26, <1>27, <1>28, <1>29
  DEF Next, Manage, Handle, Watch, Run, Process

-----------------------------------------------------------------------------
(* The theorems. *)

LEMMA InvHolds == Spec => []IInv
<1>1. IInv /\ [Next]_vars => IInv'
  BY TypeStep, RevisionStep, OperationStep, ChildStep DEF IInv, Safe
<1>2. QED
  BY InitHolds, <1>1, PTL DEF Spec

\* Every variable of the processes keeps its type.
THEOREM TypeCorrect == Spec => []TypeOK
  BY InvHolds, PTL DEF IInv

\* A living child of this process is the one on record, so there is one at most,
\* for any number of requests, crashes and stops that give up.
THEOREM OneChildHolds == Spec => []OneChild
  BY InvHolds, PTL DEF IInv, Safe

=============================================================================
