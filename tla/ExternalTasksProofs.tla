-------------------------- MODULE ExternalTasksProofs --------------------------
(***************************************************************************)
(* Theorems of ExternalTasks, for every value of its constants.            *)
(***************************************************************************)
EXTENDS ExternalTasks, TLAPS

-----------------------------------------------------------------------------
(* The inductive invariant. *)

Answers == Ended \cup {"accepted", "working"}

\* Who works on a task has one, and what it has heard fits what it does.
HandFit ==
    /\ \A p \in Procs : at[p] # "idle" => task[p] \in Tasks
    /\ \A p \in Procs :
          at[p] = "wake" => loaded[p] \in Ended /\ heard[p] \in {"waiting", "ready"}
    /\ at[Worker] \in {"submit", "poll"} => heard[Worker] \in Answers \cup {"none"}
    /\ at[Caller] \in {"idle", "resume", "wake"}

\* A task that may still be sent was never sent, and nothing makes it so again.
SentFit ==
    \A k \in Tasks :
        /\ row[k] \in {"none", "queued"} => sent[k] = 0
        /\ sent[k] <= 1

\* A waiting frame waits for a task.  When that task has ended, somebody is about to
\* see both, or has seen the frame wait: who saw it "ready" would leave it as it is.
WaitFit ==
    /\ frame = "waiting" => for \in Tasks
    /\ crashes = 0 /\ frame = "waiting" /\ row[for] \in Ended =>
          \E p \in Procs :
              /\ task[p] = for
              /\ at[p] = "resume" \/ (at[p] = "wake" /\ heard[p] = "waiting")

Safe == HandFit /\ SentFit /\ WaitFit

IInv == TypeOK /\ Safe

-----------------------------------------------------------------------------
LEMMA InitHolds == Init => IInv
  BY ExternalAssumption
  DEF Init, IInv, TypeOK, Safe, HandFit, SentFit, WaitFit, Tasks, Procs, Statuses, Open,
      Ended, Final

\* The types: each row that a step writes is that of a task it has.
LEMMA TypeStep ==
  ASSUME TypeOK, HandFit, [Next]_vars
  PROVE  TypeOK'
<1> USE ExternalAssumption DEF TypeOK, HandFit, rows, procs, Goes, Sees, Rests, Open,
       Final, Ended, Statuses, Answers, Procs, Tasks
<1>1. CASE StartTurn
  BY <1>1 DEF StartTurn
<1>2. CASE Call
  BY SMTT(30), <1>2 DEF Call, Pending, SetupType
<1>3. CASE EndTurn
  BY <1>3 DEF EndTurn, Folds, Resumed
<1>4. ASSUME NEW p \in Procs, ResumeRead(p) PROVE TypeOK'
  BY <1>4 DEF ResumeRead
<1>5. ASSUME NEW p \in Procs, ResumeWrite(p) PROVE TypeOK'
  BY <1>5 DEF ResumeWrite, Resumed
<1>6. CASE Apply
  <2>1. task[Worker] \in Tasks /\ heard[Worker] \in Answers \cup {"none"}
    BY <1>6 DEF Apply
  <2>2. row' \in [Tasks -> Statuses] /\ lease' \in [Tasks -> BOOLEAN]
    BY <1>6, <2>1 DEF Apply
  <2>3. receipt' \in [Tasks -> BOOLEAN]
    <3>1. CASE heard[Worker] = "none"
      BY <1>6, <3>1 DEF Apply
    <3>2. CASE heard[Worker] # "none"
      <4> DEFINE said == heard[Worker] \in {"accepted", "working"}
      <4>1. receipt' = [receipt EXCEPT ![task[Worker]] = receipt[task[Worker]] \/ said]
        BY <1>6, <3>2 DEF Apply
      <4>2. (receipt[task[Worker]] \/ said) \in BOOLEAN
        OBVIOUS
      <4> HIDE DEF said
      <4>3. QED
        BY <4>1, <4>2
    <3>3. QED
      BY <3>1, <3>2
  <2>4. /\ at' \in [Procs -> {"idle", "submit", "poll", "resume", "wake"}]
        /\ task' \in [Procs -> Tasks \cup {NoTask}]
        /\ loaded' \in [Procs -> Statuses]
        /\ heard' \in [Procs -> Statuses \cup {"waiting", "ready"}]
    BY <1>6, <2>1 DEF Apply
  <2>5. UNCHANGED <<setup, crashes, turns, events, business, sent, frame, for, told>>
    BY <1>6 DEF Apply
  <2>6. QED
    BY <2>2, <2>3, <2>4, <2>5
<1>7. ASSUME NEW k \in Tasks, Stale(k) PROVE TypeOK'
  BY <1>7 DEF Stale, AfterLease
<1>8. ASSUME NEW k \in Tasks, Expire(k) PROVE TypeOK'
  BY <1>8 DEF Expire, Tracked
<1>9. ASSUME NEW k \in Tasks, Submit(k) PROVE TypeOK'
  <2>1. row' \in [Tasks -> Statuses] /\ lease' \in [Tasks -> BOOLEAN]
    BY <1>9 DEF Submit
  <2>2. sent' \in [Tasks -> Nat]
    <3>1. sent' = sent \/ sent' = [sent EXCEPT ![k] = sent[k] + 1]
      BY <1>9 DEF Submit
    <3>2. QED
      BY <3>1
  <2>3. business' \in [Tasks -> {"none", "working", "done", "failed"}]
    <3>1. \/ business' = business
          \/ \E b \in {"working", "done", "failed"} : business' = [business EXCEPT ![k] = b]
      BY <1>9 DEF Submit
    <3>2. QED
      BY <3>1
  <2>4. /\ loaded' \in [Procs -> Statuses]
        /\ heard' \in [Procs -> Statuses \cup {"waiting", "ready"}]
    <3>1. \E a, b \in Statuses :
             /\ loaded' = [loaded EXCEPT ![Worker] = a]
             /\ heard' = [heard EXCEPT ![Worker] = b]
      BY <1>9 DEF Submit
    <3>2. QED
      BY <3>1
  <2>5. /\ at' \in [Procs -> {"idle", "submit", "poll", "resume", "wake"}]
        /\ task' \in [Procs -> Tasks \cup {NoTask}]
    BY <1>9 DEF Submit
  <2>6. UNCHANGED <<setup, crashes, turns, receipt, events, frame, for, told>>
    BY <1>9 DEF Submit
  <2>7. QED
    BY <2>1, <2>2, <2>3, <2>4, <2>5, <2>6
<1>10. ASSUME NEW k \in Tasks, Poll(k) PROVE TypeOK'
  BY <1>10 DEF Poll
<1>11. ASSUME NEW k \in Tasks, NEW event \in {"progress", "end"}, Callback(k, event)
       PROVE TypeOK'
  <2>1. row' \in [Tasks -> Statuses]
    <3>1. \/ row' = row
          \/ \E b \in {"working", "completed", "failed"} : row' = [row EXCEPT ![k] = b]
      BY <1>11 DEF Callback
    <3>2. QED
      BY <3>1
  <2>2. events' \in [Tasks -> SUBSET {"progress", "end"}]
    BY <1>11 DEF Callback
  <2>3. /\ at' \in [Procs -> {"idle", "submit", "poll", "resume", "wake"}]
        /\ task' \in [Procs -> Tasks \cup {NoTask}]
    BY <1>11 DEF Callback
  <2>4. UNCHANGED <<setup, crashes, turns, receipt, lease, business, sent, loaded,
                    heard, frame, for, told>>
    BY <1>11 DEF Callback
  <2>5. QED
    BY <2>1, <2>2, <2>3, <2>4
<1>12. CASE Crash
  BY <1>12 DEF Crash
<1>13. ASSUME NEW k \in Tasks, Settle(k) PROVE TypeOK'
  BY <1>13 DEF Settle
<1>14. CASE UNCHANGED vars
  BY <1>14 DEF vars
<1>15. QED
  BY ZenonT(30), <1>1, <1>2, <1>3, <1>4, <1>5, <1>6, <1>7, <1>8, <1>9, <1>10, <1>11, <1>12,
     <1>13, <1>14
  DEF Next, Turn, Works, CallsBack, Procs

\* Each process keeps its task from its first step to its last.
LEMMA HandStep ==
  ASSUME TypeOK, HandFit, [Next]_vars
  PROVE  HandFit'
<1> USE ExternalAssumption DEF TypeOK, HandFit, rows, procs, Goes, Sees, Rests, Open,
       Final, Ended, Statuses, Answers, Procs, Tasks
<1>1. CASE StartTurn
  BY <1>1 DEF StartTurn
<1>2. CASE Call
  BY <1>2 DEF Call, Pending, SetupType
<1>3. CASE EndTurn
  BY <1>3 DEF EndTurn, Folds, Resumed
<1>4. ASSUME NEW p \in Procs, ResumeRead(p) PROVE HandFit'
  BY <1>4 DEF ResumeRead
<1>5. ASSUME NEW p \in Procs, ResumeWrite(p) PROVE HandFit'
  BY <1>5 DEF ResumeWrite, Resumed
<1>6. CASE Apply
  BY <1>6 DEF Apply
<1>7. ASSUME NEW k \in Tasks, Stale(k) PROVE HandFit'
  BY <1>7 DEF Stale, AfterLease
<1>8. ASSUME NEW k \in Tasks, Expire(k) PROVE HandFit'
  BY <1>8 DEF Expire, Tracked
<1>9. ASSUME NEW k \in Tasks, Submit(k) PROVE HandFit'
  BY <1>9 DEF Submit
<1>10. ASSUME NEW k \in Tasks, Poll(k) PROVE HandFit'
  BY <1>10 DEF Poll
<1>11. ASSUME NEW k \in Tasks, NEW event \in {"progress", "end"}, Callback(k, event)
       PROVE HandFit'
  BY <1>11 DEF Callback, Reopens
<1>12. CASE Crash
  BY <1>12 DEF Crash
<1>13. ASSUME NEW k \in Tasks, Settle(k) PROVE HandFit'
  BY <1>13 DEF Settle
<1>14. CASE UNCHANGED vars
  BY <1>14 DEF vars
<1>15. QED
  BY <1>1, <1>2, <1>3, <1>4, <1>5, <1>6, <1>7, <1>8, <1>9, <1>10, <1>11, <1>12,
     <1>13, <1>14
  DEF Next, Turn, Works, CallsBack, Procs

\* No step makes a task queued that was sent.
LEMMA SentStep ==
  ASSUME TypeOK, HandFit, SentFit, [Next]_vars
  PROVE  SentFit'
<1> USE ExternalAssumption DEF TypeOK, HandFit, SentFit, rows, procs, Goes, Sees, Rests,
       Open, Final, Ended, Statuses, Answers, Procs, Tasks
<1>1. CASE StartTurn
  BY <1>1 DEF StartTurn
<1>2. CASE Call
  BY <1>2 DEF Call, Pending, SetupType
<1>3. CASE EndTurn
  BY <1>3 DEF EndTurn, Folds, Resumed
<1>4. ASSUME NEW p \in Procs, ResumeRead(p) PROVE SentFit'
  BY <1>4 DEF ResumeRead
<1>5. ASSUME NEW p \in Procs, ResumeWrite(p) PROVE SentFit'
  BY <1>5 DEF ResumeWrite, Resumed
<1>6. CASE Apply
  BY <1>6 DEF Apply
<1>7. ASSUME NEW k \in Tasks, Stale(k) PROVE SentFit'
  BY <1>7 DEF Stale, AfterLease
<1>8. ASSUME NEW k \in Tasks, Expire(k) PROVE SentFit'
  BY <1>8 DEF Expire, Tracked
<1>9. ASSUME NEW k \in Tasks, Submit(k) PROVE SentFit'
  BY <1>9 DEF Submit
<1>10. ASSUME NEW k \in Tasks, Poll(k) PROVE SentFit'
  BY <1>10 DEF Poll
<1>11. ASSUME NEW k \in Tasks, NEW event \in {"progress", "end"}, Callback(k, event)
       PROVE SentFit'
  BY <1>11 DEF Callback, Reopens
<1>12. CASE Crash
  BY <1>12 DEF Crash
<1>13. ASSUME NEW k \in Tasks, Settle(k) PROVE SentFit'
  BY <1>13 DEF Settle
<1>14. CASE UNCHANGED vars
  BY <1>14 DEF vars
<1>15. QED
  BY <1>1, <1>2, <1>3, <1>4, <1>5, <1>6, <1>7, <1>8, <1>9, <1>10, <1>11, <1>12,
     <1>13, <1>14
  DEF Next, Turn, Works, CallsBack, Procs

\* Whoever ends a task that the frame waits for goes on to resume the frame.
LEMMA WaitStep ==
  ASSUME TypeOK, HandFit, WaitFit, [Next]_vars
  PROVE  WaitFit'
<1> USE ExternalAssumption DEF TypeOK, HandFit, WaitFit, rows, procs, Goes, Sees, Rests,
       Open, Final, Ended, Statuses, Answers, Procs, Tasks
<1>1. CASE StartTurn
  BY <1>1 DEF StartTurn
<1>2. CASE Call
  BY <1>2 DEF Call, Pending, SetupType
<1>3. CASE EndTurn
  BY <1>3 DEF EndTurn, Folds, Resumed
<1>4. ASSUME NEW p \in Procs, ResumeRead(p) PROVE WaitFit'
  BY <1>4 DEF ResumeRead
<1>5. ASSUME NEW p \in Procs, ResumeWrite(p) PROVE WaitFit'
  BY <1>5 DEF ResumeWrite, Resumed
<1>6. CASE Apply
  BY <1>6 DEF Apply
<1>7. ASSUME NEW k \in Tasks, Stale(k) PROVE WaitFit'
  BY <1>7 DEF Stale, AfterLease
<1>8. ASSUME NEW k \in Tasks, Expire(k) PROVE WaitFit'
  BY <1>8 DEF Expire, Tracked
<1>9. ASSUME NEW k \in Tasks, Submit(k) PROVE WaitFit'
  BY <1>9 DEF Submit
<1>10. ASSUME NEW k \in Tasks, Poll(k) PROVE WaitFit'
  BY <1>10 DEF Poll
<1>11. ASSUME NEW k \in Tasks, NEW event \in {"progress", "end"}, Callback(k, event)
       PROVE WaitFit'
  BY <1>11 DEF Callback, Reopens
<1>12. CASE Crash
  BY <1>12 DEF Crash
<1>13. ASSUME NEW k \in Tasks, Settle(k) PROVE WaitFit'
  BY <1>13 DEF Settle
<1>14. CASE UNCHANGED vars
  BY <1>14 DEF vars
<1>15. QED
  BY <1>1, <1>2, <1>3, <1>4, <1>5, <1>6, <1>7, <1>8, <1>9, <1>10, <1>11, <1>12,
     <1>13, <1>14
  DEF Next, Turn, Works, CallsBack, Procs

-----------------------------------------------------------------------------
(* The theorems. *)

LEMMA InvHolds == Spec => []IInv
<1>1. IInv /\ [Next]_vars => IInv'
  BY TypeStep, HandStep, SentStep, WaitStep DEF IInv, Safe
<1>2. QED
  BY InitHolds, <1>1, PTL DEF Spec

\* Every variable of the tasks keeps its type.
THEOREM TypeCorrect == Spec => []TypeOK
  BY InvHolds, PTL DEF IInv

\* The request of a task is sent once at most, for any number of tasks, turns and
\* crashes, though leases run out and late answers are written over callbacks.
THEOREM SentOnceHolds == Spec => []SentOnce
<1>1. IInv => SentOnce
  BY DEF IInv, Safe, SentFit, SentOnce
<1>2. QED
  BY InvHolds, <1>1, PTL

\* Until the process dies, a frame that waits for a task that has ended is about
\* to be resumed.
THEOREM HandsOverHolds == Spec => []HandsOver
<1>1. IInv => HandsOver
  BY DEF IInv, Safe, WaitFit, HandsOver
<1>2. QED
  BY InvHolds, <1>1, PTL

-----------------------------------------------------------------------------
(* ExternalTasks implements TaskContract. *)

\* What is shown, heard or about to be told as completed was served; what is handled
\* or waited for has a record.
DoneFit ==
    /\ \A k \in Tasks :
        /\ row[k] = "completed" => business[k] = "done"
        /\ business[k] # "none" => sent[k] = 1
    /\ at[Worker] \in {"submit", "poll"} /\ heard[Worker] = "completed"
          => business[task[Worker]] = "done"
    /\ \A p \in Procs :
        /\ at[p] = "wake" /\ loaded[p] = "completed" => business[task[p]] = "done"
        /\ at[p] # "idle" => row[task[p]] # "none"
    /\ for \in Tasks => row[for] # "none"

\* The business system's word is kept on its way to the frame.
LEMMA DoneStep ==
  ASSUME TypeOK, HandFit, SentFit, DoneFit, [Next]_vars
  PROVE  DoneFit'
<1> USE ExternalAssumption DEF TypeOK, HandFit, DoneFit, rows, procs, Goes, Sees, Rests,
       Open, Final, Ended, Statuses, Procs, Tasks
<1>1. CASE StartTurn
  BY <1>1 DEF StartTurn
<1>2. CASE Call
  <2>1. CASE UNCHANGED row
    BY <1>2, <2>1 DEF Call, Pending, SetupType
  <2>2. CASE \E k \in Tasks : row' = [row EXCEPT ![k] = "queued"] /\ for' = k
    BY <1>2, <2>2 DEF Call
  <2>3. QED
    BY <1>2, <2>1, <2>2 DEF Call, SetupType
<1>3. CASE EndTurn
  BY <1>3 DEF EndTurn, Folds, Resumed
<1>4. ASSUME NEW p \in Procs, ResumeRead(p) PROVE DoneFit'
  BY <1>4 DEF ResumeRead
<1>5. ASSUME NEW p \in Procs, ResumeWrite(p) PROVE DoneFit'
  BY <1>5 DEF ResumeWrite, Resumed
<1>6. CASE Apply
  BY <1>6 DEF Apply
<1>7. ASSUME NEW k \in Tasks, Stale(k) PROVE DoneFit'
  BY <1>7 DEF Stale, AfterLease
<1>8. ASSUME NEW k \in Tasks, Expire(k) PROVE DoneFit'
  BY <1>8 DEF Expire, Tracked
<1>9. ASSUME NEW k \in Tasks, Submit(k) PROVE DoneFit'
  <2>1. row[k] = "queued" /\ at[Worker] = "idle" /\ sent[k] = 0 /\ business[k] = "none"
    BY <1>9 DEF Submit, SentFit
  <2>2. \E s \in {"submitting", "working"} : row' = [row EXCEPT ![k] = s]
    BY <1>9 DEF Submit
  <2>3. \/ /\ UNCHANGED <<sent, business>> /\ heard'[Worker] # "completed"
        \/ /\ sent' = [sent EXCEPT ![k] = 1]
           /\ \E b \in {"working", "done", "failed"} : business' = [business EXCEPT ![k] = b]
           /\ heard'[Worker] = "completed" => business'[k] = "done"
    BY <1>9, <2>1 DEF Submit
  <2>4. /\ at' = [at EXCEPT ![Worker] = "submit"] /\ task' = [task EXCEPT ![Worker] = k]
        /\ UNCHANGED for /\ loaded'[Caller] = loaded[Caller]
    BY <1>9 DEF Submit
  <2>5. \A j \in Tasks : /\ row'[j] = "completed" => business'[j] = "done"
                         /\ business'[j] # "none" => sent'[j] = 1
                         /\ row[j] # "none" => row'[j] # "none"
                         /\ business[j] = "done" => business'[j] = "done"
    <3> TAKE j \in Tasks
    <3>1. /\ row'[j] = "completed" => row[j] = "completed"
          /\ row[j] # "none" => row'[j] # "none"
      BY <2>1, <2>2
    <3>2. /\ row[j] = "completed" => business[j] = "done"
          /\ business[j] # "none" => sent[j] = 1
      OBVIOUS
    <3>3. /\ business'[j] # "none" => sent'[j] = 1
          /\ business[j] = "done" => business'[j] = "done"
      <4>1. CASE UNCHANGED <<sent, business>>
        BY <3>2, <4>1
      <4>2. CASE /\ sent' = [sent EXCEPT ![k] = 1]
                 /\ \E b \in {"working", "done", "failed"} :
                         business' = [business EXCEPT ![k] = b]
        BY <2>1, <3>2, <4>2
      <4>3. QED
        BY <2>3, <4>1, <4>2
    <3>4. QED
      BY <3>1, <3>2, <3>3
  <2>6. at'[Worker] \in {"submit", "poll"} /\ heard'[Worker] = "completed"
           => business'[task'[Worker]] = "done"
    BY <2>1, <2>3, <2>4
  <2>7. ASSUME NEW p \in Procs
        PROVE  /\ at'[p] = "wake" /\ loaded'[p] = "completed"
                     => business'[task'[p]] = "done"
               /\ at'[p] # "idle" => row'[task'[p]] # "none"
    <3>1. CASE p = Worker
      BY <2>1, <2>2, <2>4, <3>1
    <3>2. CASE p = Caller
      BY <2>4, <2>5, <3>2
    <3>3. QED
      BY <3>1, <3>2
  <2>8. for' \in Tasks => row'[for'] # "none"
    BY <2>4, <2>5
  <2>9. QED
    BY <2>5, <2>6, <2>7, <2>8
<1>10. ASSUME NEW k \in Tasks, Poll(k) PROVE DoneFit'
  BY <1>10 DEF Poll
<1>11. ASSUME NEW k \in Tasks, NEW event \in {"progress", "end"}, Callback(k, event)
       PROVE DoneFit'
  <2>1. CASE Reopens(row[k])
    <3>1. \E b \in {"working", "completed", "failed"} :
             /\ row' = [row EXCEPT ![k] = b]
             /\ b = "completed" => business[k] = "done"
      BY <1>11, <2>1 DEF Callback
    <3>2. /\ at' = [at EXCEPT ![Caller] = "resume"] /\ task' = [task EXCEPT ![Caller] = k]
          /\ UNCHANGED <<business, sent, loaded, heard, for>>
      BY <1>11, <2>1 DEF Callback
    <3>3. QED
      BY <3>1, <3>2
  <2>2. CASE ~Reopens(row[k])
    BY <1>11, <2>2 DEF Callback
  <2>3. QED
    BY <2>1, <2>2
<1>12. CASE Crash
  BY <1>12 DEF Crash
<1>13. ASSUME NEW k \in Tasks, Settle(k) PROVE DoneFit'
  BY <1>13 DEF Settle
<1>14. CASE UNCHANGED vars
  BY <1>14 DEF vars
<1>15. QED
  BY ZenonT(30), <1>1, <1>2, <1>3, <1>4, <1>5, <1>6, <1>7, <1>8, <1>9, <1>10, <1>11, <1>12,
     <1>13, <1>14
  DEF Next, Turn, Works, CallsBack, Procs

\* The contract sees the records, the requests, what was served, and the frame.
LEMMA Unseen ==
  ASSUME UNCHANGED <<row, sent, business, told>>, frame' = "waiting" <=> frame = "waiting"
  PROVE  UNCHANGED Contract!vars
  BY DEF Contract!vars, Recorded, Done, Completed

\* A record that is written is shown as completed, or no more so.
LEMMA RowSeen ==
  ASSUME TypeOK, NEW k \in Tasks, NEW s \in Statuses \ {"none"},
         row[k] # "none", row' = [row EXCEPT ![k] = s],
         s = "completed" => business[k] = "done",
         UNCHANGED <<sent, business, frame, told>>
  PROVE  Contract!Next
<1>1. Recorded' = Recorded
  BY DEF Recorded, TypeOK
<1>2. Done' = Done
  BY DEF Done
<1>3. CASE s = "completed"
  <2>1. Completed' = Completed \cup {k}
    BY <1>3 DEF Completed, TypeOK
  <2>2. Contract!Complete(k)
    BY <1>1, <1>2, <1>3, <2>1 DEF Contract!Complete, Done
  <2>3. QED
    BY <2>2 DEF Contract!Next
<1>4. CASE s # "completed"
  <2>1. Completed' = Completed \ {k}
    BY <1>4 DEF Completed, TypeOK
  <2>2. Contract!Withdraw(k)
    BY <1>1, <1>2, <2>1 DEF Contract!Withdraw
  <2>3. QED
    BY <2>2 DEF Contract!Next
<1>5. QED
  BY <1>3, <1>4

\* A frame that is resumed with the end of a recorded task.
LEMMA ResumeSeen ==
  ASSUME NEW k \in Tasks, NEW result \in Ended,
         row[k] # "none", result = "completed" => business[k] = "done",
         told' = result, frame' = "waiting" => frame = "waiting",
         UNCHANGED <<row, sent, business>>
  PROVE  Contract!Next
<1>1. UNCHANGED <<Recorded, Done, Completed>>
  BY DEF Recorded, Done, Completed
<1>2. (frame = "waiting")' \in {frame = "waiting", FALSE}
  OBVIOUS
<1>3. Contract!Resume(k, result)
  BY <1>1, <1>2 DEF Contract!Resume, Recorded, Done
<1>4. QED
  BY <1>3 DEF Contract!Next

\* Each step is a step of the contract, or none that it sees.
LEMMA ContractStep ==
  ASSUME TypeOK, HandFit, SentFit, WaitFit, DoneFit, [Next]_vars
  PROVE  [Contract!Next]_(Contract!vars)
<1> USE DEF rows, procs
<1>1. CASE StartTurn
  <2>1. UNCHANGED <<Recorded, Done, Completed, sent, told>> /\ frame' # "waiting"
    BY <1>1 DEF StartTurn, Recorded, Done, Completed
  <2>2. Contract!TakeUp
    BY <2>1 DEF Contract!TakeUp
  <2>3. QED
    BY <2>2 DEF Contract!Next
<1>2. CASE Call
  <2>1. CASE UNCHANGED row
    BY <1>2, <2>1, Unseen DEF Call
  <2>2. CASE \E k \in Tasks : row[k] = "none" /\ row' = [row EXCEPT ![k] = "queued"]
    <3>1. PICK k \in Tasks : row[k] = "none" /\ row' = [row EXCEPT ![k] = "queued"]
      BY <2>2
    <3>2. Recorded' = Recorded \cup {k} /\ Completed' = Completed /\ k \notin Recorded
      BY <3>1 DEF Recorded, Completed, TypeOK
    <3>3. UNCHANGED <<sent, Done, frame, told>>
      BY <1>2 DEF Call, Done
    <3>4. Contract!Record(k)
      BY <3>2, <3>3 DEF Contract!Record
    <3>5. QED
      BY <3>4 DEF Contract!Next
  <2>3. QED
    BY <1>2, <2>1, <2>2, ExternalAssumption DEF Call, SetupType, Tasks, TypeOK
<1>3. CASE EndTurn
  <2>1. CASE for = NoTask
    BY <1>3, <2>1, Unseen DEF EndTurn
  <2>2. CASE for # NoTask /\ Folds
    <3>1. for \in Tasks /\ row[for] \in Ended /\ row[for] # "none"
      BY <2>2 DEF Folds, TypeOK, Ended, Final
    <3>2. told' = row[for] /\ frame' # "waiting" /\ UNCHANGED <<row, sent, business>>
      BY <1>3, <2>2 DEF EndTurn, Resumed
    <3>3. QED
      BY <3>1, <3>2, ResumeSeen DEF DoneFit
  <2>3. CASE for # NoTask /\ ~Folds
    <3>1. for \in Recorded
      BY <2>3 DEF TypeOK, DoneFit, Recorded
    <3>2. UNCHANGED <<Recorded, Done, Completed, sent, told>> /\ frame' = "waiting"
      BY <1>3, <2>3 DEF EndTurn, Recorded, Done, Completed
    <3>3. Contract!Wait
      BY <3>1, <3>2 DEF Contract!Wait
    <3>4. QED
      BY <3>3 DEF Contract!Next
  <2>4. QED
    BY <2>1, <2>2, <2>3
<1>4. ASSUME NEW p \in Procs, ResumeRead(p) PROVE [Contract!Next]_(Contract!vars)
  BY <1>4, Unseen DEF ResumeRead
<1>5. ASSUME NEW p \in Procs, ResumeWrite(p) PROVE [Contract!Next]_(Contract!vars)
  <2>1. task[p] \in Tasks /\ loaded[p] \in Ended /\ row[task[p]] # "none"
    BY <1>5 DEF ResumeWrite, HandFit, DoneFit
  <2>2. loaded[p] = "completed" => business[task[p]] = "done"
    BY <1>5 DEF ResumeWrite, DoneFit
  <2>3. /\ told' = loaded[p]
        /\ frame' = "waiting" => frame = "waiting"
        /\ UNCHANGED <<row, sent, business>>
    BY <1>5 DEF ResumeWrite, Resumed
  <2>4. QED
    BY <2>1, <2>2, <2>3, ResumeSeen
<1>6. CASE Apply
  <2>1. CASE UNCHANGED row
    BY <1>6, <2>1, Unseen DEF Apply
  <2>2. CASE heard[Worker] # "none" /\ row' = [row EXCEPT ![task[Worker]] = heard[Worker]]
    <3>1. /\ task[Worker] \in Tasks /\ row[task[Worker]] # "none"
          /\ heard[Worker] \in Statuses \ {"none"}
      BY <1>6, <2>2 DEF Apply, HandFit, DoneFit, Procs, Answers, Statuses, Open, Ended
    <3>2. heard[Worker] = "completed" => business[task[Worker]] = "done"
      BY <1>6 DEF Apply, DoneFit
    <3>3. UNCHANGED <<sent, business, frame, told>>
      BY <1>6 DEF Apply
    <3>4. QED
      BY <2>2, <3>1, <3>2, <3>3, RowSeen
  <2>3. QED
    BY <1>6, <2>1, <2>2 DEF Apply
<1>7. ASSUME NEW k \in Tasks, Stale(k) PROVE [Contract!Next]_(Contract!vars)
  <2>1. AfterLease(k) \in Statuses \ {"none", "completed"} /\ row[k] # "none"
    BY <1>7 DEF Stale, AfterLease, Statuses, Open, Ended
  <2>2. row' = [row EXCEPT ![k] = AfterLease(k)] /\ UNCHANGED <<sent, business, frame, told>>
    BY <1>7 DEF Stale
  <2>3. QED
    BY <2>1, <2>2, RowSeen
<1>8. ASSUME NEW k \in Tasks, Expire(k) PROVE [Contract!Next]_(Contract!vars)
  <2>1. row[k] # "none"
    BY <1>8 DEF Expire, Tracked, Open
  <2>2. row' = [row EXCEPT ![k] = "expired"] /\ UNCHANGED <<sent, business, frame, told>>
    BY <1>8 DEF Expire
  <2>3. QED
    BY <2>1, <2>2, RowSeen DEF Statuses, Ended, Final
<1>9. ASSUME NEW k \in Tasks, Submit(k) PROVE [Contract!Next]_(Contract!vars)
  <2>1. row[k] = "queued" /\ sent[k] = 0 /\ business[k] = "none"
    BY <1>9 DEF Submit, SentFit, DoneFit
  <2>2. PICK s \in {"submitting", "working"} : row' = [row EXCEPT ![k] = s]
    BY <1>9 DEF Submit
  <2>3. UNCHANGED <<frame, told>>
    BY <1>9 DEF Submit
  <2>4. CASE UNCHANGED <<sent, business>>
    BY <2>1, <2>2, <2>3, <2>4, RowSeen DEF Statuses, Open
  <2>5. CASE sent' = [sent EXCEPT ![k] = sent[k] + 1]
    <3>1. sent' = [sent EXCEPT ![k] = 1]
      BY <2>1, <2>5
    <3>2. Recorded' = Recorded /\ Completed' = Completed /\ k \in Recorded
      BY <2>1, <2>2 DEF Recorded, Completed, TypeOK
    <3>3. \E b \in {"working", "done", "failed"} : business' = [business EXCEPT ![k] = b]
      <4>1. sent' # sent
        BY <2>1, <3>1 DEF TypeOK
      <4>2. QED
        BY <1>9, <4>1 DEF Submit
    <3>4. Done' \in {Done, Done \cup {k}}
      <4>1. PICK b \in {"working", "done", "failed"} : business' = [business EXCEPT ![k] = b]
        BY <3>3
      <4>2. CASE b = "done"
        BY <4>1, <4>2 DEF Done, TypeOK
      <4>3. CASE b # "done"
        BY <2>1, <4>1, <4>3 DEF Done, TypeOK
      <4>4. QED
        BY <4>2, <4>3
    <3>5. Contract!Send(k)
      BY <2>1, <2>3, <3>1, <3>2, <3>4 DEF Contract!Send
    <3>6. QED
      BY <3>5 DEF Contract!Next
  <2>6. QED
    BY <1>9, <2>4, <2>5 DEF Submit
<1>10. ASSUME NEW k \in Tasks, Poll(k) PROVE [Contract!Next]_(Contract!vars)
  BY <1>10, Unseen DEF Poll
<1>11. ASSUME NEW k \in Tasks, NEW event \in {"progress", "end"}, Callback(k, event)
       PROVE [Contract!Next]_(Contract!vars)
  <2>1. CASE UNCHANGED row
    BY <1>11, <2>1, Unseen DEF Callback
  <2>2. CASE \E s \in {"working", "completed", "failed"} :
                /\ row' = [row EXCEPT ![k] = s]
                /\ s = "completed" => business[k] = "done"
    <3>1. row[k] # "none"
      BY <1>11 DEF Callback, DoneFit, SentFit
    <3>2. UNCHANGED <<sent, business, frame, told>>
      BY <1>11 DEF Callback
    <3>3. QED
      BY <2>2, <3>1, <3>2, RowSeen DEF Statuses, Open, Ended, Final
  <2>3. QED
    <3>1. CASE event = "progress"
      BY <1>11, <2>1, <2>2, <3>1 DEF Callback
    <3>2. CASE event # "progress" /\ business[k] = "done"
      BY <1>11, <2>1, <2>2, <3>2 DEF Callback
    <3>3. CASE event # "progress" /\ business[k] # "done"
      BY <1>11, <2>1, <2>2, <3>3 DEF Callback
    <3>4. QED
      BY <3>1, <3>2, <3>3
<1>12. CASE Crash
  BY <1>12, Unseen DEF Crash
<1>13. ASSUME NEW k \in Tasks, Settle(k) PROVE [Contract!Next]_(Contract!vars)
  <2>1. /\ business[k] = "working" /\ sent[k] = 1
        /\ UNCHANGED <<row, sent, frame, told>>
    BY <1>13 DEF Settle, DoneFit
  <2>2. UNCHANGED <<Recorded, Completed>>
    BY <2>1 DEF Recorded, Completed
  <2>3. CASE business' = [business EXCEPT ![k] = "done"]
    <3>1. Done' = Done \cup {k}
      BY <2>3 DEF Done, TypeOK
    <3>2. Contract!Serve(k)
      BY <2>1, <2>2, <3>1 DEF Contract!Serve
    <3>3. QED
      BY <3>2 DEF Contract!Next
  <2>4. CASE business' = [business EXCEPT ![k] = "failed"]
    <3>1. Done' = Done
      BY <2>1, <2>4 DEF Done, TypeOK
    <3>2. QED
      BY <2>1, <2>2, <3>1 DEF Contract!vars
  <2>5. QED
    BY <1>13, <2>3, <2>4 DEF Settle
<1>14. CASE UNCHANGED vars
  BY <1>14, Unseen DEF vars
<1>15. QED
  BY ZenonT(30), <1>1, <1>2, <1>3, <1>4, <1>5, <1>6, <1>7, <1>8, <1>9, <1>10, <1>11, <1>12,
     <1>13, <1>14
  DEF Next, Turn, Works, CallsBack, Procs

\* The tasks keep their promise, for any number of tasks, turns and crashes.
THEOREM ImplementsContractHolds == Spec => ImplementsContract
<1>1. Init => DoneFit
  BY ExternalAssumption DEF Init, DoneFit, Tasks, Procs
<1>2. Init => Contract!Init
  BY DEF Init, Contract!Init, Recorded, Done, Completed
<1>3. IInv /\ DoneFit /\ [Next]_vars => DoneFit'
  BY DoneStep DEF IInv, Safe
<1>4. IInv /\ DoneFit /\ [Next]_vars => [Contract!Next]_(Contract!vars)
  BY ContractStep DEF IInv, Safe
<1>5. QED
  BY <1>1, <1>2, <1>3, <1>4, InvHolds, PTL DEF Spec, ImplementsContract, Contract!Spec

=============================================================================
