--------------------------- MODULE PublicJobsProofs ---------------------------
(***************************************************************************)
(* Theorems of PublicJobs, for every value of its constants.               *)
(***************************************************************************)
EXTENDS PublicJobs, TLAPS

-----------------------------------------------------------------------------
(* The inductive invariant. *)

\* Who is answered is answered with the job of the record, which stays.
AnswerFit ==
    \A r \in Requests :
        request[r].at = "answered" => record # NoJob /\ request[r].job = record

\* A job is created by its request, once, with an event.
CreateFit ==
    /\ \A j \in Requests : request[j].at \in {"new", "checked"} => job[j] = "none"
    /\ \A j \in Requests : job[j] # "none" => events[j] > 0

\* A thread has a job while the job is running; before that, and until the
\* turn is begun, the turn was never begun.
RanFit ==
    \A j \in Requests :
        /\ at[j] # "idle" => job[j] = "running"
        /\ job[j] \in {"none", "queued"} \/ at[j] \in {"starting", "publishing", "started"}
              => ran[j] = 0
        /\ ran[j] <= 1

\* A stream follows a job that exists.
FollowFit ==
    /\ stream.of = NoJob => stream.at = "none" /\ stream.cursor = 0
    /\ stream.of # NoJob => job[stream.of] # "none"

\* It saw the end of the job, or an event is left for it to show: every end
\* publishes one, in the transaction that ends the job.
StreamFit ==
    /\ stream.of # NoJob /\ job[stream.of] \in Ended =>
            stream.complete \/ stream.cursor < events[stream.of]
    /\ stream.of # NoJob => stream.cursor <= events[stream.of]
    /\ stream.at = "over" => job[stream.of] \in Ended
    /\ stream.at = "closed" => stream.complete

Safe == AnswerFit /\ CreateFit /\ RanFit /\ FollowFit /\ StreamFit

IInv == TypeOK /\ Safe

-----------------------------------------------------------------------------
LEMMA InitHolds == Init => IInv
  BY JobsAssumption
  DEF Init, IInv, TypeOK, Safe, AnswerFit, CreateFit, RanFit, FollowFit, StreamFit, Ended

LEMMA TypeStep ==
  ASSUME TypeOK, FollowFit, [Next]_vars
  PROVE  TypeOK'
<1> USE JobsAssumption DEF TypeOK, Ended, clients, flags, work, bounds, Go, Publishes
<1>1. ASSUME NEW r \in Requests, Replay(r) PROVE TypeOK'
  BY <1>1 DEF Replay, Answers
<1>2. ASSUME NEW r \in Requests, Create(r) PROVE TypeOK'
  BY <1>2 DEF Create
<1>3. ASSUME NEW r \in Requests, Store(r) PROVE TypeOK'
  BY <1>3 DEF Store, Answers
<1>4. ASSUME NEW r \in Requests, CancelRead(r) PROVE TypeOK'
  BY <1>4 DEF CancelRead
<1>5. ASSUME NEW r \in Requests, CancelWrite(r) PROVE TypeOK'
  BY <1>5 DEF CancelWrite
<1>6. ASSUME NEW r \in Requests, Claim(r) PROVE TypeOK'
  BY <1>6 DEF Claim
<1>7. ASSUME NEW r \in Requests, StartRead(r) PROVE TypeOK'
  BY <1>7 DEF StartRead
<1>8. ASSUME NEW r \in Requests, StartWrite(r) PROVE TypeOK'
  BY <1>8 DEF StartWrite
<1>9. ASSUME NEW r \in Requests, StartTurn(r) PROVE TypeOK'
  BY <1>9 DEF StartTurn
<1>10. ASSUME NEW r \in Requests, EndTurn(r) PROVE TypeOK'
  BY <1>10 DEF EndTurn
<1>11. ASSUME NEW r \in Requests, GiveUp(r) PROVE TypeOK'
  BY <1>11 DEF GiveUp, Terminalize
<1>12. ASSUME NEW r \in Requests, Finish(r) PROVE TypeOK'
  BY <1>12 DEF Finish, Terminalize
<1>13. ASSUME NEW r \in Requests, Open(r) PROVE TypeOK'
  BY <1>13 DEF Open
<1>14. CASE StreamStatus
  BY <1>14 DEF StreamStatus
<1>15. CASE StreamRows
  BY <1>15 DEF StreamRows, FollowFit
<1>16. CASE Crash
  BY SMTT(30), <1>16 DEF Crash, Recovered, Requeued
<1>17. CASE UNCHANGED vars
  BY <1>17 DEF vars
<1>18. QED
  BY <1>1, <1>2, <1>3, <1>4, <1>5, <1>6, <1>7, <1>8, <1>9, <1>10, <1>11, <1>12, <1>13,
     <1>14, <1>15, <1>16, <1>17 DEF Next, Serves, Works, Streams

\* The record is set once, by the first to store it.
LEMMA AnswerStep ==
  ASSUME TypeOK, AnswerFit, [Next]_vars
  PROVE  AnswerFit'
<1> USE JobsAssumption DEF TypeOK, Ended, clients, flags, work, bounds, Go, Publishes,
       AnswerFit
<1>1. ASSUME NEW r \in Requests, Replay(r) PROVE AnswerFit'
  <2>1. CASE record # NoJob
    BY <1>1, <2>1 DEF Replay, Answers
  <2>2. CASE record = NoJob
    <3>1. \A q \in Requests : request'[q].at = "answered" => request[q].at = "answered"
      BY <1>1, <2>2 DEF Replay
    <3>2. QED
      BY <1>1, <2>2, <3>1 DEF Replay
  <2>3. QED
    BY <2>1, <2>2
<1>2. ASSUME NEW r \in Requests, Create(r) PROVE AnswerFit'
  BY <1>2 DEF Create
<1>3. ASSUME NEW r \in Requests, Store(r) PROVE AnswerFit'
  BY SMTT(30), <1>3 DEF Store, Answers, Storable
<1>4. ASSUME NEW r \in Requests, CancelRead(r) PROVE AnswerFit'
  BY <1>4 DEF CancelRead
<1>5. ASSUME NEW r \in Requests, CancelWrite(r) PROVE AnswerFit'
  BY <1>5 DEF CancelWrite
<1>6. ASSUME NEW r \in Requests, Claim(r) PROVE AnswerFit'
  BY <1>6 DEF Claim
<1>7. ASSUME NEW r \in Requests, StartRead(r) PROVE AnswerFit'
  BY <1>7 DEF StartRead
<1>8. ASSUME NEW r \in Requests, StartWrite(r) PROVE AnswerFit'
  BY <1>8 DEF StartWrite
<1>9. ASSUME NEW r \in Requests, StartTurn(r) PROVE AnswerFit'
  BY <1>9 DEF StartTurn
<1>10. ASSUME NEW r \in Requests, EndTurn(r) PROVE AnswerFit'
  BY <1>10 DEF EndTurn
<1>11. ASSUME NEW r \in Requests, GiveUp(r) PROVE AnswerFit'
  BY <1>11 DEF GiveUp, Terminalize
<1>12. ASSUME NEW r \in Requests, Finish(r) PROVE AnswerFit'
  BY <1>12 DEF Finish, Terminalize
<1>13. ASSUME NEW r \in Requests, Open(r) PROVE AnswerFit'
  BY <1>13 DEF Open
<1>14. CASE StreamStatus
  BY <1>14 DEF StreamStatus
<1>15. CASE StreamRows
  BY <1>15 DEF StreamRows
<1>16. CASE Crash
  BY <1>16 DEF Crash, Recovered, Requeued
<1>17. CASE UNCHANGED vars
  BY <1>17 DEF vars
<1>18. QED
  BY <1>1, <1>2, <1>3, <1>4, <1>5, <1>6, <1>7, <1>8, <1>9, <1>10, <1>11, <1>12, <1>13,
     <1>14, <1>15, <1>16, <1>17 DEF Next, Serves, Works, Streams

\* Only Create gives a job its first status, with its first event.
LEMMA CreateStep ==
  ASSUME TypeOK, CreateFit, RanFit, [Next]_vars
  PROVE  CreateFit'
<1> USE JobsAssumption DEF TypeOK, Ended, clients, flags, work, bounds, Go, Publishes,
       CreateFit, RanFit
<1>1. ASSUME NEW r \in Requests, Replay(r) PROVE CreateFit'
  BY SMTT(30), <1>1 DEF Replay, Answers
<1>2. ASSUME NEW r \in Requests, Create(r) PROVE CreateFit'
  BY <1>2 DEF Create
<1>3. ASSUME NEW r \in Requests, Store(r) PROVE CreateFit'
  <2>1. \A q \in Requests :
           request'[q].at \in {"new", "checked"} => request[q].at \in {"new", "checked"}
    BY <1>3 DEF Store, Answers
  <2>2. QED
    BY <1>3, <2>1 DEF Store
<1>4. ASSUME NEW r \in Requests, CancelRead(r) PROVE CreateFit'
  BY <1>4 DEF CancelRead
<1>5. ASSUME NEW r \in Requests, CancelWrite(r) PROVE CreateFit'
  BY <1>5 DEF CancelWrite
<1>6. ASSUME NEW r \in Requests, Claim(r) PROVE CreateFit'
  BY <1>6 DEF Claim
<1>7. ASSUME NEW r \in Requests, StartRead(r) PROVE CreateFit'
  BY <1>7 DEF StartRead
<1>8. ASSUME NEW r \in Requests, StartWrite(r) PROVE CreateFit'
  BY <1>8 DEF StartWrite
<1>9. ASSUME NEW r \in Requests, StartTurn(r) PROVE CreateFit'
  BY <1>9 DEF StartTurn
<1>10. ASSUME NEW r \in Requests, EndTurn(r) PROVE CreateFit'
  BY <1>10 DEF EndTurn
<1>11. ASSUME NEW r \in Requests, GiveUp(r) PROVE CreateFit'
  <2>1. CASE Terminalize(r, "cancelled")
    BY <1>11, <2>1 DEF GiveUp, Terminalize
  <2>2. CASE Terminalize(r, "failed")
    BY <1>11, <2>2 DEF GiveUp, Terminalize
  <2>3. QED
    BY <1>11, <2>1, <2>2 DEF GiveUp
<1>12. ASSUME NEW r \in Requests, Finish(r) PROVE CreateFit'
  BY <1>12 DEF Finish, Terminalize
<1>13. ASSUME NEW r \in Requests, Open(r) PROVE CreateFit'
  BY <1>13 DEF Open
<1>14. CASE StreamStatus
  BY <1>14 DEF StreamStatus
<1>15. CASE StreamRows
  BY <1>15 DEF StreamRows
<1>16. CASE Crash
  BY <1>16 DEF Crash, Recovered, Requeued
<1>17. CASE UNCHANGED vars
  BY <1>17 DEF vars
<1>18. QED
  BY <1>1, <1>2, <1>3, <1>4, <1>5, <1>6, <1>7, <1>8, <1>9, <1>10, <1>11, <1>12, <1>13,
     <1>14, <1>15, <1>16, <1>17 DEF Next, Serves, Works, Streams

\* A job that was running is failed by recovery, never queued again.
LEMMA RanStep ==
  ASSUME TypeOK, CreateFit, RanFit, [Next]_vars
  PROVE  RanFit'
<1> USE JobsAssumption DEF TypeOK, Ended, clients, flags, work, bounds, Go, Publishes,
       RanFit, CreateFit
<1>1. ASSUME NEW r \in Requests, Replay(r) PROVE RanFit'
  BY <1>1 DEF Replay, Answers
<1>2. ASSUME NEW r \in Requests, Create(r) PROVE RanFit'
  BY <1>2 DEF Create
<1>3. ASSUME NEW r \in Requests, Store(r) PROVE RanFit'
  BY <1>3 DEF Store, Answers, Storable
<1>4. ASSUME NEW r \in Requests, CancelRead(r) PROVE RanFit'
  BY <1>4 DEF CancelRead
<1>5. ASSUME NEW r \in Requests, CancelWrite(r) PROVE RanFit'
  BY <1>5 DEF CancelWrite
<1>6. ASSUME NEW r \in Requests, Claim(r) PROVE RanFit'
  BY <1>6 DEF Claim
<1>7. ASSUME NEW r \in Requests, StartRead(r) PROVE RanFit'
  BY <1>7 DEF StartRead
<1>8. ASSUME NEW r \in Requests, StartWrite(r) PROVE RanFit'
  BY <1>8 DEF StartWrite
<1>9. ASSUME NEW r \in Requests, StartTurn(r) PROVE RanFit'
  BY <1>9 DEF StartTurn
<1>10. ASSUME NEW r \in Requests, EndTurn(r) PROVE RanFit'
  BY <1>10 DEF EndTurn
<1>11. ASSUME NEW r \in Requests, GiveUp(r) PROVE RanFit'
  BY <1>11 DEF GiveUp, Terminalize
<1>12. ASSUME NEW r \in Requests, Finish(r) PROVE RanFit'
  BY <1>12 DEF Finish, Terminalize
<1>13. ASSUME NEW r \in Requests, Open(r) PROVE RanFit'
  BY <1>13 DEF Open
<1>14. CASE StreamStatus
  BY <1>14 DEF StreamStatus
<1>15. CASE StreamRows
  BY <1>15 DEF StreamRows
<1>16. CASE Crash
  BY <1>16 DEF Crash, Recovered, Requeued
<1>17. CASE UNCHANGED vars
  BY <1>17 DEF vars
<1>18. QED
  BY <1>1, <1>2, <1>3, <1>4, <1>5, <1>6, <1>7, <1>8, <1>9, <1>10, <1>11, <1>12, <1>13,
     <1>14, <1>15, <1>16, <1>17 DEF Next, Serves, Works, Streams

\* A job that exists goes on existing.
LEMMA FollowStep ==
  ASSUME TypeOK, FollowFit, [Next]_vars
  PROVE  FollowFit'
<1> USE JobsAssumption DEF TypeOK, Ended, clients, flags, work, bounds, Go, Publishes,
       FollowFit
<1>1. ASSUME NEW r \in Requests, Replay(r) PROVE FollowFit'
  BY <1>1 DEF Replay, Answers
<1>2. ASSUME NEW r \in Requests, Create(r) PROVE FollowFit'
  BY <1>2 DEF Create
<1>3. ASSUME NEW r \in Requests, Store(r) PROVE FollowFit'
  BY <1>3 DEF Store, Answers, Storable
<1>4. ASSUME NEW r \in Requests, CancelRead(r) PROVE FollowFit'
  BY <1>4 DEF CancelRead
<1>5. ASSUME NEW r \in Requests, CancelWrite(r) PROVE FollowFit'
  BY <1>5 DEF CancelWrite
<1>6. ASSUME NEW r \in Requests, Claim(r) PROVE FollowFit'
  BY <1>6 DEF Claim
<1>7. ASSUME NEW r \in Requests, StartRead(r) PROVE FollowFit'
  BY <1>7 DEF StartRead
<1>8. ASSUME NEW r \in Requests, StartWrite(r) PROVE FollowFit'
  BY <1>8 DEF StartWrite
<1>9. ASSUME NEW r \in Requests, StartTurn(r) PROVE FollowFit'
  BY <1>9 DEF StartTurn
<1>10. ASSUME NEW r \in Requests, EndTurn(r) PROVE FollowFit'
  BY <1>10 DEF EndTurn
<1>11. ASSUME NEW r \in Requests, GiveUp(r) PROVE FollowFit'
  BY <1>11 DEF GiveUp, Terminalize
<1>12. ASSUME NEW r \in Requests, Finish(r) PROVE FollowFit'
  BY <1>12 DEF Finish, Terminalize
<1>13. ASSUME NEW r \in Requests, Open(r) PROVE FollowFit'
  BY <1>13 DEF Open
<1>14. CASE StreamStatus
  BY <1>14 DEF StreamStatus
<1>15. CASE StreamRows
  BY <1>15 DEF StreamRows
<1>16. CASE Crash
  BY <1>16 DEF Crash, Recovered, Requeued
<1>17. CASE UNCHANGED vars
  BY <1>17 DEF vars
<1>18. QED
  BY <1>1, <1>2, <1>3, <1>4, <1>5, <1>6, <1>7, <1>8, <1>9, <1>10, <1>11, <1>12, <1>13,
     <1>14, <1>15, <1>16, <1>17 DEF Next, Serves, Works, Streams

\* The end of a job publishes an event, which an open stream has not shown.
LEMMA StreamStep ==
  ASSUME TypeOK, CreateFit, RanFit, FollowFit, StreamFit, [Next]_vars
  PROVE  StreamFit'
<1> USE JobsAssumption DEF TypeOK, Ended, clients, flags, work, bounds, Go, Publishes,
       StreamFit, CreateFit, RanFit, FollowFit
<1>1. ASSUME NEW r \in Requests, Replay(r) PROVE StreamFit'
  BY <1>1 DEF Replay, Answers
<1>2. ASSUME NEW r \in Requests, Create(r) PROVE StreamFit'
  BY <1>2 DEF Create
<1>3. ASSUME NEW r \in Requests, Store(r) PROVE StreamFit'
  BY <1>3 DEF Store, Answers, Storable
<1>4. ASSUME NEW r \in Requests, CancelRead(r) PROVE StreamFit'
  BY <1>4 DEF CancelRead
<1>5. ASSUME NEW r \in Requests, CancelWrite(r) PROVE StreamFit'
  BY <1>5 DEF CancelWrite
<1>6. ASSUME NEW r \in Requests, Claim(r) PROVE StreamFit'
  BY <1>6 DEF Claim
<1>7. ASSUME NEW r \in Requests, StartRead(r) PROVE StreamFit'
  BY <1>7 DEF StartRead
<1>8. ASSUME NEW r \in Requests, StartWrite(r) PROVE StreamFit'
  BY <1>8 DEF StartWrite
<1>9. ASSUME NEW r \in Requests, StartTurn(r) PROVE StreamFit'
  BY <1>9 DEF StartTurn
<1>10. ASSUME NEW r \in Requests, EndTurn(r) PROVE StreamFit'
  BY <1>10 DEF EndTurn
<1>11. ASSUME NEW r \in Requests, GiveUp(r) PROVE StreamFit'
  BY <1>11 DEF GiveUp, Terminalize
<1>12. ASSUME NEW r \in Requests, Finish(r) PROVE StreamFit'
  BY <1>12 DEF Finish, Terminalize
<1>13. ASSUME NEW r \in Requests, Open(r) PROVE StreamFit'
  BY <1>13 DEF Open
<1>14. CASE StreamStatus
  BY <1>14 DEF StreamStatus
<1>15. CASE StreamRows
  <2>1. stream.of \in Requests /\ stream'.of = stream.of /\ UNCHANGED <<job, events>>
    BY <1>15 DEF StreamRows
  <2>2. CASE events[stream.of] > stream.cursor
    <3>1. stream'.cursor = events[stream.of] /\ stream'.at = "status"
      BY <1>15, <2>2 DEF StreamRows
    <3>2. job[stream.of] \in Ended => stream'.complete
      BY <1>15, <2>2 DEF StreamRows
    <3>3. QED
      BY <2>1, <3>1, <3>2
  <2>3. CASE ~(events[stream.of] > stream.cursor)
    <3>1. stream'.cursor = stream.cursor /\ stream'.complete = stream.complete
      BY <1>15, <2>3 DEF StreamRows
    <3>2. stream'.at = "closed" => job[stream.of] \in Ended
      BY <1>15, <2>3 DEF StreamRows
    <3>3. stream'.at # "over"
      BY <1>15, <2>3 DEF StreamRows
    <3>4. ~(stream.cursor < events[stream.of])
      BY <2>1, <2>3
    <3>5. QED
      BY <2>1, <3>1, <3>2, <3>3, <3>4
  <2>4. QED
    BY <2>2, <2>3
<1>16. CASE Crash
  BY <1>16 DEF Crash, Recovered, Requeued
<1>17. CASE UNCHANGED vars
  BY <1>17 DEF vars
<1>18. QED
  BY <1>1, <1>2, <1>3, <1>4, <1>5, <1>6, <1>7, <1>8, <1>9, <1>10, <1>11, <1>12, <1>13,
     <1>14, <1>15, <1>16, <1>17 DEF Next, Serves, Works, Streams

-----------------------------------------------------------------------------
(* The theorems. *)

LEMMA InvHolds == Spec => []IInv
<1>1. IInv /\ [Next]_vars => IInv'
  BY TypeStep, AnswerStep, CreateStep, RanStep, FollowStep, StreamStep DEF IInv, Safe
<1>2. QED
  BY InitHolds, <1>1, PTL DEF Spec

\* Every variable of the jobs keeps its type.
THEOREM TypeCorrect == Spec => []TypeOK
  BY InvHolds, PTL DEF IInv

\* Requests with one key that are answered name one job, however many there are
\* and however they are interleaved with each other and with restarts.
THEOREM KeyAgreesHolds == Spec => []KeyAgrees
<1>1. IInv => KeyAgrees
  BY DEF IInv, Safe, AnswerFit, KeyAgrees
<1>2. QED
  BY InvHolds, <1>1, PTL

\* The turn of a job is begun once at most, across hand-overs and restarts.
THEOREM RunsOnceHolds == Spec => []RunsOnce
<1>1. IInv => RunsOnce
  BY DEF IInv, Safe, RanFit, RunsOnce
<1>2. QED
  BY InvHolds, <1>1, PTL

\* A stream that closes has shown the terminal event of its job, though status
\* and events are read apart and cancellations publish events at any time.
THEOREM StreamIsCompleteHolds == Spec => []StreamIsComplete
<1>1. IInv => StreamIsComplete
  BY DEF IInv, Safe, StreamFit, StreamIsComplete
<1>2. QED
  BY InvHolds, <1>1, PTL

-----------------------------------------------------------------------------
(* PublicJobs implements JobContract. *)

\* A request has no job before it is answered; one that has created its job is
\* about to name it; a turn that has ended was begun.
NameFit ==
    /\ \A r \in Requests :
        /\ request[r].at # "answered" => request[r].job = NoJob
        /\ request[r].at = "created" => job[r] # "none"
    /\ \A j \in Requests : at[j] = "turn" => ran[j] = 1

\* NameFit, which needs that a job was not begun before its thread begins it.
LEMMA NameStep ==
  ASSUME IInv, NameFit, [Next]_vars
  PROVE  NameFit'
<1> USE JobsAssumption DEF IInv, Safe, RanFit, TypeOK, NameFit, Ended, clients, flags, work,
       bounds, Go, Publishes
<1>1. ASSUME NEW r \in Requests, Replay(r) PROVE NameFit'
  <2>1. \A q \in Requests : q # r => request'[q] = request[q]
    BY <1>1 DEF Replay, Answers
  <2>2. \/ request'[r].at = "answered"
        \/ request'[r].at = "checked" /\ request'[r].job = request[r].job
    BY <1>1 DEF Replay, Answers
  <2>3. UNCHANGED <<job, at, ran>> /\ request[r].at = "new"
    BY <1>1 DEF Replay
  <2>4. QED
    BY <2>1, <2>2, <2>3
<1>2. ASSUME NEW r \in Requests, Create(r) PROVE NameFit'
  BY <1>2 DEF Create
<1>3. ASSUME NEW r \in Requests, Store(r) PROVE NameFit'
  BY <1>3 DEF Store, Answers, Storable
<1>4. ASSUME NEW r \in Requests, CancelRead(r) PROVE NameFit'
  BY <1>4 DEF CancelRead
<1>5. ASSUME NEW r \in Requests, CancelWrite(r) PROVE NameFit'
  BY <1>5 DEF CancelWrite
<1>6. ASSUME NEW r \in Requests, Claim(r) PROVE NameFit'
  BY <1>6 DEF Claim
<1>7. ASSUME NEW r \in Requests, StartRead(r) PROVE NameFit'
  BY <1>7 DEF StartRead
<1>8. ASSUME NEW r \in Requests, StartWrite(r) PROVE NameFit'
  BY <1>8 DEF StartWrite
<1>9. ASSUME NEW r \in Requests, StartTurn(r) PROVE NameFit'
  BY <1>9 DEF StartTurn
<1>10. ASSUME NEW r \in Requests, EndTurn(r) PROVE NameFit'
  BY <1>10 DEF EndTurn
<1>11. ASSUME NEW r \in Requests, GiveUp(r) PROVE NameFit'
  BY <1>11 DEF GiveUp, Terminalize
<1>12. ASSUME NEW r \in Requests, Finish(r) PROVE NameFit'
  BY <1>12 DEF Finish, Terminalize
<1>13. ASSUME NEW r \in Requests, Open(r) PROVE NameFit'
  BY <1>13 DEF Open
<1>14. CASE StreamStatus
  BY <1>14 DEF StreamStatus
<1>15. CASE StreamRows
  BY <1>15 DEF StreamRows
<1>16. CASE Crash
  BY <1>16 DEF Crash, Recovered, Requeued
<1>17. CASE UNCHANGED vars
  BY <1>17 DEF vars
<1>18. QED
  BY <1>1, <1>2, <1>3, <1>4, <1>5, <1>6, <1>7, <1>8, <1>9, <1>10, <1>11, <1>12, <1>13,
     <1>14, <1>15, <1>16, <1>17
  DEF Next, Serves, Works, Streams

\* What the contract sees of a step that changes neither an answer nor a job's
\* life nor the stream.
LEMMA Unseen ==
  ASSUME UNCHANGED <<record, ran>>,
         \A r \in Requests : request'[r].job = request[r].job,
         \A j \in Requests :
            \/ job'[j] = job[j]
            \/ {job[j], job'[j]} \subseteq {"queued", "running"},
         stream'.of = stream.of, stream'.complete = stream.complete,
         stream'.at = "closed" <=> stream.at = "closed"
  PROVE  UNCHANGED Contract!vars
  BY DEF Contract!vars, Life

\* A request is answered with the job of the record.
LEMMA Answering ==
  ASSUME TypeOK, NEW r \in Requests, request[r].job = NoJob,
         request' = [request EXCEPT ![r] = [at |-> "answered", job |-> record']],
         record # NoJob => record' = record,
         record = NoJob => record' = r /\ job[r] # "none",
         UNCHANGED <<job, ran, stream>>
  PROVE  Contract!Answer(r)
<1>1. \A q \in Requests :
         request'[q].job = IF q = r THEN record' ELSE request[q].job
  BY DEF TypeOK
<1>2. [q \in Requests |-> request'[q].job]
        = [[q \in Requests |-> request[q].job] EXCEPT ![r] = record']
  BY <1>1
<1>3. record = NoJob => Life(job[r]) # "none"
  BY DEF Life
<1>4. QED
  BY <1>2, <1>3 DEF Contract!Answer

\* A job that runs ends.
LEMMA Ending ==
  ASSUME TypeOK, NEW j \in Requests, NEW ending \in Ended, job[j] = "running",
         ending = "succeeded" => ran[j] = 1,
         job' = [job EXCEPT ![j] = ending],
         UNCHANGED <<record, request, ran, stream>>
  PROVE  Contract!End(j, ending)
<1>1. Life(ending) = ending /\ Life(job[j]) = "open"
  BY DEF Life, Ended
<1>2. \A q \in Requests : job'[q] = IF q = j THEN ending ELSE job[q]
  BY DEF TypeOK
<1>3. \A q \in Requests : Life(job'[q]) = IF q = j THEN ending ELSE Life(job[q])
  BY <1>1, <1>2
<1>4. [q \in Requests |-> Life(job'[q])]
        = [[q \in Requests |-> Life(job[q])] EXCEPT ![j] = ending]
  BY <1>3
<1>5. QED
  BY <1>1, <1>4 DEF Contract!End

\* A job is accepted; its request is not answered yet.
LEMMA Accepting ==
  ASSUME TypeOK, NEW j \in Requests, job[j] = "none",
         job' = [job EXCEPT ![j] = "queued"],
         \A q \in Requests : request'[q].job = request[q].job,
         UNCHANGED <<record, ran, stream>>
  PROVE  Contract!Accept(j)
<1>1. Life("queued") = "open" /\ Life(job[j]) = "none"
  BY DEF Life
<1>2. \A q \in Requests : job'[q] = IF q = j THEN "queued" ELSE job[q]
  BY DEF TypeOK
<1>3. \A q \in Requests : Life(job'[q]) = IF q = j THEN "open" ELSE Life(job[q])
  BY <1>1, <1>2
<1>4. [q \in Requests |-> Life(job'[q])]
        = [[q \in Requests |-> Life(job[q])] EXCEPT ![j] = "open"]
  BY <1>3
<1>5. [q \in Requests |-> request'[q].job] = [q \in Requests |-> request[q].job]
  OBVIOUS
<1>6. QED
  BY <1>1, <1>4, <1>5 DEF Contract!Accept

\* Each step is a step of the contract or none.
LEMMA ContractStep ==
  ASSUME IInv, NameFit, [Next]_vars
  PROVE  [Contract!Next]_(Contract!vars)
<1> USE JobsAssumption DEF Life, IInv, Safe, AnswerFit, CreateFit, RanFit, FollowFit, StreamFit,
       TypeOK, NameFit, Ended, clients, flags, work, bounds, Go, Publishes
<1>1. ASSUME NEW r \in Requests, Replay(r) PROVE [Contract!Next]_(Contract!vars)
  <2>1. CASE record = NoJob
    BY <1>1, <2>1, Unseen DEF Replay
  <2>2. CASE record # NoJob
    <3>1. Contract!Answer(r)
      BY <1>1, <2>2, Answering DEF Replay, Answers
    <3>2. QED
      BY <3>1 DEF Contract!Next
  <2>3. QED
    BY <2>1, <2>2
<1>2. ASSUME NEW r \in Requests, Create(r) PROVE [Contract!Next]_(Contract!vars)
  <2>1. /\ job[r] = "none" /\ job' = [job EXCEPT ![r] = "queued"]
        /\ \A q \in Requests : request'[q].job = request[q].job
        /\ UNCHANGED <<record, ran, stream>>
    BY <1>2 DEF Create
  <2>2. Contract!Accept(r)
    BY <2>1, Accepting
  <2>3. QED
    BY <2>2 DEF Contract!Next
<1>3. ASSUME NEW r \in Requests, Store(r) PROVE [Contract!Next]_(Contract!vars)
  <2>1. CASE record = NoJob
    <3>1. Contract!Answer(r)
      BY <1>3, <2>1, Answering DEF Store, Storable, Answers
    <3>2. QED
      BY <3>1 DEF Contract!Next
  <2>2. CASE record # NoJob
    BY <1>3, <2>2, Unseen DEF Store, Storable
  <2>3. QED
    BY <2>1, <2>2
<1>4. ASSUME NEW r \in Requests, CancelRead(r) PROVE [Contract!Next]_(Contract!vars)
  BY <1>4, Unseen DEF CancelRead
<1>5. ASSUME NEW r \in Requests, CancelWrite(r) PROVE [Contract!Next]_(Contract!vars)
  BY <1>5, Unseen DEF CancelWrite
<1>6. ASSUME NEW r \in Requests, Claim(r) PROVE [Contract!Next]_(Contract!vars)
  BY <1>6, Unseen DEF Claim
<1>7. ASSUME NEW r \in Requests, StartRead(r) PROVE [Contract!Next]_(Contract!vars)
  BY <1>7, Unseen DEF StartRead
<1>8. ASSUME NEW r \in Requests, StartWrite(r) PROVE [Contract!Next]_(Contract!vars)
  BY <1>8, Unseen DEF StartWrite
<1>9. ASSUME NEW r \in Requests, StartTurn(r) PROVE [Contract!Next]_(Contract!vars)
  <2>1. ran[r] = 0 /\ job[r] = "running"
    BY <1>9 DEF StartTurn
  <2>2. ran' = [ran EXCEPT ![r] = 1] /\ UNCHANGED <<record, request, job, stream>>
    BY <1>9, <2>1 DEF StartTurn
  <2>3. Contract!Begin(r)
    BY <2>1, <2>2 DEF Contract!Begin
  <2>4. QED
    BY <2>3 DEF Contract!Next
<1>10. ASSUME NEW r \in Requests, EndTurn(r) PROVE [Contract!Next]_(Contract!vars)
  BY <1>10, Unseen DEF EndTurn
<1>11. ASSUME NEW r \in Requests, GiveUp(r) PROVE [Contract!Next]_(Contract!vars)
  <2>1. Contract!End(r, "cancelled") \/ Contract!End(r, "failed")
    BY <1>11, Ending DEF GiveUp, Terminalize
  <2>2. "cancelled" \in Contract!Endings /\ "failed" \in Contract!Endings
    BY DEF Contract!Endings
  <2>3. QED
    BY <2>1, <2>2 DEF Contract!Next
<1>12. ASSUME NEW r \in Requests, Finish(r) PROVE [Contract!Next]_(Contract!vars)
  <2>1. job[r] = "running" /\ ran[r] = 1
    BY <1>12 DEF Finish
  <2>2. CASE turn[r] = "completed"
    <3>1. Contract!End(r, "succeeded")
      BY <1>12, <2>1, <2>2, Ending DEF Finish, Terminalize
    <3>2. "succeeded" \in Contract!Endings
      BY DEF Contract!Endings
    <3>3. QED
      BY <3>1, <3>2 DEF Contract!Next
  <2>3. CASE turn[r] = "failed"
    <3>1. Contract!End(r, "failed")
      BY <1>12, <2>1, <2>3, Ending DEF Finish, Terminalize
    <3>2. "failed" \in Contract!Endings
      BY DEF Contract!Endings
    <3>3. QED
      BY <3>1, <3>2 DEF Contract!Next
  <2>4. QED
    BY <1>12, <2>2, <2>3 DEF Finish
<1>13. ASSUME NEW r \in Requests, Open(r) PROVE [Contract!Next]_(Contract!vars)
  <2>1. CASE stream.of = NoJob
    <3>1. Contract!Follow(r)
      BY <1>13, <2>1 DEF Open, Contract!Follow
    <3>2. QED
      BY <3>1 DEF Contract!Next
  <2>2. CASE stream.of = r
    BY <1>13, <2>2, Unseen DEF Open
  <2>3. QED
    BY <1>13, <2>1, <2>2 DEF Open
<1>14. CASE StreamStatus
  BY <1>14, Unseen DEF StreamStatus
<1>15. CASE StreamRows
  <2>1. stream.of \in Requests
    BY <1>15 DEF StreamRows, FollowFit
  <2>2. CASE events[stream.of] > stream.cursor /\ job[stream.of] \in Ended
    <3>1. /\ stream'.of = stream.of /\ stream'.complete
          /\ stream.at # "closed" /\ stream'.at # "closed"
          /\ UNCHANGED <<record, request, job, ran>>
      BY <1>15, <2>1, <2>2 DEF StreamRows
    <3>2. job[stream.of] \in Contract!Endings /\ stream.of # NoJob
      BY <2>1, <2>2 DEF Contract!Endings
    <3>3. Contract!Tell
      BY <2>1, <3>1, <3>2 DEF Contract!Tell, Contract!Endings
    <3>4. QED
      BY <3>3 DEF Contract!Next
  <2>3. CASE events[stream.of] > stream.cursor /\ job[stream.of] \notin Ended
    BY <1>15, <2>1, <2>3, Unseen DEF StreamRows
  <2>4. CASE events[stream.of] <= stream.cursor /\ stream.at = "over"
    <3>1. stream.complete
      BY <2>1, <2>4 DEF StreamFit
    <3>2. /\ stream'.of = stream.of /\ stream'.complete = stream.complete
          /\ stream'.at = "closed"
          /\ UNCHANGED <<record, request, job, ran>>
      BY <1>15, <2>1, <2>4 DEF StreamRows
    <3>3. Contract!Close
      BY <3>1, <3>2 DEF Contract!Close
    <3>4. QED
      BY <3>3 DEF Contract!Next
  <2>5. CASE events[stream.of] <= stream.cursor /\ stream.at = "running"
    BY <1>15, <2>1, <2>5, Unseen DEF StreamRows
  <2>6. QED
    BY <1>15, <2>1, <2>2, <2>3, <2>4, <2>5 DEF StreamRows
<1>16. CASE Crash
  <2>1. PICK lost \in SUBSET Requests : lost = {j \in Requests : job[j] = "running"}
    OBVIOUS
  <2>2. Contract!FailAll(lost)
    BY <1>16, <2>1 DEF Crash, Recovered, Contract!FailAll
  <2>3. QED
    BY <2>2 DEF Contract!Next
<1>17. CASE UNCHANGED vars
  BY <1>17 DEF vars, Contract!vars
<1>18. QED
  BY <1>1, <1>2, <1>3, <1>4, <1>5, <1>6, <1>7, <1>8, <1>9, <1>10, <1>11, <1>12, <1>13,
     <1>14, <1>15, <1>16, <1>17
  DEF Next, Serves, Works, Streams

\* The public API keeps its promise, for any number of requests, cancellations
\* and restarts.
THEOREM ImplementsContractHolds == Spec => ImplementsContract
<1>1. Init => NameFit
  BY DEF Init, NameFit
<1>2. Init => Contract!Init
  BY DEF Init, Contract!Init, Life
<1>3. IInv /\ NameFit /\ [Next]_vars => NameFit'
  BY NameStep
<1>4. IInv /\ NameFit /\ [Next]_vars => [Contract!Next]_(Contract!vars)
  BY ContractStep
<1>5. QED
  BY <1>1, <1>2, <1>3, <1>4, InvHolds, PTL DEF Spec, ImplementsContract, Contract!Spec

=============================================================================
