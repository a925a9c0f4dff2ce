-------------------------- MODULE HarnessTurnProofs --------------------------
(***************************************************************************)
(* Theorems of HarnessTurn, for every value of its constants.              *)
(***************************************************************************)
EXTENDS HarnessTurn, TLAPS

LEMMA TypeInit == Init => TypeOK
  BY ConstantsAssumption
  DEF Init, TypeOK, Statuses, Labels, Outcomes, Time, NoSweep, Views, NoView,
      View

LEMMA WorkerType ==
  ASSUME TypeOK, NEW w \in Workers, WorkerStep(w)
  PROVE  TypeOK'
<1> USE ConstantsAssumption
    DEF TypeOK, Labels, Outcomes, Time, wvars, evars, lease, receipt, run
<1>1. CASE Arrive(w)
  BY <1>1 DEF Arrive, Finish, Goto
<1>2. CASE AcquireLease(w)
  BY <1>2 DEF AcquireLease, Finish, Goto
<1>3. CASE Claim(w)
  <2>1. CASE Claimable(req[w])
    <3>1. status' \in [Turns -> Statuses] /\ owner' \in [Turns -> Workers \cup {None}]
      BY <1>3, <2>1 DEF Claim, Statuses, Active
    <3>2. ttl' \in [Turns -> Time] /\ bound' = bound
      BY <1>3, <2>1 DEF Claim
    <3>3. pc' \in [Workers -> Labels] /\ outcome' \in [Workers -> Outcomes]
      BY <1>3, <2>1 DEF Claim, Finish, Goto
    <3>4. QED
      BY <1>3, <3>1, <3>2, <3>3 DEF Claim
  <2>2. CASE ~Claimable(req[w])
    BY <1>3, <2>2 DEF Claim, Finish, Goto
  <2>3. QED
    BY <2>1, <2>2
<1>4. CASE BindUserMessage(w)
  BY ZenonT(30), <1>4 DEF BindUserMessage, Finish, Goto
<1>5. CASE Announce(w)
  BY <1>5 DEF Announce, Goto
<1>6. CASE BeginPlan(w)
  BY <1>6 DEF BeginPlan, Goto, RenewLeases, RenewReceipt
<1>7. CASE PersistPlan(w)
  BY <1>7 DEF PersistPlan, Goto, RenewLeases, RenewReceipt
<1>8. CASE StartFrame(w)
  BY SMTT(30), <1>8 DEF StartFrame, Goto, RenewLeases, RenewReceipt
<1>9. CASE ToolAction(w)
  BY <1>9 DEF ToolAction, Goto, HasBudget, RenewLeases, RenewReceipt
<1>10. CASE FinishFrame(w)
  BY SMTT(30), <1>10 DEF FinishFrame, Goto, FinishRun, Less
<1>11. CASE BeginReply(w)
  BY <1>11 DEF BeginReply, Goto, RenewLeases, RenewReceipt
<1>12. CASE Compose(w)
  BY <1>12 DEF Compose, Goto, RenewLeases, RenewReceipt
<1>13. CASE BeginCompletion(w)
  BY SMTT(30), <1>13 DEF BeginCompletion, Reserve, Finish, Goto, SetStatus, Statuses, Active
<1>14. CASE FinalizeTurn(w)
  BY <1>14 DEF FinalizeTurn, Goto, AddReply, Reply, Replies, ReplyKinds
<1>15. CASE Complete(w)
  BY <1>15 DEF Complete, Finish, Goto, SetStatus, Statuses, Terminal
<1>16. CASE Fail(w)
  BY <1>16 DEF Fail, Goto
<1>17. CASE CloseAttempt(w)
  BY SMTT(30), <1>17 DEF CloseAttempt, Finish, Goto, FinishRun
<1>18. CASE SettleRead(w)
  BY SMTT(30), <1>18 DEF SettleRead, Goto
<1>19. CASE SettleWrite(w)
  BY <1>19 DEF SettleWrite, Finish, Goto, SetStatus, Statuses, Terminal
<1>20. CASE CancelDedup(w)
  <2>1. CASE Finish(w, "cancelReply", "none")
    BY <1>20, <2>1 DEF CancelDedup, Finish, Goto
  <2>2. CASE Finish(w, "close", "cancelled")
    BY <1>20, <2>2 DEF CancelDedup, Finish, Goto
  <2>3. QED
    BY <1>20, <2>1, <2>2 DEF CancelDedup
<1>21. CASE CancelReply(w)
  BY <1>21 DEF CancelReply, Finish, Goto, AddReply, Reply, Replies, ReplyKinds
<1>22. CASE Close(w)
  BY <1>22 DEF Close, Goto, FreeLease
<1>23. CASE ErrorReply(w)
  BY <1>23 DEF ErrorReply, Finish, Goto, AddReply, Reply, Replies, ReplyKinds
<1>24. CASE Wrap(w)
  BY <1>24 DEF Wrap, Goto, Interrupted, AddReplyOnce, AddReply, Reply, Replies,
         ReplyKinds
<1>25. QED
  BY <1>1, <1>2, <1>3, <1>4, <1>5, <1>6, <1>7, <1>8, <1>9, <1>10, <1>11, <1>12, <1>13,
     <1>14, <1>15, <1>16, <1>17, <1>18, <1>19, <1>20, <1>21, <1>22, <1>23, <1>24 DEF
     WorkerStep

LEMMA NoViewType == NoView \in Views /\ NoView.kind = "none"
  BY DEF NoView, View, Views, Statuses

LEMMA PublishingType ==
  ASSUME NEW t \in Turns
  PROVE  /\ Publishing(t) \in Views
         /\ Publishing(t).turn = t
  BY DEF Publishing, View, Views, Statuses

\* A view of a turn may be stored by any step of its canceller.
LEMMA ViewUpdate ==
  ASSUME TypeOK, NEW c \in Cancellers, NEW v \in Views,
         v.kind # "none" => v.turn \in Turns,
         view' = [view EXCEPT ![c] = v]
  PROVE  /\ view' \in [Cancellers -> Views]
         /\ \A d \in Cancellers :
               view'[d].kind # "none" => view'[d].turn \in Turns
  BY DEF TypeOK

LEMMA CancelType ==
  ASSUME TypeOK, NEW c \in Cancellers, CancelStep(c)
  PROVE  TypeOK'
<1> USE DEF TypeOK, wvars, evars, lease, receipt, run
<1>1. ASSUME NEW t \in Turns, CancelRead(c, t)
      PROVE  TypeOK'
  <2> DEFINE v == View(IF cancelEvent[t] = "none" THEN "new" ELSE "again", t,
                       t \in announced, status[t], replies[t] = {})
  <2>1. v \in Views /\ v.turn = t
    BY DEF View, Views
  <2> HIDE DEF v
  <2>2. view' = [view EXCEPT ![c] = v]
    BY <1>1 DEF CancelRead, v
  <2>3. QED
    BY <1>1, <2>1, <2>2, ViewUpdate DEF CancelRead
<1>2. CASE CancelNew(c)
  <2>1. view[c].turn \in Turns
    BY <1>2 DEF CancelNew
  <2>2. \/ view' = [view EXCEPT ![c] = NoView]
        \/ view' = [view EXCEPT ![c] = Publishing(view[c].turn)]
    BY <1>2 DEF CancelNew, GiveUp
  <2>3. /\ view' \in [Cancellers -> Views]
        /\ \A d \in Cancellers :
              view'[d].kind # "none" => view'[d].turn \in Turns
    BY <2>1, <2>2, NoViewType, PublishingType, ViewUpdate
  <2>4. /\ status' \in [Turns -> Statuses]
        /\ UNCHANGED <<owner, ttl, bound>>
    BY <1>2 DEF CancelNew, SetStatus, Statuses, Terminal
  <2>5. cancelEvent' \in [Turns -> {"none", "first", "late"}]
    BY <1>2 DEF CancelNew
  <2>6. replies' \in [Turns -> SUBSET Replies]
    BY <1>2 DEF CancelNew, AddReplyOnce, AddReply, Reply, Replies, ReplyKinds
  <2>7. QED
    BY <1>2, <2>3, <2>4, <2>5, <2>6 DEF CancelNew
<1>3. CASE CancelAgain(c)
  <2>1. view[c].turn \in Turns
    BY <1>3 DEF CancelAgain
  <2>2. \/ view' = [view EXCEPT ![c] = NoView]
        \/ view' = [view EXCEPT ![c] = Publishing(view[c].turn)]
    BY <1>3 DEF CancelAgain, GiveUp
  <2>3. /\ view' \in [Cancellers -> Views]
        /\ \A d \in Cancellers :
              view'[d].kind # "none" => view'[d].turn \in Turns
    BY <2>1, <2>2, NoViewType, PublishingType, ViewUpdate
  <2>4. /\ status' \in [Turns -> Statuses]
        /\ UNCHANGED <<owner, ttl, bound>>
    BY <1>3 DEF CancelAgain, SetStatus, Statuses, Terminal
  <2>5. replies' \in [Turns -> SUBSET Replies]
    BY <1>3 DEF CancelAgain, AddReply, Reply, Replies, ReplyKinds
  <2>6. QED
    BY <1>3, <2>3, <2>4, <2>5 DEF CancelAgain
<1>4. CASE CancelPublish(c)
  BY <1>4, NoViewType, ViewUpdate DEF CancelPublish
<1>5. QED
  BY <1>1, <1>2, <1>3, <1>4 DEF CancelStep

LEMMA RecoverType ==
  ASSUME TypeOK, NEW runs, NEW turns, Recover(runs, turns)
  PROVE  /\ running' \subseteq Workers
         /\ runTtl' \in [Workers -> Time]
         /\ status' \in [Turns -> Statuses]
         /\ owner' = owner /\ bound' = bound
         /\ ttl' \in [Turns -> Time]
         /\ replies' \in [Turns -> SUBSET Replies]
         /\ holder' \in Workers \cup {None}
         /\ leaseTtl' \in Time
  BY ConstantsAssumption
  DEF Recover, TypeOK, Time, Statuses, Terminal, Reply, Replies, ReplyKinds,
      FreeLease, lease

LEMMA SystemType ==
  ASSUME TypeOK,
         SweepRead \/ SweepWrite \/ Crash \/ Restart \/ Tick
  PROVE  TypeOK'
<1>1. CASE SweepRead
  BY <1>1 DEF SweepRead, TypeOK, ExpiredRuns, OrphanTurns, ActiveTurns, wvars,
              evars, lease, receipt, run
<1>2. CASE SweepWrite
  <2>1. Recover(sweep.runs, sweep.turns)
    BY <1>2 DEF SweepWrite
  <2>2. QED
    BY <1>2, <2>1, RecoverType DEF SweepWrite, TypeOK, NoSweep, wvars
<1>3. CASE Crash
  <2>1. /\ view' \in [Cancellers -> Views]
        /\ \A d \in Cancellers : view'[d].kind = "none"
    BY <1>3, NoViewType DEF Crash
  <2>2. crashes' \in 0 .. MaxCrashes
    BY <1>3, ConstantsAssumption DEF Crash, TypeOK
  <2>3. QED
    BY <1>3, <2>1, <2>2
    DEF Crash, TypeOK, NoSweep, Labels, Outcomes, lease, receipt, run
<1>4. CASE Restart
  <2>1. Recover(running, ActiveTurns)
    BY <1>4 DEF Restart
  <2>2. QED
    BY <1>4, <2>1, RecoverType DEF Restart, TypeOK, wvars
<1>5. CASE Tick
  BY <1>5, ConstantsAssumption DEF Tick, TypeOK, Less, Time, wvars, evars
<1>6. QED
  BY <1>1, <1>2, <1>3, <1>4, <1>5

LEMMA RelayType ==
  ASSUME TypeOK, NEW w \in Workers, RelayTimeout(w)
  PROVE  TypeOK'
  BY DEF RelayTimeout, TypeOK, Interrupted, AddReplyOnce, AddReply, Reply,
         Replies, ReplyKinds, wvars, lease, receipt, run

LEMMA StutterType ==
  ASSUME TypeOK, UNCHANGED vars
  PROVE  TypeOK'
  BY DEF TypeOK, vars, wvars, evars, lease, receipt, run

LEMMA TypeStep == TypeOK /\ [Next]_vars => TypeOK'
  BY WorkerType, CancelType, SystemType, RelayType, StutterType DEF Next

\* Every variable keeps its type: counters stay within their bounds, a receipt
\* is only ever in one of the statuses the stores write.
THEOREM TypeCorrect == Spec => []TypeOK
<1>1. TypeOK /\ [Next]_vars => TypeOK'
  BY TypeStep
<1>2. QED
  BY TypeInit, <1>1, PTL DEF Spec

-----------------------------------------------------------------------------
(* One execution per turn, and one winner between the normal reply and a   *)
(* cancellation.  Neither is inductive: that the reply is the owner's      *)
(* rests on the claim being the only way to become owner, and that a       *)
(* cancelled receipt has no normal reply on there being none before        *)
(* begin_completion has reserved the receipt.                              *)

Final(t) == status[t] \in {"finalizing", "completed", "failed"}

\* Who got past the claim owns the receipt.
OwnerExecutes ==
    \A w \in Workers : Executed(w) =>
        owner[req[w]] = w /\ status[req[w]] # "absent"

\* The turn of a worker that has not yet appended its reply has none.
NoEarlyReply ==
    \A w \in Workers : pc[w] \in Executing \ {"complete"} =>
        \A r \in replies[req[w]] : r.kind # "normal"

\* The reply is appended to a reserved receipt; a sweep may have failed it.
FinalizerReserved ==
    \A w \in Workers : pc[w] = "finalize" => Final(req[w])

\* A turn with a normal reply was reserved, and the reply is its owner's.
ReplyWon ==
    \A t \in Turns : \A r \in replies[t] : r.kind = "normal" =>
        r.by = owner[t] /\ Final(t)

TurnInv == OwnerExecutes /\ NoEarlyReply /\ FinalizerReserved /\ ReplyWon
IInv == TypeOK /\ TurnInv

LEMMA InvImplies == IInv => CancelExcludesReply /\ OneExecutor
<1>1. ASSUME IInv PROVE CancelExcludesReply
  <2> SUFFICES ASSUME NEW t \in Turns
               PROVE  /\ status[t] \in {"absent", "started", "cancelled"}
                            => "normal" \notin KindsOf(t)
                      /\ \A r \in replies[t] :
                            r.kind = "normal" => r.by = owner[t]
    BY DEF CancelExcludesReply
  <2>1. \A r \in replies[t] : r.kind = "normal" => r.by = owner[t] /\ Final(t)
    BY <1>1 DEF IInv, TurnInv, ReplyWon
  <2>2. QED
    BY <2>1 DEF KindsOf, Final
<1>2. ASSUME IInv PROVE OneExecutor
  BY <1>2 DEF IInv, TurnInv, OwnerExecutes, OneExecutor
<1>3. QED
  BY <1>1, <1>2

LEMMA InvInit == Init => IInv
<1> SUFFICES ASSUME Init PROVE IInv
  OBVIOUS
<1>1. TypeOK
  BY TypeInit
<1>2. \A w \in Workers : ~Executed(w) /\ pc[w] = "idle"
  BY DEF Init, Executed, Executing, Outcomes
<1>3. TurnInv
  BY <1>2 DEF Init, TurnInv, OwnerExecutes, NoEarlyReply, FinalizerReserved,
              ReplyWon, Executing
<1>4. QED
  BY <1>1, <1>3 DEF IInv

\* A step that adds no executor, no owner and no normal reply, and that takes
\* no receipt with a normal reply back.
LEMMA PreservingStep ==
  ASSUME IInv, owner' = owner, req' = req,
         \A t \in Turns : status[t] # "absent" => status'[t] # "absent",
         \A t \in Turns : \A r \in replies'[t] :
            r.kind = "normal" => r \in replies[t] /\ Final(t)',
         \A w \in Workers : Executed(w)' => Executed(w),
         \A w \in Workers :
            pc'[w] \in Executing \ {"complete"}
               => pc[w] \in Executing \ {"complete"},
         \A w \in Workers : pc'[w] = "finalize" => Final(req[w])'
  PROVE  TurnInv'
<1>1. req \in [Workers -> Turns]
  BY DEF IInv, TypeOK
<1>2. OwnerExecutes'
  BY <1>1 DEF IInv, TurnInv, OwnerExecutes
<1>3. NoEarlyReply'
  BY <1>1 DEF IInv, TurnInv, NoEarlyReply, Executing
<1>4. FinalizerReserved'
  BY <1>1 DEF FinalizerReserved, Final
<1>5. ReplyWon'
  BY DEF IInv, TurnInv, ReplyWon, Final
<1>6. QED
  BY <1>2, <1>3, <1>4, <1>5 DEF TurnInv

\* A worker's step that leaves receipts and replies alone and does not get
\* past the claim or the reservation.
LEMMA QuietStep ==
  ASSUME IInv, NEW w \in Workers, UNCHANGED <<status, owner, replies, req>>,
         \A v \in Workers \ {w} : pc'[v] = pc[v] /\ outcome'[v] = outcome[v],
         Executed(w)' => Executed(w),
         pc'[w] \in Executing \ {"complete"}
            => pc[w] \in Executing \ {"complete"},
         pc'[w] # "finalize"
  PROVE  TurnInv'
<1>1. \A v \in Workers : Executed(v)' => Executed(v)
  BY DEF Executed
<1>2. \A v \in Workers : pc'[v] \in Executing \ {"complete"}
                             => pc[v] \in Executing \ {"complete"}
  OBVIOUS
<1>3. \A v \in Workers : pc'[v] = "finalize" => Final(req[v])'
  BY DEF IInv, TurnInv, FinalizerReserved, Final
<1>4. \A t \in Turns : \A r \in replies'[t] :
         r.kind = "normal" => r \in replies[t] /\ Final(t)'
  BY DEF IInv, TurnInv, ReplyWon, Final
<1>5. QED
  BY <1>1, <1>2, <1>3, <1>4, PreservingStep

LEMMA Shared ==
  ASSUME IInv, NEW v \in Workers, NEW w \in Workers,
         Executed(v), Executed(w), req[v] = req[w]
  PROVE  v = w
  BY DEF IInv, TurnInv, OwnerExecutes

LEMMA QuietActions ==
  ASSUME IInv, NEW w \in Workers,
         \/ Arrive(w) \/ AcquireLease(w) \/ BindUserMessage(w) \/ Announce(w)
         \/ BeginPlan(w) \/ PersistPlan(w) \/ StartFrame(w) \/ ToolAction(w)
         \/ FinishFrame(w) \/ BeginReply(w) \/ Compose(w) \/ Fail(w)
         \/ CloseAttempt(w) \/ SettleRead(w) \/ CancelDedup(w) \/ Close(w)
  PROVE  TurnInv'
<1>0. TypeOK
  BY DEF IInv
<1> USE <1>0 DEF TypeOK, Goto, Finish, Executed, Executing, Labels, Outcomes,
        wvars, evars, receipt
<1>1. CASE Arrive(w)
  BY <1>1, QuietStep DEF Arrive
<1>2. CASE AcquireLease(w)
  BY <1>2, QuietStep DEF AcquireLease
<1>3. CASE BindUserMessage(w)
  BY <1>3, QuietStep DEF BindUserMessage
<1>4. CASE Announce(w)
  BY <1>4, QuietStep DEF Announce
<1>5. CASE BeginPlan(w)
  BY <1>5, QuietStep DEF BeginPlan, RenewLeases, RenewReceipt
<1>6. CASE PersistPlan(w)
  BY <1>6, QuietStep DEF PersistPlan, RenewLeases, RenewReceipt
<1>7. CASE StartFrame(w)
  BY <1>7, QuietStep DEF StartFrame, RenewLeases, RenewReceipt
<1>8. CASE ToolAction(w)
  BY <1>8, QuietStep DEF ToolAction, RenewLeases, RenewReceipt
<1>9. CASE FinishFrame(w)
  BY <1>9, QuietStep DEF FinishFrame
<1>10. CASE BeginReply(w)
  BY <1>10, QuietStep DEF BeginReply, RenewLeases, RenewReceipt
<1>11. CASE Compose(w)
  BY <1>11, QuietStep DEF Compose, RenewLeases, RenewReceipt
<1>12. CASE Fail(w)
  BY <1>12, QuietStep DEF Fail
<1>13. CASE CloseAttempt(w)
  BY <1>13, QuietStep DEF CloseAttempt
<1>14. CASE SettleRead(w)
  BY <1>14, QuietStep DEF SettleRead
<1>15. CASE CancelDedup(w)
  BY <1>15, QuietStep DEF CancelDedup
<1>16. CASE Close(w)
  BY <1>16, QuietStep DEF Close
<1>17. QED
  BY <1>1, <1>2, <1>3, <1>4, <1>5, <1>6, <1>7, <1>8, <1>9, <1>10, <1>11, <1>12, <1>13,
     <1>14, <1>15, <1>16

LEMMA ClaimInv ==
  ASSUME IInv, NEW w \in Workers, Claim(w)
  PROVE  TurnInv'
<1>0. TypeOK /\ TurnInv
  BY DEF IInv
<1>1. CASE ~Claimable(req[w])
  BY <1>0, <1>1, QuietStep
  DEF Claim, TypeOK, Finish, Goto, Executed, Executing, Labels, Outcomes, evars,
      receipt
<1>2. CASE Claimable(req[w])
  <2>1. /\ status[req[w]] = "absent"
        /\ status' = [status EXCEPT ![req[w]] = "started"]
        /\ owner' = [owner EXCEPT ![req[w]] = w]
        /\ pc' = [pc EXCEPT ![w] = "bind"]
        /\ outcome' = [outcome EXCEPT ![w] = "none"]
        /\ UNCHANGED <<req, replies>>
    BY <1>2 DEF Claim, Claimable, Finish, Goto, evars
  <2>2. \A v \in Workers : Executed(v) => req[v] # req[w]
    BY <1>0, <2>1 DEF TurnInv, OwnerExecutes
  <2>3. \A r \in replies[req[w]] : r.kind # "normal"
    BY <1>0, <2>1 DEF TypeOK, TurnInv, ReplyWon, Final
  <2>4. \A v \in Workers \ {w} : Executed(v)' => Executed(v)
    BY <1>0, <2>1 DEF TypeOK, Executed
  <2>5. OwnerExecutes'
    BY <1>0, <2>1, <2>2, <2>4 DEF TypeOK, TurnInv, OwnerExecutes
  <2>6. NoEarlyReply'
    BY <1>0, <2>1, <2>3 DEF TypeOK, TurnInv, NoEarlyReply
  <2>7. FinalizerReserved'
    <3> SUFFICES ASSUME NEW v \in Workers, pc'[v] = "finalize"
                 PROVE  Final(req[v])'
      BY DEF FinalizerReserved
    <3>1. v # w /\ pc[v] = "finalize"
      BY <1>0, <2>1 DEF TypeOK
    <3>2. Final(req[v]) /\ req[v] # req[w]
      BY <1>0, <2>2, <3>1
      DEF TurnInv, FinalizerReserved, Executed, Executing, Labels
    <3>3. QED
      BY <1>0, <2>1, <3>2 DEF TypeOK, Final
  <2>8. ReplyWon'
    BY <1>0, <2>1, <2>3 DEF TypeOK, TurnInv, ReplyWon, Final
  <2>9. QED
    BY <2>5, <2>6, <2>7, <2>8 DEF TurnInv
<1>3. QED
  BY <1>1, <1>2

LEMMA FinalizeInv ==
  ASSUME IInv, NEW w \in Workers, FinalizeTurn(w)
  PROVE  TurnInv'
<1>0. TypeOK /\ TurnInv
  BY DEF IInv
<1>1. /\ pc[w] = "finalize"
      /\ pc' = [pc EXCEPT ![w] = "complete"]
      /\ replies' = [replies EXCEPT
             ![req[w]] = replies[req[w]] \cup {Reply("normal", w)}]
      /\ UNCHANGED <<status, owner, req, outcome>>
  BY DEF FinalizeTurn, Goto, AddReply, receipt
<1>2. Executed(w) /\ Final(req[w])
  BY <1>0, <1>1
  DEF Executed, Executing, Labels, TurnInv, FinalizerReserved
<1>3. owner[req[w]] = w
  BY <1>0, <1>2 DEF TurnInv, OwnerExecutes
<1>4. \A v \in Workers : Executed(v)' => Executed(v)
  BY <1>0, <1>1, <1>2 DEF TypeOK, Executed
<1>5. OwnerExecutes'
  BY <1>0, <1>1, <1>4 DEF TypeOK, TurnInv, OwnerExecutes
<1>6. NoEarlyReply'
  <2> SUFFICES ASSUME NEW v \in Workers, pc'[v] \in Executing \ {"complete"}
               PROVE  \A r \in replies'[req[v]] : r.kind # "normal"
    BY <1>1 DEF NoEarlyReply
  <2>1. v # w /\ pc[v] \in Executing \ {"complete"}
    BY <1>0, <1>1 DEF TypeOK
  <2>2. req[v] # req[w]
    BY <1>2, <2>1, Shared DEF Executed
  <2>3. QED
    BY <1>0, <1>1, <2>1, <2>2 DEF TypeOK, TurnInv, NoEarlyReply
<1>7. FinalizerReserved'
  BY <1>0, <1>1 DEF TypeOK, TurnInv, FinalizerReserved, Final
<1>8. ReplyWon'
  <2> SUFFICES ASSUME NEW t \in Turns, NEW r \in replies'[t],
                      r.kind = "normal"
               PROVE  r.by = owner[t] /\ Final(t)
    BY <1>1 DEF ReplyWon, Final
  <2>1. CASE r \in replies[t]
    BY <1>0, <2>1 DEF TurnInv, ReplyWon
  <2>2. CASE r \notin replies[t]
    <3>1. t = req[w] /\ r = Reply("normal", w)
      BY <1>0, <1>1, <2>2 DEF TypeOK
    <3>2. QED
      BY <1>2, <1>3, <3>1 DEF Reply
  <2>3. QED
    BY <2>1, <2>2
<1>9. QED
  BY <1>5, <1>6, <1>7, <1>8 DEF TurnInv

\* A fenced update of the worker's own receipt, while its reply is not there
\* or its outcome keeps it.
LEMMA StatusStep ==
  ASSUME IInv, NEW w \in Workers, NEW s \in Statuses \ {"absent"},
         Executed(w), SetStatus(req[w], s), UNCHANGED <<replies, req>>,
         \A v \in Workers \ {w} : pc'[v] = pc[v] /\ outcome'[v] = outcome[v],
         \/ s \in {"finalizing", "completed", "failed"}
         \/ \A r \in replies[req[w]] : r.kind # "normal",
         pc'[w] \in Executing \ {"complete"}
            => pc[w] \in Executing \ {"complete"},
         pc'[w] = "finalize" => s = "finalizing"
  PROVE  TurnInv'
<1>0. TypeOK /\ TurnInv
  BY DEF IInv
<1>1. status' = [status EXCEPT ![req[w]] = s] /\ owner' = owner
  BY DEF SetStatus
<1>2. \A t \in Turns : status[t] # "absent" => status'[t] # "absent"
  BY <1>0, <1>1 DEF TypeOK
<1>3. \A t \in Turns : \A r \in replies'[t] :
         r.kind = "normal" => r \in replies[t] /\ Final(t)'
  BY <1>0, <1>1 DEF TypeOK, TurnInv, ReplyWon, Final
<1>4. \A v \in Workers : Executed(v)' => Executed(v)
  BY DEF Executed
<1>5. \A v \in Workers : pc'[v] \in Executing \ {"complete"}
                             => pc[v] \in Executing \ {"complete"}
  OBVIOUS
<1>6. ASSUME NEW v \in Workers, pc'[v] = "finalize" PROVE Final(req[v])'
  <2>1. CASE v = w
    BY <1>0, <1>1, <1>6, <2>1 DEF TypeOK, Final
  <2>2. CASE v # w
    <3>1. pc[v] = "finalize"
      BY <1>6, <2>2
    <3>2. Final(req[v]) /\ Executed(v)
      BY <1>0, <3>1
      DEF TurnInv, FinalizerReserved, Executed, Executing, Labels
    <3>3. req[v] # req[w]
      BY <2>2, <3>2, Shared
    <3>4. QED
      BY <1>0, <1>1, <3>2, <3>3 DEF TypeOK, Final
  <2>3. QED
    BY <2>1, <2>2
<1>7. QED
  BY <1>1, <1>2, <1>3, <1>4, <1>5, <1>6, PreservingStep

\* A step that only adds replies other than the normal one.
LEMMA OtherReplyStep ==
  ASSUME IInv, NEW t \in Turns, NEW kind \in ReplyKinds \ {"normal"}, NEW by,
         AddReply(t, kind, by)
  PROVE  \A u \in Turns : \A r \in replies'[u] :
            r.kind = "normal" => r \in replies[u] /\ Final(u)
<1>1. Reply(kind, by).kind # "normal"
  BY DEF Reply
<1>2. \A u \in Turns : \A r \in replies'[u] :
         r \in replies[u] \/ r = Reply(kind, by)
  BY DEF IInv, TypeOK, AddReply
<1>3. QED
  BY <1>1, <1>2 DEF IInv, TurnInv, ReplyWon

LEMMA WorkerInv ==
  ASSUME IInv, NEW w \in Workers, WorkerStep(w)
  PROVE  TurnInv'
<1>0. TypeOK /\ TurnInv /\ req[w] \in Turns
  BY DEF IInv, TypeOK
<1>1. CASE BeginCompletion(w)
  <2>1. CASE Fence(w, {"started"})
    BY <1>0, <1>1, <2>1, StatusStep
    DEF BeginCompletion, Reserve, TypeOK, Finish, Goto, Executed, Executing, Labels,
        Statuses, Active, evars
  <2>2. CASE ~Fence(w, {"started"})
    BY <1>0, <1>1, <2>2, QuietStep
    DEF BeginCompletion, TypeOK, Finish, Goto, Executed, Executing, Labels,
        evars, receipt
  <2>3. QED
    BY <2>1, <2>2
<1>2. CASE Complete(w)
  <2>1. CASE Fence(w, Active)
    BY <1>0, <1>2, <2>1, StatusStep
    DEF Complete, TypeOK, Finish, Goto, Executed, Executing, Labels, Statuses,
        Terminal, evars
  <2>2. CASE ~Fence(w, Active)
    BY <1>0, <1>2, <2>2, QuietStep
    DEF Complete, TypeOK, Finish, Goto, Executed, Executing, Labels, evars,
        receipt
  <2>3. QED
    BY <2>1, <2>2
<1>3. CASE SettleWrite(w)
  <2>0. \A r \in replies[req[w]] : r.kind # "normal"
    BY <1>0, <1>3 DEF SettleWrite, TurnInv, NoEarlyReply, Executing, Labels
  <2>1. CASE Fence(w, Active)
    BY <1>0, <1>3, <2>0, <2>1, StatusStep
    DEF SettleWrite, TypeOK, Finish, Goto, Executed, Executing, Labels,
        Statuses, Terminal, evars
  <2>2. CASE ~Fence(w, Active)
    BY <1>0, <1>3, <2>2, QuietStep
    DEF SettleWrite, TypeOK, Finish, Goto, Executed, Executing, Labels, evars,
        receipt
  <2>3. QED
    BY <2>1, <2>2
<1>4. CASE CancelReply(w) \/ ErrorReply(w)
  <2>1. \/ AddReply(req[w], "cancelled", w)
        \/ AddReply(req[w], "error", w)
    BY <1>4 DEF CancelReply, ErrorReply
  <2>2. \A t \in Turns : \A r \in replies'[t] :
           r.kind = "normal" => r \in replies[t] /\ Final(t)
    BY <1>0, <2>1, OtherReplyStep DEF ReplyKinds
  <2>3. /\ UNCHANGED <<status, owner, req>>
        /\ pc[w] \in {"cancelReply", "errorReply"}
        /\ \A v \in Workers \ {w} : pc'[v] = pc[v] /\ outcome'[v] = outcome[v]
        /\ pc'[w] \in {"close", "done"}
    BY <1>0, <1>4 DEF CancelReply, ErrorReply, Finish, Goto, TypeOK, receipt
  <2>4. Executed(w)
    BY <2>3 DEF Executed, Executing, Labels
  <2>5. QED
    BY <1>0, <2>2, <2>3, <2>4, PreservingStep
    DEF Executed, Executing, TurnInv, FinalizerReserved, Final
<1>5. CASE Wrap(w)
  <2>1. \/ AddReply(req[w], "interrupted", None)
        \/ UNCHANGED replies
    BY <1>5 DEF Wrap, Interrupted, AddReplyOnce
  <2>2. \A t \in Turns : \A r \in replies'[t] :
           r.kind = "normal" => r \in replies[t] /\ Final(t)
    BY <1>0, <2>1, OtherReplyStep DEF ReplyKinds, TurnInv, ReplyWon
  <2>3. /\ UNCHANGED <<status, owner, req, outcome>>
        /\ \A v \in Workers \ {w} : pc'[v] = pc[v]
        /\ pc'[w] = "done"
    BY <1>0, <1>5 DEF Wrap, Goto, TypeOK, receipt
  <2>4. QED
    BY <1>0, <2>2, <2>3, PreservingStep
    DEF Executed, Executing, TurnInv, FinalizerReserved, Final
<1>6. QED
  BY <1>1, <1>2, <1>3, <1>4, <1>5, QuietActions, ClaimInv, FinalizeInv
  DEF WorkerStep

LEMMA RelayInv ==
  ASSUME IInv, NEW w \in Workers, RelayTimeout(w)
  PROVE  TurnInv'
<1>0. TypeOK /\ TurnInv /\ req[w] \in Turns
  BY DEF IInv, TypeOK
<1>1. \/ AddReply(req[w], "interrupted", None)
      \/ UNCHANGED replies
  BY DEF RelayTimeout, Interrupted, AddReplyOnce
<1>2. \A t \in Turns : \A r \in replies'[t] :
         r.kind = "normal" => r \in replies[t] /\ Final(t)
  BY <1>0, <1>1, OtherReplyStep DEF ReplyKinds, TurnInv, ReplyWon
<1>3. UNCHANGED <<status, owner, req, pc, outcome>>
  BY DEF RelayTimeout, receipt, wvars
<1>4. QED
  BY <1>0, <1>2, <1>3, PreservingStep
  DEF Executed, TurnInv, FinalizerReserved, Final

LEMMA CancelInv ==
  ASSUME IInv, NEW c \in Cancellers, CancelStep(c)
  PROVE  TurnInv'
<1>0. TypeOK /\ TurnInv
  BY DEF IInv
<1>1. UNCHANGED <<owner, req, pc, outcome>>
  BY DEF CancelStep, CancelRead, CancelNew, CancelAgain, CancelPublish,
         SetStatus, wvars, receipt
<1>2. CASE UNCHANGED <<status, replies>>
  BY <1>0, <1>1, <1>2, PreservingStep
  DEF Executed, TurnInv, FinalizerReserved, ReplyWon, Final
<1>3. CASE CancelNew(c) \/ CancelAgain(c)
  <2> DEFINE t == view[c].turn
  <2>1. t \in Turns
    BY <1>0, <1>3 DEF TypeOK, CancelNew, CancelAgain
  <2>2. \/ status' = status
        \/ status[t] = "started" /\ status' = [status EXCEPT ![t] = "cancelled"]
    BY <1>3 DEF CancelNew, CancelAgain, SetStatus, CancelSwaps, receipt
  <2>3. AddReply(t, "cancelled", c) \/ UNCHANGED replies
    BY <1>3 DEF CancelNew, CancelAgain, AddReplyOnce
  <2> HIDE DEF t
  <2>4. \A u \in Turns : \A r \in replies'[u] :
           r.kind = "normal" => r \in replies[u] /\ Final(u)
    BY <1>0, <2>1, <2>3, OtherReplyStep DEF ReplyKinds, TurnInv, ReplyWon
  <2>5. \A u \in Turns : /\ Final(u) => Final(u)'
                         /\ status[u] # "absent" => status'[u] # "absent"
    BY <1>0, <2>1, <2>2 DEF TypeOK, Final
  <2>6. \A w \in Workers : pc'[w] = "finalize" => Final(req[w])'
    <3> SUFFICES ASSUME NEW w \in Workers, pc'[w] = "finalize"
                 PROVE  Final(req[w])'
      OBVIOUS
    <3>1. Final(req[w]) /\ req[w] \in Turns
      BY <1>0, <1>1 DEF TypeOK, TurnInv, FinalizerReserved
    <3>2. status'[req[w]] = status[req[w]]
      BY <1>0, <2>2, <3>1 DEF TypeOK, Final
    <3>3. QED
      BY <1>1, <3>1, <3>2 DEF Final
  <2>7. QED
    BY <1>0, <1>1, <2>4, <2>5, <2>6, PreservingStep DEF Executed
<1>4. QED
  BY <1>2, <1>3 DEF CancelStep, CancelRead, CancelPublish, evars, receipt

\* Recovery fails receipts and appends its own reply where there is none.
LEMMA RecoverInv ==
  ASSUME IInv, NEW runs, NEW turns, Recover(runs, turns),
         UNCHANGED <<req, pc, outcome>>
  PROVE  TurnInv'
<1>0. TypeOK /\ TurnInv
  BY DEF IInv
<1>1. /\ owner' = owner
      /\ \A t \in Turns : status'[t] = status[t] \/ status'[t] = "failed"
  BY DEF Recover
<1>2. \A t \in Turns : \/ replies'[t] = replies[t]
                        \/ replies'[t] = {Reply("recovery", None)}
  BY DEF Recover
<1>3. \A t \in Turns : \A r \in replies'[t] :
         r.kind = "normal" => r \in replies[t] /\ Final(t)'
  BY <1>0, <1>1, <1>2 DEF TurnInv, ReplyWon, Final, Reply
<1>4. \A w \in Workers : pc'[w] = "finalize" => Final(req[w])'
  BY <1>0, <1>1 DEF TypeOK, TurnInv, FinalizerReserved, Final
<1>5. QED
  BY <1>0, <1>1, <1>3, <1>4, PreservingStep DEF Executed

LEMMA SystemInv ==
  ASSUME IInv, SweepRead \/ SweepWrite \/ Crash \/ Restart \/ Tick
  PROVE  TurnInv'
<1>0. TypeOK /\ TurnInv
  BY DEF IInv
<1>1. CASE SweepRead \/ Tick
  BY <1>0, <1>1, PreservingStep
  DEF SweepRead, Tick, Executed, TurnInv, FinalizerReserved, ReplyWon, Final,
      wvars, evars, receipt
<1>2. CASE SweepWrite
  BY <1>2, RecoverInv DEF SweepWrite, wvars
<1>3. CASE Restart
  BY <1>3, RecoverInv DEF Restart, wvars
<1>4. CASE Crash
  <2>1. /\ UNCHANGED <<status, owner, req, replies>>
        /\ \A w \in Workers : pc'[w] \in {"idle", "done"}
    BY <1>4 DEF Crash, receipt
  <2>2. \A w \in Workers : Executed(w)' => Executed(w)
    BY <1>0, <1>4, <2>1
    DEF Crash, TypeOK, Executed, Executing, Labels, Outcomes
  <2>3. QED
    BY <1>0, <2>1, <2>2, PreservingStep
    DEF Executing, TurnInv, ReplyWon, Final
<1>5. QED
  BY <1>1, <1>2, <1>3, <1>4

LEMMA StutterInv ==
  ASSUME IInv, UNCHANGED vars
  PROVE  TurnInv'
<1>1. UNCHANGED <<status, owner, replies, req, pc, outcome>>
  BY DEF vars, wvars, evars, receipt
<1>2. QED
  BY <1>1, PreservingStep
  DEF IInv, Executed, TurnInv, FinalizerReserved, ReplyWon, Final

LEMMA InvHolds == Spec => []IInv
<1>1. IInv /\ [Next]_vars => IInv'
  <2> SUFFICES ASSUME IInv, [Next]_vars PROVE IInv'
    OBVIOUS
  <2>1. TypeOK'
    BY TypeStep DEF IInv
  <2>2. TurnInv'
    BY WorkerInv, RelayInv, CancelInv, SystemInv, StutterInv DEF Next
  <2>3. QED
    BY <2>1, <2>2 DEF IInv
<1>2. QED
  BY InvInit, <1>1, PTL DEF Spec

\* Of a turn's cancellation and its normal reply one wins: a receipt that is
\* cancelled never has a normal reply, and the reply is the receipt owner's,
\* whatever retries, stalls, sweeps, crashes and cancel calls happen.
THEOREM CancelExcludesReplyHolds == Spec => []CancelExcludesReply
<1>1. IInv => CancelExcludesReply
  BY InvImplies
<1>2. QED
  BY InvHolds, <1>1, PTL

\* No client_turn_id is ever executed by two workers, at once or one after
\* the other: a receipt is claimed once.
THEOREM OneExecutorHolds == Spec => []OneExecutor
<1>1. IInv => OneExecutor
  BY InvImplies
<1>2. QED
  BY InvHolds, <1>1, PTL

-----------------------------------------------------------------------------
(* A replay has its reply: a receipt is completed after the reply.         *)

HasNormal(t) == \E r \in replies[t] : r.kind = "normal"

AnswerFit ==
    /\ \A t \in Turns : status[t] = "completed" => HasNormal(t)
    /\ \A w \in Workers : pc[w] = "complete" => HasNormal(req[w])
    /\ \A w \in Workers : outcome[w] \in {"replayed", "answered"} => HasNormal(req[w])


\* Replies are only added, and completion and a replay need the normal one.
LEMMA AnswerKeeps ==
  ASSUME TypeOK, AnswerFit, UNCHANGED req,
         \A t \in Turns : HasNormal(t) => HasNormal(t)',
         \A t \in Turns : status'[t] = "completed" => status[t] = "completed",
         \A w \in Workers : pc'[w] = "complete" => pc[w] = "complete" \/ HasNormal(req[w])',
         UNCHANGED outcome
  PROVE  AnswerFit'
  BY DEF TypeOK, AnswerFit

\* Replies stay, and a receipt is completed only behind the normal one.
LEMMA AnswerStep ==
  ASSUME TypeOK, AnswerFit, [Next]_vars
  PROVE  AnswerFit'
<1> USE DEF TypeOK, AnswerFit, HasNormal, Goto, Finish, lease, receipt, run, wvars, evars
<1>1. ASSUME NEW w \in Workers, Arrive(w) PROVE AnswerFit'
  BY <1>1 DEF Arrive
<1>2. ASSUME NEW w \in Workers, AcquireLease(w) PROVE AnswerFit'
  BY <1>2 DEF AcquireLease
<1>3. ASSUME NEW w \in Workers, Claim(w) PROVE AnswerFit'
  BY SMTT(30), <1>3 DEF Claim, Claimable, Replayable
<1>4. ASSUME NEW w \in Workers, BindUserMessage(w) PROVE AnswerFit'
  BY <1>4 DEF BindUserMessage
<1>5. ASSUME NEW w \in Workers, Announce(w) PROVE AnswerFit'
  BY <1>5 DEF Announce
<1>6. ASSUME NEW w \in Workers, BeginPlan(w) PROVE AnswerFit'
  BY <1>6 DEF BeginPlan, RenewLeases, RenewReceipt
<1>7. ASSUME NEW w \in Workers, PersistPlan(w) PROVE AnswerFit'
  BY <1>7 DEF PersistPlan, RenewLeases, RenewReceipt
<1>8. ASSUME NEW w \in Workers, StartFrame(w) PROVE AnswerFit'
  BY <1>8 DEF StartFrame, RenewLeases, RenewReceipt
<1>9. ASSUME NEW w \in Workers, ToolAction(w) PROVE AnswerFit'
  BY <1>9 DEF ToolAction, RenewLeases, RenewReceipt
<1>10. ASSUME NEW w \in Workers, FinishFrame(w) PROVE AnswerFit'
  BY <1>10 DEF FinishFrame, FinishRun
<1>11. ASSUME NEW w \in Workers, BeginReply(w) PROVE AnswerFit'
  BY <1>11 DEF BeginReply, RenewLeases, RenewReceipt
<1>12. ASSUME NEW w \in Workers, Compose(w) PROVE AnswerFit'
  BY <1>12 DEF Compose, RenewLeases, RenewReceipt
<1>13. ASSUME NEW w \in Workers, BeginCompletion(w) PROVE AnswerFit'
  BY <1>13 DEF BeginCompletion, SetStatus, Reserve
<1>14. ASSUME NEW w \in Workers, FinalizeTurn(w) PROVE AnswerFit'
  <2>1. replies' = [replies EXCEPT ![req[w]] = replies[req[w]] \cup {Reply("normal", w)}]
    BY <1>14 DEF FinalizeTurn, AddReply
  <2>2. Reply("normal", w).kind = "normal"
    BY DEF Reply
  <2>3. HasNormal(req[w])' /\ \A t \in Turns : HasNormal(t) => HasNormal(t)'
    BY <1>14, <2>1, <2>2 DEF FinalizeTurn, HasNormal, TypeOK, wvars
  <2>4. /\ \A v \in Workers : pc'[v] = "complete" => pc[v] = "complete" \/ v = w
        /\ UNCHANGED <<req, outcome, status>>
    BY <1>14 DEF FinalizeTurn, Goto, TypeOK, receipt
  <2>5. QED
    BY <2>3, <2>4, AnswerKeeps
<1>15. ASSUME NEW w \in Workers, Complete(w) PROVE AnswerFit'
  BY SMTT(30), <1>15 DEF Complete, SetStatus
<1>16. ASSUME NEW w \in Workers, Fail(w) PROVE AnswerFit'
  BY <1>16 DEF Fail
<1>17. ASSUME NEW w \in Workers, CloseAttempt(w) PROVE AnswerFit'
  BY SMTT(30), <1>17 DEF CloseAttempt, FinishRun
<1>18. ASSUME NEW w \in Workers, SettleRead(w) PROVE AnswerFit'
  BY <1>18 DEF SettleRead
<1>19. ASSUME NEW w \in Workers, SettleWrite(w) PROVE AnswerFit'
  BY <1>19 DEF SettleWrite, SetStatus
<1>20. ASSUME NEW w \in Workers, CancelDedup(w) PROVE AnswerFit'
  BY <1>20 DEF CancelDedup
<1>21. ASSUME NEW w \in Workers, CancelReply(w) PROVE AnswerFit'
  BY <1>21 DEF CancelReply, AddReply, Reply
<1>22. ASSUME NEW w \in Workers, Close(w) PROVE AnswerFit'
  BY <1>22 DEF Close
<1>23. ASSUME NEW w \in Workers, ErrorReply(w) PROVE AnswerFit'
  BY <1>23 DEF ErrorReply, AddReply, Reply
<1>24. ASSUME NEW w \in Workers, Wrap(w) PROVE AnswerFit'
  BY <1>24 DEF Wrap, Interrupted, AddReplyOnce, AddReply
<1>25. ASSUME NEW w \in Workers, RelayTimeout(w) PROVE AnswerFit'
  BY <1>25 DEF RelayTimeout, Interrupted, AddReplyOnce, AddReply
<1>26. ASSUME NEW c \in Cancellers, NEW t \in Turns, CancelRead(c, t) PROVE AnswerFit'
  BY <1>26 DEF CancelRead
<1>27. ASSUME NEW c \in Cancellers, CancelNew(c) PROVE AnswerFit'
  BY <1>27 DEF CancelNew, SetStatus, CancelSwaps, GiveUp, AddReply, AddReplyOnce
<1>28. ASSUME NEW c \in Cancellers, CancelAgain(c) PROVE AnswerFit'
  <2>1. \A t \in Turns : replies[t] \subseteq replies'[t]
    BY <1>28 DEF CancelAgain, AddReply, TypeOK
  <2>2. \A t \in Turns : HasNormal(t) => HasNormal(t)'
    BY <2>1 DEF HasNormal
  <2>3. \A t \in Turns : status'[t] = "completed" => status[t] = "completed"
    BY <1>28 DEF CancelAgain, SetStatus, TypeOK, receipt
  <2>4. UNCHANGED <<req, pc, outcome>>
    BY <1>28 DEF CancelAgain, wvars
  <2>5. QED
    BY <2>2, <2>3, <2>4, AnswerKeeps
<1>29. ASSUME NEW c \in Cancellers, CancelPublish(c) PROVE AnswerFit'
  BY <1>29 DEF CancelPublish
<1>30. CASE SweepRead
  BY <1>30 DEF SweepRead
<1>31. CASE SweepWrite
  <2>1. /\ \A t \in Turns : replies'[t] = replies[t] \/ replies[t] = {}
        /\ \A t \in Turns : status'[t] = "completed" => status[t] = "completed"
    BY <1>31 DEF SweepWrite, Recover, LacksReply, TypeOK
  <2>2. \A t \in Turns : HasNormal(t) => HasNormal(t)'
    BY <2>1 DEF HasNormal
  <2>3. UNCHANGED <<req, pc, outcome>>
    BY <1>31 DEF SweepWrite, wvars
  <2>4. QED
    BY <2>1, <2>2, <2>3, AnswerKeeps
<1>32. CASE Crash
  BY <1>32 DEF Crash
<1>33. CASE Restart
  <2>1. /\ \A t \in Turns : replies'[t] = replies[t] \/ replies[t] = {}
        /\ \A t \in Turns : status'[t] = "completed" => status[t] = "completed"
    BY <1>33 DEF Restart, Recover, LacksReply, TypeOK
  <2>2. \A t \in Turns : HasNormal(t) => HasNormal(t)'
    BY <2>1 DEF HasNormal
  <2>3. UNCHANGED <<req, pc, outcome>>
    BY <1>33 DEF Restart, wvars
  <2>4. QED
    BY <2>1, <2>2, <2>3, AnswerKeeps
<1>34. CASE Tick
  BY <1>34 DEF Tick
<1>35. CASE UNCHANGED vars
  BY <1>35 DEF vars
<1>36. QED
  BY <1>1, <1>2, <1>3, <1>4, <1>5, <1>6, <1>7, <1>8, <1>9, <1>10, <1>11, <1>12, <1>13,
     <1>14, <1>15, <1>16, <1>17, <1>18, <1>19, <1>20, <1>21, <1>22, <1>23, <1>24, <1>25,
     <1>26, <1>27, <1>28, <1>29, <1>30, <1>31, <1>32, <1>33, <1>34, <1>35
  DEF Next, WorkerStep, CancelStep

\* Who is told "replayed" or "answered" can read the normal reply of the turn.
THEOREM ReplayHasReplyHolds == Spec => []ReplayHasReply
<1>1. Init => AnswerFit
  BY DEF Init, AnswerFit
<1>2. AnswerFit => ReplayHasReply
  BY DEF AnswerFit, HasNormal, ReplayHasReply, KindsOf
<1>3. TypeOK /\ AnswerFit /\ [Next]_vars => AnswerFit'
  BY AnswerStep
<1>4. QED
  BY TypeCorrect, <1>1, <1>2, <1>3, PTL DEF Spec
-----------------------------------------------------------------------------
(* One live run: a live run's worker has the process lock, and while the   *)
(* process is down nobody starts one.                                      *)

\* Where a worker has the process lock.
Inside == Labels \ {"idle", "errorReply", "wrap", "done"}

LockFit ==
    /\ \A w \in Workers : pc[w] \in Inside => up /\ lock = w
    /\ lock # None => pc[lock] \in Inside

RunFit == up => \A w \in LiveRuns : pc[w] \in {"run", "interrupt", "cancel"}


\* The process lock is taken by one worker and given back in Close alone.
LEMMA LockStep ==
  ASSUME TypeOK, LockFit, [Next]_vars
  PROVE  LockFit'
<1> USE ConstantsAssumption DEF TypeOK, LockFit, Inside, Labels, Goto, Finish, lease,
       receipt, run, wvars, evars
<1>1. ASSUME NEW w \in Workers, Arrive(w) PROVE LockFit'
  BY <1>1 DEF Arrive
<1>2. ASSUME NEW w \in Workers, AcquireLease(w) PROVE LockFit'
  BY <1>2 DEF AcquireLease
<1>3. ASSUME NEW w \in Workers, Claim(w) PROVE LockFit'
  BY <1>3 DEF Claim, Claimable, Replayable
<1>4. ASSUME NEW w \in Workers, BindUserMessage(w) PROVE LockFit'
  BY <1>4 DEF BindUserMessage
<1>5. ASSUME NEW w \in Workers, Announce(w) PROVE LockFit'
  BY <1>5 DEF Announce
<1>6. ASSUME NEW w \in Workers, BeginPlan(w) PROVE LockFit'
  BY <1>6 DEF BeginPlan, RenewLeases, RenewReceipt
<1>7. ASSUME NEW w \in Workers, PersistPlan(w) PROVE LockFit'
  BY <1>7 DEF PersistPlan, RenewLeases, RenewReceipt
<1>8. ASSUME NEW w \in Workers, StartFrame(w) PROVE LockFit'
  BY <1>8 DEF StartFrame, RenewLeases, RenewReceipt
<1>9. ASSUME NEW w \in Workers, ToolAction(w) PROVE LockFit'
  BY <1>9 DEF ToolAction, RenewLeases, RenewReceipt
<1>10. ASSUME NEW w \in Workers, FinishFrame(w) PROVE LockFit'
  BY <1>10 DEF FinishFrame, FinishRun
<1>11. ASSUME NEW w \in Workers, BeginReply(w) PROVE LockFit'
  BY <1>11 DEF BeginReply, RenewLeases, RenewReceipt
<1>12. ASSUME NEW w \in Workers, Compose(w) PROVE LockFit'
  BY <1>12 DEF Compose, RenewLeases, RenewReceipt
<1>13. ASSUME NEW w \in Workers, BeginCompletion(w) PROVE LockFit'
  BY <1>13 DEF BeginCompletion, SetStatus, Reserve
<1>14. ASSUME NEW w \in Workers, FinalizeTurn(w) PROVE LockFit'
  BY <1>14 DEF FinalizeTurn, AddReply, Reply
<1>15. ASSUME NEW w \in Workers, Complete(w) PROVE LockFit'
  BY <1>15 DEF Complete, SetStatus
<1>16. ASSUME NEW w \in Workers, Fail(w) PROVE LockFit'
  BY <1>16 DEF Fail
<1>17. ASSUME NEW w \in Workers, CloseAttempt(w) PROVE LockFit'
  BY <1>17 DEF CloseAttempt, FinishRun
<1>18. ASSUME NEW w \in Workers, SettleRead(w) PROVE LockFit'
  BY <1>18 DEF SettleRead
<1>19. ASSUME NEW w \in Workers, SettleWrite(w) PROVE LockFit'
  BY <1>19 DEF SettleWrite, SetStatus
<1>20. ASSUME NEW w \in Workers, CancelDedup(w) PROVE LockFit'
  BY <1>20 DEF CancelDedup
<1>21. ASSUME NEW w \in Workers, CancelReply(w) PROVE LockFit'
  BY <1>21 DEF CancelReply, AddReply, Reply
<1>22. ASSUME NEW w \in Workers, Close(w) PROVE LockFit'
  BY <1>22 DEF Close
<1>23. ASSUME NEW w \in Workers, ErrorReply(w) PROVE LockFit'
  BY <1>23 DEF ErrorReply, AddReply, Reply
<1>24. ASSUME NEW w \in Workers, Wrap(w) PROVE LockFit'
  BY <1>24 DEF Wrap, Interrupted, AddReplyOnce, AddReply
<1>25. ASSUME NEW w \in Workers, RelayTimeout(w) PROVE LockFit'
  BY <1>25 DEF RelayTimeout, Interrupted, AddReplyOnce, AddReply
<1>26. ASSUME NEW c \in Cancellers, NEW t \in Turns, CancelRead(c, t) PROVE LockFit'
  BY <1>26 DEF CancelRead
<1>27. ASSUME NEW c \in Cancellers, CancelNew(c) PROVE LockFit'
  BY <1>27 DEF CancelNew, SetStatus, CancelSwaps, GiveUp, AddReply, AddReplyOnce
<1>28. ASSUME NEW c \in Cancellers, CancelAgain(c) PROVE LockFit'
  BY <1>28 DEF CancelAgain, SetStatus, CancelSwaps, GiveUp, AddReply, AddReplyOnce
<1>29. ASSUME NEW c \in Cancellers, CancelPublish(c) PROVE LockFit'
  BY <1>29 DEF CancelPublish
<1>30. CASE SweepRead
  BY <1>30 DEF SweepRead
<1>31. CASE SweepWrite
  BY <1>31 DEF SweepWrite, Recover
<1>32. CASE Crash
  BY <1>32 DEF Crash
<1>33. CASE Restart
  BY <1>33 DEF Restart, Recover
<1>34. CASE Tick
  BY <1>34 DEF Tick
<1>35. CASE UNCHANGED vars
  BY <1>35 DEF vars
<1>36. QED
  BY <1>1, <1>2, <1>3, <1>4, <1>5, <1>6, <1>7, <1>8, <1>9, <1>10, <1>11, <1>12, <1>13,
     <1>14, <1>15, <1>16, <1>17, <1>18, <1>19, <1>20, <1>21, <1>22, <1>23, <1>24, <1>25,
     <1>26, <1>27, <1>28, <1>29, <1>30, <1>31, <1>32, <1>33, <1>34, <1>35
  DEF Next, WorkerStep, CancelStep

\* A run starts under the process lock, and is closed before the lock is given back.
LEMMA RunStep ==
  ASSUME TypeOK, LockFit, RunFit, OneLiveRun, [Next]_vars
  PROVE  RunFit' /\ OneLiveRun'
<1> USE ConstantsAssumption DEF TypeOK, LockFit, RunFit, OneLiveRun, LiveRuns, Inside,
       Labels, Time, Less, Goto, Finish, lease, receipt, run, wvars, evars
<1>1. ASSUME NEW w \in Workers, Arrive(w) PROVE RunFit' /\ OneLiveRun'
  BY <1>1 DEF Arrive
<1>2. ASSUME NEW w \in Workers, AcquireLease(w) PROVE RunFit' /\ OneLiveRun'
  BY <1>2 DEF AcquireLease
<1>3. ASSUME NEW w \in Workers, Claim(w) PROVE RunFit' /\ OneLiveRun'
  BY <1>3 DEF Claim, Claimable, Replayable
<1>4. ASSUME NEW w \in Workers, BindUserMessage(w) PROVE RunFit' /\ OneLiveRun'
  BY <1>4 DEF BindUserMessage
<1>5. ASSUME NEW w \in Workers, Announce(w) PROVE RunFit' /\ OneLiveRun'
  BY <1>5 DEF Announce
<1>6. ASSUME NEW w \in Workers, BeginPlan(w) PROVE RunFit' /\ OneLiveRun'
  BY <1>6 DEF BeginPlan, RenewLeases, RenewReceipt
<1>7. ASSUME NEW w \in Workers, PersistPlan(w) PROVE RunFit' /\ OneLiveRun'
  BY <1>7 DEF PersistPlan, RenewLeases, RenewReceipt
<1>8. ASSUME NEW w \in Workers, StartFrame(w) PROVE RunFit' /\ OneLiveRun'
  BY SMTT(60), <1>8 DEF StartFrame, RenewLeases, RenewReceipt
<1>9. ASSUME NEW w \in Workers, ToolAction(w) PROVE RunFit' /\ OneLiveRun'
  BY <1>9 DEF ToolAction, RenewLeases, RenewReceipt
<1>10. ASSUME NEW w \in Workers, FinishFrame(w) PROVE RunFit' /\ OneLiveRun'
  BY <1>10 DEF FinishFrame, FinishRun
<1>11. ASSUME NEW w \in Workers, BeginReply(w) PROVE RunFit' /\ OneLiveRun'
  BY <1>11 DEF BeginReply, RenewLeases, RenewReceipt
<1>12. ASSUME NEW w \in Workers, Compose(w) PROVE RunFit' /\ OneLiveRun'
  BY <1>12 DEF Compose, RenewLeases, RenewReceipt
<1>13. ASSUME NEW w \in Workers, BeginCompletion(w) PROVE RunFit' /\ OneLiveRun'
  BY <1>13 DEF BeginCompletion, SetStatus, Reserve
<1>14. ASSUME NEW w \in Workers, FinalizeTurn(w) PROVE RunFit' /\ OneLiveRun'
  BY <1>14 DEF FinalizeTurn, AddReply, Reply
<1>15. ASSUME NEW w \in Workers, Complete(w) PROVE RunFit' /\ OneLiveRun'
  BY <1>15 DEF Complete, SetStatus
<1>16. ASSUME NEW w \in Workers, Fail(w) PROVE RunFit' /\ OneLiveRun'
  BY <1>16 DEF Fail
<1>17. ASSUME NEW w \in Workers, CloseAttempt(w) PROVE RunFit' /\ OneLiveRun'
  BY <1>17 DEF CloseAttempt, FinishRun
<1>18. ASSUME NEW w \in Workers, SettleRead(w) PROVE RunFit' /\ OneLiveRun'
  BY <1>18 DEF SettleRead
<1>19. ASSUME NEW w \in Workers, SettleWrite(w) PROVE RunFit' /\ OneLiveRun'
  BY <1>19 DEF SettleWrite, SetStatus
<1>20. ASSUME NEW w \in Workers, CancelDedup(w) PROVE RunFit' /\ OneLiveRun'
  BY <1>20 DEF CancelDedup
<1>21. ASSUME NEW w \in Workers, CancelReply(w) PROVE RunFit' /\ OneLiveRun'
  BY <1>21 DEF CancelReply, AddReply, Reply
<1>22. ASSUME NEW w \in Workers, Close(w) PROVE RunFit' /\ OneLiveRun'
  BY <1>22 DEF Close
<1>23. ASSUME NEW w \in Workers, ErrorReply(w) PROVE RunFit' /\ OneLiveRun'
  BY <1>23 DEF ErrorReply, AddReply, Reply
<1>24. ASSUME NEW w \in Workers, Wrap(w) PROVE RunFit' /\ OneLiveRun'
  BY <1>24 DEF Wrap, Interrupted, AddReplyOnce, AddReply
<1>25. ASSUME NEW w \in Workers, RelayTimeout(w) PROVE RunFit' /\ OneLiveRun'
  BY <1>25 DEF RelayTimeout, Interrupted, AddReplyOnce, AddReply
<1>26. ASSUME NEW c \in Cancellers, NEW t \in Turns, CancelRead(c, t)
      PROVE  RunFit' /\ OneLiveRun'
  BY <1>26 DEF CancelRead
<1>27. ASSUME NEW c \in Cancellers, CancelNew(c) PROVE RunFit' /\ OneLiveRun'
  BY <1>27 DEF CancelNew, SetStatus, CancelSwaps, GiveUp, AddReply, AddReplyOnce
<1>28. ASSUME NEW c \in Cancellers, CancelAgain(c) PROVE RunFit' /\ OneLiveRun'
  BY <1>28 DEF CancelAgain, SetStatus, CancelSwaps, GiveUp, AddReply, AddReplyOnce
<1>29. ASSUME NEW c \in Cancellers, CancelPublish(c) PROVE RunFit' /\ OneLiveRun'
  BY <1>29 DEF CancelPublish
<1>30. CASE SweepRead
  BY <1>30 DEF SweepRead
<1>31. CASE SweepWrite
  BY <1>31 DEF SweepWrite, Recover
<1>32. CASE Crash
  BY <1>32 DEF Crash
<1>33. CASE Restart
  BY <1>33 DEF Restart, Recover
<1>34. CASE Tick
  BY <1>34 DEF Tick
<1>35. CASE UNCHANGED vars
  BY <1>35 DEF vars
<1>36. QED
  BY <1>1, <1>2, <1>3, <1>4, <1>5, <1>6, <1>7, <1>8, <1>9, <1>10, <1>11, <1>12, <1>13,
     <1>14, <1>15, <1>16, <1>17, <1>18, <1>19, <1>20, <1>21, <1>22, <1>23, <1>24, <1>25,
     <1>26, <1>27, <1>28, <1>29, <1>30, <1>31, <1>32, <1>33, <1>34, <1>35
  DEF Next, WorkerStep, CancelStep

\* No two runs of the session are live at once, whoever stalls, is swept or dies.
THEOREM OneLiveRunHolds == Spec => []OneLiveRun
<1>1. Init => LockFit /\ RunFit /\ OneLiveRun
  BY ConstantsAssumption DEF Init, LockFit, RunFit, OneLiveRun, LiveRuns, Inside
<1>2. TypeOK /\ LockFit /\ RunFit /\ OneLiveRun /\ [Next]_vars
        => LockFit' /\ RunFit' /\ OneLiveRun'
  BY LockStep, RunStep
<1>3. QED
  BY TypeCorrect, <1>1, <1>2, PTL DEF Spec

-----------------------------------------------------------------------------
(* A terminal receipt is written over by recovery alone.                   *)

\* What a step may do to a receipt that has ended: TerminalChangesOnlyToFailed.
OnlyToFailed ==
    \A t \in Turns :
        status[t] \in Terminal =>
            \/ status'[t] = status[t]
            \/ status'[t] = "failed" /\ sweep.on

\* Every other write of a receipt is fenced by a status that is not terminal.
LEMMA TerminalStep ==
  ASSUME TypeOK, [Next]_vars
  PROVE  OnlyToFailed
<1> USE DEF OnlyToFailed, TypeOK, Terminal, Active, Fence, ActiveTurns, lease, receipt,
       run, wvars, evars
<1>1. ASSUME NEW w \in Workers, Arrive(w) PROVE OnlyToFailed
  BY <1>1 DEF Arrive
<1>2. ASSUME NEW w \in Workers, AcquireLease(w) PROVE OnlyToFailed
  BY <1>2 DEF AcquireLease
<1>3. ASSUME NEW w \in Workers, Claim(w) PROVE OnlyToFailed
  BY <1>3 DEF Claim, Claimable, Replayable
<1>4. ASSUME NEW w \in Workers, BindUserMessage(w) PROVE OnlyToFailed
  BY <1>4 DEF BindUserMessage
<1>5. ASSUME NEW w \in Workers, Announce(w) PROVE OnlyToFailed
  BY <1>5 DEF Announce
<1>6. ASSUME NEW w \in Workers, BeginPlan(w) PROVE OnlyToFailed
  BY <1>6 DEF BeginPlan, RenewLeases, RenewReceipt
<1>7. ASSUME NEW w \in Workers, PersistPlan(w) PROVE OnlyToFailed
  BY <1>7 DEF PersistPlan, RenewLeases, RenewReceipt
<1>8. ASSUME NEW w \in Workers, StartFrame(w) PROVE OnlyToFailed
  BY <1>8 DEF StartFrame, RenewLeases, RenewReceipt
<1>9. ASSUME NEW w \in Workers, ToolAction(w) PROVE OnlyToFailed
  BY <1>9 DEF ToolAction, RenewLeases, RenewReceipt
<1>10. ASSUME NEW w \in Workers, FinishFrame(w) PROVE OnlyToFailed
  BY <1>10 DEF FinishFrame, FinishRun
<1>11. ASSUME NEW w \in Workers, BeginReply(w) PROVE OnlyToFailed
  BY <1>11 DEF BeginReply, RenewLeases, RenewReceipt
<1>12. ASSUME NEW w \in Workers, Compose(w) PROVE OnlyToFailed
  BY <1>12 DEF Compose, RenewLeases, RenewReceipt
<1>13. ASSUME NEW w \in Workers, BeginCompletion(w) PROVE OnlyToFailed
  BY <1>13 DEF BeginCompletion, SetStatus, Reserve
<1>14. ASSUME NEW w \in Workers, FinalizeTurn(w) PROVE OnlyToFailed
  BY <1>14 DEF FinalizeTurn, AddReply, Reply
<1>15. ASSUME NEW w \in Workers, Complete(w) PROVE OnlyToFailed
  BY <1>15 DEF Complete, SetStatus
<1>16. ASSUME NEW w \in Workers, Fail(w) PROVE OnlyToFailed
  BY <1>16 DEF Fail
<1>17. ASSUME NEW w \in Workers, CloseAttempt(w) PROVE OnlyToFailed
  BY <1>17 DEF CloseAttempt, FinishRun
<1>18. ASSUME NEW w \in Workers, SettleRead(w) PROVE OnlyToFailed
  BY <1>18 DEF SettleRead
<1>19. ASSUME NEW w \in Workers, SettleWrite(w) PROVE OnlyToFailed
  BY <1>19 DEF SettleWrite, SetStatus
<1>20. ASSUME NEW w \in Workers, CancelDedup(w) PROVE OnlyToFailed
  BY <1>20 DEF CancelDedup
<1>21. ASSUME NEW w \in Workers, CancelReply(w) PROVE OnlyToFailed
  BY <1>21 DEF CancelReply, AddReply, Reply
<1>22. ASSUME NEW w \in Workers, Close(w) PROVE OnlyToFailed
  BY <1>22 DEF Close
<1>23. ASSUME NEW w \in Workers, ErrorReply(w) PROVE OnlyToFailed
  BY <1>23 DEF ErrorReply, AddReply, Reply
<1>24. ASSUME NEW w \in Workers, Wrap(w) PROVE OnlyToFailed
  BY <1>24 DEF Wrap, Interrupted, AddReplyOnce, AddReply
<1>25. ASSUME NEW w \in Workers, RelayTimeout(w) PROVE OnlyToFailed
  BY <1>25 DEF RelayTimeout, Interrupted, AddReplyOnce, AddReply
<1>26. ASSUME NEW c \in Cancellers, NEW t \in Turns, CancelRead(c, t) PROVE OnlyToFailed
  BY <1>26 DEF CancelRead
<1>27. ASSUME NEW c \in Cancellers, CancelNew(c) PROVE OnlyToFailed
  BY <1>27 DEF CancelNew, SetStatus, CancelSwaps, GiveUp, AddReply, AddReplyOnce
<1>28. ASSUME NEW c \in Cancellers, CancelAgain(c) PROVE OnlyToFailed
  BY <1>28 DEF CancelAgain, SetStatus, CancelSwaps, GiveUp, AddReply, AddReplyOnce
<1>29. ASSUME NEW c \in Cancellers, CancelPublish(c) PROVE OnlyToFailed
  BY <1>29 DEF CancelPublish
<1>30. CASE SweepRead
  BY <1>30 DEF SweepRead
<1>31. CASE SweepWrite
  BY <1>31 DEF SweepWrite, Recover
<1>32. CASE Crash
  BY <1>32 DEF Crash
<1>33. CASE Restart
  BY <1>33 DEF Restart, Recover
<1>34. CASE Tick
  BY <1>34 DEF Tick
<1>35. CASE UNCHANGED vars
  BY <1>35 DEF vars
<1>36. QED
  BY <1>1, <1>2, <1>3, <1>4, <1>5, <1>6, <1>7, <1>8, <1>9, <1>10, <1>11, <1>12, <1>13,
     <1>14, <1>15, <1>16, <1>17, <1>18, <1>19, <1>20, <1>21, <1>22, <1>23, <1>24, <1>25,
     <1>26, <1>27, <1>28, <1>29, <1>30, <1>31, <1>32, <1>33, <1>34, <1>35
  DEF Next, WorkerStep, CancelStep

\* No worker and no cancellation changes a receipt that is completed, failed or
\* cancelled; the sweeper may, and writes failed.
THEOREM TerminalChangesHold == Spec => TerminalChangesOnlyToFailed
<1>1. TypeOK /\ [Next]_vars => [OnlyToFailed]_vars
  BY TerminalStep
<1>2. QED
  BY TypeCorrect, <1>1, PTL DEF Spec, TerminalChangesOnlyToFailed, OnlyToFailed

-----------------------------------------------------------------------------
(* HarnessTurn implements TurnContract. *)

\* Nobody has an outcome before the end; what the sweeper has read was claimed.
EndFit ==
    /\ \A w \in Workers :
        pc[w] \notin {"close", "wrap", "done"} => outcome[w] = "none"
    /\ \A t \in sweep.turns : status[t] # "absent"

\* EndFit: a claimed receipt never becomes absent again.
LEMMA EndStep ==
  ASSUME TypeOK, EndFit, [Next]_vars
  PROVE  EndFit'
<1> USE DEF TypeOK, EndFit, Goto, Finish, Active, lease, receipt, run, wvars, evars
<1>1. ASSUME NEW w \in Workers, Arrive(w) PROVE EndFit'
  BY <1>1 DEF Arrive
<1>2. ASSUME NEW w \in Workers, AcquireLease(w) PROVE EndFit'
  BY <1>2 DEF AcquireLease
<1>3. ASSUME NEW w \in Workers, Claim(w) PROVE EndFit'
  BY <1>3 DEF Claim, Claimable, Replayable
<1>4. ASSUME NEW w \in Workers, BindUserMessage(w) PROVE EndFit'
  BY <1>4 DEF BindUserMessage
<1>5. ASSUME NEW w \in Workers, Announce(w) PROVE EndFit'
  BY <1>5 DEF Announce
<1>6. ASSUME NEW w \in Workers, BeginPlan(w) PROVE EndFit'
  BY <1>6 DEF BeginPlan, RenewLeases, RenewReceipt
<1>7. ASSUME NEW w \in Workers, PersistPlan(w) PROVE EndFit'
  BY <1>7 DEF PersistPlan, RenewLeases, RenewReceipt
<1>8. ASSUME NEW w \in Workers, StartFrame(w) PROVE EndFit'
  BY <1>8 DEF StartFrame, RenewLeases, RenewReceipt
<1>9. ASSUME NEW w \in Workers, ToolAction(w) PROVE EndFit'
  BY <1>9 DEF ToolAction, RenewLeases, RenewReceipt
<1>10. ASSUME NEW w \in Workers, FinishFrame(w) PROVE EndFit'
  BY <1>10 DEF FinishFrame, FinishRun
<1>11. ASSUME NEW w \in Workers, BeginReply(w) PROVE EndFit'
  BY <1>11 DEF BeginReply, RenewLeases, RenewReceipt
<1>12. ASSUME NEW w \in Workers, Compose(w) PROVE EndFit'
  BY <1>12 DEF Compose, RenewLeases, RenewReceipt
<1>13. ASSUME NEW w \in Workers, BeginCompletion(w) PROVE EndFit'
  BY <1>13 DEF BeginCompletion, SetStatus, Reserve
<1>14. ASSUME NEW w \in Workers, FinalizeTurn(w) PROVE EndFit'
  BY <1>14 DEF FinalizeTurn
<1>15. ASSUME NEW w \in Workers, Complete(w) PROVE EndFit'
  BY <1>15 DEF Complete, SetStatus
<1>16. ASSUME NEW w \in Workers, Fail(w) PROVE EndFit'
  BY <1>16 DEF Fail
<1>17. ASSUME NEW w \in Workers, CloseAttempt(w) PROVE EndFit'
  BY <1>17 DEF CloseAttempt, FinishRun
<1>18. ASSUME NEW w \in Workers, SettleRead(w) PROVE EndFit'
  BY <1>18 DEF SettleRead
<1>19. ASSUME NEW w \in Workers, SettleWrite(w) PROVE EndFit'
  BY <1>19 DEF SettleWrite, SetStatus
<1>20. ASSUME NEW w \in Workers, CancelDedup(w) PROVE EndFit'
  BY <1>20 DEF CancelDedup
<1>21. ASSUME NEW w \in Workers, CancelReply(w) PROVE EndFit'
  BY <1>21 DEF CancelReply
<1>22. ASSUME NEW w \in Workers, Close(w) PROVE EndFit'
  BY <1>22 DEF Close
<1>23. ASSUME NEW w \in Workers, ErrorReply(w) PROVE EndFit'
  BY <1>23 DEF ErrorReply
<1>24. ASSUME NEW w \in Workers, Wrap(w) PROVE EndFit'
  BY <1>24 DEF Wrap
<1>25. ASSUME NEW w \in Workers, RelayTimeout(w) PROVE EndFit'
  BY <1>25 DEF RelayTimeout
<1>26. ASSUME NEW c \in Cancellers, NEW t \in Turns, CancelRead(c, t) PROVE EndFit'
  BY <1>26 DEF CancelRead
<1>27. ASSUME NEW c \in Cancellers, CancelNew(c) PROVE EndFit'
  BY <1>27 DEF CancelNew, SetStatus
<1>28. ASSUME NEW c \in Cancellers, CancelAgain(c) PROVE EndFit'
  BY <1>28 DEF CancelAgain, SetStatus
<1>29. ASSUME NEW c \in Cancellers, CancelPublish(c) PROVE EndFit'
  BY <1>29 DEF CancelPublish
<1>30. CASE SweepRead
  BY <1>30 DEF SweepRead, OrphanTurns, ActiveTurns
<1>31. CASE SweepWrite
  BY <1>31 DEF SweepWrite, Recover, NoSweep
<1>32. CASE Crash
  BY <1>32 DEF Crash, NoSweep, Executing, Labels
<1>33. CASE Restart
  BY <1>33 DEF Restart, Recover
<1>34. CASE Tick
  BY <1>34 DEF Tick
<1>35. CASE UNCHANGED vars
  BY <1>35 DEF vars
<1>36. QED
  BY <1>1, <1>2, <1>3, <1>4, <1>5, <1>6, <1>7, <1>8, <1>9, <1>10, <1>11, <1>12, <1>13,
     <1>14, <1>15, <1>16, <1>17, <1>18, <1>19, <1>20, <1>21, <1>22, <1>23, <1>24, <1>25,
     <1>26, <1>27, <1>28, <1>29, <1>30, <1>31, <1>32, <1>33, <1>34, <1>35
  DEF Next, WorkerStep, CancelStep

\* What the contract sees of a step that adds no executor, no right to answer and
\* no normal reply, that changes receipts within the active ones, and tells nobody.
LEMMA Unseen ==
  ASSUME UNCHANGED req,
         \A t \in Turns : status'[t] = status[t] \/ {status[t], status'[t]} \subseteq Active,
         \A t \in Turns : HasNormal(t)' <=> HasNormal(t),
         \A v \in Workers : /\ Executed(v)' <=> Executed(v)
                            /\ pc'[v] = "finalize" <=> pc[v] = "finalize"
                            /\ IsTold(v)' <=> IsTold(v)
  PROVE  UNCHANGED Contract!vars
<1>1. UNCHANGED States
  BY DEF States
<1>2. UNCHANGED <<Executors, Granted, Told>>
  BY DEF Executors, Granted, Told
<1>3. UNCHANGED Answered
  BY DEF Answered, KindsOf, HasNormal
<1>4. QED
  BY <1>1, <1>2, <1>3 DEF Contract!vars

\* The same of a worker's step that leaves receipts and replies alone.
LEMMA QuietUnseen ==
  ASSUME NEW w \in Workers, UNCHANGED <<req, status, replies>>,
         \A v \in Workers \ {w} : pc'[v] = pc[v] /\ outcome'[v] = outcome[v],
         Executed(w)' <=> Executed(w),
         pc[w] # "finalize", pc'[w] # "finalize", IsTold(w)' <=> IsTold(w)
  PROVE  UNCHANGED Contract!vars
<1>1. \A v \in Workers : /\ Executed(v)' <=> Executed(v)
                         /\ pc'[v] = "finalize" <=> pc[v] = "finalize"
                         /\ IsTold(v)' <=> IsTold(v)
  BY DEF Executed, IsTold
<1>2. \A t \in Turns : HasNormal(t)' <=> HasNormal(t)
  BY DEF HasNormal
<1>3. QED
  BY <1>1, <1>2, Unseen

\* A reply of another kind makes no turn answered.
LEMMA OtherReplyUnseen ==
  ASSUME TypeOK, NEW t \in Turns, NEW kind \in ReplyKinds \ {"normal"}, NEW by,
         AddReply(t, kind, by)
  PROVE  \A u \in Turns : HasNormal(u)' <=> HasNormal(u)
<1>1. Reply(kind, by).kind # "normal"
  BY DEF Reply
<1>2. \A u \in Turns : /\ replies[u] \subseteq replies'[u]
                       /\ \A r \in replies'[u] : r \in replies[u] \/ r = Reply(kind, by)
  BY DEF TypeOK, AddReply
<1>3. QED
  BY <1>1, <1>2 DEF HasNormal

\* A worker's step that appends such a reply.
LEMMA ReplyUnseen ==
  ASSUME NEW w \in Workers, UNCHANGED <<req, status>>,
         \A t \in Turns : HasNormal(t)' <=> HasNormal(t),
         \A v \in Workers \ {w} : pc'[v] = pc[v] /\ outcome'[v] = outcome[v],
         Executed(w)' <=> Executed(w),
         pc[w] # "finalize", pc'[w] # "finalize", IsTold(w)' <=> IsTold(w)
  PROVE  UNCHANGED Contract!vars
<1>1. \A v \in Workers : /\ Executed(v)' <=> Executed(v)
                         /\ pc'[v] = "finalize" <=> pc[v] = "finalize"
                         /\ IsTold(v)' <=> IsTold(v)
  BY DEF Executed, IsTold
<1>2. QED
  BY <1>1, Unseen

\* A receipt ends, and the contract sees it end.
LEMMA StatusSeen ==
  ASSUME TypeOK, NEW t \in Turns, NEW s \in Terminal, SetStatus(t, s)
  PROVE  States' = [States EXCEPT ![t] = s]
<1>1. status' = [status EXCEPT ![t] = s]
  BY DEF SetStatus
<1>2. s \notin Active
  BY DEF Terminal, Active
<1>3. \A u \in Turns : States'[u] = IF u = t THEN s ELSE States[u]
  BY <1>1, <1>2 DEF States, TypeOK
<1>4. QED
  BY <1>3 DEF States

\* Replies, executors, rights and what was told as they were.
LEMMA SameReplies == UNCHANGED replies => UNCHANGED Answered
  BY DEF Answered, KindsOf

LEMMA SameAnswers ==
  ASSUME \A t \in Turns : HasNormal(t)' <=> HasNormal(t)
  PROVE  UNCHANGED Answered
  BY DEF Answered, KindsOf, HasNormal

LEMMA SameWorkers ==
  ASSUME UNCHANGED req,
         \A v \in Workers : /\ Executed(v)' <=> Executed(v)
                            /\ pc'[v] = "finalize" <=> pc[v] = "finalize"
  PROVE  UNCHANGED <<Executors, Granted>>
  BY DEF Executors, Granted

LEMMA SameTold ==
  ASSUME UNCHANGED req, \A v \in Workers : IsTold(v)' <=> IsTold(v)
  PROVE  UNCHANGED Told
  BY DEF Told

LEMMA ToldBy ==
  ASSUME NEW w \in Workers, UNCHANGED req, IsTold(w)',
         \A v \in Workers \ {w} : outcome'[v] = outcome[v]
  PROVE  Told' = Told \cup {req[w]} \/ IsTold(w)
  BY DEF Told, IsTold

\* A step of nobody who executes a turn.
LEMMA IdleUnseen ==
  ASSUME UNCHANGED wvars, UNCHANGED status, \A t \in Turns : HasNormal(t)' <=> HasNormal(t)
  PROVE  UNCHANGED Contract!vars
  BY Unseen DEF wvars, Executed, IsTold

LEMMA InterruptedUnseen ==
  ASSUME TypeOK, NEW t \in Turns, Interrupted(t)
  PROVE  \A u \in Turns : HasNormal(u)' <=> HasNormal(u)
<1>1. UNCHANGED replies \/ AddReply(t, "interrupted", None)
  BY DEF Interrupted, AddReplyOnce
<1>2. QED
  BY <1>1, OtherReplyUnseen DEF HasNormal, ReplyKinds

\* A cancellation that swaps a started receipt: nobody may answer the turn.
LEMMA CancelSeen ==
  ASSUME IInv, NEW t \in Turns, status[t] = "started", SetStatus(t, "cancelled"),
         UNCHANGED wvars, \A u \in Turns : HasNormal(u)' <=> HasNormal(u)
  PROVE  [Contract!Next]_(Contract!vars)
<1>1. States' = [States EXCEPT ![t] = "cancelled"] /\ States[t] = "open"
  BY StatusSeen DEF IInv, Terminal, States, Active
<1>2. UNCHANGED <<Executors, Granted, Told>>
  BY SameWorkers, SameTold DEF wvars, Executed, IsTold
<1>3. UNCHANGED Answered
  BY SameAnswers
<1>4. t \notin Granted /\ t \notin Answered
  BY DEF IInv, TurnInv, FinalizerReserved, ReplyWon, Final, Granted, Answered, KindsOf
<1>5. Contract!Cancel(t)
  BY <1>1, <1>2, <1>3, <1>4 DEF Contract!Cancel, Contract!Becomes
<1>6. QED
  BY <1>5 DEF Contract!Next

\* Recovery, of any turns that were claimed.
LEMMA RecoverSeen ==
  ASSUME TypeOK, NEW runs, NEW turns \in SUBSET Turns, Recover(runs, turns), UNCHANGED wvars,
         \A t \in turns : status[t] # "absent"
  PROVE  [Contract!Next]_(Contract!vars)
<1>1. UNCHANGED <<Executors, Granted, Told>>
  BY SameWorkers, SameTold DEF wvars, Executed, IsTold
<1>2. \A t \in Turns : HasNormal(t)' <=> HasNormal(t)
  BY DEF Recover, LacksReply, HasNormal, Reply
<1>3. UNCHANGED Answered
  BY <1>2, SameAnswers
<1>4. States' = [t \in Turns |-> IF t \in turns THEN "failed" ELSE States[t]]
  BY DEF Recover, States, Active
<1>5. \A t \in turns : States[t] # "absent"
  BY DEF States
<1>6. Contract!FailAll(turns)
  BY <1>1, <1>3, <1>4, <1>5 DEF Contract!FailAll
<1>7. QED
  BY <1>6 DEF Contract!Next

\* Each step is a step of the contract or none.
LEMMA ContractStep ==
  ASSUME IInv, AnswerFit, EndFit, [Next]_vars
  PROVE  [Contract!Next]_(Contract!vars)
<1> USE DEF IInv, TypeOK, EndFit, Goto, Finish, Active, lease, receipt, run, wvars, evars,
        Executed, Executing, Labels, Outcomes, IsTold
<1>1. ASSUME NEW w \in Workers, Arrive(w) PROVE [Contract!Next]_(Contract!vars)
  BY <1>1, QuietUnseen DEF Arrive
<1>2. ASSUME NEW w \in Workers, AcquireLease(w) PROVE [Contract!Next]_(Contract!vars)
  BY <1>2, QuietUnseen DEF AcquireLease
<1>3. ASSUME NEW w \in Workers, Claim(w) PROVE [Contract!Next]_(Contract!vars)
  <2>1. CASE ~Claimable(req[w]) /\ ~Replayable(req[w])
    BY <1>3, <2>1, QuietUnseen DEF Claim
  <2>2. CASE ~Claimable(req[w]) /\ Replayable(req[w])
    <3>1. /\ pc' = [pc EXCEPT ![w] = "close"] /\ outcome' = [outcome EXCEPT ![w] = "replayed"]
          /\ pc[w] = "claim" /\ outcome[w] = "none" /\ UNCHANGED <<req, status, replies>>
      BY <1>3, <2>2 DEF Claim
    <3>2. UNCHANGED <<Executors, Granted>>
      BY <3>1, SameWorkers
    <3>3. UNCHANGED <<States, Answered>>
      BY <3>1, SameReplies DEF States
    <3>4. Told' = Told \cup {req[w]}
      BY <3>1, ToldBy
    <3>5. States[req[w]] = "completed"
      BY <2>2 DEF States, Replayable
    <3>6. Contract!Replay(req[w])
      BY <3>2, <3>3, <3>4, <3>5 DEF Contract!Replay
    <3>7. QED
      BY <3>6 DEF Contract!Next
  <2>3. CASE Claimable(req[w])
    <3>1. /\ pc' = [pc EXCEPT ![w] = "bind"] /\ outcome' = [outcome EXCEPT ![w] = "none"]
          /\ status' = [status EXCEPT ![req[w]] = "started"] /\ status[req[w]] = "absent"
          /\ pc[w] = "claim" /\ outcome[w] = "none" /\ UNCHANGED <<req, replies>>
      BY <1>3, <2>3 DEF Claim, Claimable
    <3>2. UNCHANGED <<Granted, Told, Answered>>
      <4>1. UNCHANGED Granted
        BY <3>1 DEF Granted
      <4>2. UNCHANGED Told
        BY <3>1, SameTold
      <4>3. QED
        BY <3>1, <4>1, <4>2, SameReplies
    <3>3. \A v \in Workers : Executed(v) => req[v] # req[w]
      BY <3>1 DEF TurnInv, OwnerExecutes
    <3>4. Executors[req[w]] = {}
      BY <3>3 DEF Executors
    <3>5. \A v \in Workers : Executed(v)' <=> Executed(v) \/ v = w
      BY <3>1
    <3>6. Executors' = [Executors EXCEPT ![req[w]] = {w}]
      <4>1. \A u \in Turns : Executors'[u] = IF u = req[w] THEN {w} ELSE Executors[u]
        BY <3>1, <3>3, <3>5 DEF Executors
      <4>2. /\ Executors = [u \in Turns |-> Executors[u]]
            /\ Executors' = [u \in Turns |-> Executors'[u]]
        BY DEF Executors
      <4>3. QED
        BY <4>1, <4>2
    <3>7. States[req[w]] = "absent"
      BY <3>1 DEF States
    <3>8. States' = [States EXCEPT ![req[w]] = "open"]
      <4>1. \A u \in Turns : States'[u] = IF u = req[w] THEN "open" ELSE States[u]
        BY <3>1 DEF States
      <4>2. QED
        BY <4>1 DEF States
    <3>9. Contract!Execute(req[w], w)
      BY <3>2, <3>4, <3>6, <3>7, <3>8 DEF Contract!Execute
    <3>10. QED
      BY <3>9 DEF Contract!Next
  <2>4. QED
    BY <2>1, <2>2, <2>3
<1>4. ASSUME NEW w \in Workers, BindUserMessage(w) PROVE [Contract!Next]_(Contract!vars)
  BY <1>4, QuietUnseen DEF BindUserMessage
<1>5. ASSUME NEW w \in Workers, Announce(w) PROVE [Contract!Next]_(Contract!vars)
  BY <1>5, QuietUnseen DEF Announce
<1>6. ASSUME NEW w \in Workers, BeginPlan(w) PROVE [Contract!Next]_(Contract!vars)
  BY <1>6, QuietUnseen DEF BeginPlan, RenewLeases, RenewReceipt
<1>7. ASSUME NEW w \in Workers, PersistPlan(w) PROVE [Contract!Next]_(Contract!vars)
  BY <1>7, QuietUnseen DEF PersistPlan, RenewLeases, RenewReceipt
<1>8. ASSUME NEW w \in Workers, StartFrame(w) PROVE [Contract!Next]_(Contract!vars)
  BY <1>8, QuietUnseen DEF StartFrame, RenewLeases, RenewReceipt
<1>9. ASSUME NEW w \in Workers, ToolAction(w) PROVE [Contract!Next]_(Contract!vars)
  BY <1>9, QuietUnseen DEF ToolAction, RenewLeases, RenewReceipt
<1>10. ASSUME NEW w \in Workers, FinishFrame(w) PROVE [Contract!Next]_(Contract!vars)
  BY <1>10, QuietUnseen DEF FinishFrame, FinishRun
<1>11. ASSUME NEW w \in Workers, BeginReply(w) PROVE [Contract!Next]_(Contract!vars)
  BY <1>11, QuietUnseen DEF BeginReply, RenewLeases, RenewReceipt
<1>12. ASSUME NEW w \in Workers, Compose(w) PROVE [Contract!Next]_(Contract!vars)
  BY <1>12, QuietUnseen DEF Compose, RenewLeases, RenewReceipt
<1>13. ASSUME NEW w \in Workers, BeginCompletion(w) PROVE [Contract!Next]_(Contract!vars)
  <2>1. CASE ~Fence(w, {"started"})
    BY <1>13, <2>1, QuietUnseen DEF BeginCompletion
  <2>2. CASE Fence(w, {"started"})
    <3>1. /\ pc' = [pc EXCEPT ![w] = "finalize"] /\ outcome' = [outcome EXCEPT ![w] = "none"]
          /\ pc[w] = "reserve" /\ outcome[w] = "none"
          /\ status' = [status EXCEPT ![req[w]] = "finalizing"] /\ status[req[w]] = "started"
          /\ UNCHANGED <<req, replies>>
      BY <1>13, <2>2 DEF BeginCompletion, Reserve, SetStatus, Fence
    <3>2. UNCHANGED <<States, Answered, Told>>
      BY <3>1, SameReplies, SameTold DEF States
    <3>3. UNCHANGED Executors
      BY <3>1 DEF Executors
    <3>4. Granted' = Granted \cup {req[w]}
      BY <3>1 DEF Granted
    <3>5. States[req[w]] = "open" /\ req[w] \notin Answered
      BY <3>1 DEF States, Answered, KindsOf, TurnInv, NoEarlyReply
    <3>6. Contract!Grant(req[w])
      BY <3>2, <3>3, <3>4, <3>5 DEF Contract!Grant
    <3>7. QED
      BY <3>6 DEF Contract!Next
  <2>3. QED
    BY <2>1, <2>2
<1>14. ASSUME NEW w \in Workers, FinalizeTurn(w) PROVE [Contract!Next]_(Contract!vars)
  <2>1. /\ pc' = [pc EXCEPT ![w] = "complete"] /\ pc[w] = "finalize"
        /\ replies' = [replies EXCEPT ![req[w]] = replies[req[w]] \cup {Reply("normal", w)}]
        /\ UNCHANGED <<req, outcome, status>>
    BY <1>14 DEF FinalizeTurn, AddReply
  <2>2. UNCHANGED <<States, Told>>
    BY <2>1, SameTold DEF States
  <2>3. UNCHANGED Executors
    BY <2>1 DEF Executors
  <2>4. \A v \in Workers : pc[v] = "finalize" /\ req[v] = req[w] => v = w
    BY <2>1, Shared
  <2>5. Granted' = Granted \ {req[w]} /\ req[w] \in Granted
    BY <2>1, <2>4 DEF Granted
  <2>6. Answered' = Answered \cup {req[w]}
    <3>1. Reply("normal", w).kind = "normal"
      BY DEF Reply
    <3>2. \A t \in Turns : "normal" \in KindsOf(t)' <=> "normal" \in KindsOf(t) \/ t = req[w]
      BY <2>1, <3>1 DEF KindsOf
    <3>3. QED
      BY <3>2 DEF Answered
  <2>7. Contract!Answer(req[w])
    BY <2>2, <2>3, <2>5, <2>6 DEF Contract!Answer
  <2>8. QED
    BY <2>7 DEF Contract!Next
<1>15. ASSUME NEW w \in Workers, Complete(w) PROVE [Contract!Next]_(Contract!vars)
  <2>1. CASE ~Fence(w, Active)
    BY <1>15, <2>1, QuietUnseen DEF Complete
  <2>2. CASE Fence(w, Active)
    <3>1. /\ pc' = [pc EXCEPT ![w] = "close"] /\ outcome' = [outcome EXCEPT ![w] = "answered"]
          /\ pc[w] = "complete" /\ outcome[w] = "none"
          /\ SetStatus(req[w], "completed") /\ status[req[w]] \in Active
          /\ UNCHANGED <<req, replies>>
      BY <1>15, <2>2 DEF Complete, Fence
    <3>2. States' = [States EXCEPT ![req[w]] = "completed"]
      BY <3>1, StatusSeen DEF Terminal
    <3>3. UNCHANGED <<Answered, Executors, Granted>>
      BY <3>1, SameReplies, SameWorkers
    <3>4. Told' = Told \cup {req[w]}
      BY <3>1, ToldBy
    <3>5. States[req[w]] = "open" /\ req[w] \in Answered
      BY <3>1 DEF States, Answered, KindsOf, AnswerFit, HasNormal
    <3>6. Contract!Complete(req[w])
      BY <3>2, <3>3, <3>4, <3>5 DEF Contract!Complete, Contract!Becomes
    <3>7. QED
      BY <3>6 DEF Contract!Next
  <2>3. QED
    BY <2>1, <2>2
<1>16. ASSUME NEW w \in Workers, Fail(w) PROVE [Contract!Next]_(Contract!vars)
  BY <1>16, QuietUnseen DEF Fail
<1>17. ASSUME NEW w \in Workers, CloseAttempt(w) PROVE [Contract!Next]_(Contract!vars)
  BY <1>17, QuietUnseen DEF CloseAttempt, FinishRun
<1>18. ASSUME NEW w \in Workers, SettleRead(w) PROVE [Contract!Next]_(Contract!vars)
  BY <1>18, QuietUnseen DEF SettleRead
<1>19. ASSUME NEW w \in Workers, SettleWrite(w) PROVE [Contract!Next]_(Contract!vars)
  <2>1. CASE ~Fence(w, Active)
    BY <1>19, <2>1, QuietUnseen DEF SettleWrite
  <2>2. CASE Fence(w, Active)
    <3>1. /\ pc[w] \in {"settleWrite", "cancelWrite"} /\ outcome[w] = "none"
          /\ pc'[w] \in {"closeError", "cancelDedup"} /\ outcome'[w] = "none"
          /\ \A v \in Workers \ {w} : pc'[v] = pc[v] /\ outcome'[v] = outcome[v]
          /\ status[req[w]] \in Active
          /\ UNCHANGED <<req, replies>>
      BY <1>19, <2>2 DEF SettleWrite, Fence
    <3>2. UNCHANGED <<Answered, Executors, Granted, Told>>
      BY <3>1, SameReplies, SameWorkers, SameTold
    <3>3. States[req[w]] = "open"
      BY <3>1 DEF States
    <3>4. CASE pc[w] = "settleWrite"
      <4>1. States' = [States EXCEPT ![req[w]] = "failed"]
        BY <1>19, <2>2, <3>4, StatusSeen DEF SettleWrite, Terminal
      <4>2. Contract!FailAll({req[w]})
        BY <3>2, <3>3, <4>1 DEF Contract!FailAll, States
      <4>3. QED
        BY <4>2 DEF Contract!Next
    <3>5. CASE pc[w] = "cancelWrite"
      <4>1. States' = [States EXCEPT ![req[w]] = "cancelled"]
        BY <1>19, <2>2, <3>5, StatusSeen DEF SettleWrite, Terminal
      <4>2. req[w] \notin Answered
        BY <3>5 DEF Answered, KindsOf, TurnInv, NoEarlyReply
      <4>3. req[w] \notin Granted
        BY SMTT(30), <3>5, Shared DEF Granted
      <4>4. Contract!Cancel(req[w])
        BY <3>2, <3>3, <4>1, <4>2, <4>3 DEF Contract!Cancel, Contract!Becomes
      <4>5. QED
        BY <4>4 DEF Contract!Next
    <3>6. QED
      BY <3>1, <3>4, <3>5
  <2>3. QED
    BY <2>1, <2>2
<1>20. ASSUME NEW w \in Workers, CancelDedup(w) PROVE [Contract!Next]_(Contract!vars)
  BY <1>20, QuietUnseen DEF CancelDedup
<1>21. ASSUME NEW w \in Workers, CancelReply(w) PROVE [Contract!Next]_(Contract!vars)
  <2>1. \A t \in Turns : HasNormal(t)' <=> HasNormal(t)
    BY <1>21, OtherReplyUnseen DEF CancelReply, ReplyKinds
  <2>2. QED
    BY <1>21, <2>1, ReplyUnseen DEF CancelReply
<1>22. ASSUME NEW w \in Workers, Close(w) PROVE [Contract!Next]_(Contract!vars)
  BY <1>22, QuietUnseen DEF Close
<1>23. ASSUME NEW w \in Workers, ErrorReply(w) PROVE [Contract!Next]_(Contract!vars)
  <2>1. \A t \in Turns : HasNormal(t)' <=> HasNormal(t)
    BY <1>23, OtherReplyUnseen DEF ErrorReply, ReplyKinds
  <2>2. QED
    BY <1>23, <2>1, ReplyUnseen DEF ErrorReply
<1>24. ASSUME NEW w \in Workers, Wrap(w) PROVE [Contract!Next]_(Contract!vars)
  <2>1. \A t \in Turns : HasNormal(t)' <=> HasNormal(t)
    BY <1>24, InterruptedUnseen DEF Wrap, HasNormal
  <2>2. QED
    BY <1>24, <2>1, ReplyUnseen DEF Wrap
<1>25. ASSUME NEW w \in Workers, RelayTimeout(w) PROVE [Contract!Next]_(Contract!vars)
  <2>1. \A t \in Turns : HasNormal(t)' <=> HasNormal(t)
    BY <1>25, InterruptedUnseen DEF RelayTimeout
  <2>2. QED
    BY <1>25, <2>1, ReplyUnseen DEF RelayTimeout
<1>26. ASSUME NEW c \in Cancellers, NEW t \in Turns, CancelRead(c, t)
      PROVE  [Contract!Next]_(Contract!vars)
  BY <1>26, IdleUnseen DEF CancelRead, HasNormal
<1>27. ASSUME NEW c \in Cancellers, CancelNew(c) PROVE [Contract!Next]_(Contract!vars)
  <2> DEFINE t == view[c].turn
  <2>0. t \in Turns /\ UNCHANGED wvars
    BY <1>27 DEF CancelNew
  <2>1. \A u \in Turns : HasNormal(u)' <=> HasNormal(u)
    <3>1. UNCHANGED replies \/ AddReply(t, "cancelled", c)
      BY <1>27 DEF CancelNew, AddReplyOnce
    <3>2. QED
      BY <2>0, <3>1, OtherReplyUnseen DEF HasNormal, ReplyKinds
  <2>2. CASE UNCHANGED status
    BY <2>0, <2>1, <2>2, IdleUnseen
  <2>3. CASE status[t] = "started" /\ SetStatus(t, "cancelled")
    BY <2>0, <2>1, <2>3, CancelSeen
  <2>4. QED
    BY <1>27, <2>2, <2>3 DEF CancelNew, CancelSwaps
<1>28. ASSUME NEW c \in Cancellers, CancelAgain(c) PROVE [Contract!Next]_(Contract!vars)
  <2> DEFINE t == view[c].turn
  <2>0. t \in Turns /\ UNCHANGED wvars
    BY <1>28 DEF CancelAgain
  <2>1. \A u \in Turns : HasNormal(u)' <=> HasNormal(u)
    <3>1. UNCHANGED replies \/ AddReply(t, "cancelled", c)
      BY <1>28 DEF CancelAgain
    <3>2. QED
      BY <2>0, <3>1, OtherReplyUnseen DEF HasNormal, ReplyKinds
  <2>2. CASE UNCHANGED status
    BY <2>0, <2>1, <2>2, IdleUnseen
  <2>3. CASE status[t] = "started" /\ SetStatus(t, "cancelled")
    BY <2>0, <2>1, <2>3, CancelSeen
  <2>4. QED
    BY <1>28, <2>2, <2>3 DEF CancelAgain, CancelSwaps
<1>29. ASSUME NEW c \in Cancellers, CancelPublish(c) PROVE [Contract!Next]_(Contract!vars)
  BY <1>29, IdleUnseen DEF CancelPublish, HasNormal
<1>30. CASE SweepRead
  BY <1>30, IdleUnseen DEF SweepRead, HasNormal
<1>31. CASE SweepWrite
  <2>1. Recover(sweep.runs, sweep.turns) /\ UNCHANGED wvars
    BY <1>31 DEF SweepWrite
  <2>2. QED
    BY <2>1, RecoverSeen
<1>32. CASE Crash
  <2>1. \A v \in Workers : /\ Executed(v)' <=> Executed(v)
                           /\ IsTold(v)' <=> IsTold(v)
                           /\ pc'[v] # "finalize"
    BY <1>32 DEF Crash
  <2>2. UNCHANGED <<req, status, replies>>
    BY <1>32 DEF Crash
  <2>3. UNCHANGED Executors
    BY <2>1, <2>2 DEF Executors
  <2>4. UNCHANGED <<States, Answered, Told>>
    BY <2>1, <2>2, SameReplies, SameTold DEF States
  <2>5. Granted' = {}
    BY <2>1 DEF Granted
  <2>6. Contract!Die
    BY <2>3, <2>4, <2>5 DEF Contract!Die
  <2>7. QED
    BY <2>6 DEF Contract!Next
<1>33. CASE Restart
  <2>1. Recover(running, ActiveTurns) /\ UNCHANGED wvars
    BY <1>33 DEF Restart
  <2>2. \A t \in ActiveTurns : status[t] # "absent"
    BY DEF ActiveTurns
  <2>3. QED
    BY <2>1, <2>2, RecoverSeen DEF ActiveTurns
<1>34. CASE Tick
  BY <1>34, IdleUnseen DEF Tick, HasNormal
<1>35. CASE UNCHANGED vars
  BY <1>35, IdleUnseen DEF vars, HasNormal
<1>36. QED
  BY <1>1, <1>2, <1>3, <1>4, <1>5, <1>6, <1>7, <1>8, <1>9, <1>10, <1>11, <1>12, <1>13,
     <1>14, <1>15, <1>16, <1>17, <1>18, <1>19, <1>20, <1>21, <1>22, <1>23, <1>24, <1>25,
     <1>26, <1>27, <1>28, <1>29, <1>30, <1>31, <1>32, <1>33, <1>34, <1>35
  DEF Next, WorkerStep, CancelStep

\* The turn core keeps its promise, for any turns, workers, cancellers and crashes.
THEOREM ImplementsContractHolds == Spec => ImplementsContract
<1>1. Init => AnswerFit /\ EndFit
  BY DEF Init, AnswerFit, EndFit, NoSweep
<1>2. Init => Contract!Init
  BY DEF Init, Contract!Init, States, Executors, Granted, Answered, Told, Executed, Executing,
         Outcomes, IsTold, KindsOf, Active
<1>3. TypeOK /\ AnswerFit /\ [Next]_vars => AnswerFit'
  BY AnswerStep
<1>4. TypeOK /\ EndFit /\ [Next]_vars => EndFit'
  BY EndStep
<1>5. IInv => TypeOK
  BY DEF IInv
<1>6. IInv /\ AnswerFit /\ EndFit /\ [Next]_vars => [Contract!Next]_(Contract!vars)
  BY ContractStep
<1>7. QED
  BY <1>1, <1>2, <1>3, <1>4, <1>5, <1>6, InvHolds, PTL
  DEF Spec, ImplementsContract, Contract!Spec

=============================================================================
