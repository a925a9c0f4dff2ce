------------------------- MODULE ChannelOutboxProofs -------------------------
(***************************************************************************)
(* Theorems of ChannelOutbox, for every value of its constants.            *)
(***************************************************************************)
EXTENDS ChannelOutbox, TLAPS

(* The inductive invariant. *)

Bound(r) == MaxAttempts + IF r \in Reactions THEN faults ELSE 0

\* A row that may still be claimed has an attempt left.
AttemptsFit ==
    /\ AttemptsBounded
    /\ \A r \in Rows :
          st[r] \in {"none", "preparing", "pending"} => attempts[r] < Bound(r)
    /\ at["reaction"] = "boot" =>
          \A r \in Reactions :
              st[r] = "sending" => attempts[r] < MaxAttempts + faults

\* A lane works on a row of its own kind; in a call nobody else may touch it.
LaneFit ==
    /\ \A l \in Lanes :
          at[l] \in InCall \cup {"claimed"} => item[l] \in LaneRows(l)
    /\ \A l \in Lanes :
          at[l] \in InCall => lock = l /\ Owns(l) /\ binding # "deleted"

\* An answer shown once is remembered by the provider or too old to be sent.
CopyFit ==
    /\ AtMostOnce
    /\ \A r \in Answers : key[r] \/ copies[r] = 0 \/ age[r] = "expired"
    /\ \A l \in Lanes :
          at[l] = "send" /\ item[l] \in Answers => age[item[l]] # "expired"

\* A mark at the provider is known, or its reaction_add is uncertain.
MarkFit ==
    /\ OneMark
    /\ st[Add] = "sending" => attempts[Add] > 0
    /\ marks > 0 => attempts[Add] > 0 /\ (reactionId \/ UncertainAdd)
    /\ \A l \in Lanes :
          at[l] \in {"claimed", "send"} /\ item[l] = Add /\ attempts[Add] <= 1
          => marks = 0
    /\ \A l \in Lanes :
          at[l] = "ok" => /\ item[l] = Add /\ marks > 0 => found[l]
                          /\ item[l] = Remove => marks = 0
    /\ lock = "delete" => marks = 0
    /\ DeletedLeavesNoMark

IInv == TypeOK /\ AttemptsFit /\ LaneFit /\ CopyFit /\ MarkFit

-----------------------------------------------------------------------------
(* The rows: types and attempts.                                           *)

\* Boolean functions, which one of the provers handles and the other does not.
LEMMA BooleanUpdate ==
  ASSUME NEW S, NEW f \in [S -> BOOLEAN], NEW x, NEW b \in BOOLEAN
  PROVE  [f EXCEPT ![x] = b] \in [S -> BOOLEAN]
  BY Zenon

LEMMA BooleanConstant == ASSUME NEW S PROVE [x \in S |-> FALSE] \in [S -> BOOLEAN]
  BY Zenon

LEMMA TypeInit == Init => TypeOK
<1> SUFFICES ASSUME Init PROVE TypeOK
  OBVIOUS
<1>1. key \in [Answers -> BOOLEAN] /\ found \in [Lanes -> BOOLEAN]
  BY BooleanConstant, Zenon DEF Init
<1>2. /\ st \in [Rows -> Statuses]
      /\ attempts \in [Rows -> 0 .. MaxAttempts + MaxFaults]
      /\ gen \in [Rows -> Nat]
      /\ since \in [Rows -> {"none", "recent", "stale"}]
  BY OutboxAssumption DEF Init, Statuses
<1>3. /\ age \in [Answers -> {"fresh", "old", "expired"}]
      /\ copies \in [Answers -> Nat]
  BY DEF Init
<1>4. /\ at \in [Lanes -> Labels]
      /\ item \in [Lanes -> Rows \cup {None}]
      /\ token \in [Lanes -> Nat]
  BY DEF Init, Labels
<1>5. /\ up = TRUE /\ reactionId = FALSE
      /\ faults = 0 /\ requests = 0 /\ marks = 0
      /\ binding = "active" /\ lock = "free"
  BY Zenon DEF Init
<1>6. /\ faults \in 0 .. MaxFaults /\ requests \in 0 .. MaxRequests
      /\ marks \in Nat
  BY <1>5, OutboxAssumption
<1>7. QED
  BY <1>1, <1>2, <1>3, <1>4, <1>5, <1>6, Zenon DEF TypeOK

LEMMA AttemptsInit == Init => AttemptsFit
  BY OutboxAssumption
  DEF Init, AttemptsFit, AttemptsBounded, Bound, Rows, Reactions, Lanes

LEMMA TypeStep ==
  ASSUME TypeOK, AttemptsFit, LaneFit, [Next]_vars
  PROVE  TypeOK'
<1> USE OutboxAssumption
    DEF TypeOK, Statuses, Labels, InCall, row, remote, lanes
<1>1. ASSUME NEW r \in Answers, PrepareAnswer(r) \/ StageAnswer(r)
      PROVE  TypeOK'
  BY <1>1 DEF PrepareAnswer, StageAnswer
<1>2. ASSUME NEW l \in Lanes, Claim(l)
      PROVE  TypeOK'
  <2>1. PICK r \in LaneRows(l) :
            /\ st[r] = "pending"
            /\ st' = [st EXCEPT ![r] = "sending"]
            /\ attempts' = [attempts EXCEPT ![r] = @ + 1]
            /\ gen' = [gen EXCEPT ![r] = @ + 1]
            /\ since' = [since EXCEPT ![r] = "recent"]
            /\ item' = [item EXCEPT ![l] = r]
    BY <1>2 DEF Claim
  <2>2. r \in Rows
    BY <2>1 DEF LaneRows, Rows
  <2>3. attempts[r] < MaxAttempts + MaxFaults
    BY <2>1, <2>2 DEF AttemptsFit, Bound
  <2>4. attempts' \in [Rows -> 0 .. MaxAttempts + MaxFaults]
    BY <2>1, <2>2, <2>3
  <2>5. QED
    BY <1>2, <2>1, <2>2, <2>4 DEF Claim
<1>3. ASSUME NEW l \in Lanes, Enter(l)
      PROVE  TypeOK'
  <2>. item[l] \in Rows
    BY <1>3 DEF LaneFit, LaneRows, Enter, Rows
  <2>1. /\ at' \in [Lanes -> Labels]
        /\ item' \in [Lanes -> Rows \cup {None}]
        /\ token' \in [Lanes -> Nat]
    BY <1>3 DEF Enter, Leave
  <2>2. found' \in [Lanes -> BOOLEAN]
    <3>1. found' = found \/ found' = [found EXCEPT ![l] = FALSE]
      BY <1>3 DEF Enter, Leave
    <3>2. QED
      BY <3>1, BooleanUpdate, Zenon
  <2>3. st' \in [Rows -> Statuses]
    BY <1>3 DEF Enter, Refused, End
  <2>4. since' \in [Rows -> {"none", "recent", "stale"}]
    BY <1>3 DEF Enter, Refused, End
  <2>5. lock' \in Lanes \cup {"free", "delete", "abort"}
    BY <1>3 DEF Enter
  <2>6. QED
    BY <1>3, <2>1, <2>2, <2>3, <2>4, <2>5 DEF Enter
<1>4. ASSUME NEW l \in Lanes, Send(l)
      PROVE  TypeOK'
  <2>1. marks' \in Nat
    BY <1>4 DEF Send, Effect, Show
  <2>2. found' \in [Lanes -> BOOLEAN]
    <3>1. \/ found' = found
          \/ found' = [found EXCEPT ![l] = marks' > 0]
      BY <1>4 DEF Send, Effect
    <3>2. (marks' > 0) \in BOOLEAN
      BY <2>1
    <3>3. QED
      BY <3>1, <3>2, BooleanUpdate, Zenon
  <2>3. copies' \in [Answers -> Nat]
    BY <1>4 DEF Send, Effect, Show
  <2>4. key' \in [Answers -> BOOLEAN]
    <3>1. key' = key \/ \E r : key' = [key EXCEPT ![r] = TRUE]
      BY <1>4 DEF Send, Effect, Show
    <3>2. QED
      BY <3>1, BooleanUpdate, Zenon
  <2>5. QED
    BY <1>4, <2>1, <2>2, <2>3, <2>4 DEF Send
<1>5. ASSUME NEW l \in Lanes, Delivered(l)
      PROVE  TypeOK'
  BY <1>5 DEF Delivered, NextReactionId, Leave
<1>6. ASSUME NEW l \in Lanes, CallFailed(l)
      PROVE  TypeOK'
  BY <1>6 DEF CallFailed, End, Leave
<1>7. ASSUME NEW l \in Lanes, Reset(l)
      PROVE  TypeOK'
  BY <1>7 DEF Reset
<1>8. ASSUME NEW l \in Lanes, TransactionFails(l)
      PROVE  TypeOK'
  BY <1>8 DEF TransactionFails, Leave
<1>9. CASE Toggle
  BY <1>9 DEF Toggle, Request
<1>10. CASE DeleteBegin
  BY <1>10 DEF DeleteBegin, Request
<1>11. CASE DeleteCommit
  <2>1. st' \in [Rows -> Statuses]
    BY <1>11 DEF DeleteCommit
  <2>2. gen' \in [Rows -> Nat]
    BY <1>11 DEF DeleteCommit
  <2>3. since' \in [Rows -> {"none", "recent", "stale"}]
    BY <1>11 DEF DeleteCommit
  <2>4. QED
    BY <1>11, <2>1, <2>2, <2>3 DEF DeleteCommit
<1>12. CASE DeleteAbort
  BY <1>12 DEF DeleteAbort
<1>13. CASE Crash
  <2>1. found' \in [Lanes -> BOOLEAN]
    BY <1>13, BooleanConstant, Zenon DEF Crash
  <2>2. st' \in [Rows -> Statuses]
    BY <1>13 DEF Crash
  <2>3. at' \in [Lanes -> Labels] /\ token' \in [Lanes -> Nat]
    BY <1>13 DEF Crash
  <2>4. item' \in [Lanes -> Rows \cup {None}]
    BY <1>13 DEF Crash
  <2>5. /\ up' = FALSE /\ faults' \in 0 .. MaxFaults /\ lock' = "free"
        /\ UNCHANGED <<requests, binding, attempts, gen, since, age,
                       reactionId, marks, copies, key>>
    BY <1>13 DEF Crash
  <2>6. QED
    BY <2>1, <2>2, <2>3, <2>4, <2>5
<1>14. CASE Restart
  BY <1>14 DEF Restart
<1>15. ASSUME NEW r \in Rows, GoStale(r)
       PROVE  TypeOK'
  BY <1>15 DEF GoStale
<1>16. ASSUME NEW r \in Rows, GrowOld(r)
       PROVE  TypeOK'
  BY <1>16 DEF GrowOld
<1>17. ASSUME NEW r \in Rows, Forget(r)
       PROVE  TypeOK'
  BY <1>17 DEF Forget
<1>18. CASE UNCHANGED vars
  BY <1>18 DEF vars
<1>19. QED
  BY <1>1, <1>2, <1>3, <1>4, <1>5, <1>6, <1>7, <1>8, <1>9, <1>10, <1>11, <1>12,
     <1>13, <1>14, <1>15, <1>16, <1>17, <1>18
  DEF Next, LaneStep, Deletion, Time

LEMMA AttemptsStep ==
  ASSUME TypeOK, AttemptsFit, LaneFit, [Next]_vars
  PROVE  AttemptsFit'
<1> USE OutboxAssumption
    DEF TypeOK, AttemptsFit, AttemptsBounded, Bound, InCall, row, remote, lanes
<1>1. ASSUME NEW r \in Answers, PrepareAnswer(r) \/ StageAnswer(r)
      PROVE  AttemptsFit'
  BY <1>1 DEF PrepareAnswer, StageAnswer, Rows
<1>2. ASSUME NEW l \in Lanes, Claim(l)
      PROVE  AttemptsFit'
  <2>1. PICK r \in LaneRows(l) :
            /\ st[r] = "pending"
            /\ st' = [st EXCEPT ![r] = "sending"]
            /\ attempts' = [attempts EXCEPT ![r] = @ + 1]
            /\ gen' = [gen EXCEPT ![r] = @ + 1]
            /\ since' = [since EXCEPT ![r] = "recent"]
            /\ item' = [item EXCEPT ![l] = r]
    BY <1>2 DEF Claim
  <2>2. r \in Rows
    BY <2>1 DEF LaneRows, Rows
  <2>3. \A q \in Rows : attempts'[q] = attempts[q] + IF q = r THEN 1 ELSE 0
    BY <2>1, <2>2
  <2>4. \A q \in Rows : st'[q] = IF q = r THEN "sending" ELSE st[q]
    BY <2>1, <2>2
  <2>5. AttemptsBounded'
    BY <1>2, <2>1, <2>2, <2>3 DEF Claim
  <2>6. \A q \in Rows :
            st'[q] \in {"none", "preparing", "pending"} => attempts'[q] < Bound(q)'
    BY <1>2, <2>3, <2>4 DEF Claim
  <2>7. l = "content" => r \notin Reactions
    BY <2>1 DEF LaneRows, Rows
  <2>8. at'["reaction"] = "boot" =>
            \A q \in Reactions :
                st'[q] = "sending" => attempts'[q] < MaxAttempts + faults'
    BY <1>2, <2>3, <2>4, <2>7 DEF Claim, Lanes, Rows
  <2>9. QED
    BY <2>5, <2>6, <2>8
<1>3. ASSUME NEW l \in Lanes, Enter(l)
      PROVE  AttemptsFit'
  <2>1. \A q \in Rows : st'[q] \in {st[q], "failed"}
    BY <1>3 DEF Enter, Refused, End
  <2>2. at'["reaction"] = "boot" => at["reaction"] = "boot"
    BY <1>3 DEF Enter, Leave, Lanes
  <2>3. QED
    BY <1>3, <2>1, <2>2 DEF Enter, Rows
<1>4. ASSUME NEW l \in Lanes, Send(l)
      PROVE  AttemptsFit'
  BY <1>4 DEF Send, Lanes
<1>5. ASSUME NEW l \in Lanes, Delivered(l)
      PROVE  AttemptsFit'
  <2>1. \A q \in Rows :
            \/ st'[q] = st[q]
            \/ st'[q] = "delivered"
            \/ st'[q] = "pending" /\ st[q] = "none"
    BY <1>5 DEF Delivered, StagesRemoval
  <2>2. at'["reaction"] = "boot" => at["reaction"] = "boot"
    BY <1>5 DEF Delivered, Leave, Lanes
  <2>3. QED
    BY <1>5, <2>1, <2>2 DEF Delivered, Rows
<1>6. ASSUME NEW l \in Lanes, CallFailed(l)
      PROVE  AttemptsFit'
  <2>1. \A q \in Rows :
            \/ st'[q] = st[q]
            \/ st'[q] = "failed"
            \/ st'[q] = "pending" /\ attempts[q] < MaxAttempts
    BY <1>6 DEF CallFailed, End, Exhausted
  <2>2. at'["reaction"] = "boot" => at["reaction"] = "boot"
    BY <1>6 DEF CallFailed, Leave, Lanes
  <2>3. QED
    BY <1>6, <2>1, <2>2 DEF CallFailed, Rows
<1>7. ASSUME NEW l \in Lanes, Reset(l)
      PROVE  AttemptsFit'
  <2>1. \A q \in Rows :
            \/ st'[q] = st[q]
            \/ st'[q] = "failed"
            \/ /\ st'[q] = "pending" /\ st[q] = "sending"
               /\ q \in Reactions /\ l = "reaction"
    BY <1>7 DEF Reset, Stuck, LaneRows, Rows, Lanes
  <2>2. at["reaction"] = "boot" \/ l # "reaction"
    BY <1>7 DEF Reset
  <2>3. at'["reaction"] = "boot" => at["reaction"] = "boot"
    BY <1>7 DEF Reset, Lanes
  <2>4. QED
    BY <1>7, <2>1, <2>2, <2>3 DEF Reset, Rows
<1>8. ASSUME NEW l \in Lanes, TransactionFails(l)
      PROVE  AttemptsFit'
  <2>1. at'["reaction"] = "boot" => at["reaction"] = "boot"
    BY <1>8 DEF TransactionFails, Leave, Lanes
  <2>2. QED
    BY <1>8, <2>1 DEF TransactionFails, Rows
<1>9. CASE Toggle
  BY <1>9 DEF Toggle
<1>10. CASE DeleteBegin
  BY <1>10 DEF DeleteBegin
<1>11. CASE DeleteCommit
  <2>1. \A q \in Rows : st'[q] \in {st[q], "failed"}
    BY <1>11 DEF DeleteCommit
  <2>2. QED
    BY <1>11, <2>1 DEF DeleteCommit, Rows
<1>12. CASE DeleteAbort
  BY <1>12 DEF DeleteAbort
<1>13. CASE Crash
  <2>1. \A q \in Rows :
            \/ st'[q] = st[q]
            \/ st'[q] = "none" /\ st[q] = "preparing"
    BY <1>13 DEF Crash
  <2>2. attempts' = attempts /\ faults' = faults + 1
    BY <1>13 DEF Crash
  <2>3. QED
    BY <2>1, <2>2 DEF Rows
<1>14. CASE Restart
  BY <1>14 DEF Restart
<1>15. ASSUME NEW r \in Rows, GoStale(r) \/ GrowOld(r) \/ Forget(r)
       PROVE  AttemptsFit'
  BY <1>15 DEF GoStale, GrowOld, Forget
<1>16. CASE UNCHANGED vars
  BY <1>16 DEF vars
<1>17. QED
  BY <1>1, <1>2, <1>3, <1>4, <1>5, <1>6, <1>7, <1>8, <1>9, <1>10, <1>11, <1>12,
     <1>13, <1>14, <1>15, <1>16
  DEF Next, LaneStep, Deletion, Time

-----------------------------------------------------------------------------
(* The lanes: who may touch a row.                                         *)

LEMMA LanesApart ==
  ASSUME NEW l \in Lanes, NEW m \in Lanes, l # m, NEW r \in LaneRows(l)
  PROVE  r \notin LaneRows(m)
  BY OutboxAssumption DEF Lanes, LaneRows

LEMMA LaneRowsAreRows ==
  ASSUME NEW l \in Lanes
  PROVE  LaneRows(l) \subseteq Rows
  BY DEF LaneRows, Rows

LEMMA LaneInit == Init => LaneFit
  BY DEF Init, LaneFit, InCall

\* A step that leaves the lanes and the lock alone, and the claimed rows of
\* the lanes in a call, keeps LaneFit.
LEMMA LaneQuiet ==
  ASSUME LaneFit, UNCHANGED <<at, item, token, lock, binding>>,
         \A l \in Lanes : at[l] \in InCall =>
             st'[item[l]] = st[item[l]] /\ gen'[item[l]] = gen[item[l]]
  PROVE  LaneFit'
  BY DEF LaneFit, Owns, LaneRows

\* A step that ends a lane's work and changes no row of another lane's call.
LEMMA LaneLeaves ==
  ASSUME TypeOK, LaneFit, NEW l \in Lanes, Leave(l),
         UNCHANGED <<gen, binding>>,
         \A m \in Lanes \ {l} : at[m] \in InCall =>
             lock' = lock /\ st'[item[m]] = st[item[m]]
  PROVE  LaneFit'
<1>1. ASSUME NEW m \in Lanes
      PROVE  /\ at'[m] \in InCall \cup {"claimed"} => item'[m] \in LaneRows(m)
             /\ at'[m] \in InCall => lock' = m /\ Owns(m)' /\ binding' # "deleted"
  <2>1. CASE m = l
    BY <2>1 DEF TypeOK, Leave, InCall
  <2>2. CASE m # l
    BY <2>2 DEF TypeOK, Leave, InCall, LaneFit, Owns
  <2>3. QED
    BY <2>1, <2>2
<1>2. QED
  BY <1>1 DEF LaneFit, LaneRows

LEMMA LaneFitStep ==
  ASSUME TypeOK, LaneFit, [Next]_vars
  PROVE  LaneFit'
<1> USE DEF row, remote, lanes
<1>0. \A l \in Lanes : at[l] \in InCall => item[l] \in Rows
  BY LaneRowsAreRows DEF LaneFit, InCall
<1>1. ASSUME NEW r \in Answers, PrepareAnswer(r) \/ StageAnswer(r)
      PROVE  LaneFit'
  <2>1. UNCHANGED <<at, item, token, lock, binding, gen>>
    BY <1>1 DEF PrepareAnswer, StageAnswer
  <2>2. st[r] # "sending" /\ \A q \in Rows \ {r} : st'[q] = st[q]
    BY <1>1 DEF PrepareAnswer, StageAnswer, TypeOK
  <2>3. QED
    BY <1>0, <2>1, <2>2, LaneQuiet DEF LaneFit, Owns
<1>2. ASSUME NEW l \in Lanes, Claim(l)
      PROVE  LaneFit'
  <2>1. PICK r \in LaneRows(l) :
            /\ st[r] = "pending"
            /\ st' = [st EXCEPT ![r] = "sending"]
            /\ attempts' = [attempts EXCEPT ![r] = @ + 1]
            /\ gen' = [gen EXCEPT ![r] = @ + 1]
            /\ since' = [since EXCEPT ![r] = "recent"]
            /\ item' = [item EXCEPT ![l] = r]
    BY <1>2 DEF Claim
  <2>2. /\ at' = [at EXCEPT ![l] = "claimed"]
        /\ UNCHANGED <<lock, binding, token>>
    BY <1>2 DEF Claim
  <2>3. \A q \in Rows \ {r} : st'[q] = st[q] /\ gen'[q] = gen[q]
    BY <2>1 DEF TypeOK
  <2>4. ASSUME NEW m \in Lanes
        PROVE  /\ at'[m] \in InCall \cup {"claimed"} => item'[m] \in LaneRows(m)
               /\ at'[m] \in InCall =>
                     lock' = m /\ Owns(m)' /\ binding' # "deleted"
    <3>1. CASE m = l
      BY <2>1, <2>2, <3>1 DEF TypeOK, InCall
    <3>2. CASE m # l
      <4>1. at'[m] = at[m] /\ item'[m] = item[m] /\ token'[m] = token[m]
        BY <2>1, <2>2, <3>2 DEF TypeOK
      <4>2. at[m] \in InCall => item[m] # r
        BY <2>1 DEF LaneFit, Owns
      <4>3. QED
        BY <1>0, <2>2, <2>3, <4>1, <4>2 DEF LaneFit, Owns, InCall
    <3>3. QED
      BY <3>1, <3>2
  <2>5. QED
    BY <2>4 DEF LaneFit, LaneRows
<1>3. ASSUME NEW l \in Lanes, Enter(l)
      PROVE  LaneFit'
  <2>1. \A m \in Lanes : at[m] \notin InCall
    BY <1>3 DEF Enter, LockFree, LaneFit, Lanes
  <2>2. item[l] \in LaneRows(l) /\ at[l] = "claimed"
    BY <1>3 DEF Enter, LaneFit
  <2>3. UNCHANGED <<gen, binding>>
    BY <1>3 DEF Enter
  <2>4. CASE Leave(l)
    BY <2>1, <2>3, <2>4, LaneLeaves
  <2>5. CASE /\ st[item[l]] = "sending"
             /\ ~BindingRefuses(item[l])
             /\ lock' = l
             /\ at' = [at EXCEPT ![l] = "send"]
             /\ token' = [token EXCEPT ![l] = gen[item[l]]]
             /\ UNCHANGED <<st, item>>
    <3>1. binding' # "deleted"
      BY <2>3, <2>5 DEF BindingRefuses
    <3>2. Owns(l)'
      BY <2>3, <2>5 DEF Owns, TypeOK
    <3>3. \A m \in Lanes \ {l} : at'[m] = at[m]
      BY <2>5 DEF TypeOK
    <3>4. QED
      BY <2>1, <2>2, <2>5, <3>1, <3>2, <3>3 DEF LaneFit, LaneRows, InCall
  <2>6. QED
    BY <1>3, <2>4, <2>5 DEF Enter
<1>4. ASSUME NEW l \in Lanes, Send(l)
      PROVE  LaneFit'
  <2>1. /\ at[l] = "send" /\ at'[l] \in InCall
        /\ \A m \in Lanes \ {l} : at'[m] = at[m]
    BY <1>4 DEF Send, TypeOK, InCall
  <2>2. UNCHANGED <<lock, binding, st, gen, item, token>>
    BY <1>4 DEF Send
  <2>3. QED
    BY <2>1, <2>2 DEF LaneFit, LaneRows, Owns, InCall
<1>5. ASSUME NEW l \in Lanes, Delivered(l)
      PROVE  LaneFit'
  <2>1. \A m \in Lanes \ {l} : at[m] \notin InCall
    BY <1>5 DEF Delivered, LaneFit, InCall
  <2>2. QED
    BY <1>5, <2>1, LaneLeaves DEF Delivered
<1>6. ASSUME NEW l \in Lanes, CallFailed(l)
      PROVE  LaneFit'
  <2>1. \A m \in Lanes \ {l} : at[m] \notin InCall
    BY <1>6 DEF CallFailed, LaneFit, InCall
  <2>2. QED
    BY <1>6, <2>1, LaneLeaves DEF CallFailed
<1>7. ASSUME NEW l \in Lanes, Reset(l)
      PROVE  LaneFit'
  <2>1. \A q \in Rows \ LaneRows(l) : st'[q] = st[q] /\ gen'[q] = gen[q]
    BY <1>7 DEF Reset, Stuck
  <2>2. /\ at' = [at EXCEPT ![l] = "idle"]
        /\ UNCHANGED <<lock, binding, item, token>>
    BY <1>7 DEF Reset
  <2>3. ASSUME NEW m \in Lanes
        PROVE  /\ at'[m] \in InCall \cup {"claimed"} => item'[m] \in LaneRows(m)
               /\ at'[m] \in InCall =>
                     lock' = m /\ Owns(m)' /\ binding' # "deleted"
    <3>1. CASE m = l
      BY <2>2, <3>1 DEF TypeOK, InCall
    <3>2. CASE m # l
      <4>1. at'[m] = at[m]
        BY <2>2, <3>2 DEF TypeOK
      <4>2. at[m] \in InCall => item[m] \in Rows \ LaneRows(l)
        BY <1>0, <3>2, LanesApart DEF LaneFit
      <4>3. QED
        BY <2>1, <2>2, <4>1, <4>2 DEF LaneFit, Owns
    <3>3. QED
      BY <3>1, <3>2
  <2>4. QED
    BY <2>3 DEF LaneFit, LaneRows
<1>8. ASSUME NEW l \in Lanes, TransactionFails(l)
      PROVE  LaneFit'
  <2>1. \A m \in Lanes \ {l} : at[m] \in InCall => lock' = lock
    BY <1>8 DEF TransactionFails, LaneFit
  <2>2. QED
    BY <1>8, <2>1, LaneLeaves DEF TransactionFails
<1>9. CASE Toggle
  <2>1. \A m \in Lanes : at[m] \notin InCall
    BY <1>9 DEF Toggle, Request, LockFree, LaneFit, Lanes
  <2>2. QED
    BY <1>9, <2>1 DEF Toggle, LaneFit, LaneRows
<1>10. CASE DeleteBegin
  <2>1. \A m \in Lanes : at[m] \notin InCall
    BY <1>10 DEF DeleteBegin, Request, LockFree, LaneFit, Lanes
  <2>2. QED
    BY <1>10, <2>1 DEF DeleteBegin, LaneFit, LaneRows
<1>11. CASE DeleteCommit
  <2>1. \A m \in Lanes : at[m] \notin InCall
    BY <1>11 DEF DeleteCommit, LaneFit, Lanes
  <2>2. QED
    BY <1>11, <2>1 DEF DeleteCommit, LaneFit, LaneRows
<1>12. CASE DeleteAbort
  <2>1. \A m \in Lanes : at[m] \notin InCall
    BY <1>12 DEF DeleteAbort, LaneFit, Lanes
  <2>2. QED
    BY <1>12, <2>1 DEF DeleteAbort, LaneFit, LaneRows
<1>13. CASE Crash
  BY <1>13 DEF Crash, LaneFit, InCall
<1>14. CASE Restart
  BY <1>14, LaneQuiet DEF Restart
<1>15. ASSUME NEW r \in Rows, GoStale(r) \/ GrowOld(r) \/ Forget(r)
       PROVE  LaneFit'
  BY <1>15, LaneQuiet DEF GoStale, GrowOld, Forget
<1>16. CASE UNCHANGED vars
  BY <1>16, LaneQuiet DEF vars
<1>17. QED
  BY <1>1, <1>2, <1>3, <1>4, <1>5, <1>6, <1>7, <1>8, <1>9, <1>10, <1>11, <1>12,
     <1>13, <1>14, <1>15, <1>16
  DEF Next, LaneStep, Deletion, Time

-----------------------------------------------------------------------------
(* The provider: answers.                                                  *)

LEMMA CopyInit == Init => CopyFit
<1> SUFFICES ASSUME Init PROVE CopyFit
  OBVIOUS
<1>1. copies = [r \in Answers |-> 0] /\ at = [l \in Lanes |-> "idle"]
  BY Zenon DEF Init
<1>2. QED
  BY <1>1 DEF CopyFit, AtMostOnce

LEMMA BooleanSet ==
  ASSUME NEW S, NEW f \in [S -> BOOLEAN], NEW x \in S, NEW b \in BOOLEAN, NEW y \in S
  PROVE  /\ [f EXCEPT ![x] = b][x] <=> b
         /\ y # x => ([f EXCEPT ![x] = b][y] <=> f[y])
  BY Zenon

\* Steps that show nothing, and start no call.
LEMMA CopyQuiet ==
  ASSUME TypeOK, CopyFit, UNCHANGED <<copies, key, age>>,
         \A l \in Lanes : at'[l] = "send" => at[l] = "send" /\ item'[l] = item[l]
  PROVE  CopyFit'
  BY DEF CopyFit, AtMostOnce

LEMMA CopyStep ==
  ASSUME TypeOK, LaneFit, CopyFit, [Next]_vars
  PROVE  CopyFit'
<1> USE DEF row, remote, lanes
<1>1. ASSUME NEW r \in Answers, PrepareAnswer(r) \/ StageAnswer(r)
      PROVE  CopyFit'
  BY <1>1, CopyQuiet DEF PrepareAnswer, StageAnswer
<1>2. ASSUME NEW l \in Lanes, Claim(l)
      PROVE  CopyFit'
  <2>1. UNCHANGED <<copies, key, age>>
    BY <1>2 DEF Claim
  <2>2. ASSUME NEW m \in Lanes, at'[m] = "send"
        PROVE  at[m] = "send" /\ item'[m] = item[m]
    BY <1>2, <2>2 DEF Claim, TypeOK
  <2>3. QED
    BY <2>1, <2>2, CopyQuiet
<1>3. ASSUME NEW l \in Lanes, Enter(l)
      PROVE  CopyFit'
  <2>1. UNCHANGED <<copies, key, age>>
    BY <1>3 DEF Enter
  <2>2. CASE Leave(l)
    <3>1. ASSUME NEW m \in Lanes, at'[m] = "send"
          PROVE  at[m] = "send" /\ item'[m] = item[m]
      BY <2>2, <3>1 DEF Leave, TypeOK
    <3>2. QED
      BY <2>1, <3>1, CopyQuiet
  <2>3. CASE /\ ~WindowClosed(item[l])
             /\ at' = [at EXCEPT ![l] = "send"]
             /\ item' = item
    <3>1. item[l] \in Answers => age[item[l]] # "expired"
      BY <2>3 DEF WindowClosed
    <3>2. \A m \in Lanes \ {l} : at'[m] = at[m]
      BY <2>3 DEF TypeOK
    <3>3. \A m \in Lanes :
              at'[m] = "send" /\ item'[m] \in Answers => age'[item'[m]] # "expired"
      BY <2>1, <2>3, <3>1, <3>2 DEF CopyFit
    <3>4. QED
      BY <2>1, <3>3 DEF CopyFit, AtMostOnce
  <2>4. QED
    BY <1>3, <2>2, <2>3 DEF Enter
<1>4. ASSUME NEW l \in Lanes, Send(l)
      PROVE  CopyFit'
  <2>1. UNCHANGED <<age, item>>
    BY <1>4 DEF Send
  <2>2. \A m \in Lanes : at'[m] = "send" => at[m] = "send"
    BY <1>4 DEF Send, TypeOK
  <2>3. CASE UNCHANGED <<copies, key>>
    BY <2>1, <2>2, <2>3, CopyQuiet
  <2>4. CASE item[l] \in Answers /\ Show(item[l])
    <3> DEFINE r == item[l]
    <3>1. age[r] # "expired"
      BY <1>4, <2>4 DEF Send, CopyFit
    <3>2. key[r] \/ copies[r] = 0
      BY <2>4, <3>1 DEF CopyFit
    <3>3. copies'[r] <= 1 /\ \A q \in Answers \ {r} : copies'[q] = copies[q]
      BY <2>4, <3>2 DEF Show, CopyFit, AtMostOnce, TypeOK
    <3>4. key'[r] /\ \A q \in Answers \ {r} : key'[q] <=> key[q]
      <4>1. /\ key \in [Answers -> BOOLEAN] /\ r \in Answers
            /\ key' = [key EXCEPT ![r] = TRUE]
        BY <2>4, Zenon DEF Show, TypeOK
      <4>2. key'[r] <=> TRUE
        BY <4>1, BooleanSet, Zenon
      <4>3. \A q \in Answers \ {r} : key'[q] <=> key[q]
        BY <4>1, BooleanSet, Zenon
      <4>4. QED
        BY <4>2, <4>3
    <3>5. QED
      BY <2>1, <2>2, <3>3, <3>4 DEF CopyFit, AtMostOnce
  <2>5. QED
    BY <1>4, <2>3, <2>4 DEF Send, Effect
<1>5. ASSUME NEW l \in Lanes, Delivered(l) \/ CallFailed(l) \/ TransactionFails(l)
      PROVE  CopyFit'
  <2>1. UNCHANGED <<copies, key, age>> /\ Leave(l)
    BY <1>5 DEF Delivered, CallFailed, TransactionFails
  <2>2. ASSUME NEW m \in Lanes, at'[m] = "send"
        PROVE  at[m] = "send" /\ item'[m] = item[m]
    BY <2>1, <2>2 DEF Leave, TypeOK
  <2>3. QED
    BY <2>1, <2>2, CopyQuiet
<1>6. ASSUME NEW l \in Lanes, Reset(l)
      PROVE  CopyFit'
  <2>1. UNCHANGED <<copies, key, age, item>>
    BY <1>6 DEF Reset
  <2>2. \A m \in Lanes : at'[m] = "send" => at[m] = "send"
    BY <1>6 DEF Reset, TypeOK
  <2>3. QED
    BY <2>1, <2>2, CopyQuiet
<1>7. CASE Toggle
  BY <1>7, CopyQuiet DEF Toggle
<1>8. CASE DeleteBegin
  BY <1>8, CopyQuiet DEF DeleteBegin
<1>9. CASE DeleteCommit \/ DeleteAbort
  BY <1>9, CopyQuiet DEF DeleteCommit, DeleteAbort
<1>10. CASE Crash
  BY <1>10, CopyQuiet DEF Crash
<1>11. CASE Restart
  BY <1>11, CopyQuiet DEF Restart
<1>12. ASSUME NEW r \in Rows, GoStale(r)
       PROVE  CopyFit'
  BY <1>12, CopyQuiet DEF GoStale
<1>13. ASSUME NEW r \in Rows, GrowOld(r)
       PROVE  CopyFit'
  <2>1. UNCHANGED <<copies, key, at, item>>
    BY <1>13 DEF GrowOld
  <2>2. \A q \in Answers : age[q] = "expired" => age'[q] = "expired"
    BY <1>13 DEF GrowOld, TypeOK
  <2>3. ASSUME NEW m \in Lanes, at[m] = "send", item[m] \in Answers
        PROVE  age'[item[m]] # "expired"
    BY <1>13, <2>3 DEF GrowOld, Calling, CopyFit, TypeOK
  <2>4. QED
    BY <2>1, <2>2, <2>3 DEF CopyFit, AtMostOnce
<1>14. ASSUME NEW r \in Rows, Forget(r)
       PROVE  CopyFit'
  <2>1. UNCHANGED <<copies, age, at, item>> /\ r \in Answers /\ age[r] = "expired"
    BY <1>14 DEF Forget
  <2>2. \A q \in Answers \ {r} : key'[q] <=> key[q]
    BY <1>14, <2>1, BooleanSet, Zenon DEF Forget, TypeOK
  <2>3. QED
    BY <2>1, <2>2 DEF CopyFit, AtMostOnce
<1>15. CASE UNCHANGED vars
  BY <1>15, CopyQuiet DEF vars
<1>16. QED
  BY <1>1, <1>2, <1>3, <1>4, <1>5, <1>6, <1>7, <1>8, <1>9, <1>10, <1>11, <1>12,
     <1>13, <1>14, <1>15
  DEF Next, LaneStep, Deletion, Time

-----------------------------------------------------------------------------
(* The provider: the reaction.                                             *)

LEMMA RowsOfReaction ==
  /\ Add \in Rows /\ Remove \in Rows /\ Add # Remove
  /\ Add \notin Answers /\ Remove \notin Answers
  BY OutboxAssumption DEF Rows, Reactions

LEMMA MarkInit == Init => MarkFit
<1> SUFFICES ASSUME Init PROVE MarkFit
  OBVIOUS
<1>1. /\ marks = 0 /\ at = [l \in Lanes |-> "idle"]
      /\ st = [r \in Rows |-> IF r = Add THEN "pending" ELSE "none"]
  BY Zenon DEF Init
<1>2. QED
  BY <1>1, RowsOfReaction DEF MarkFit, OneMark, DeletedLeavesNoMark

LEMMA LeaveFacts ==
  ASSUME TypeOK, NEW l \in Lanes, Leave(l)
  PROVE  /\ at'[l] = "idle"
         /\ \A m \in Lanes \ {l} :
               at'[m] = at[m] /\ item'[m] = item[m] /\ (found'[m] <=> found[m])
<1>1. /\ at'[l] = "idle"
      /\ \A m \in Lanes \ {l} : at'[m] = at[m] /\ item'[m] = item[m]
  BY DEF Leave, TypeOK
<1>2. \A m \in Lanes \ {l} : found'[m] <=> found[m]
  <2>1. found \in [Lanes -> BOOLEAN] /\ found' = [found EXCEPT ![l] = FALSE]
    BY Zenon DEF Leave, TypeOK
  <2>2. QED
    BY <2>1, BooleanSet, Zenon
<1>3. QED
  BY <1>1, <1>2

\* Steps that change no mark, and move the reaction_add nowhere but back to
\* pending or to failed.
LEMMA MarkQuiet ==
  ASSUME TypeOK, MarkFit, UNCHANGED marks, reactionId => reactionId',
         attempts'[Add] = attempts[Add],
         \/ st'[Add] = st[Add]
         \/ st'[Add] = "none" /\ st[Add] = "preparing"
         \/ st'[Add] \in {"pending", "failed"} /\ st[Add] = "sending",
         binding' = "deleted" => binding = "deleted",
         lock' = "delete" => lock = "delete",
         \A l \in Lanes :
            /\ at'[l] \in {"claimed", "send"} =>
                  at[l] \in {"claimed", "send"} /\ item'[l] = item[l]
            /\ at'[l] = "ok" =>
                  at[l] = "ok" /\ item'[l] = item[l] /\ (found[l] => found'[l])
  PROVE  MarkFit'
<1> USE DEF MarkFit
<1>1. OneMark' /\ DeletedLeavesNoMark' /\ (lock' = "delete" => marks' = 0)
  BY DEF OneMark, DeletedLeavesNoMark
<1>2. st'[Add] = "sending" => attempts'[Add] > 0
  OBVIOUS
<1>3. marks' > 0 => attempts'[Add] > 0 /\ (reactionId' \/ UncertainAdd')
  BY DEF UncertainAdd
<1>4. \A l \in Lanes :
          at'[l] \in {"claimed", "send"} /\ item'[l] = Add /\ attempts'[Add] <= 1
          => marks' = 0
  OBVIOUS
<1>5. \A l \in Lanes :
          at'[l] = "ok" => /\ item'[l] = Add /\ marks' > 0 => found'[l]
                           /\ item'[l] = Remove => marks' = 0
  OBVIOUS
<1>6. QED
  BY <1>1, <1>2, <1>3, <1>4, <1>5

\* A lane that leaves, without a mark and with the reaction_add left alone, or
\* put back to pending, or failed.
LEMMA MarkLeaves ==
  ASSUME TypeOK, MarkFit, NEW l \in Lanes, Leave(l),
         UNCHANGED <<marks, attempts, binding>>, reactionId => reactionId',
         lock' \in {lock, "free"},
         \/ st'[Add] = st[Add]
         \/ st'[Add] \in {"pending", "failed"} /\ st[Add] = "sending"
  PROVE  MarkFit'
  BY LeaveFacts, MarkQuiet

LEMMA SendMarks ==
  ASSUME TypeOK, LaneFit, MarkFit, NEW l \in Lanes, Send(l)
  PROVE  MarkFit'
<1>1. /\ UNCHANGED <<st, attempts, reactionId, binding, lock, item>>
      /\ at[l] = "send" /\ at'[l] \in {"ok", "retry", "refused"}
      /\ \A m \in Lanes \ {l} : at'[m] = at[m]
  BY DEF Send, TypeOK, row
<1>2. /\ lock = l /\ Owns(l) /\ binding # "deleted"
      /\ item[l] \in LaneRows(l)
      /\ \A m \in Lanes \ {l} : at[m] \notin InCall
  BY <1>1 DEF LaneFit, InCall
<1>3. lock # "delete"
  BY <1>2 DEF Lanes
<1>4. \A m \in Lanes \ {l} : at[m] = "claimed" => item[m] # item[l]
  BY <1>2, LanesApart DEF LaneFit
<1>5. marks \in Nat /\ marks <= 1 /\ attempts[Add] \in Nat
  BY RowsOfReaction DEF TypeOK, MarkFit, OneMark
<1>6. CASE marks' = marks /\ ~(at'[l] = "ok" /\ item[l] \in Reactions)
  BY <1>1, <1>2, <1>5, <1>6 DEF MarkFit, OneMark, DeletedLeavesNoMark,
     UncertainAdd, InCall, Reactions
<1>7. CASE /\ item[l] = Add
           /\ marks' = IF (LooksUp(Add) /\ marks > 0) \/ binding # "active"
                       THEN marks ELSE marks + 1
           /\ found' = [found EXCEPT ![l] = marks' > 0]
  <2>1. st[Add] = "sending" /\ attempts[Add] > 0
    BY <1>2, <1>7 DEF Owns, MarkFit
  <2>2. attempts[Add] <= 1 => marks = 0
    BY <1>1, <1>7 DEF MarkFit
  <2>3. marks' \in Nat /\ marks' <= 1
    BY <1>5, <1>7, <2>2 DEF LooksUp
  <2>4. found'[l] <=> marks' > 0
    <3>1. (marks' > 0) \in BOOLEAN /\ found \in [Lanes -> BOOLEAN]
      BY DEF TypeOK
    <3>2. QED
      BY <1>7, <3>1, BooleanSet, Zenon
  <2>5. UncertainAdd'
    BY <1>1, <2>1 DEF UncertainAdd
  <2>6. \A m \in Lanes :
            at'[m] \notin {"claimed", "send"} \/ item'[m] # Add
    BY <1>1, <1>2, <1>4, <1>7 DEF InCall
  <2>7. \A m \in Lanes :
            at'[m] = "ok" => /\ item'[m] = Add /\ marks' > 0 => found'[m]
                             /\ item'[m] = Remove => marks' = 0
    BY <1>1, <1>2, <1>7, <2>4, RowsOfReaction DEF InCall
  <2>8. QED
    BY <1>1, <1>2, <1>3, <2>1, <2>3, <2>5, <2>6, <2>7
    DEF MarkFit, OneMark, DeletedLeavesNoMark
<1>8. CASE item[l] = Remove /\ marks' = IF marks > 0 THEN marks - 1 ELSE 0
  <2>1. marks' = 0
    BY <1>5, <1>8
  <2>2. st[Add] = "sending" => attempts[Add] > 0
    BY DEF MarkFit
  <2>3. QED
    BY <1>1, <2>1, <2>2 DEF MarkFit, OneMark, DeletedLeavesNoMark
<1>9. Effect(l, item[l]) \/ (UNCHANGED marks /\ at'[l] # "ok")
  BY <1>1 DEF Send, remote, TypeOK
<1>10. CASE Effect(l, item[l])
  <2>1. CASE item[l] \in Answers /\ Show(item[l])
    BY <1>6, <2>1, RowsOfReaction DEF Show, Reactions
  <2>2. QED
    BY <1>7, <1>8, <1>10, <2>1 DEF Effect
<1>11. QED
  BY <1>6, <1>9, <1>10

LEMMA MarkStep ==
  ASSUME TypeOK, LaneFit, MarkFit, [Next]_vars
  PROVE  MarkFit'
<1> USE RowsOfReaction DEF row, remote, lanes
<1>1. ASSUME NEW r \in Answers, PrepareAnswer(r) \/ StageAnswer(r)
      PROVE  MarkFit'
  <2>1. st'[Add] = st[Add]
    BY <1>1 DEF PrepareAnswer, StageAnswer, TypeOK
  <2>2. QED
    BY <1>1, <2>1, MarkQuiet DEF PrepareAnswer, StageAnswer
<1>2. ASSUME NEW l \in Lanes, Claim(l)
      PROVE  MarkFit'
  <2>1. PICK r \in LaneRows(l) :
            /\ st[r] = "pending"
            /\ st' = [st EXCEPT ![r] = "sending"]
            /\ attempts' = [attempts EXCEPT ![r] = @ + 1]
            /\ gen' = [gen EXCEPT ![r] = @ + 1]
            /\ since' = [since EXCEPT ![r] = "recent"]
            /\ item' = [item EXCEPT ![l] = r]
    BY <1>2 DEF Claim
  <2>2. /\ at' = [at EXCEPT ![l] = "claimed"]
        /\ UNCHANGED <<marks, reactionId, binding, lock, found>>
    BY <1>2 DEF Claim
  <2>3. attempts[Add] \in Nat /\ r \in Rows
    BY LaneRowsAreRows, <2>1 DEF TypeOK
  <2>4. IF r = Add
        THEN attempts'[Add] = attempts[Add] + 1 /\ st'[Add] = "sending"
        ELSE attempts'[Add] = attempts[Add] /\ st'[Add] = st[Add]
    BY <2>1, <2>3 DEF TypeOK
  <2>5. \A m \in Lanes :
            IF m = l THEN at'[m] = "claimed" /\ item'[m] = r
                     ELSE at'[m] = at[m] /\ item'[m] = item[m]
    BY <2>1, <2>2, <2>3 DEF TypeOK
  <2>6. marks > 0 => attempts'[Add] > 0 /\ (reactionId \/ UncertainAdd')
    BY <2>3, <2>4 DEF MarkFit, UncertainAdd
  <2>7. \A m \in Lanes :
            at'[m] \in {"claimed", "send"} /\ item'[m] = Add /\ attempts'[Add] <= 1
            => marks = 0
    BY <2>3, <2>4, <2>5 DEF MarkFit, TypeOK
  <2>8. \A m \in Lanes :
            at'[m] = "ok" => /\ item'[m] = Add /\ marks > 0 => found[m]
                             /\ item'[m] = Remove => marks = 0
    BY <2>5 DEF MarkFit
  <2>9. st'[Add] = "sending" => attempts'[Add] > 0
    BY <2>3, <2>4 DEF MarkFit
  <2>10. QED
    BY <2>2, <2>6, <2>7, <2>8, <2>9 DEF MarkFit, OneMark, DeletedLeavesNoMark
<1>3. ASSUME NEW l \in Lanes, Enter(l)
      PROVE  MarkFit'
  <2>1. UNCHANGED <<marks, attempts, binding, reactionId>> /\ at[l] = "claimed"
    BY <1>3 DEF Enter
  <2>2. \/ st'[Add] = st[Add]
        \/ st'[Add] = "failed" /\ st[Add] = "sending"
    BY <1>3 DEF Enter, Refused, End, TypeOK
  <2>3. CASE Leave(l) /\ UNCHANGED lock
    BY <2>1, <2>2, <2>3, MarkLeaves
  <2>4. CASE lock' = l /\ at' = [at EXCEPT ![l] = "send"] /\ UNCHANGED <<item, found>>
    <3>1. lock' # "delete"
      BY <2>4 DEF Lanes
    <3>2. \A m \in Lanes : at'[m] = IF m = l THEN "send" ELSE at[m]
      BY <2>4 DEF TypeOK
    <3>3. QED
      BY <2>1, <2>2, <2>4, <3>1, <3>2, MarkQuiet
  <2>5. QED
    BY <1>3, <2>3, <2>4 DEF Enter
<1>4. ASSUME NEW l \in Lanes, Delivered(l)
      PROVE  MarkFit'
  <2>1. UNCHANGED <<marks, attempts, binding>> /\ Leave(l) /\ lock' = "free"
    BY <1>4 DEF Delivered
  <2>2. reactionId' <=> NextReactionId(l)
    BY <1>4 DEF Delivered
  <2>3. at[l] = "ok" /\ item[l] \in LaneRows(l)
    BY <1>4 DEF Delivered, LaneFit, InCall
  <2>4. CASE item[l] = Add
    <3>1. marks > 0 => reactionId' /\ attempts'[Add] > 0
      BY <2>1, <2>2, <2>3, <2>4 DEF NextReactionId, MarkFit
    <3>2. st'[Add] = "sending" => attempts'[Add] > 0
      BY <1>4, <2>1 DEF Delivered, MarkFit, TypeOK
    <3>3. QED
      BY <2>1, <3>1, <3>2, LeaveFacts DEF MarkFit, OneMark, DeletedLeavesNoMark
  <2>5. CASE item[l] = Remove
    <3>1. marks' = 0
      BY <2>1, <2>3, <2>5 DEF MarkFit
    <3>2. st'[Add] = "sending" => attempts'[Add] > 0
      BY <1>4, <2>1 DEF Delivered, MarkFit, TypeOK
    <3>3. QED
      BY <2>1, <3>1, <3>2 DEF MarkFit, OneMark, DeletedLeavesNoMark
  <2>6. CASE item[l] \notin Reactions
    <3>1. st'[Add] = st[Add]
      BY <1>4, <2>6 DEF Delivered, Reactions, TypeOK
    <3>2. reactionId => reactionId'
      BY <2>2, <2>6 DEF NextReactionId, Reactions
    <3>3. QED
      BY <2>1, <3>1, <3>2, MarkLeaves
  <2>7. QED
    BY <2>4, <2>5, <2>6 DEF Reactions
<1>5. ASSUME NEW l \in Lanes, CallFailed(l)
      PROVE  MarkFit'
  <2>1. /\ UNCHANGED <<marks, attempts, binding, reactionId>>
        /\ Leave(l) /\ lock' = "free"
    BY <1>5 DEF CallFailed
  <2>2. \/ st'[Add] = st[Add]
        \/ st'[Add] \in {"pending", "failed"} /\ st[Add] = "sending"
    BY <1>5 DEF CallFailed, Owns, End, TypeOK
  <2>3. QED
    BY <2>1, <2>2, MarkLeaves
<1>6. ASSUME NEW l \in Lanes, Reset(l)
      PROVE  MarkFit'
  <2>1. UNCHANGED <<marks, attempts, binding, reactionId, lock, item, found>>
    BY <1>6 DEF Reset
  <2>2. \/ st'[Add] = st[Add]
        \/ st'[Add] = "pending" /\ st[Add] = "sending"
    BY <1>6 DEF Reset, Stuck, Reactions
  <2>3. \A m \in Lanes : at'[m] \in {at[m], "idle"}
    BY <1>6 DEF Reset, TypeOK
  <2>4. QED
    BY <2>1, <2>2, <2>3, MarkQuiet
<1>7. ASSUME NEW l \in Lanes, TransactionFails(l)
      PROVE  MarkFit'
  BY <1>7, MarkLeaves DEF TransactionFails
<1>8. CASE Toggle
  BY <1>8, MarkQuiet DEF Toggle
<1>9. CASE DeleteBegin
  <2>1. /\ UNCHANGED <<binding, st, attempts, reactionId, at, item, found>>
        /\ binding # "deleted"
    BY <1>9 DEF DeleteBegin
  <2>2. marks \in Nat /\ marks <= 1
    BY DEF TypeOK, MarkFit, OneMark
  <2>3. marks' \in {0, marks}
    BY <1>9, <2>2 DEF DeleteBegin
  <2>4. lock' = "delete" => marks' = 0
    BY <1>9, <2>2 DEF DeleteBegin, MarkFit
  <2>5. QED
    BY <2>1, <2>2, <2>3, <2>4
    DEF MarkFit, OneMark, DeletedLeavesNoMark, UncertainAdd
<1>10. CASE DeleteCommit
  <2>1. marks' = 0 /\ UNCHANGED attempts
    BY <1>10 DEF DeleteCommit, MarkFit
  <2>2. st'[Add] \in {st[Add], "failed"}
    BY <1>10 DEF DeleteCommit
  <2>3. QED
    BY <2>1, <2>2 DEF MarkFit, OneMark, DeletedLeavesNoMark
<1>11. CASE DeleteAbort
  BY <1>11, MarkQuiet DEF DeleteAbort
<1>12. CASE Crash
  <2>1. \/ st'[Add] = st[Add]
        \/ st'[Add] = "none" /\ st[Add] = "preparing"
    BY <1>12 DEF Crash
  <2>2. /\ UNCHANGED <<marks, attempts, binding, reactionId>> /\ lock' = "free"
        /\ \A m \in Lanes : at'[m] = "boot"
    BY <1>12 DEF Crash
  <2>3. QED
    BY <2>1, <2>2, MarkQuiet
<1>13. CASE Restart
  BY <1>13, MarkQuiet DEF Restart
<1>14. ASSUME NEW r \in Rows, GoStale(r) \/ GrowOld(r) \/ Forget(r)
       PROVE  MarkFit'
  BY <1>14, MarkQuiet DEF GoStale, GrowOld, Forget
<1>15. CASE UNCHANGED vars
  BY <1>15, MarkQuiet DEF vars
<1>16. ASSUME NEW l \in Lanes, Send(l)
       PROVE  MarkFit'
  BY <1>16, SendMarks
<1>17. QED
  BY <1>1, <1>2, <1>3, <1>4, <1>5, <1>6, <1>7, <1>8, <1>9, <1>10, <1>11, <1>12,
     <1>13, <1>14, <1>15, <1>16
  DEF Next, LaneStep, Deletion, Time

-----------------------------------------------------------------------------
(* Theorems.                                                               *)

LEMMA Invariance == Spec => []IInv
<1>1. Init => IInv
  BY TypeInit, AttemptsInit, LaneInit, CopyInit, MarkInit DEF IInv
<1>2. IInv /\ [Next]_vars => IInv'
  BY TypeStep, AttemptsStep, LaneFitStep, CopyStep, MarkStep DEF IInv
<1>3. QED
  BY <1>1, <1>2, PTL DEF Spec

\* Every variable of the outbox keeps its type: delivery rows, lanes, binding and
\* what the provider shows.
THEOREM TypeCorrect == Spec => []TypeOK
<1>1. IInv => TypeOK
  BY DEF IInv
<1>2. QED
  BY <1>1, Invariance, PTL

\* No answer is shown twice at the provider: the idempotency key, the 55 minute
\* check before a send and the reset that fails stuck answers suffice together.
THEOREM AtMostOnceHolds == Spec => []AtMostOnce
<1>1. IInv => AtMostOnce
  BY DEF IInv, CopyFit
<1>2. QED
  BY <1>1, Invariance, PTL

\* The message never carries two reactions of ours: a retried reaction_add looks
\* for its own before it adds one.
THEOREM OneMarkHolds == Spec => []OneMark
<1>1. IInv => OneMark
  BY DEF IInv, MarkFit
<1>2. QED
  BY <1>1, Invariance, PTL

\* A lane in a call holds the lifecycle lock and its row is still its claim, so
\* that no outcome is ever dropped by _finish_delivery_claim.
THEOREM CallerOwnsRowHolds == Spec => []CallerOwnsRow
<1>1. IInv => CallerOwnsRow
  BY DEF IInv, LaneFit, CallerOwnsRow
<1>2. QED
  BY <1>1, Invariance, PTL

\* A deleted binding leaves no reaction of ours behind: the clean-up before the
\* deletion finds every one, known or uncertain.
THEOREM DeletedLeavesNoMarkHolds == Spec => []DeletedLeavesNoMark
<1>1. IInv => DeletedLeavesNoMark
  BY DEF IInv, MarkFit
<1>2. QED
  BY <1>1, Invariance, PTL

\* The attempts of a row stay within channel_delivery_max_attempts, but for one
\* more of a reaction per crash.
THEOREM AttemptsBoundedHolds == Spec => []AttemptsBounded
<1>1. IInv => AttemptsBounded
  BY DEF IInv, AttemptsFit
<1>2. QED
  BY <1>1, Invariance, PTL

LEMMA QuietStep ==
  ASSUME IInv, [Next]_vars, binding = "deleted"
  PROVE  UNCHANGED <<marks, copies>>
<1> USE DEF row, remote, lanes
<1>1. \A l \in Lanes : ~Send(l)
  BY DEF IInv, LaneFit, Send, InCall
<1>2. ~DeleteBegin
  BY DEF DeleteBegin
<1>3. CASE \E r \in Answers : PrepareAnswer(r) \/ StageAnswer(r)
  BY <1>3 DEF PrepareAnswer, StageAnswer
<1>4. ASSUME NEW l \in Lanes, LaneStep(l) \/ TransactionFails(l)
      PROVE  UNCHANGED <<marks, copies>>
  BY <1>1, <1>4 DEF LaneStep, Claim, Enter, Delivered, CallFailed, Reset,
     TransactionFails
<1>5. CASE Toggle \/ Deletion \/ Crash \/ Restart
  BY <1>5 DEF Toggle, Deletion, DeleteCommit, DeleteAbort, Crash, Restart
<1>6. CASE Time
  BY <1>6 DEF Time, GoStale, GrowOld, Forget
<1>7. CASE UNCHANGED vars
  BY <1>7 DEF vars
<1>8. QED
  BY <1>2, <1>3, <1>4, <1>5, <1>6, <1>7 DEF Next

\* After delete_channel_binding has committed no lane calls the provider for it.
THEOREM DeletedIsQuietHolds == Spec => DeletedIsQuiet
<1>1. IInv /\ [Next]_vars
      => [binding = "deleted" => UNCHANGED <<marks, copies>>]_vars
  BY QuietStep
<1>2. QED
  BY <1>1, Invariance, PTL DEF Spec, DeletedIsQuiet

LEMMA FinalStep ==
  ASSUME TypeOK, LaneFit, [Next]_vars, NEW r \in Rows, st[r] \in Ended
  PROVE  st'[r] = st[r]
<1> USE DEF Ended, row, remote, lanes, TypeOK
<1>1. CASE \E q \in Answers : PrepareAnswer(q) \/ StageAnswer(q)
  BY <1>1 DEF PrepareAnswer, StageAnswer
<1>2. ASSUME NEW l \in Lanes, Claim(l)
      PROVE  st'[r] = st[r]
  BY <1>2 DEF Claim
<1>3. ASSUME NEW l \in Lanes, Enter(l)
      PROVE  st'[r] = st[r]
  BY <1>3 DEF Enter, Refused, End
<1>4. ASSUME NEW l \in Lanes, Delivered(l)
      PROVE  st'[r] = st[r]
  BY <1>4 DEF Delivered, Owns, StagesRemoval
<1>5. ASSUME NEW l \in Lanes, CallFailed(l)
      PROVE  st'[r] = st[r]
  BY <1>5 DEF CallFailed, Owns, End
<1>6. ASSUME NEW l \in Lanes, Reset(l)
      PROVE  st'[r] = st[r]
  BY <1>6 DEF Reset, Stuck
<1>7. ASSUME NEW l \in Lanes, Send(l) \/ TransactionFails(l)
      PROVE  st'[r] = st[r]
  BY <1>7 DEF Send, TransactionFails
<1>8. CASE Toggle \/ DeleteBegin \/ DeleteAbort \/ Restart
  BY <1>8 DEF Toggle, DeleteBegin, DeleteAbort, Restart
<1>9. CASE DeleteCommit
  BY <1>9 DEF DeleteCommit, OpenRows
<1>10. CASE Crash
  BY <1>10 DEF Crash
<1>11. CASE Time
  BY <1>11 DEF Time, GoStale, GrowOld, Forget
<1>12. CASE UNCHANGED vars
  BY <1>12 DEF vars
<1>13. QED
  BY <1>1, <1>2, <1>3, <1>4, <1>5, <1>6, <1>7, <1>8, <1>9, <1>10, <1>11, <1>12
  DEF Next, LaneStep, Deletion

\* A row that ended keeps its outcome, through resets, late outcomes and the
\* deletion of the binding.
THEOREM OutcomeIsFinalHolds == Spec => OutcomeIsFinal
<1>1. IInv /\ [Next]_vars
      => [\A r \in Rows : st[r] \in Ended => st'[r] = st[r]]_vars
  BY FinalStep DEF IInv
<1>2. QED
  BY <1>1, Invariance, PTL DEF Spec, OutcomeIsFinal

-----------------------------------------------------------------------------
(* The outbox implements DeliveryContract.                                 *)

\* A call that succeeded has shown its answer, and so has one whose key the
\* provider remembers.
ShownFit ==
    /\ \A l \in Lanes : at[l] = "ok" /\ item[l] \in Answers => copies[item[l]] = 1
    /\ \A r \in Answers : key[r] => copies[r] = 1

LEMMA ShownInit == Init => ShownFit
<1> SUFFICES ASSUME Init PROVE ShownFit
  OBVIOUS
<1>1. at = [l \in Lanes |-> "idle"] /\ key = [r \in Answers |-> FALSE]
  BY Zenon DEF Init
<1>2. QED
  BY <1>1 DEF ShownFit

\* A step that shows nothing and in which no call succeeds keeps ShownFit.
LEMMA ShownQuiet ==
  ASSUME ShownFit, UNCHANGED copies,
         \A r \in Answers : key'[r] => key[r],
         \A l \in Lanes : at'[l] = "ok" => at[l] = "ok" /\ item'[l] = item[l]
  PROVE  ShownFit'
  BY DEF ShownFit

\* A step of a call shows its answer if it was not shown before.
LEMMA SendShows ==
  ASSUME IInv, ShownFit, NEW l \in Lanes, Send(l), item[l] \in Answers,
         Show(item[l])
  PROVE  /\ \/ UNCHANGED copies
            \/ /\ copies[item[l]] = 0
               /\ copies' = [copies EXCEPT ![item[l]] = 1]
         /\ copies'[item[l]] = 1
         /\ \A r \in Answers : r # item[l] =>
               copies'[r] = copies[r] /\ (key'[r] <=> key[r])
<1>1. copies \in [Answers -> Nat] /\ key \in [Answers -> BOOLEAN]
  BY DEF IInv, TypeOK
<1>2. \A r \in Answers : r # item[l] => (key'[r] <=> key[r])
  BY <1>1, BooleanSet, Zenon DEF Show
<1>3. CASE key[item[l]]
  <2>1. copies' = copies
    BY <1>1, <1>3 DEF Show
  <2>2. QED
    BY <1>2, <1>3, <2>1 DEF ShownFit
<1>4. CASE ~key[item[l]]
  <2>1. copies[item[l]] = 0
    BY <1>4 DEF IInv, CopyFit, Send
  <2>2. copies' = [copies EXCEPT ![item[l]] = 1]
    BY <1>1, <1>4, <2>1 DEF Show
  <2>3. QED
    BY <1>1, <1>2, <2>1, <2>2
<1>5. QED
  BY <1>3, <1>4

LEMMA ShownStep ==
  ASSUME IInv, ShownFit, [Next]_vars
  PROVE  ShownFit'
<1> USE DEF IInv, TypeOK, row, remote, lanes
<1>1. CASE \E r \in Answers : PrepareAnswer(r) \/ StageAnswer(r)
  BY <1>1, ShownQuiet DEF PrepareAnswer, StageAnswer
<1>2. ASSUME NEW l \in Lanes, Claim(l) \/ Reset(l)
      PROVE  ShownFit'
  BY <1>2, ShownQuiet DEF Claim, Reset
<1>3. ASSUME NEW l \in Lanes,
             Enter(l) \/ Delivered(l) \/ CallFailed(l) \/ TransactionFails(l)
      PROVE  ShownFit'
  <2>1. /\ UNCHANGED <<copies, key>>
        /\ \/ Leave(l)
           \/ at' = [at EXCEPT ![l] = "send"] /\ UNCHANGED item
    BY <1>3 DEF Enter, Delivered, CallFailed, TransactionFails
  <2>2. \A m \in Lanes : at'[m] = "ok" => at[m] = "ok" /\ item'[m] = item[m]
    BY <2>1, LeaveFacts
  <2>3. QED
    BY <2>1, <2>2, ShownQuiet
<1>4. ASSUME NEW l \in Lanes, Send(l)
      PROVE  ShownFit'
  <2>1. /\ UNCHANGED item
        /\ \A m \in Lanes : m # l => at'[m] = at[m]
    BY <1>4 DEF Send
  <2>2. CASE UNCHANGED remote /\ at'[l] # "ok"
    BY <2>1, <2>2, ShownQuiet
  <2>3. CASE item[l] \in Answers /\ Show(item[l])
    <3>1. \A r \in Answers : copies[r] = 1 => copies'[r] = 1
      BY <1>4, <2>3, SendShows
    <3>2. \A r \in Answers : key'[r] => copies'[r] = 1
      BY <1>4, <2>3, SendShows DEF ShownFit
    <3>3. copies'[item[l]] = 1
      BY <1>4, <2>3, SendShows
    <3>4. QED
      BY <2>1, <3>1, <3>2, <3>3 DEF ShownFit
  <2>4. CASE item[l] \in Reactions /\ UNCHANGED <<copies, key>>
    BY <2>1, <2>4, OutboxAssumption DEF ShownFit
  <2>5. QED
    BY <1>4, <2>2, <2>3, <2>4 DEF Send, Effect, Reactions
<1>5. CASE Toggle \/ DeleteBegin \/ Deletion \/ Restart
  BY <1>5, ShownQuiet
  DEF Toggle, DeleteBegin, Deletion, DeleteCommit, DeleteAbort, Restart
<1>6. CASE Crash
  BY <1>6, ShownQuiet DEF Crash
<1>7. ASSUME NEW r \in Rows, GoStale(r) \/ GrowOld(r)
      PROVE  ShownFit'
  BY <1>7, ShownQuiet DEF GoStale, GrowOld
<1>8. ASSUME NEW r \in Rows, Forget(r)
      PROVE  ShownFit'
  <2>1. \A q \in Answers : key'[q] => key[q]
    BY <1>8, BooleanSet, ZenonT(30) DEF Forget
  <2>2. QED
    BY <1>8, <2>1, ShownQuiet DEF Forget
<1>9. CASE UNCHANGED vars
  BY <1>9, ShownQuiet DEF vars
<1>10. QED
  BY <1>1, <1>2, <1>3, <1>4, <1>5, <1>6, <1>7, <1>8, <1>9
  DEF Next, LaneStep, Time

\* The steps by which answers are given up, or nothing happens to them.
LEMMA GiveUpStep ==
  ASSUME UNCHANGED copies, binding = "deleted" => binding' = "deleted",
         \A r \in Answers : \/ st'[r] = st[r]
                            \/ st[r] \notin Ended /\ st'[r] \notin Ended
                            \/ st[r] \notin Ended /\ st'[r] = "failed"
  PROVE  Contract!Next
<1> DEFINE life == [r \in Answers |-> IF st[r] \in Ended THEN st[r] ELSE "open"]
           given == {r \in Answers : st[r] \notin Ended /\ st'[r] = "failed"}
<1>1. given \subseteq Contract!Open
  BY DEF Contract!Open, Ended
<1>2. \A r \in Answers :
          (IF st'[r] \in Ended THEN st'[r] ELSE "open")
          = IF r \in given THEN "failed" ELSE life[r]
  BY DEF Ended
<1>3. Contract!GiveUp(given)
  BY <1>2 DEF Contract!GiveUp
<1>4. QED
  BY <1>1, <1>3 DEF Contract!Next, Contract!GiveUp

\* Every step of the outbox is a step of the contract.
LEMMA ContractStep ==
  ASSUME IInv, ShownFit, [Next]_vars
  PROVE  [Contract!Next]_(Contract!vars)
<1> USE DEF IInv, TypeOK, row, remote, lanes
<1>1. CASE \E r \in Answers : PrepareAnswer(r) \/ StageAnswer(r)
  BY <1>1, GiveUpStep DEF PrepareAnswer, StageAnswer, Ended, Rows
<1>2. ASSUME NEW l \in Lanes, Claim(l)
      PROVE  Contract!Next
  BY <1>2, GiveUpStep DEF Claim, Ended
<1>3. ASSUME NEW l \in Lanes, Enter(l)
      PROVE  Contract!Next
  BY <1>3, GiveUpStep DEF Enter, Refused, End, Ended, Rows
<1>4. ASSUME NEW l \in Lanes, Send(l)
      PROVE  Contract!Next
  <2>1. UNCHANGED <<st, binding>> /\ binding # "deleted" /\ st[item[l]] = "sending"
    BY <1>4 DEF Send, LaneFit, InCall, Owns
  <2>2. CASE UNCHANGED copies
    BY <2>1, <2>2, GiveUpStep
  <2>3. ASSUME item[l] \in Answers, Show(item[l]), copies[item[l]] = 0,
               copies' = [copies EXCEPT ![item[l]] = 1]
        PROVE  Contract!Next
    <3>1. Contract!Show(item[l])
      BY <2>1, <2>3 DEF Contract!Show, Contract!Open, Ended
    <3>2. QED
      BY <2>3, <3>1 DEF Contract!Next
  <2>4. QED
    BY <1>4, <2>2, <2>3, SendShows DEF Send, Effect
<1>5. ASSUME NEW l \in Lanes, Delivered(l)
      PROVE  Contract!Next
  <2>1. /\ binding # "deleted" /\ UNCHANGED <<binding, copies>>
        /\ st[item[l]] = "sending"
        /\ item[l] \in Rows
    BY <1>5, LaneRowsAreRows DEF Delivered, LaneFit, InCall, Owns
  <2>2. \A r \in Answers : st'[r] = IF r = item[l] THEN "delivered" ELSE st[r]
    BY <1>5, OutboxAssumption DEF Delivered, LaneFit, InCall, Reactions, Rows
  <2>3. CASE item[l] \in Answers
    <3>1. copies[item[l]] = 1
      BY <1>5, <2>3 DEF Delivered, ShownFit
    <3>2. Contract!Deliver(item[l])
      BY <2>1, <2>2, <2>3, <3>1 DEF Contract!Deliver, Contract!Open, Ended
    <3>3. QED
      BY <2>3, <3>2 DEF Contract!Next, Contract!Deliver
  <2>4. CASE item[l] \notin Answers
    BY <2>1, <2>2, <2>4, GiveUpStep
  <2>5. QED
    BY <2>3, <2>4
<1>6. ASSUME NEW l \in Lanes, CallFailed(l)
      PROVE  Contract!Next
  BY <1>6, GiveUpStep DEF CallFailed, Owns, End, Ended, Rows
<1>7. ASSUME NEW l \in Lanes, Reset(l)
      PROVE  Contract!Next
  BY <1>7, OutboxAssumption, GiveUpStep DEF Reset, Stuck, Rows, Ended
<1>8. ASSUME NEW l \in Lanes, TransactionFails(l)
      PROVE  Contract!Next
  BY <1>8, GiveUpStep DEF TransactionFails
<1>9. CASE Toggle \/ DeleteBegin \/ DeleteAbort \/ Restart
  BY <1>9, GiveUpStep DEF Toggle, DeleteBegin, DeleteAbort, Restart
<1>10. CASE DeleteCommit
  BY <1>10, GiveUpStep DEF DeleteCommit, OpenRows, Rows, Ended
<1>11. CASE Crash
  BY <1>11, GiveUpStep DEF Crash, Rows, Ended
<1>12. CASE Time
  BY <1>12, GiveUpStep DEF Time, GoStale, GrowOld, Forget
<1>13. CASE UNCHANGED vars
  BY <1>13, GiveUpStep DEF vars
<1>14. QED
  BY <1>1, <1>2, <1>3, <1>4, <1>5, <1>6, <1>7, <1>8, <1>9, <1>10, <1>11, <1>12,
     <1>13 DEF Next, LaneStep, Deletion

LEMMA ContractInit == Init => Contract!Init
<1> SUFFICES ASSUME Init PROVE Contract!Init
  OBVIOUS
<1>1. /\ st = [r \in Rows |-> IF r = Add THEN "pending" ELSE "none"]
      /\ copies = [r \in Answers |-> 0]
      /\ binding = "active"
  BY Zenon DEF Init
<1>2. QED
  BY <1>1 DEF Contract!Init, Rows, Ended

\* The outbox implements the contract: an answer is shown only while it is open
\* and the binding exists, at most once; it is delivered only after it was shown;
\* and no outcome changes.
THEOREM ImplementsContractHolds == Spec => ImplementsContract
<1>1. Init => ShownFit
  BY ShownInit
<1>2. IInv /\ ShownFit /\ [Next]_vars => ShownFit'
  BY ShownStep
<1>3. Spec => []ShownFit
  BY <1>1, <1>2, Invariance, PTL DEF Spec
<1>4. IInv /\ ShownFit /\ [Next]_vars => [Contract!Next]_(Contract!vars)
  BY ContractStep
<1>5. Init => Contract!Init
  BY ContractInit
<1>6. QED
  BY <1>3, <1>4, <1>5, Invariance, PTL DEF Spec, ImplementsContract, Contract!Spec

-----------------------------------------------------------------------------
(* The receipt is cleared: a removal is staged once the reaction_add has   *)
(* its outcome, and from then on no call adds a reaction.                  *)

ClearFit ==
    /\ st[Remove] # "preparing"
    /\ reactionId \/ st[Remove] # "none" => st[Add] = "delivered"
    /\ st[Remove] = "delivered" => marks = 0
    /\ ReceiptCleared

\* Whichever of the reply and the reaction_add is delivered last stages the removal.
LEMMA ClearStep ==
  ASSUME IInv, ClearFit, [Next]_vars
  PROVE  ClearFit'
<1> USE OutboxAssumption DEF IInv, TypeOK, LaneFit, MarkFit, DeletedLeavesNoMark,
       ClearFit, ReceiptCleared, Rows, Answers, Reactions, row, remote, lanes
<1>1. ASSUME NEW r \in Answers, PrepareAnswer(r) PROVE ClearFit'
  BY <1>1 DEF PrepareAnswer
<1>2. ASSUME NEW r \in Answers, StageAnswer(r) PROVE ClearFit'
  BY <1>2 DEF StageAnswer
<1>3. ASSUME NEW l \in Lanes, Claim(l) PROVE ClearFit'
  BY <1>3 DEF Claim
<1>4. ASSUME NEW l \in Lanes, Enter(l) PROVE ClearFit'
  BY <1>4 DEF Enter, Refused, End, Leave
<1>5. ASSUME NEW l \in Lanes, Send(l) PROVE ClearFit'
  BY <1>5 DEF Send, Effect, Show, InCall, Owns
<1>6. ASSUME NEW l \in Lanes, Delivered(l) PROVE ClearFit'
  <2>1. /\ item[l] \in Rows /\ item[l] \in LaneRows(l) /\ Owns(l)
        /\ item[l] = Add /\ marks > 0 => found[l]
        /\ item[l] = Remove => marks = 0
    BY <1>6, LaneRowsAreRows DEF Delivered, IInv, LaneFit, MarkFit, InCall
  <2>2. \A r \in Rows : st'[r] = IF r = item[l] THEN "delivered"
                                 ELSE IF r = Remove /\ StagesRemoval(l) THEN "pending"
                                 ELSE st[r]
    BY <1>6, <2>1 DEF Delivered
  <2>3. reactionId' = NextReactionId(l) /\ UNCHANGED <<marks, binding>>
    BY <1>6 DEF Delivered, remote
  <2>4. st[item[l]] = "sending"
    BY <2>1 DEF Owns
  <2>5. marks > 0 /\ st[Add] = "delivered" => reactionId
    BY DEF IInv, MarkFit, UncertainAdd
  <2>6. CASE item[l] = Add
    BY <2>1, <2>2, <2>3, <2>4, <2>6 DEF StagesRemoval, NextReactionId,
       HasDeliveredResponse
  <2>7. CASE item[l] = Remove
    BY <2>1, <2>2, <2>3, <2>4, <2>7 DEF StagesRemoval, NextReactionId
  <2>8. CASE item[l] \in Answers
    <3>1. item[l] # Add /\ item[l] # Remove
      BY <2>8
    <3>2. /\ st'[Add] = st[Add]
          /\ st'[Remove] = IF st[Remove] = "none" /\ reactionId THEN "pending" ELSE st[Remove]
          /\ reactionId' = reactionId
      BY <2>2, <2>3, <2>8, <3>1 DEF StagesRemoval, NextReactionId
    <3>3. marks = 0 \/ marks > 0
      OBVIOUS
    <3>4. st[Remove] \in Statuses \ {"preparing"}
      OBVIOUS
    <3>5. st[Add] = "delivered" =>
              marks = 0 \/ st'[Remove] \in {"pending", "sending", "failed"}
      BY <2>5, <3>2, <3>3, <3>4 DEF Statuses
    <3>6. /\ st'[Remove] # "preparing"
          /\ reactionId' \/ st'[Remove] # "none" => st'[Add] = "delivered"
          /\ st'[Remove] = "delivered" => marks = 0
      BY <3>2
    <3>7. QED
      BY <2>3, <3>2, <3>5, <3>6
  <2>9. QED
    BY <2>1, <2>6, <2>7, <2>8 DEF Rows, Reactions
<1>7. ASSUME NEW l \in Lanes, CallFailed(l) PROVE ClearFit'
  <2>1. /\ item[l] \in Rows /\ st[item[l]] = "sending"
    BY <1>7, LaneRowsAreRows DEF CallFailed, InCall, Owns
  <2>2. \A r \in Rows : st'[r] = st[r] \/ (r = item[l] /\ st'[r] \in {"failed", "pending"})
    BY <1>7, <2>1 DEF CallFailed, End
  <2>3. UNCHANGED <<marks, reactionId>>
    BY <1>7 DEF CallFailed
  <2>4. QED
    BY <2>1, <2>2, <2>3
<1>8. ASSUME NEW l \in Lanes, Reset(l) PROVE ClearFit'
  BY <1>8 DEF Reset, Stuck, LaneRows
<1>9. ASSUME NEW l \in Lanes, TransactionFails(l) PROVE ClearFit'
  BY <1>9 DEF TransactionFails
<1>10. CASE Toggle
  BY <1>10 DEF Toggle, Request
<1>11. CASE DeleteBegin
  BY <1>11 DEF DeleteBegin, Request
<1>12. CASE DeleteCommit
  BY <1>12 DEF DeleteCommit, OpenRows
<1>13. CASE DeleteAbort
  BY <1>13 DEF DeleteAbort
<1>14. CASE Crash
  BY <1>14 DEF Crash
<1>15. CASE Restart
  BY <1>15 DEF Restart
<1>16. ASSUME NEW r \in Rows, GoStale(r) PROVE ClearFit'
  BY <1>16 DEF GoStale
<1>17. ASSUME NEW r \in Rows, GrowOld(r) PROVE ClearFit'
  BY <1>17 DEF GrowOld
<1>18. ASSUME NEW r \in Rows, Forget(r) PROVE ClearFit'
  BY <1>18 DEF Forget
<1>19. CASE UNCHANGED vars
  BY <1>19 DEF vars
<1>20. QED
  BY <1>1, <1>2, <1>3, <1>4, <1>5, <1>6, <1>7, <1>8, <1>9, <1>10, <1>11, <1>12, <1>13,
     <1>14, <1>15, <1>16, <1>17, <1>18, <1>19
  DEF Next, LaneStep, Deletion, Time

\* Once a reply and the reaction_add are delivered the reaction is gone or its removal
\* is staged, in whichever order the two lanes, a crash or the user's requests came.
THEOREM ReceiptClearedHolds == Spec => []ReceiptCleared
<1>1. Init => ClearFit
  BY OutboxAssumption DEF Init, ClearFit, ReceiptCleared, Rows, Answers, Reactions
<1>2. IInv /\ ClearFit /\ [Next]_vars => ClearFit'
  BY ClearStep
<1>3. ClearFit => ReceiptCleared
  BY DEF ClearFit
<1>4. QED
  BY Invariance, <1>1, <1>2, <1>3, PTL DEF Spec

=============================================================================
