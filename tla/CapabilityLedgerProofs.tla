----------------------- MODULE CapabilityLedgerProofs -----------------------
(***************************************************************************)
(* Theorems of CapabilityLedger, for every value of its constants, and, at *)
(* the end, of ScheduledTasks: what has an effect outside happens once.    *)
(***************************************************************************)
EXTENDS CapabilityLedger, FiniteSetTheorems, TLAPS

-----------------------------------------------------------------------------
(* The inductive invariant. *)

Fits(t) == calls[t] \in 1..MaxCalls /\ receipt[t] \notin {"absent", "ended"}

\* A turn in a call has a call, and its receipt was claimed and not ended.
CallFit == \A t \in Turns : at[t] \notin {"idle", "over"} => Fits(t)

\* The lease belongs to a running frame.
HolderFit == holder # None => frame = "running"

\* One call at most has the key.
KeyFit ==
    \A c, d \in Calls :
        record[c] \in KeyStatuses /\ record[d] \in KeyStatuses => c = d

\* From its insert to its outcome a record is started, unless a reset took it.
RecordFit ==
    \A t \in Turns :
        at[t] \in {"check", "send", "record"} => record[Call(t)] \in {"started", "deleted"}

\* A call has no effect before it is sent, and the answer agrees with the effect.
EffectFit ==
    /\ \A t \in Turns : \A n \in 1..MaxCalls : <<t, n>> \in effects => n <= calls[t]
    /\ \A t \in Turns :
          /\ at[t] \notin {"idle", "record", "over"} => Call(t) \notin effects
          /\ at[t] = "record" =>
                /\ answer[t] = "not_sent" => Call(t) \notin effects
                /\ answer[t] = "success" => Call(t) \in effects
                /\ answer[t] \in Answers

\* The calls that acted, or are past the last check.
Acting(c) == c \in effects \/ \E t \in Turns : at[t] = "send" /\ c = Call(t)

Failed == \E t \in Turns : receipt[t] = "failed"

\* A call that may have acted keeps the key, until a reset.
ActFit == \A c \in Calls : Acting(c) => record[c] \in KeyStatuses \cup {"deleted"}

\* Of two such calls a reset deleted one, and the other's turn had failed.
PairFit ==
    \A c, d \in Calls :
        Acting(c) /\ Acting(d) /\ c # d =>
            Failed /\ (record[c] = "deleted" \/ record[d] = "deleted")

\* After a reset that met a call, nothing is started again.
ResetFit ==
    (\E c \in Calls : record[c] = "deleted") =>
        frame \in {"ended", "deleted"} /\ \A t \in Turns : receipt[t] # "started"

\* Results that are given are results of an effect.
ToldFit ==
    /\ \A c \in Calls : record[c] = "completed" => c \in effects
    /\ \A t \in Turns : told[t] \in {"completed", "replayed"} => effects # {}

Safe == CallFit /\ HolderFit /\ KeyFit /\ RecordFit /\ EffectFit /\ ActFit
        /\ PairFit /\ ResetFit /\ ToldFit

IInv == TypeOK /\ Safe

-----------------------------------------------------------------------------
LEMMA TypeInit == Init => TypeOK
  BY LedgerAssumption DEF Init, TypeOK, Steps, KeyStatuses

\* A call that has begun is a call.
LEMMA CallIsCall ==
  ASSUME TypeOK, CallFit, NEW t \in Turns, at[t] \notin {"idle", "over"}
  PROVE  Call(t) \in Calls
  BY DEF CallFit, Fits, Call, Calls

LEMMA TypeStep ==
  ASSUME TypeOK, CallFit, [Next]_vars
  PROVE  TypeOK'
<1> USE LedgerAssumption DEF TypeOK, Steps, KeyStatuses, turnVars, ledgerVars, Goto, Tells
<1>1. ASSUME NEW t \in Turns, MarkRunning(t) PROVE TypeOK'
  BY <1>1 DEF MarkRunning
<1>2. ASSUME NEW t \in Turns, Leave(t) PROVE TypeOK'
  BY <1>2 DEF Leave
<1>3. ASSUME NEW t \in Turns, Cancel(t) PROVE TypeOK'
  BY <1>3 DEF Cancel
<1>4. ASSUME NEW t \in Turns, Enter(t) PROVE TypeOK'
  BY <1>4 DEF Enter
<1>5. ASSUME NEW t \in Turns, Fenced(t) PROVE TypeOK'
  BY <1>5 DEF Fenced
<1>6. ASSUME NEW t \in Turns, Refuse(t) PROVE TypeOK'
  BY <1>6 DEF Refuse
<1>7. ASSUME NEW t \in Turns, Authorize(t) PROVE TypeOK'
  BY <1>7 DEF Authorize
<1>8. ASSUME NEW t \in Turns, ReplayOrBlock(t) PROVE TypeOK'
  BY <1>8 DEF ReplayOrBlock
<1>9. ASSUME NEW t \in Turns, Insert(t) PROVE TypeOK'
  BY <1>9 DEF Insert
<1>10. ASSUME NEW t \in Turns, Check(t) PROVE TypeOK'
  BY <1>10 DEF Check, Update
<1>11. ASSUME NEW t \in Turns, Send(t) PROVE TypeOK'
  BY <1>11, CallIsCall DEF Send, Answers
<1>12. ASSUME NEW t \in Turns, Record(t) PROVE TypeOK'
  BY ZenonT(30), <1>12 DEF Record, Update, Outcome, Answers
<1>13. CASE Recover
  BY <1>13 DEF Recover
<1>14. CASE Reset
  BY <1>14 DEF Reset
<1>15. CASE Crash
  BY <1>15 DEF Crash
<1>16. CASE UNCHANGED vars
  BY <1>16 DEF vars
<1>17. ASSUME NEW t \in Turns, Mark(t) PROVE TypeOK'
  BY <1>17 DEF Mark
<1>18. QED
  BY <1>1, <1>2, <1>3, <1>4, <1>5, <1>6, <1>7, <1>8, <1>9, <1>10, <1>11,
     <1>12, <1>13, <1>14, <1>15, <1>16, <1>17 DEF Next


-----------------------------------------------------------------------------
LEMMA SafeInit == Init => Safe
  BY LedgerAssumption
  DEF Init, Safe, CallFit, HolderFit, KeyFit, RecordFit, EffectFit, ActFit, PairFit,
      ResetFit, ToldFit, Acting, KeyStatuses, Calls

\* Two turns never have the same call.
LEMMA CallsDiffer ==
  ASSUME NEW t, NEW u, Call(t) = Call(u)
  PROVE  t = u
  BY DEF Call

\* The parts that are about the ledger hold when it, and the turns in the middle
\* of a call, stay as they are; turns may leave their call.
LEMMA LedgerStays ==
  ASSUME TypeOK, Safe, TypeOK',
         UNCHANGED <<calls, ledgerVars>>,
         \A t \in Turns : at'[t] \in {at[t], "over"},
         Failed => Failed'
  PROVE  KeyFit' /\ RecordFit' /\ EffectFit' /\ ActFit' /\ PairFit' /\ ToldFit'
<1> USE DEF Safe, ledgerVars
<1>1. KeyFit' /\ ToldFit'
  BY DEF KeyFit, ToldFit
<1>2. \A t : Call(t)' = Call(t)
  BY DEF Call
<1>3. RecordFit' /\ EffectFit'
  BY <1>2 DEF RecordFit, EffectFit
<1>4. \A c \in Calls : Acting(c)' => Acting(c)
  BY <1>2 DEF Acting
<1>5. ActFit' /\ PairFit'
  BY <1>4 DEF ActFit, PairFit
<1>6. QED
  BY <1>1, <1>3, <1>5

\* MarkRunning, Leave, Recover, Cancel, Mark, Fenced and Crash.
LEMMA TurnSafe ==
  ASSUME TypeOK, Safe, TypeOK',
         \/ \E t \in Turns : \/ MarkRunning(t) \/ Leave(t) \/ Cancel(t)
                           \/ Mark(t) \/ Fenced(t)
         \/ Recover \/ Crash
  PROVE  Safe'
<1> USE LedgerAssumption DEF TypeOK, turnVars, Goto
<1>1. ASSUME NEW t \in Turns, MarkRunning(t) PROVE Safe'
  <2>1. CallFit' /\ HolderFit' /\ ResetFit'
    BY <1>1 DEF MarkRunning, Safe, CallFit, Fits, HolderFit, ResetFit, ledgerVars
  <2>2. Failed => Failed'
    BY <1>1 DEF MarkRunning, Failed
  <2>3. QED
    BY <1>1, <2>1, <2>2, LedgerStays DEF MarkRunning, Safe
<1>2. ASSUME NEW t \in Turns, Leave(t) PROVE Safe'
  <2>1. CallFit' /\ HolderFit' /\ ResetFit'
    BY <1>2 DEF Leave, Safe, CallFit, Fits, HolderFit, ResetFit, ledgerVars
  <2>2. Failed => Failed'
    BY <1>2 DEF Leave, Failed
  <2>3. QED
    BY <1>2, <2>1, <2>2, LedgerStays DEF Leave, Safe
<1>3. ASSUME NEW t \in Turns, Cancel(t) PROVE Safe'
  <2>1. CallFit' /\ HolderFit' /\ ResetFit'
    BY <1>3 DEF Cancel, Safe, CallFit, Fits, HolderFit, ResetFit, ledgerVars
  <2>2. Failed => Failed'
    BY <1>3 DEF Cancel, Failed
  <2>3. QED
    BY <1>3, <2>1, <2>2, LedgerStays DEF Cancel, Safe
<1>4. ASSUME NEW t \in Turns, Fenced(t) PROVE Safe'
  <2>1. CallFit' /\ HolderFit' /\ ResetFit'
    BY <1>4 DEF Fenced, Safe, CallFit, Fits, HolderFit, ResetFit, ledgerVars
  <2>2. Failed => Failed'
    BY <1>4 DEF Fenced, Failed
  <2>3. QED
    BY <1>4, <2>1, <2>2, LedgerStays DEF Fenced, Safe
<1>5. CASE Recover
  <2>1. CallFit' /\ HolderFit' /\ ResetFit'
    BY <1>5 DEF Recover, Safe, CallFit, Fits, HolderFit, ResetFit, ledgerVars
  <2>2. Failed => Failed'
    BY <1>5 DEF Recover, Failed
  <2>3. QED
    BY <1>5, <2>1, <2>2, LedgerStays DEF Recover, Safe
<1>6. CASE Crash
  <2>1. CallFit' /\ HolderFit' /\ ResetFit'
    BY <1>6 DEF Crash, Safe, CallFit, Fits, HolderFit, ResetFit, ledgerVars
  <2>2. Failed => Failed'
    BY <1>6 DEF Crash, Failed
  <2>3. QED
    BY <1>6, <2>1, <2>2, LedgerStays DEF Crash, Safe
<1>7. ASSUME NEW t \in Turns, Mark(t) PROVE Safe'
  <2>1. CallFit' /\ HolderFit' /\ ResetFit'
    BY <1>7 DEF Mark, Safe, CallFit, Fits, HolderFit, ResetFit, ledgerVars
  <2>2. Failed => Failed'
    BY <1>7 DEF Mark, Failed
  <2>3. QED
    BY <1>7, <2>1, <2>2, LedgerStays DEF Mark, Safe
<1>8. QED
  BY <1>1, <1>2, <1>3, <1>4, <1>5, <1>6, <1>7

\* A reset takes started records, and with them every receipt that could go on.
LEMMA ResetSafe ==
  ASSUME TypeOK, Safe, TypeOK', Reset
  PROVE  Safe'
<1> USE DEF TypeOK, Safe, Reset
<1>1. CallFit' /\ HolderFit' /\ KeyFit'
  BY DEF CallFit, Fits, HolderFit, KeyFit, KeyStatuses
<1>2. \A t : Call(t)' = Call(t)
  BY DEF Call
<1>3. RecordFit'
  BY <1>2, CallIsCall DEF RecordFit
<1>4. EffectFit'
  BY <1>2 DEF EffectFit
<1>5. \A c \in Calls : Acting(c)' => Acting(c)
  BY <1>2 DEF Acting
<1>6. ActFit'
  BY <1>5 DEF ActFit, KeyStatuses
<1>7. Failed => Failed'
  BY DEF Failed
<1>8. PairFit'
  BY <1>5, <1>7 DEF PairFit
<1>9. ResetFit'
  <2>1. \A t \in Turns : receipt'[t] # "started"
    OBVIOUS
  <2>2. frame' \in {"ended", "deleted"}
    OBVIOUS
  <2>3. QED
    BY <2>1, <2>2 DEF ResetFit
<1>10. ToldFit'
  BY DEF ToldFit
<1>11. QED
  BY <1>1, <1>3, <1>4, <1>6, <1>8, <1>9, <1>10

-----------------------------------------------------------------------------
(* The steps of a call. *)

\* Steps on which a turn only goes on, or returns to the model, before its record.
LEMMA EarlySafe ==
  ASSUME TypeOK, Safe, TypeOK', NEW t \in Turns,
         Refuse(t) \/ Authorize(t) \/ ReplayOrBlock(t)
  PROVE  Safe'
<1> USE DEF TypeOK, Safe, turnVars, ledgerVars, Goto, Tells
<1>1. /\ UNCHANGED <<turnVars, calls, record, answer, effects>>
      /\ at[t] \in {"entered", "read", "reread"}
      /\ \/ at' = [at EXCEPT ![t] = "idle"] \/ at' = [at EXCEPT ![t] = "over"]
         \/ at' = [at EXCEPT ![t] = "read"] \/ at' = [at EXCEPT ![t] = "insert"]
  BY DEF Refuse, Authorize, ReplayOrBlock
<1>2. CallFit' /\ HolderFit' /\ KeyFit' /\ ResetFit'
  BY <1>1 DEF CallFit, Fits, HolderFit, KeyFit, ResetFit
<1>3. \A u : Call(u)' = Call(u)
  BY <1>1 DEF Call
<1>4. RecordFit' /\ EffectFit'
  BY <1>1, <1>3 DEF RecordFit, EffectFit
<1>5. \A c \in Calls : Acting(c)' => Acting(c)
  BY <1>1, <1>3 DEF Acting
<1>6. ActFit' /\ PairFit'
  BY <1>1, <1>5 DEF ActFit, PairFit, Failed
<1>7. ToldFit'
  <2>1. CASE Refuse(t) \/ Authorize(t)
    BY <2>1 DEF Refuse, Authorize, ToldFit
  <2>2. CASE ReplayOrBlock(t)
    <3>1. CASE KeyHolders = {}
      BY <1>1, <2>2, <3>1 DEF ReplayOrBlock, ToldFit
    <3>2. CASE KeyHolders # {}
      <4>1. PICK prior \in KeyHolders :
               told' = [told EXCEPT ![t] =
                          IF Replayable(prior) THEN "replayed" ELSE "blocked"]
        BY <2>2, <3>2 DEF ReplayOrBlock
      <4>2. prior \in Calls
        BY DEF KeyHolders
      <4>3. Replayable(prior) => effects # {}
        BY <4>2 DEF Replayable, ToldFit
      <4>4. QED
        BY <1>1, <4>1, <4>3 DEF ToldFit
    <3>3. QED
      BY <3>1, <3>2
  <2>3. QED
    BY <2>1, <2>2
<1>8. QED
  BY <1>2, <1>4, <1>6, <1>7

\* A new call has had no effect.
LEMMA EnterSafe ==
  ASSUME TypeOK, Safe, TypeOK', NEW t \in Turns, Enter(t)
  PROVE  Safe'
<1> USE LedgerAssumption DEF TypeOK, Safe, turnVars, ledgerVars, Goto, Enter
<1>1. CallFit' /\ HolderFit' /\ KeyFit' /\ ResetFit' /\ ToldFit'
  BY DEF CallFit, Fits, HolderFit, KeyFit, ResetFit, ToldFit, Leased
<1>2. \A u \in Turns : u # t => Call(u)' = Call(u) /\ at'[u] = at[u]
  BY DEF Call
<1>3. at'[t] = "entered" /\ Call(t)' = <<t, calls[t] + 1>>
  BY DEF Call
<1>4. RecordFit'
  BY <1>2, <1>3 DEF RecordFit
<1>5. EffectFit'
  <2>1. \A u \in Turns : \A n \in 1..MaxCalls : <<u, n>> \in effects' => n <= calls'[u]
    BY DEF EffectFit
  <2>2. Call(t)' \notin effects'
    <3>1. calls[t] + 1 \in 1..MaxCalls
      OBVIOUS
    <3>2. calls[t] \in Nat
      OBVIOUS
    <3>3. <<t, calls[t] + 1>> \notin effects
      BY <3>1, <3>2 DEF EffectFit
    <3>4. QED
      BY <1>3, <3>3
  <2>3. QED
    BY <1>2, <1>3, <2>1, <2>2 DEF EffectFit
<1>6. \A c \in Calls : Acting(c)' => Acting(c)
  BY <1>2, <1>3 DEF Acting
<1>7. ActFit' /\ PairFit'
  BY <1>6 DEF ActFit, PairFit, Failed
<1>8. QED
  BY <1>1, <1>4, <1>5, <1>7

\* A record is started only when no other has the key.
LEMMA InsertSafe ==
  ASSUME TypeOK, Safe, TypeOK', NEW t \in Turns, Insert(t)
  PROVE  Safe'
<1> USE DEF TypeOK, Safe, turnVars, ledgerVars, Goto, Insert
<1>1. CallFit' /\ HolderFit'
  BY DEF CallFit, Fits, HolderFit
<1>2. Call(t) \in Calls /\ \A u : Call(u)' = Call(u)
  BY CallIsCall DEF Call
<1>3. Call(t) \notin effects /\ ~Acting(Call(t))
  BY CallsDiffer DEF EffectFit, Acting
<1>4. \A c \in Calls : c # Call(t) => record'[c] = record[c]
  OBVIOUS
<1>5. \A c \in Calls : Acting(c)' => Acting(c)
  BY <1>2 DEF Acting
<1>6. ActFit' /\ PairFit'
  BY <1>3, <1>4, <1>5 DEF ActFit, PairFit, Failed
<1>7. KeyFit'
  BY <1>2, <1>4 DEF KeyFit, KeyHolders, KeyStatuses
<1>8. RecordFit'
  <2>1. \A u \in Turns : u # t => Call(u) # Call(t) /\ at'[u] = at[u]
    BY CallsDiffer
  <2>2. at'[t] = "reread" \/ record'[Call(t)] = "started"
    BY <1>2
  <2>3. \A u \in Turns : at[u] \in {"check", "send", "record"} => Call(u) \in Calls
    BY CallIsCall
  <2>4. QED
    BY <1>2, <1>4, <2>1, <2>2, <2>3 DEF RecordFit
<1>9. EffectFit'
  BY <1>2, <1>3 DEF EffectFit
<1>10. ResetFit'
  BY <1>2, <1>4 DEF ResetFit
<1>11. ToldFit'
  BY <1>2, <1>4 DEF ToldFit
<1>12. QED
  BY <1>1, <1>6, <1>7, <1>8, <1>9, <1>10, <1>11

\* A cancelled call lets its key go, without an effect.
LEMMA CancelledSafe ==
  ASSUME TypeOK, Safe, TypeOK', NEW t \in Turns, Check(t), Cancelled(t)
  PROVE  Safe'
<1> USE DEF TypeOK, Safe, turnVars, Goto, Check, Update
<1>1. CallFit' /\ HolderFit'
  BY DEF CallFit, Fits, HolderFit
<1>2. Call(t) \in Calls /\ \A u : Call(u)' = Call(u)
  BY CallIsCall DEF Call
<1>3. ~Acting(Call(t))
  BY CallsDiffer DEF EffectFit, Acting
<1>4. \A c \in Calls : \/ record'[c] = record[c]
                       \/ c = Call(t) /\ record'[c] = "cancelled"
  OBVIOUS
<1>5. \A c \in Calls : Acting(c)' => Acting(c)
  BY <1>2 DEF Acting
<1>6. ActFit' /\ PairFit'
  BY <1>3, <1>4, <1>5 DEF ActFit, PairFit, Failed
<1>7. KeyFit' /\ ResetFit' /\ ToldFit'
  BY <1>4 DEF KeyFit, KeyStatuses, ResetFit, ToldFit
<1>8. RecordFit'
  <2>1. \A u \in Turns : u # t => Call(u) # Call(t) /\ at'[u] = at[u]
    BY CallsDiffer
  <2>2. \A u \in Turns : at[u] \in {"check", "send", "record"} => Call(u) \in Calls
    BY CallIsCall
  <2>3. at'[t] = "over"
    OBVIOUS
  <2>4. QED
    BY <1>2, <1>4, <2>1, <2>2, <2>3 DEF RecordFit
<1>9. EffectFit'
  BY <1>2 DEF EffectFit
<1>10. QED
  BY <1>1, <1>6, <1>7, <1>8, <1>9

\* Past the last check a call may act.  If another may have acted, a reset has
\* deleted one of their records; since then no receipt is started, so that the
\* turn at the check has failed.
LEMMA CheckedSafe ==
  ASSUME TypeOK, Safe, TypeOK', NEW t \in Turns, Check(t), ~Cancelled(t)
  PROVE  Safe'
<1> USE DEF TypeOK, Safe, turnVars, Goto, Check
<1>1. CallFit' /\ HolderFit' /\ KeyFit' /\ ResetFit' /\ ToldFit'
  BY DEF CallFit, Fits, HolderFit, KeyFit, ResetFit, ToldFit
<1>2. Call(t) \in Calls /\ \A u : Call(u)' = Call(u)
  BY CallIsCall DEF Call
<1>3. RecordFit' /\ EffectFit'
  BY <1>2 DEF RecordFit, EffectFit
<1>4. \A c \in Calls : Acting(c)' => Acting(c) \/ c = Call(t)
  BY <1>2 DEF Acting
<1>5. record[Call(t)] \in {"started", "deleted"}
  BY DEF RecordFit
<1>6. ActFit'
  BY <1>4, <1>5 DEF ActFit, KeyStatuses
<1>7. (\E c \in Calls : record[c] = "deleted") => Failed
  <2>1. receipt[t] \in {"started", "failed"}
    BY DEF Cancelled, CallFit, Fits
  <2>2. QED
    BY <2>1 DEF ResetFit, Failed
<1>8. ASSUME NEW c \in Calls, Acting(c), c # Call(t)
      PROVE  record[c] = "deleted" \/ record[Call(t)] = "deleted"
  <2>1. record[c] \in KeyStatuses \cup {"deleted"}
    BY <1>8 DEF ActFit
  <2>2. QED
    BY <1>2, <1>5, <1>8, <2>1 DEF KeyFit, KeyStatuses
<1>9. PairFit'
  <2> SUFFICES ASSUME NEW c \in Calls, NEW d \in Calls, Acting(c)', Acting(d)', c # d
               PROVE  Failed /\ (record[c] = "deleted" \/ record[d] = "deleted")
    BY DEF PairFit, Failed
  <2>1. CASE Acting(c) /\ Acting(d)
    BY <2>1 DEF PairFit
  <2>2. CASE ~(Acting(c) /\ Acting(d))
    <3>1. record[c] = "deleted" \/ record[d] = "deleted"
      BY <1>4, <1>8, <2>2
    <3>2. QED
      BY <1>7, <3>1
  <2>3. QED
    BY <2>1, <2>2
<1>10. QED
  BY <1>1, <1>3, <1>6, <1>9

\* Sending turns what may act into what may have acted.
LEMMA SendSafe ==
  ASSUME TypeOK, Safe, TypeOK', NEW t \in Turns, Send(t)
  PROVE  Safe'
<1> USE DEF TypeOK, Safe, turnVars, Goto, Send
<1>1. CallFit' /\ HolderFit' /\ KeyFit' /\ ResetFit'
  BY DEF CallFit, Fits, HolderFit, KeyFit, ResetFit
<1>2. Call(t) \in Calls /\ \A u : Call(u)' = Call(u)
  BY CallIsCall DEF Call
<1>3. RecordFit'
  BY <1>2 DEF RecordFit
<1>4. effects \subseteq effects' /\ effects' \subseteq effects \cup {Call(t)}
  OBVIOUS
<1>5. EffectFit'
  <2>1. \A u \in Turns : \A n \in 1..MaxCalls : <<u, n>> \in effects' => n <= calls'[u]
    BY <1>4 DEF EffectFit, Call
  <2>2. \A u \in Turns : u # t => Call(u) # Call(t) /\ at'[u] = at[u] /\ answer'[u] = answer[u]
    BY CallsDiffer
  <2>3. at'[t] = "record" /\ Call(t) \notin effects
    BY DEF EffectFit
  <2>4. /\ answer'[t] = "not_sent" => Call(t) \notin effects'
        /\ answer'[t] = "success" => Call(t) \in effects'
        /\ answer'[t] \in Answers
    BY <2>3
  <2>5. QED
    BY <1>2, <1>4, <2>1, <2>2, <2>3, <2>4 DEF EffectFit
<1>6. \A c \in Calls : Acting(c)' => Acting(c)
  BY <1>2, <1>4 DEF Acting
<1>7. ActFit' /\ PairFit'
  BY <1>6 DEF ActFit, PairFit, Failed
<1>8. ToldFit'
  BY <1>4 DEF ToldFit
<1>9. QED
  BY <1>1, <1>3, <1>5, <1>7, <1>8

\* The key is let go only by a call that was not sent.
LEMMA RecordSafe ==
  ASSUME TypeOK, Safe, TypeOK', NEW t \in Turns, Record(t)
  PROVE  Safe'
<1> USE DEF TypeOK, Safe, turnVars, Goto, Record, Update, Tells
<1>1. CallFit' /\ HolderFit'
  BY DEF CallFit, Fits, HolderFit
<1>2. Call(t) \in Calls /\ \A u : Call(u)' = Call(u)
  BY CallIsCall DEF Call
<1>3. /\ record[Call(t)] \in {"started", "deleted"}
      /\ answer[t] = "not_sent" => Call(t) \notin effects
      /\ answer[t] = "success" => Call(t) \in effects
  BY DEF RecordFit, EffectFit
<1>4. \A c \in Calls : \/ record'[c] = record[c]
                       \/ /\ c = Call(t) /\ record[c] = "started"
                          /\ record'[c] = Outcome(answer[t])
  BY <1>3
<1>5. \A c \in Calls : Acting(c)' => Acting(c)
  BY <1>2 DEF Acting
<1>6. \A c \in Calls : Acting(c)' /\ c = Call(t) => c \in effects
  BY <1>2, CallsDiffer DEF Acting
<1>7. ActFit' /\ PairFit'
  <2>1. \A c \in Calls : record[c] = "deleted" => record'[c] = "deleted"
    BY <1>4
  <2>2. \A c \in Calls :
           Acting(c)' /\ record[c] \in KeyStatuses => record'[c] \in KeyStatuses
    <3>1. Call(t) \in effects => Outcome(answer[t]) \in KeyStatuses
      BY <1>3 DEF Outcome, KeyStatuses
    <3>2. QED
      BY <1>4, <1>6, <3>1
  <2>3. QED
    BY <1>5, <2>1, <2>2 DEF ActFit, PairFit, Failed
<1>8. KeyFit'
  <2>1. \A c \in Calls : record'[c] \in KeyStatuses => record[c] \in KeyStatuses
    BY <1>4 DEF KeyStatuses
  <2>2. QED
    BY <2>1 DEF KeyFit
<1>9. ResetFit'
  BY <1>4 DEF ResetFit, Outcome
<1>10. RecordFit'
  <2>1. \A u \in Turns : u # t => Call(u) # Call(t) /\ at'[u] = at[u]
    BY CallsDiffer
  <2>2. \A u \in Turns : at[u] \in {"check", "send", "record"} => Call(u) \in Calls
    BY CallIsCall
  <2>3. at'[t] \in {"idle", "over"}
    OBVIOUS
  <2>4. QED
    BY <1>2, <1>4, <2>1, <2>2, <2>3 DEF RecordFit
<1>11. EffectFit'
  BY <1>2 DEF EffectFit
<1>12. ToldFit'
  <2>1. \A c \in Calls : record'[c] = "completed" => c \in effects
    BY <1>3, <1>4 DEF ToldFit, Outcome
  <2>2. Outcome(answer[t]) \in {"completed", "replayed"} => effects # {}
    BY <1>3 DEF Outcome
  <2>3. QED
    BY <2>1, <2>2 DEF ToldFit
<1>13. QED
  BY <1>1, <1>7, <1>8, <1>9, <1>10, <1>11, <1>12

-----------------------------------------------------------------------------
(* The theorems. *)

LEMMA InvHolds == Spec => []IInv
<1>1. Init => IInv
  BY TypeInit, SafeInit DEF IInv
<1>2. IInv /\ [Next]_vars => IInv'
  <2> SUFFICES ASSUME IInv, [Next]_vars PROVE IInv'
    OBVIOUS
  <2>1. TypeOK'
    BY TypeStep DEF IInv, Safe
  <2>2. CASE Next
    BY <2>1, <2>2, TurnSafe, ResetSafe, EarlySafe, EnterSafe, InsertSafe, CancelledSafe,
       CheckedSafe, SendSafe, RecordSafe
    DEF Next, IInv
  <2>3. CASE UNCHANGED vars
    <3>1. Failed => Failed'
      BY <2>3 DEF vars, Failed
    <3>2. UNCHANGED <<calls, ledgerVars>> /\ \A t \in Turns : at'[t] \in {at[t], "over"}
      BY <2>3 DEF vars, ledgerVars
    <3>3. CallFit' /\ HolderFit' /\ ResetFit'
      BY <2>3 DEF vars, IInv, Safe, CallFit, Fits, HolderFit, ResetFit
    <3>4. QED
      BY <2>1, <3>1, <3>2, <3>3, LedgerStays DEF IInv, Safe
  <2>4. QED
    BY <2>1, <2>2, <2>3
<1>3. QED
  BY <1>1, <1>2, PTL DEF Spec

\* Every variable of the ledger keeps its type.
THEOREM TypeCorrect == Spec => []TypeOK
  BY InvHolds, PTL DEF IInv

\* An action with a side effect acts once, for any number of turns and calls,
\* through stalls, sweeps, cancellations and restarts; the one exception is the
\* reset of a session beside a turn that a sweep has failed.
THEOREM ActsOnceHolds == Spec => []ActsOnce
<1>1. IInv => ActsOnce
  <2> SUFFICES ASSUME IInv, ~SweptBesideReset PROVE Cardinality(effects) <= 1
    BY DEF ActsOnce
  <2>1. \A c, d \in effects : c = d
    BY DEF IInv, Safe, TypeOK, PairFit, Acting, Failed, SweptBesideReset
  <2>2. CASE effects = {}
    BY <2>2, FS_EmptySet
  <2>3. CASE effects # {}
    <3>1. PICK c : effects = {c}
      BY <2>1, <2>3
    <3>2. Cardinality({c}) = 1
      BY FS_Singleton
    <3>3. QED
      BY <3>1, <3>2
  <2>4. QED
    BY <2>2, <2>3
<1>2. QED
  BY InvHolds, <1>1, PTL

\* A result that is given for the action, now or as a replay, is the result of
\* an effect.
THEOREM ToldIsDoneHolds == Spec => []ToldIsDone
<1>1. IInv => ToldIsDone
  BY DEF IInv, Safe, ToldFit, ToldIsDone
<1>2. QED
  BY InvHolds, <1>1, PTL

-----------------------------------------------------------------------------
(* ScheduledTasks: like an action of the ledger, the turn of a scheduled   *)
(* run happens once, though runs are taken up again.  Here place stands    *)
(* for its variable at, executions for effects.                            *)

CONSTANTS Manuals, Unplanned, Worker, NoRun, Setups, MaxTime, MaxEdits, MaxCrashes

VARIABLES now, edits, crashes, up, setup, onceAt, status, next, count, lease, st,
          session, turn, executions, place, key, outcome, view

S == INSTANCE ScheduledTasks WITH at <- place, effects <- executions

\* A schedule is never more than two periods ahead.
TimeFit ==
    /\ onceAt <= now + 1 /\ next <= now + 2
    /\ place[Worker] = "claimed" => next <= now + 1
    /\ key[Worker] \in S!Slots => key[Worker] <= now + 1

\* Who begins a run has found none; who goes on with one has it running.
RunFit ==
    /\ \A e \in S!Executors :
        /\ place[e] \in {"misfire", "skip", "create"}
              => key[e] \in S!Runs /\ st[key[e]] = "none"
        /\ place[e] \in {"session", "turn", "inturn", "finish"}
              => key[e] \in S!Runs /\ st[key[e]] = "running"
        /\ place[e] = "finish" => outcome[e] # "none"
    /\ \A m \in Manuals : key[m] \in {m, NoRun}
    /\ key[Worker] \notin Manuals

\* A turn that was executed has its receipt.
ReceiptFit ==
    \A r \in S!Runs : executions[r] <= 1 /\ (executions[r] = 1 => turn[r] # "none")

ScheduleInv == S!TypeOK /\ TimeFit /\ RunFit /\ ReceiptFit

\* Two executors are never in one run: requests by hand run their own, the worker is
\* one thread.
LEMMA OwnRun ==
  ASSUME S!ScheduleAssumption, S!TypeOK, RunFit, NEW d \in S!Executors,
         NEW e \in S!Executors,
         key[d] = key[e], key[e] # NoRun
  PROVE  d = e
  BY DEF RunFit, S!Executors, S!TypeOK

\* Who is past the plan has a run, the worker none of a request by hand.
LEMMA InRun ==
  ASSUME S!ScheduleAssumption, S!TypeOK, RunFit, NEW e \in S!Executors,
         place[e] \notin {"idle", "claimed"}
  PROVE  /\ key[e] \in S!Runs /\ key[e] # NoRun
         /\ e = Worker <=> key[e] \notin Manuals
<1>1. key[e] \in S!Runs
  BY DEF RunFit, S!TypeOK
<1>2. key[e] # NoRun
  BY <1>1 DEF S!ScheduleAssumption, S!Runs, S!Slots
<1>3. QED
  BY <1>1, <1>2 DEF S!ScheduleAssumption, RunFit, S!Executors

\* The run an executor begins: a new one, unless it is running in its session.
LEMMA Planned ==
  ASSUME S!ScheduleAssumption, S!TypeOK, TimeFit, NEW e \in S!Executors,
         NEW r \in S!Chosen(e), S!Begin(e)
  PROVE  /\ r \in S!Runs /\ r # NoRun
         /\ S!Plan(e, r) \in {"idle", "misfire", "skip", "create", "turn"}
         /\ S!Plan(e, r) \in {"misfire", "skip", "create"} => st[r] = "none"
         /\ S!Plan(e, r) = "turn" => st[r] = "running"
         /\ r \in Manuals <=> e # Worker
         /\ r \in Manuals => r = e
         /\ e = Worker /\ r \in S!Slots => r <= now + 1
<1>1. /\ r \in S!Runs
      /\ r \in Manuals <=> e # Worker
      /\ r \in Manuals => r = e
      /\ e = Worker /\ r \in S!Slots => r <= now + 1
  <2>1. CASE e # Worker
    BY <2>1 DEF S!ScheduleAssumption, S!Chosen, S!Manual, S!Runs, S!Executors
  <2>2. CASE e = Worker /\ next # 0
    <3>1. r = next /\ r \in S!Slots /\ r <= now + 1
      BY <2>2 DEF S!ScheduleAssumption, S!Chosen, S!Manual, S!TypeOK, TimeFit, S!Begin
    <3>2. r \notin Manuals
      BY <3>1 DEF S!ScheduleAssumption, S!Slots
    <3>3. QED
      BY <2>2, <3>1, <3>2 DEF S!Runs
  <2>3. CASE e = Worker /\ next = 0
    <3>1. r \in Unplanned /\ r \notin Manuals /\ r \notin S!Slots
      BY <2>3 DEF S!ScheduleAssumption, S!Chosen, S!Manual, S!Slots
    <3>2. QED
      BY <2>3, <3>1 DEF S!Runs
  <2>4. QED
    BY <2>1, <2>2, <2>3
<1>2. r # NoRun
  BY <1>1 DEF S!ScheduleAssumption, S!Runs, S!Slots
<1>3. /\ S!Plan(e, r) \in {"idle", "misfire", "skip", "create", "turn"}
      /\ S!Plan(e, r) \in {"misfire", "skip", "create"} => st[r] = "none"
      /\ S!Plan(e, r) = "turn" => st[r] = "running"
  BY <1>1 DEF S!Plan
<1>4. QED
  BY <1>1, <1>2, <1>3

\* _finish_task_schedule: the schedule goes on from the run or from now, by one period.
LEMMA ScheduleGoes ==
  ASSUME S!ScheduleAssumption, S!TypeOK, TimeFit, NEW e \in S!Executors, NEW result,
         NEW seen \in Nat,
         key[e] \in S!Runs, e = Worker <=> key[e] \notin Manuals,
         S!FinishSchedule(e, result, seen), UNCHANGED now
  PROVE  /\ status' \in S!Statuses /\ next' \in S!Slots \cup {0}
         /\ next' <= now + 2 /\ count' \in Nat
         /\ e # Worker => next' \in {next, 0}
<1> DEFINE n == S!Resumed(key[e])
<1>1. e = Worker => n \in S!Slots \cup {0} /\ n <= now + 2
  <2> SUFFICES ASSUME e = Worker PROVE n \in S!Slots \cup {0} /\ n <= now + 2
    OBVIOUS
  <2>1. S!NextRun(now) \in S!Slots \cup {0} /\ S!NextRun(now) <= now + 2
    BY DEF S!ScheduleAssumption, S!NextRun, S!TypeOK, S!Slots, TimeFit
  <2>2. ASSUME key[e] \in S!Slots, key[e] > now
        PROVE  S!NextRun(key[e]) \in S!Slots \cup {0} /\ S!NextRun(key[e]) <= now + 2
    BY <2>2 DEF S!ScheduleAssumption, S!NextRun, S!TypeOK, S!Slots, TimeFit
  <2>3. QED
    BY <2>1, <2>2 DEF S!Resumed
<1>2. QED
  BY <1>1 DEF S!ScheduleAssumption, S!FinishSchedule, S!TypeOK, S!SetupType, S!Statuses,
       S!Manual, TimeFit

\* Every step keeps the types.
LEMMA ScheduleTypes ==
  ASSUME S!ScheduleAssumption, S!TypeOK, TimeFit, RunFit, [S!Next]_(S!vars)
  PROVE  S!TypeOK'
<1> USE DEF S!TypeOK, S!task, S!runs, S!exec, S!Concludes, S!Leave
<1>1. CASE S!CloseOver
  BY <1>1 DEF S!CloseOver, S!Statuses
<1>2. CASE S!Claim
  BY <1>2 DEF S!Claim, S!Over
<1>3. ASSUME NEW e \in S!Executors, S!Begin(e) PROVE S!TypeOK'
  <2>1. PICK r \in S!Chosen(e) :
           /\ place' = [place EXCEPT ![e] = S!Plan(e, r)]
           /\ key' = [key EXCEPT ![e] = IF S!Plan(e, r) = "idle" THEN NoRun ELSE r]
    BY <1>3 DEF S!Begin
  <2>2. QED
    BY <1>3, <2>1, Planned DEF S!Begin
<1>4. ASSUME NEW e \in S!Executors, S!Skip(e) PROVE S!TypeOK'
  <2>1. key[e] \in S!Runs /\ (e = Worker <=> key[e] \notin Manuals)
    BY <1>4, InRun DEF S!Skip
  <2>2. status' \in S!Statuses /\ next' \in S!Slots \cup {0} /\ count' \in Nat
    BY <1>4, <2>1, ScheduleGoes DEF S!Skip
  <2>3. st' \in [S!Runs -> S!Ended \cup {"none", "running"}]
    BY <1>4 DEF S!Ended, RunFit, S!Skip
  <2>4. QED
    BY <1>4, <2>2, <2>3 DEF S!Skip
<1>5. ASSUME NEW e \in S!Executors, S!Create(e) PROVE S!TypeOK'
  BY <1>5 DEF S!Create
<1>6. ASSUME NEW e \in S!Executors, S!GiveSession(e) PROVE S!TypeOK'
  BY <1>6 DEF S!GiveSession
<1>7. ASSUME NEW e \in S!Executors, S!StartTurn(e) PROVE S!TypeOK'
  BY <1>7 DEF S!StartTurn, S!Admits, S!Results, RunFit
<1>8. ASSUME NEW e \in S!Executors, S!EndTurn(e) PROVE S!TypeOK'
  BY <1>8 DEF S!EndTurn, S!Results, RunFit
<1>9. ASSUME NEW e \in S!Executors, S!Finish(e) PROVE S!TypeOK'
  <2>1. key[e] \in S!Runs /\ (e = Worker <=> key[e] \notin Manuals)
    BY <1>9, InRun DEF S!Finish
  <2>2. status' \in S!Statuses /\ next' \in S!Slots \cup {0} /\ count' \in Nat
    BY <1>9, <2>1, ScheduleGoes DEF S!Finish
  <2>3. st' \in [S!Runs -> S!Ended \cup {"none", "running"}]
    BY <1>9 DEF S!Ended, S!Results, S!RunStatus, RunFit, S!Finish
  <2>4. QED
    BY <1>9, <2>2, <2>3 DEF S!Finish
<1>10. CASE S!Edit
  BY <1>10 DEF S!ScheduleAssumption, S!Edit, S!Statuses, S!Slots
<1>11. CASE S!Tick
  BY <1>11 DEF S!ScheduleAssumption, S!Tick
<1>12. CASE S!ExpireLease
  BY <1>12 DEF S!ExpireLease
<1>13. CASE S!Crash
  <2>1. crashes < MaxCrashes /\ crashes' = crashes + 1 /\ up' = FALSE
    BY <1>13 DEF S!Crash
  <2>2. crashes' \in 0 .. MaxCrashes
    BY <2>1 DEF S!ScheduleAssumption
  <2>3. turn' \in [S!Runs -> {"none", "active", "completed", "failed"}]
    BY <1>13 DEF S!Crash
  <2>4. QED
    BY <1>13, <2>1, <2>2, <2>3 DEF S!Crash
<1>14. CASE S!Restart
  BY <1>14 DEF S!Restart
<1>15. CASE UNCHANGED S!vars
  BY <1>15 DEF S!vars
<1>16. QED
  BY <1>1, <1>2, <1>3, <1>4, <1>5, <1>6, <1>7, <1>8, <1>9, <1>10, <1>11, <1>12, <1>13, <1>14,
       <1>15
  DEF S!Next, S!WorkerStep, S!Goes, S!Executors

\* Every step keeps the schedule near the present.
LEMMA TimeStep ==
  ASSUME S!ScheduleAssumption, S!TypeOK, TimeFit, RunFit, S!TypeOK', [S!Next]_(S!vars)
  PROVE  TimeFit'
<1> USE DEF S!TypeOK, TimeFit, S!task, S!runs, S!exec, S!Concludes, S!Leave
<1>1. CASE S!CloseOver
  BY <1>1 DEF S!CloseOver, S!Over
<1>2. CASE S!Claim
  BY <1>2 DEF S!ScheduleAssumption, S!Claim, S!Slots
<1>3. ASSUME NEW e \in S!Executors, S!Begin(e) PROVE TimeFit'
  <2>1. PICK r \in S!Chosen(e) :
           /\ place' = [place EXCEPT ![e] = S!Plan(e, r)]
           /\ key' = [key EXCEPT ![e] = IF S!Plan(e, r) = "idle" THEN NoRun ELSE r]
    BY <1>3 DEF S!Begin
  <2>2. /\ e # Worker => r \notin S!Slots
        /\ S!Plan(e, r) # "claimed"
        /\ e = Worker /\ r \in S!Slots => r <= now + 1
    BY <1>3, Planned DEF S!ScheduleAssumption, S!Slots
  <2>3. NoRun \notin S!Slots
    BY DEF S!ScheduleAssumption, S!Slots
  <2>4. QED
    BY <1>3, <2>1, <2>2, <2>3 DEF S!Begin, S!Executors
<1>4. ASSUME NEW e \in S!Executors, S!Skip(e) PROVE TimeFit'
  <2>1. key[e] \in S!Runs /\ (e = Worker <=> key[e] \notin Manuals)
    BY <1>4, InRun DEF S!Skip
  <2>2. next' <= now + 2 /\ (e # Worker => next' \in {next, 0})
    BY <1>4, <2>1, ScheduleGoes DEF S!Skip
  <2>3. QED
    BY <1>4, <2>2 DEF S!ScheduleAssumption, S!Skip, S!Executors, S!Slots
<1>5. ASSUME NEW e \in S!Executors, S!Create(e) PROVE TimeFit'
  BY <1>5 DEF S!Create
<1>6. ASSUME NEW e \in S!Executors, S!GiveSession(e) PROVE TimeFit'
  BY <1>6 DEF S!GiveSession
<1>7. ASSUME NEW e \in S!Executors, S!StartTurn(e) PROVE TimeFit'
  <2>1. place'[Worker] = "claimed" => place[Worker] = "claimed"
    BY <1>7 DEF S!StartTurn, S!Executors
  <2>2. QED
    BY <1>7, <2>1 DEF S!StartTurn
<1>8. ASSUME NEW e \in S!Executors, S!EndTurn(e) PROVE TimeFit'
  BY <1>8 DEF S!EndTurn
<1>9. ASSUME NEW e \in S!Executors, S!Finish(e) PROVE TimeFit'
  <2>1. key[e] \in S!Runs /\ (e = Worker <=> key[e] \notin Manuals)
    BY <1>9, InRun DEF S!Finish
  <2>2. next' <= now + 2 /\ (e # Worker => next' \in {next, 0})
    BY <1>9, <2>1, ScheduleGoes DEF S!Finish
  <2>3. QED
    BY <1>9, <2>2 DEF S!ScheduleAssumption, S!Finish, S!Executors, S!Slots
<1>10. CASE S!Edit
  BY <1>10 DEF S!Edit
<1>11. CASE S!Tick
  BY <1>11 DEF S!ScheduleAssumption, S!Tick, S!Slots
<1>12. CASE S!ExpireLease
  BY <1>12 DEF S!ExpireLease
<1>13. CASE S!Crash
  BY <1>13 DEF S!ScheduleAssumption, S!Crash, S!Slots, S!Executors
<1>14. CASE S!Restart
  BY <1>14 DEF S!Restart
<1>15. CASE UNCHANGED S!vars
  BY <1>15 DEF S!vars
<1>16. QED
  BY <1>1, <1>2, <1>3, <1>4, <1>5, <1>6, <1>7, <1>8, <1>9, <1>10, <1>11, <1>12, <1>13, <1>14,
       <1>15
  DEF S!Next, S!WorkerStep, S!Goes, S!Executors

\* No two executors are in one run, and only a run in the middle of its life is written.
LEMMA RunStep ==
  ASSUME S!ScheduleAssumption, S!TypeOK, TimeFit, RunFit, S!TypeOK', [S!Next]_(S!vars)
  PROVE  RunFit' /\ S!KeepsOutcomes
<1> USE DEF S!TypeOK, RunFit, S!KeepsOutcomes, S!Executors, S!task, S!runs, S!exec,
    S!Concludes, S!Leave
<1>1. CASE S!CloseOver
  BY <1>1 DEF S!CloseOver, S!Over
<1>2. CASE S!Claim
  BY <1>2 DEF S!Claim, S!Over
<1>3. ASSUME NEW e \in S!Executors, S!Begin(e) PROVE RunFit' /\ S!KeepsOutcomes
  <2>1. PICK r \in S!Chosen(e) :
           /\ place' = [place EXCEPT ![e] = S!Plan(e, r)]
           /\ key' = [key EXCEPT ![e] = IF S!Plan(e, r) = "idle" THEN NoRun ELSE r]
    BY <1>3 DEF S!Begin
  <2>2. /\ r \in S!Runs
        /\ S!Plan(e, r) \in {"idle", "misfire", "skip", "create", "turn"}
        /\ S!Plan(e, r) \in {"misfire", "skip", "create"} => st[r] = "none"
        /\ S!Plan(e, r) = "turn" => st[r] = "running"
        /\ r \in Manuals <=> e # Worker
        /\ r \in Manuals => r = e
    BY <1>3, Planned
  <2>3. NoRun \notin Manuals /\ UNCHANGED <<st, outcome>>
    BY <1>3 DEF S!ScheduleAssumption, S!Begin
  <2>4. PICK x : x = S!Plan(e, r)
    OBVIOUS
  <2>5. /\ place' = [place EXCEPT ![e] = x]
        /\ key' = [key EXCEPT ![e] = IF x = "idle" THEN NoRun ELSE r]
    BY <2>1, <2>4
  <2>6. QED
    <3>1. \A d \in S!Executors \ {e} : place'[d] = place[d] /\ key'[d] = key[d]
      BY <2>5
    <3>2. place'[e] = x /\ key'[e] = IF x = "idle" THEN NoRun ELSE r
      BY <2>5
    <3>3. x \in {"misfire", "skip", "create"} => key'[e] \in S!Runs /\ st[key'[e]] = "none"
      BY <3>2, <2>2, <2>4
    <3>4. x = "turn" => key'[e] \in S!Runs /\ st[key'[e]] = "running"
      BY <3>2, <2>2, <2>4
    <3>5. IF e = Worker THEN key'[e] \notin Manuals ELSE key'[e] \in {e, NoRun}
      BY <3>2, <2>2, <2>3
    <3>6. ASSUME NEW d \in S!Executors
          PROVE  /\ place'[d] \in {"misfire", "skip", "create"}
                      => key'[d] \in S!Runs /\ st'[key'[d]] = "none"
                 /\ place'[d] \in {"session", "turn", "inturn", "finish"}
                      => key'[d] \in S!Runs /\ st'[key'[d]] = "running"
                 /\ place'[d] = "finish" => outcome'[d] # "none"
      <4>1. CASE d = e
        BY <4>1, <3>2, <3>3, <3>4, <2>2, <2>3, <2>4
      <4>2. CASE d # e
        BY <4>2, <3>1, <2>3
      <4>3. QED
        BY <4>1, <4>2
    <3>7. \A m \in Manuals : key'[m] \in {m, NoRun}
      BY <3>1, <3>5 DEF S!ScheduleAssumption
    <3>8. key'[Worker] \notin Manuals
      BY <3>1, <3>5
    <3>9. QED
      BY <3>6, <3>7, <3>8, <2>3
<1>4. ASSUME NEW e \in S!Executors, S!Skip(e) PROVE RunFit' /\ S!KeepsOutcomes
  <2>1. key[e] \in S!Runs /\ key[e] # NoRun
    BY <1>4, InRun DEF S!Skip
  <2>2. \A d \in S!Executors \ {e} : key[d] # key[e]
    BY <2>1, OwnRun
  <2>3. st[key[e]] \notin S!Ended
    BY <1>4 DEF S!Skip, S!Ended
  <2>4. NoRun \notin Manuals
    BY DEF S!ScheduleAssumption
  <2>5. QED
    BY <1>4, <2>1, <2>2, <2>3, <2>4 DEF S!Skip
<1>5. ASSUME NEW e \in S!Executors, S!Create(e) PROVE RunFit' /\ S!KeepsOutcomes
  <2>1. key[e] \in S!Runs /\ key[e] # NoRun
    BY <1>5, InRun DEF S!Create
  <2>2. \A d \in S!Executors \ {e} : key[d] # key[e]
    BY <2>1, OwnRun
  <2>3. QED
    BY <1>5, <2>1, <2>2 DEF S!Create, S!Ended
<1>6. ASSUME NEW e \in S!Executors, S!GiveSession(e) PROVE RunFit' /\ S!KeepsOutcomes
  BY <1>6 DEF S!GiveSession
<1>7. ASSUME NEW e \in S!Executors, S!StartTurn(e) PROVE RunFit' /\ S!KeepsOutcomes
  BY <1>7 DEF S!StartTurn, S!Results
<1>8. ASSUME NEW e \in S!Executors, S!EndTurn(e) PROVE RunFit' /\ S!KeepsOutcomes
  BY <1>8 DEF S!EndTurn, S!Results
<1>9. ASSUME NEW e \in S!Executors, S!Finish(e) PROVE RunFit' /\ S!KeepsOutcomes
  <2>1. key[e] \in S!Runs /\ key[e] # NoRun
    BY <1>9, InRun DEF S!Finish
  <2>2. \A d \in S!Executors \ {e} : key[d] # key[e]
    BY <2>1, OwnRun
  <2>3. st[key[e]] \notin S!Ended
    BY <1>9 DEF S!Finish, S!Ended
  <2>4. NoRun \notin Manuals
    BY DEF S!ScheduleAssumption
  <2>5. QED
    BY <1>9, <2>1, <2>2, <2>3, <2>4 DEF S!Finish
<1>10. CASE S!Edit
  BY <1>10 DEF S!Edit
<1>11. CASE S!Tick
  BY <1>11 DEF S!Tick
<1>12. CASE S!ExpireLease
  BY <1>12 DEF S!ExpireLease
<1>13. CASE S!Crash
  BY <1>13 DEF S!ScheduleAssumption, S!Crash
<1>14. CASE S!Restart
  BY <1>14 DEF S!Restart
<1>15. CASE UNCHANGED S!vars
  BY <1>15 DEF S!vars
<1>16. QED
  BY <1>1, <1>2, <1>3, <1>4, <1>5, <1>6, <1>7, <1>8, <1>9, <1>10, <1>11, <1>12, <1>13, <1>14,
       <1>15
  DEF S!Next, S!WorkerStep, S!Goes, S!Executors

\* The receipt admits one execution, and a crash leaves it closed.
LEMMA ReceiptStep ==
  ASSUME S!ScheduleAssumption, S!TypeOK, RunFit, ReceiptFit, [S!Next]_(S!vars)
  PROVE  ReceiptFit'
<1> USE DEF S!TypeOK, ReceiptFit, S!task, S!runs, S!exec, S!Concludes, S!Leave
<1>1. CASE S!CloseOver
  BY <1>1 DEF S!CloseOver, S!Over
<1>2. CASE S!Claim
  BY <1>2 DEF S!Claim, S!Over
<1>3. ASSUME NEW e \in S!Executors, S!Begin(e) PROVE ReceiptFit'
  BY <1>3 DEF S!Begin
<1>4. ASSUME NEW e \in S!Executors, S!Skip(e) PROVE ReceiptFit'
  BY <1>4 DEF S!Skip
<1>5. ASSUME NEW e \in S!Executors, S!Create(e) PROVE ReceiptFit'
  BY <1>5 DEF S!Create
<1>6. ASSUME NEW e \in S!Executors, S!GiveSession(e) PROVE ReceiptFit'
  BY <1>6 DEF S!GiveSession
<1>7. ASSUME NEW e \in S!Executors, S!StartTurn(e) PROVE ReceiptFit'
  BY <1>7 DEF S!StartTurn, S!Admits
<1>8. ASSUME NEW e \in S!Executors, S!EndTurn(e) PROVE ReceiptFit'
  BY <1>8 DEF S!EndTurn
<1>9. ASSUME NEW e \in S!Executors, S!Finish(e) PROVE ReceiptFit'
  BY <1>9 DEF S!Finish
<1>10. CASE S!Edit
  BY <1>10 DEF S!Edit
<1>11. CASE S!Tick
  BY <1>11 DEF S!Tick
<1>12. CASE S!ExpireLease
  BY <1>12 DEF S!ExpireLease
<1>13. CASE S!Crash
  BY <1>13 DEF S!Crash
<1>14. CASE S!Restart
  BY <1>14 DEF S!Restart
<1>15. CASE UNCHANGED S!vars
  BY <1>15 DEF S!vars
<1>16. QED
  BY <1>1, <1>2, <1>3, <1>4, <1>5, <1>6, <1>7, <1>8, <1>9, <1>10, <1>11, <1>12, <1>13, <1>14,
       <1>15
  DEF S!Next, S!WorkerStep, S!Goes, S!Executors

\* The invariant of a schedule.
LEMMA ScheduleInvHolds ==
  ASSUME S!ScheduleAssumption
  PROVE  S!Spec => []ScheduleInv
<1>1. S!Init => ScheduleInv
  <2> SUFFICES ASSUME S!Init PROVE ScheduleInv
    OBVIOUS
  <2>1. onceAt \in S!Slots /\ next \in S!Slots
    BY DEF S!ScheduleAssumption, S!Init, S!Slots
  <2>. S!TypeOK
    <3>1. /\ now \in 0 .. MaxTime /\ edits \in 0 .. MaxEdits /\ crashes \in 0 .. MaxCrashes
          /\ count \in Nat /\ setup \in Setups
      BY DEF S!ScheduleAssumption, S!Init
    <3>3. up \in BOOLEAN /\ lease \in BOOLEAN
      BY DEF S!Init
    <3>2. /\ st \in [S!Runs -> S!Ended \cup {"none", "running"}] /\ session \in [S!Runs -> BOOLEAN]
          /\ turn \in [S!Runs -> {"none", "active", "completed", "failed"}]
          /\ executions \in [S!Runs -> Nat]
      BY DEF S!Init
    <3>5. QED
      BY <2>1, <3>1, <3>2, <3>3 DEF S!Init, S!TypeOK, S!Statuses
  <2>2. TimeFit /\ RunFit /\ ReceiptFit
    BY DEF S!ScheduleAssumption, S!Init, TimeFit, RunFit, ReceiptFit, S!Slots, S!Executors
  <2>3. QED
    BY <2>2 DEF ScheduleInv
<1>2. ScheduleInv /\ [S!Next]_(S!vars) => ScheduleInv'
  BY ScheduleTypes, TimeStep, RunStep, ReceiptStep DEF ScheduleInv
<1>3. QED
  BY <1>1, <1>2, PTL DEF S!Spec

\* The turn of a scheduled run is executed once at most, for any policies, edits, manual
\* runs and crashes.
THEOREM EffectOnceHolds ==
  ASSUME S!ScheduleAssumption
  PROVE  S!Spec => []S!EffectOnce
<1>1. ScheduleInv => S!EffectOnce
  BY DEF ScheduleInv, ReceiptFit, S!EffectOnce
<1>2. QED
  BY <1>1, ScheduleInvHolds, PTL

\* A run that has ended keeps its outcome.
THEOREM OutcomeStaysHolds ==
  ASSUME S!ScheduleAssumption
  PROVE  S!Spec => S!OutcomeStays
<1>1. ScheduleInv /\ [S!Next]_(S!vars) => [S!KeepsOutcomes]_(S!vars)
  <2> SUFFICES ASSUME ScheduleInv, [S!Next]_(S!vars)
               PROVE  [S!KeepsOutcomes]_(S!vars)
    OBVIOUS
  <2>1. ScheduleInv'
    BY ScheduleTypes, TimeStep, RunStep, ReceiptStep DEF ScheduleInv
  <2>2. QED
    BY <2>1, RunStep DEF ScheduleInv
<1>2. QED
  BY <1>1, ScheduleInvHolds, PTL DEF S!Spec, S!OutcomeStays

=============================================================================
