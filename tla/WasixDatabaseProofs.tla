------------------------- MODULE WasixDatabaseProofs ------------------------
(***************************************************************************)
(* Theorems about the WASIX database handle, for any number of calls and   *)
(* of operations in a transaction, any kinds of call, with or without a    *)
(* worker and an abortable session.                                        *)
(*                                                                         *)
(* The first part is close and poison, each with a small invariant. The    *)
(* second part is that the handle is a serial, durable database. SerialInv *)
(* says that the FIFO holds exactly the calls without an answer, in the    *)
(* order they were made; that only a call that was answered or has its     *)
(* turn has an effect; what each stage of a call knows about its effect;   *)
(* and that, while handle and session are sound, nothing is committed and  *)
(* not yet published except just before the publication. Every step is     *)
(* then a step of SerialDatabase, or none.                                 *)
(***************************************************************************)
EXTENDS WasixDatabase, TLAPS

(* Close is accepted only while no transaction runs; from then on the      *)
(* handle is closing or closed, so a queued transaction is refused.        *)
CloseInv ==
  closeCalled => (closing \/ closed) /\ ~transactionRunning

(* An exchange is in flight only on a healthy handle.  A transaction       *)
(* operation is in flight only during the body, at the head of its FIFO.   *)
PoisonInv ==
  /\ txQueue \in Seq({"operation", "rollback"})
  /\ txBusy \in BOOLEAN
  /\ txBusy => stage = "body" /\ txQueue # << >>
  /\ ~assertHealthy => stage \notin Exchanging /\ ~txBusy

-----------------------------------------------------------------------------
\* A slot that ends, or goes on to await something else, leaves close's own
\* variables alone and starts no transaction.
LEMMA SettleClose ==
  ASSUME CloseInv, NEW c, NEW r, Settle(c, r)
  PROVE  CloseInv'
BY Zenon DEF Settle, CloseInv

LEMMA AwaitClose ==
  ASSUME CloseInv, NEW next, Await(next)
  PROVE  CloseInv'
BY Zenon DEF Await, handle, CloseInv

\* No step of a slot touches close's own variables, and only TxStart, which
\* needs an open handle, makes a transaction run.
LEMMA SlotClose ==
  ASSUME CloseInv, NEW c \in Calls, Slot(c)
  PROVE  CloseInv'
<1>1. CASE StartSlot(c)
  BY <1>1, SettleClose, AwaitClose, Zenon DEF StartSlot
<1>2. CASE Describe(c)
  BY <1>2, SettleClose, AwaitClose, Zenon DEF Describe, Publish
<1>3. CASE Execute(c)
  BY <1>3, SettleClose, AwaitClose, Zenon DEF Execute, Publish
<1>4. CASE Undo(c)
  BY <1>4, SettleClose, AwaitClose, Zenon DEF Undo, RollbackControl, Publish
<1>5. CASE SyncPersistence(c)
  BY <1>5, SettleClose, AwaitClose, Zenon DEF SyncPersistence
<1>6. CASE Raw(c)
  BY <1>6, SettleClose, AwaitClose, Zenon DEF Raw
<1>7. CASE Stream(c)
  BY <1>7, SettleClose, AwaitClose, Zenon DEF Stream
<1>8. CASE Backup(c)
  BY <1>8, SettleClose, AwaitClose, Zenon DEF Backup, Publish
<1>9. CASE Own(c)
  BY <1>9, SettleClose, AwaitClose, Zenon DEF Own
<1>10. CASE TxStart(c)
  BY <1>10, SettleClose, Zenon DEF TxStart, assertOpen, CloseInv
<1>11. CASE TxBegin(c)
  BY <1>11, SettleClose, AwaitClose, Zenon DEF TxBegin, Publish
<1>12. CASE TxBeginUndo(c)
  BY <1>12, SettleClose, AwaitClose, Zenon DEF TxBeginUndo, RollbackControl, Publish
<1>13. CASE TxFinish(c)
  BY <1>13, SettleClose, AwaitClose, Zenon DEF TxFinish, Publish
<1>14. CASE TxAbandon(c)
  BY <1>14, SettleClose, AwaitClose, Zenon DEF TxAbandon, RollbackControl, Publish
<1>15. CASE TxCommit(c)
  BY <1>15, SettleClose, AwaitClose, Zenon DEF TxCommit, Publish
<1> QED
  BY <1>1, <1>2, <1>3, <1>4, <1>5, <1>6, <1>7, <1>8, <1>9, <1>10, <1>11, <1>12, <1>13,
     <1>14, <1>15, Zenon DEF Slot

LEMMA NextClose ==
  ASSUME CloseInv, [Next]_vars
  PROVE  CloseInv'
<1>1. CASE \E k \in Kinds : Call(k)
  BY <1>1 DEF Call, CloseInv
<1>2. CASE \E c \in Calls, decision \in {"started", "canceled"} : Decide(c, decision)
  BY <1>2 DEF Decide, handle, CloseInv
<1>3. CASE \E c \in Calls : Slot(c)
  BY <1>3, SlotClose, Zenon
<1>4. CASE \E c \in Calls : StreamChunk(c)
  BY <1>4 DEF StreamChunk, handle, CloseInv
<1>5. CASE \E op \in {"operation", "rollback"} : TxCall(op)
  BY <1>5 DEF TxCall, handle, CloseInv
<1>6. CASE \E how \in {"returned", "threw"} : BodyEnds(how)
  BY <1>6 DEF BodyEnds, handle, CloseInv
<1>7. CASE TxOpStart
  BY <1>7, Zenon DEF TxOpStart, handle, CloseInv
<1>8. CASE TxOpReply
  BY <1>8, Zenon DEF TxOpReply, handle, CloseInv
<1>9. CASE CloseCall
  BY <1>9, Zenon DEF CloseCall, CloseInv
<1>10. CASE CloseStart
  BY <1>10, Zenon DEF CloseStart, handle, CloseInv
<1>11. CASE CloseEnd
  BY <1>11, Zenon DEF CloseEnd, CloseInv
<1>12. CASE CloseDeadline
  BY <1>12, Zenon DEF CloseDeadline, CloseInv
<1>13. CASE CloseResources
  BY <1>13, Zenon DEF CloseResources, CloseInv
<1>14. CASE WorkerDies
  BY <1>14, Zenon DEF WorkerDies, handle, CloseInv
<1>15. CASE UNCHANGED vars
  BY <1>15, Zenon DEF vars, handle, CloseInv
<1> QED
  BY <1>1, <1>2, <1>3, <1>4, <1>5, <1>6, <1>7, <1>8, <1>9, <1>10, <1>11, <1>12, <1>13,
     <1>14, <1>15, Zenon DEF Next

\* No callback transaction runs on a handle whose close was accepted.
THEOREM CloseIsExclusive == Spec => []CloseExcludesTransaction
<1>1. Init => CloseInv
  BY Zenon DEF Init, CloseInv
<1>2. CloseInv => CloseExcludesTransaction
  BY Zenon DEF CloseInv, CloseExcludesTransaction
<1> QED
  BY <1>1, <1>2, NextClose, PTL DEF Spec

-----------------------------------------------------------------------------
\* A slot that ends, or goes on to publish, sends PostgreSQL nothing more.
LEMMA SettlePoison ==
  ASSUME PoisonInv, ~txBusy, NEW c, NEW r, Settle(c, r)
  PROVE  PoisonInv'
BY Zenon DEF Settle, PoisonInv, Exchanging

LEMMA PublishPoison ==
  ASSUME PoisonInv, ~txBusy, NEW r, Publish(r)
  PROVE  PoisonInv'
BY Zenon DEF Publish, Await, txVars, PoisonInv, Exchanging

\* A slot awaits another exchange only while the handle stays healthy.
LEMMA AwaitPoison ==
  ASSUME PoisonInv, ~txBusy, assertHealthy, UNCHANGED poison,
         NEW next, Await(next)
  PROVE  PoisonInv'
BY Zenon DEF Await, txVars, poison, assertHealthy, PoisonInv

LEMMA SlotPoison ==
  ASSUME PoisonInv, NEW c \in Calls, Slot(c)
  PROVE  PoisonInv'
<1> USE SettlePoison, PublishPoison, AwaitPoison
<1>0. stage # "body" => ~txBusy
  BY Zenon DEF PoisonInv
<1>00. stage \in Exchanging => assertHealthy
  BY Zenon DEF PoisonInv
<1>1. CASE StartSlot(c)
  BY <1>0, <1>00, <1>1, Zenon DEF StartSlot, Exchanging, assertHealthy, AtHead
<1>2. CASE Describe(c)
  BY <1>0, <1>00, <1>2, Zenon DEF Describe, Exchanging
<1>3. CASE Execute(c)
  BY <1>0, <1>00, <1>3, Zenon DEF Execute, Exchanging
<1>4. CASE Undo(c)
  BY <1>0, <1>00, <1>4, Zenon DEF Undo, Exchanging, RollbackControl
<1>5. CASE SyncPersistence(c)
  BY <1>0, <1>00, <1>5, Zenon DEF SyncPersistence, Exchanging
<1>6. CASE Raw(c)
  BY <1>0, <1>00, <1>6, Zenon DEF Raw, Exchanging
<1>7. CASE Stream(c)
  BY <1>0, <1>00, <1>7, Zenon DEF Stream, Exchanging
<1>8. CASE Backup(c)
  BY <1>0, <1>00, <1>8, Zenon DEF Backup, Exchanging
<1>9. CASE Own(c)
  BY <1>0, <1>00, <1>9, Zenon DEF Own, Exchanging
<1>10. CASE TxStart(c)
  <2>1. ~txBusy
    BY <1>0, <1>10, Zenon DEF TxStart, AtHead
  <2>2. CASE ~assertOpen
    BY <1>10, <2>1, <2>2, Zenon DEF TxStart
  <2>3. CASE assertOpen
    <3>1. txQueue' = << >> /\ txBusy' = FALSE
      BY <1>10, <2>3, Zenon DEF TxStart
    <3>2. assertHealthy'
      BY <1>10, <2>3, Zenon DEF TxStart, poison, assertOpen, assertHealthy
    <3>3. txQueue' \in Seq({"operation", "rollback"})
      BY <3>1
    <3>4. txBusy' \in BOOLEAN /\ ~txBusy'
      BY <3>1, Zenon
    <3> QED
      BY <3>2, <3>3, <3>4, Zenon DEF PoisonInv
  <2> QED
    BY <2>2, <2>3, Zenon
<1>11. CASE TxBegin(c)
  BY <1>0, <1>00, <1>11, Zenon DEF TxBegin, Exchanging
<1>12. CASE TxBeginUndo(c)
  BY <1>0, <1>00, <1>12, Zenon DEF TxBeginUndo, Exchanging, RollbackControl
<1>13. CASE TxFinish(c)
  <2>1. ~txBusy
    BY <1>13, Zenon DEF TxFinish, PoisonInv
  <2> QED
    BY <1>13, <2>1, Zenon DEF TxFinish
<1>14. CASE TxAbandon(c)
  BY <1>0, <1>00, <1>14, Zenon DEF TxAbandon, Exchanging, RollbackControl
<1>15. CASE TxCommit(c)
  BY <1>0, <1>00, <1>15, Zenon DEF TxCommit, Exchanging
<1> QED
  BY <1>1, <1>2, <1>3, <1>4, <1>5, <1>6, <1>7, <1>8, <1>9, <1>10, <1>11, <1>12, <1>13,
     <1>14, <1>15, Zenon DEF Slot

\* When an operation of a transaction is over, none is in flight.
LEMMA DonePoison ==
  ASSUME txQueue \in Seq({"operation", "rollback"}), txQueue # << >>,
         NEW failed, TxDone(failed), stage' = "body"
  PROVE  PoisonInv'
<1>1. txBusy' = FALSE /\ txQueue' = Tail(txQueue)
  BY Zenon DEF TxDone
<1>2. txBusy' \in BOOLEAN /\ ~txBusy'
  BY <1>1, Zenon
<1>3. txQueue' \in Seq({"operation", "rollback"})
  BY <1>1
<1> QED
  BY <1>2, <1>3, Zenon DEF PoisonInv, Exchanging

LEMMA NextPoison ==
  ASSUME PoisonInv, [Next]_vars
  PROVE  PoisonInv'
<1>1. CASE \E k \in Kinds : Call(k)
  BY <1>1 DEF Call, txVars, poison, assertHealthy, PoisonInv
<1>2. CASE \E c \in Calls, decision \in {"started", "canceled"} : Decide(c, decision)
  BY <1>2 DEF Decide, txVars, poison, assertHealthy, PoisonInv
<1>3. CASE \E c \in Calls : Slot(c)
  BY <1>3, SlotPoison, Zenon
<1>4. CASE \E c \in Calls : StreamChunk(c)
  BY <1>4 DEF StreamChunk, txVars, poison, assertHealthy, PoisonInv
<1>5. CASE \E op \in {"operation", "rollback"} : TxCall(op)
  BY <1>5 DEF TxCall, poison, assertHealthy, PoisonInv
<1>6. CASE \E how \in {"returned", "threw"} : BodyEnds(how)
  BY <1>6 DEF BodyEnds, poison, assertHealthy, PoisonInv
<1>7. CASE TxOpStart
  <2>1. stage' = "body" /\ txQueue \in Seq({"operation", "rollback"}) /\ txQueue # << >>
    BY <1>7, Zenon DEF TxOpStart, PoisonInv
  <2>2. CASE assertHealthy
    <3>1. txBusy' = TRUE /\ txQueue' = txQueue
      BY <1>7, <2>2, Zenon DEF TxOpStart
    <3>2. assertHealthy'
      BY <1>7, <2>2, Zenon DEF TxOpStart, poison, assertHealthy
    <3> QED
      BY <2>1, <3>1, <3>2, Zenon DEF PoisonInv
  <2>3. CASE ~assertHealthy
    <3>1. TxDone(TRUE)
      BY <1>7, <2>3, Zenon DEF TxOpStart
    <3> QED
      BY <2>1, <3>1, DonePoison, Zenon
  <2> QED
    BY <2>2, <2>3, Zenon
<1>8. CASE TxOpReply
  <2>1. stage' = "body" /\ txQueue \in Seq({"operation", "rollback"}) /\ txQueue # << >>
    BY <1>8, Zenon DEF TxOpReply, PoisonInv
  <2>2. \E failed : TxDone(failed)
    BY <1>8, Zenon DEF TxOpReply, RollbackControl
  <2> QED
    BY <2>1, <2>2, DonePoison, Zenon
<1>9. CASE CloseCall
  BY <1>9, Zenon DEF CloseCall, txVars, poison, assertHealthy, PoisonInv
<1>10. CASE CloseStart
  BY <1>10, Zenon DEF CloseStart, txVars, poison, assertHealthy, Exchanging, PoisonInv
<1>11. CASE CloseEnd
  BY <1>11, Zenon DEF CloseEnd, txVars, poison, assertHealthy, Exchanging, PoisonInv
<1>12. CASE CloseDeadline
  BY <1>12, Zenon DEF CloseDeadline, txVars, poison, assertHealthy, PoisonInv
<1>13. CASE CloseResources
  BY <1>13, Zenon DEF CloseResources, txVars, poison, assertHealthy, PoisonInv
<1>14. CASE WorkerDies
  BY <1>14, Zenon DEF WorkerDies, txVars, poison, assertHealthy, PoisonInv
<1>15. CASE UNCHANGED vars
  BY <1>15, Zenon DEF vars, txVars, poison, assertHealthy, PoisonInv
<1> QED
  BY <1>1, <1>2, <1>3, <1>4, <1>5, <1>6, <1>7, <1>8, <1>9, <1>10, <1>11, <1>12, <1>13,
     <1>14, <1>15, Zenon DEF Next

-----------------------------------------------------------------------------
(* What a step may do once the handle is poisoned. *)
Silent == stage' \notin Exchanging /\ (txBusy' => txBusy) /\ live' = live

\* A slot whose turn comes on a poisoned handle only ends or publishes.
LEMMA SlotSilent ==
  ASSUME PoisonInv, ~assertHealthy, NEW c \in Calls, Slot(c)
  PROVE  Silent
<1>1. stage \notin Exchanging
  BY Zenon DEF PoisonInv
<1>2. \A r : Settle(c, r) => stage' \notin Exchanging /\ (txBusy' => txBusy)
  BY DEF Settle, Exchanging
<1>3. \A r : Publish(r) => stage' \notin Exchanging /\ (txBusy' => txBusy)
  BY DEF Publish, Await, txVars, Exchanging
<1>4. StartSlot(c) \/ SyncPersistence(c) \/ TxStart(c) \/ TxFinish(c)
  BY <1>1, Zenon DEF Slot, Exchanging, Describe, Execute, Undo, Raw, Stream, Backup, Own,
     TxBegin, TxBeginUndo, TxAbandon, TxCommit
<1>5. CASE StartSlot(c)
  BY <1>2, <1>5, Zenon DEF StartSlot, backend, Silent
<1>6. CASE SyncPersistence(c)
  BY <1>2, <1>6, Zenon DEF SyncPersistence, backend, Silent
<1>7. CASE TxStart(c)
  BY <1>2, <1>7, Zenon DEF TxStart, assertOpen, backend, Silent
<1>8. CASE TxFinish(c)
  BY <1>2, <1>3, <1>8, Zenon DEF TxFinish, backend, Silent
<1> QED
  BY <1>4, <1>5, <1>6, <1>7, <1>8, Zenon

LEMMA NextSilent ==
  ASSUME PoisonInv, ~assertHealthy, Next
  PROVE  Silent
<1>1. stage \notin Exchanging /\ ~txBusy
  BY Zenon DEF PoisonInv
<1>2. CASE \E k \in Kinds : Call(k)
  BY <1>2, Zenon DEF Call, assertAvailable, assertOpen
<1>3. CASE \E c \in Calls, decision \in {"started", "canceled"} : Decide(c, decision)
  BY <1>1, <1>3 DEF Decide, txVars, backend, Silent
<1>4. CASE \E c \in Calls : Slot(c)
  BY <1>4, SlotSilent, Zenon
<1>5. CASE \E c \in Calls : StreamChunk(c)
  BY <1>1, <1>5, Zenon DEF StreamChunk, Exchanging
<1>6. CASE \E op \in {"operation", "rollback"} : TxCall(op)
  BY <1>1, <1>6 DEF TxCall, backend, Silent
<1>7. CASE \E how \in {"returned", "threw"} : BodyEnds(how)
  BY <1>1, <1>7 DEF BodyEnds, backend, Silent
<1>8. CASE TxOpStart
  <2>1. TxDone(TRUE) /\ stage' = stage /\ live' = live
    BY <1>8, Zenon DEF TxOpStart, backend
  <2>2. txBusy' = FALSE
    BY <2>1, Zenon DEF TxDone
  <2> QED
    BY <1>1, <2>1, <2>2, Zenon DEF Silent
<1>9. CASE TxOpReply
  BY <1>1, <1>9, Zenon DEF TxOpReply
<1>10. CASE CloseCall
  BY <1>1, <1>10, Zenon DEF CloseCall, txVars, backend, Silent
<1>11. CASE CloseStart
  BY <1>1, <1>11, Zenon DEF CloseStart, txVars, backend, Exchanging, Silent
<1>12. CASE CloseEnd
  BY <1>1, <1>12, Zenon DEF CloseEnd, txVars, Exchanging, Silent
<1>13. CASE CloseDeadline
  BY <1>1, <1>13, Zenon DEF CloseDeadline, txVars, backend, Silent
<1>14. CASE CloseResources
  BY <1>1, <1>14, Zenon DEF CloseResources, txVars, backend, Silent
<1>15. CASE WorkerDies
  <2>1. stage' = stage /\ (txBusy' <=> txBusy)
    BY <1>15, Zenon DEF WorkerDies, txVars
  <2>2. stage = "body" \/ StageTags = {}
    BY <1>1, Zenon DEF StageTags, Exchanging
  <2>3. live' = live
    BY <1>1, <1>15, <2>2, Zenon DEF WorkerDies, backend, Exchanging
  <2> QED
    BY <1>1, <2>1, <2>3, Zenon DEF Silent
<1> QED
  BY <1>2, <1>3, <1>4, <1>5, <1>6, <1>7, <1>8, <1>9, <1>10, <1>11, <1>12, <1>13, <1>14,
     <1>15, Zenon DEF Next

\* Once an outcome or a publication is unknown the handle sends PostgreSQL
\* nothing more, whatever was already queued.
THEOREM PoisonIsFinal == Spec => NothingRunsAfterPoison
<1> DEFINE Step == ~assertHealthy =>
                     /\ stage' \in Exchanging => stage' = stage
                     /\ txBusy' => txBusy
                     /\ live' = live
<1>1. Init => PoisonInv
  <2> SUFFICES ASSUME Init PROVE PoisonInv
    OBVIOUS
  <2>1. txQueue = << >> /\ txBusy = FALSE /\ assertHealthy
    BY Zenon DEF Init, assertHealthy
  <2>2. txQueue \in Seq({"operation", "rollback"})
    BY <2>1
  <2>3. txBusy \in BOOLEAN /\ ~txBusy
    BY <2>1, Zenon
  <2> QED
    BY <2>1, <2>2, <2>3, Zenon DEF PoisonInv
<1>2. PoisonInv /\ [Next]_vars => [Step]_vars
  BY NextSilent, Zenon DEF Silent
<1> QED
  BY <1>1, <1>2, NextPoison, PTL DEF Spec, NothingRunsAfterPoison

-----------------------------------------------------------------------------
(* The handle runs its calls one at a time *)

Answers == {"pending", "ok", "rolledBack", "error"}
TxStages == {"begin", "beginUndo", "body", "abandon", "commit"}
SelfContained == {"raw", "stream"}    \* calls that may leave a transaction open

(* The head of the FIFO is a call, and it has its turn. *)
Busy == stage \notin {"idle", "shutdown"}

(* The handle still believes in the session, and the session in itself. *)
Usable == assertHealthy /\ ~dead
Sound == Usable /\ ~sFailed

(* The FIFO holds exactly the calls that are not answered, in the order    *)
(* they were made, and close() after them.                                 *)
FifoInv ==
  /\ kind \in Seq(Kinds) /\ result \in Seq(Answers) /\ Len(result) = Len(kind)
  /\ queue \in Seq(Nat)
  /\ \A i \in 1..Len(queue) :
       IF queue[i] = CloseSlot THEN i = Len(queue) /\ closeCalled
       ELSE queue[i] \in Calls /\ result[queue[i]] = "pending"
  /\ \A i, j \in 1..Len(queue) :
       i < j /\ queue[j] # CloseSlot => queue[i] < queue[j]
  /\ \A c \in Calls : result[c] = "pending" => \E i \in 1..Len(queue) : queue[i] = c
  /\ \A c, d \in Calls : c < d /\ result[c] = "pending" => result[d] = "pending"
  /\ Busy => queue # << >> /\ Head1 # CloseSlot
  /\ stage = "shutdown" => queue # << >> /\ Head1 = CloseSlot

(* Only a call that was answered, or that has its turn, has an effect; and *)
(* PostgreSQL out of a transaction holds nothing open.                     *)
EffectInv ==
  /\ open \subseteq Calls /\ live \subseteq Calls /\ stored \subseteq live
  /\ status = "idle" => open = {}
  /\ \A c \in live \cup open : result[c] # "pending" \/ (Busy /\ c = Head1)

(* What the answer to a transaction says of its effect. *)
AnswerInv ==
  \A c \in Calls : kind[c] = "transaction" =>
    /\ result[c] = "ok" => c \in stored
    /\ result[c] = "rolledBack" => c \notin live \cup open
    /\ result[c] = "error" /\ Usable => c \notin live \cup open

(* What may be open while the session is sound, and when all that is       *)
(* committed is durable.                                                   *)
SoundInv ==
  Sound =>
    /\ \A c \in open : \/ kind[c] \in SelfContained
                       \/ c = Head1 /\ stage \in {"undo", "body", "abandon", "commit"}
    /\ stage \notin {"undo", "publish"} => stored = live

(* The operations of a transaction: nothing follows its rollback.          *)
BodyInv ==
  /\ stage = "begin" => txQueue = << >> /\ txRollback = "none"
  /\ stage = "body" =>
       /\ txRollback \in {"none", "pending", "done", "failed"}
       /\ txState = "active" => txRollback = "none"
       /\ txRollback = "none" => \A i \in 1..Len(txQueue) : txQueue[i] = "operation"
       /\ txRollback = "pending" =>
            txQueue # << >> /\ \A i \in 1..Len(txQueue) :
                                 txQueue[i] = "rollback" <=> i = Len(txQueue)
       /\ txRollback \in {"done", "failed"} => txQueue = << >>
       /\ txRollback = "failed" => ~assertHealthy

(* What each stage knows of the call that has its turn. *)
StageInv ==
  /\ stage \in TxStages => kind[Head1] = "transaction"
  /\ stage \in SelfContained => kind[Head1] = stage
  /\ Busy /\ stage \notin TxStages \cup {"publish"} => kind[Head1] # "transaction"
  /\ stage \in {"begin", "beginUndo"} /\ ~dead => Head1 \notin live \cup open
  /\ stage = "body" /\ txRollback \in {"none", "pending"} /\ Usable => Head1 \in open \ live
  /\ stage = "body" /\ txRollback = "done" => Head1 \notin live \cup open
  /\ stage \in {"abandon", "commit"} /\ ~dead => Head1 \in open \ live
  /\ stage = "publish" =>
       /\ verdict \in Answers \ {"pending"}
       /\ kind[Head1] = "transaction" =>
            IF verdict = "ok" THEN Head1 \in live ELSE Head1 \notin live \cup open

CoreInv == FifoInv /\ EffectInv /\ AnswerInv /\ SoundInv /\ BodyInv /\ StageInv
SerialInv == CoreInv /\ CloseInv /\ PoisonInv

(* What a step on behalf of call c may do to PostgreSQL, and to the health *)
(* of the handle and the session.                                          *)
Runs(c) ==
  /\ live \subseteq live' /\ live' \subseteq live \cup open \cup {c}
  /\ open' \subseteq open \cup {c}
  /\ status' = "idle" => open' = {}
Worsens ==
  (assertHealthy' => assertHealthy) /\ (dead => dead') /\ (sFailed => sFailed')

(* A step of the handle is a step of the serial database, or none. *)
SerialStep == Serial!Next \/ UNCHANGED <<result, live, stored>>

-----------------------------------------------------------------------------
(* What the backend and the session do *)

\* A statement changes the effects of its own call, and commits what is open.
LEMMA BackendStep ==
  ASSUME EffectInv, NEW c, NEW tag, BackendRuns(c, tag)
  PROVE  Runs(c)
BY Zenon DEF EffectInv, BackendRuns, backend, Runs

LEMMA NoBackendStep ==
  ASSUME EffectInv, NEW c, UNCHANGED <<status, open, live>>
  PROVE  Runs(c)
BY Zenon DEF EffectInv, Runs

LEMMA ReturnsStep ==
  ASSUME EffectInv, NEW c, NEW tag, ExecReturns(c, tag), UNCHANGED poison
  PROVE  Runs(c) /\ Worsens /\ ~dead /\ ~sFailed
BY BackendStep, Zenon DEF ExecReturns, poison, Worsens, assertHealthy

LEMMA ThrowsStep ==
  ASSUME EffectInv, NEW c, ExecThrows(c)
  PROVE  Runs(c) /\ sFailed' /\ dead' = dead
BY BackendStep, NoBackendStep, Zenon DEF ExecThrows, backend

LEMMA UnknownStep ==
  ASSUME EffectInv, NEW c, ExchangeUnknown(c)
  PROVE  Runs(c) /\ Worsens /\ ~assertHealthy'
<1>1. CASE ExecThrows(c) /\ recordUnknownExchange
  BY <1>1, ThrowsStep, Zenon DEF recordUnknownExchange, assertHealthy, Worsens
<1>2. CASE /\ \E tag \in StageTags : ExecReturns(c, tag)
           /\ transactionFailure' = TRUE
  BY <1>2, BackendStep, Zenon DEF ExecReturns, assertHealthy, Worsens
<1> QED
  BY <1>1, <1>2, Zenon DEF ExchangeUnknown

-----------------------------------------------------------------------------
(* The FIFO *)

\* The call at the head of the FIFO is the first that is not answered.
LEMMA HeadFacts ==
  ASSUME FifoInv, queue # << >>, Head1 # CloseSlot
  PROVE  /\ Head1 \in Calls /\ result[Head1] = "pending"
         /\ \A c \in Calls : result[c] = "pending" => Head1 <= c
<1>1. 1 \in 1..Len(queue)
  OBVIOUS
<1>2. Head1 \in Calls /\ result[Head1] = "pending"
  BY <1>1, Zenon DEF FifoInv, Head1
<1>3. ASSUME NEW c \in Calls, result[c] = "pending" PROVE Head1 <= c
  <2>1. PICK i \in 1..Len(queue) : queue[i] = c
    BY <1>3, Zenon DEF FifoInv
  <2>2. c # CloseSlot /\ c \in Nat
    BY DEF Calls, CloseSlot
  <2>3. i = 1 \/ queue[1] < queue[i]
    BY <2>1, <2>2 DEF FifoInv
  <2> QED
    BY <1>2, <2>1, <2>3 DEF Head1, Calls
<1> QED
  BY <1>2, <1>3, Zenon

\* What joins the FIFO leaves its head alone.
LEMMA AppendHead ==
  ASSUME queue \in Seq(Nat), queue # << >>, NEW v \in Nat, queue' = Append(queue, v)
  PROVE  queue' # << >> /\ Head1' = Head1
BY DEF Head1

\* When the head's call is answered the FIFO moves on.
LEMMA SettleFifo ==
  ASSUME FifoInv, queue # << >>, Head1 # CloseSlot,
         NEW r \in Answers \ {"pending"}, Settle(Head1, r)
  PROVE  FifoInv'
<1>0. result \in Seq(Answers) /\ Calls = 1..Len(result)
  BY DEF FifoInv, Calls
<1>1. /\ result' = [result EXCEPT ![Head1] = r] /\ queue' = Tail(queue)
      /\ stage' = "idle" /\ kind' = kind /\ closeCalled' = closeCalled
  BY Zenon DEF Settle
<1>2. Head1 \in Calls /\ result[Head1] = "pending"
  BY HeadFacts, Zenon
<1>3. Calls' = Calls /\ Len(result') = Len(kind') /\ result' \in Seq(Answers)
  BY <1>1, <1>2 DEF FifoInv, Calls
<1>4. /\ queue' \in Seq(Nat) /\ Len(queue') = Len(queue) - 1
      /\ \A i \in 1..Len(queue') : queue'[i] = queue[i + 1] /\ i + 1 \in 1..Len(queue)
  BY <1>1 DEF FifoInv
<1>5. \A c \in Calls : c # Head1 => result'[c] = result[c]
  BY <1>1
<1>6. result'[Head1] # "pending"
  BY <1>1, <1>2, <1>0
<1>7. ASSUME NEW i \in 1..Len(queue')
      PROVE  IF queue'[i] = CloseSlot THEN i = Len(queue') /\ closeCalled'
             ELSE queue'[i] \in Calls' /\ result'[queue'[i]] = "pending"
  <2>1. 1 \in 1..Len(queue) /\ 1 < i + 1 /\ i + 1 \in 1..Len(queue)
    BY <1>4
  <2>2. queue'[i] = CloseSlot \/ queue[1] < queue[i + 1]
    BY <1>4, <2>1, Zenon DEF FifoInv
  <2>3. queue'[i] # CloseSlot => queue'[i] # Head1
    BY <1>4, <2>2 DEF Head1
  <2>4. IF queue[i + 1] = CloseSlot THEN i + 1 = Len(queue) /\ closeCalled
        ELSE queue[i + 1] \in Calls /\ result[queue[i + 1]] = "pending"
    BY <2>1, Zenon DEF FifoInv
  <2>5. queue'[i] = queue[i + 1]
    BY <1>4
  <2>6. CASE queue[i + 1] = CloseSlot
    <3>1. i + 1 = Len(queue) /\ closeCalled
      BY <2>4, <2>6
    <3>2. i = Len(queue')
      BY <1>4, <3>1
    <3> QED
      BY <1>1, <2>6, <3>1
  <2>7. CASE queue[i + 1] # CloseSlot
    BY <1>3, <1>5, <2>3, <2>4, <2>5, <2>7
  <2> QED
    BY <2>6, <2>7
<1>8. ASSUME NEW i \in 1..Len(queue'), NEW j \in 1..Len(queue'), i < j,
             queue'[j] # CloseSlot
      PROVE  queue'[i] < queue'[j]
  <2>1. i + 1 \in 1..Len(queue) /\ j + 1 \in 1..Len(queue) /\ i + 1 < j + 1
    BY <1>4, <1>8
  <2>2. queue[j + 1] # CloseSlot => queue[i + 1] < queue[j + 1]
    BY <2>1, Zenon DEF FifoInv
  <2> QED
    BY <1>4, <1>8, <2>2, Zenon
<1>9. ASSUME NEW c \in Calls', result'[c] = "pending"
      PROVE  \E i \in 1..Len(queue') : queue'[i] = c
  <2>1. c # Head1 /\ result[c] = "pending"
    BY <1>3, <1>5, <1>6, <1>9, Zenon
  <2>2. PICK i \in 1..Len(queue) : queue[i] = c
    BY <1>3, <2>1, Zenon DEF FifoInv
  <2>3. i # 1
    BY <2>1, <2>2, Zenon DEF Head1
  <2>4. i - 1 \in 1..Len(queue') /\ (i - 1) + 1 = i
    <3>1. Len(queue) \in Nat /\ Len(queue') = Len(queue) - 1
      BY <1>4
    <3> QED
      BY <2>3, <3>1
  <2>5. queue'[i - 1] = c
    BY <1>4, <2>2, <2>4
  <2> QED
    BY <2>4, <2>5, Zenon
<1>10. ASSUME NEW c \in Calls', NEW d \in Calls', c < d, result'[c] = "pending"
       PROVE  result'[d] = "pending"
  <2>1. c # Head1 /\ result[c] = "pending"
    BY <1>3, <1>5, <1>6, <1>10, Zenon
  <2>2. Head1 <= c
    BY <1>3, <2>1, HeadFacts, Zenon
  <2>3. d # Head1
    BY <1>10, <2>2 DEF Calls
  <2> QED
    BY <1>3, <1>5, <1>10, <2>1, <2>3, Zenon DEF FifoInv
<1>11. ~Busy' /\ stage' # "shutdown"
  BY <1>1, Zenon DEF Busy
<1> QED
  BY <1>1, <1>3, <1>4, <1>7, <1>8, <1>9, <1>10, <1>11, Zenon DEF FifoInv

\* A step that answers and admits nothing leaves the FIFO alone.
LEMMA SameFifo ==
  ASSUME FifoInv, UNCHANGED <<kind, result, queue>>, closeCalled => closeCalled',
         Busy' => queue # << >> /\ Head1 # CloseSlot,
         stage' = "shutdown" => queue # << >> /\ Head1 = CloseSlot
  PROVE  FifoInv'
BY Zenon DEF FifoInv, Calls, Head1

-----------------------------------------------------------------------------
(* The three ways a step treats the call that has its turn *)

\* Effects are those of calls that were answered, or of the head's call: every
\* call before it was answered.
LEMMA EffectsAreReached ==
  ASSUME FifoInv, EffectInv, queue # << >>, Head1 # CloseSlot, Runs(Head1),
         stored' \in {stored, live'}
  PROVE  Serial!Effect
<1>1. /\ Head1 \in Calls /\ result[Head1] = "pending"
      /\ \A c \in Calls : result[c] = "pending" => Head1 <= c
  BY HeadFacts, Zenon
<1>2. ASSUME NEW c \in live' \ live PROVE Serial!Reached(c)
  <2>1. c \in open \/ c = Head1
    BY Zenon DEF Runs
  <2>2. c \in Calls /\ (result[c] # "pending" \/ c = Head1)
    BY <1>1, <2>1, Zenon DEF EffectInv
  <2>3. ASSUME NEW d \in 1..(c - 1) PROVE result[d] # "pending"
    <3>1. d \in Calls /\ d < c
      BY <2>2 DEF Calls
    <3>2. CASE c = Head1
      BY <1>1, <3>1, <3>2
    <3>3. CASE result[c] # "pending"
      BY <2>2, <3>1, <3>3, Zenon DEF FifoInv
    <3> QED
      BY <2>2, <3>2, <3>3, Zenon
  <2> QED
    BY <2>2, <2>3, Zenon DEF Serial!Reached, Calls, FifoInv
<1> QED
  BY <1>2, Zenon DEF Serial!Effect, Runs

\* The turn ends: the call is answered.
LEMMA SettleSerial ==
  ASSUME CoreInv, queue # << >>, Head1 # CloseSlot,
         NEW r \in Answers \ {"pending"}, Settle(Head1, r),
         Runs(Head1), Worsens, stored' \in {stored, live'},
         r = "ok" /\ Head1 \in live' => Head1 \in stored',
         kind[Head1] = "transaction" =>
           /\ r = "ok" => Head1 \in stored'
           /\ r = "rolledBack" => Head1 \notin live' \cup open'
           /\ r = "error" /\ Usable' => Head1 \notin live' \cup open',
         Sound' => stored' = live',
         Sound' => \A c \in open' : kind[c] \in SelfContained
  PROVE  CoreInv' /\ SerialStep
<1>0. FifoInv /\ EffectInv /\ AnswerInv /\ SoundInv
  BY Zenon DEF CoreInv
<1>1. Head1 \in Calls /\ result[Head1] = "pending"
      /\ \A c \in Calls : result[c] = "pending" => Head1 <= c
  BY <1>0, HeadFacts, Zenon
<1>2. FifoInv'
  BY <1>0, SettleFifo, Zenon
<1>3. /\ result' = [result EXCEPT ![Head1] = r] /\ kind' = kind /\ stage' = "idle"
      /\ Calls' = Calls
  BY Zenon DEF Settle, Calls
<1>4. /\ result'[Head1] = r
      /\ \A c \in Calls : c # Head1 => result'[c] = result[c]
  BY <1>0, <1>1, <1>3 DEF FifoInv, Calls
<1>5. live' \subseteq Calls /\ open' \subseteq Calls /\ stored' \subseteq live'
  BY <1>0, <1>1, Zenon DEF EffectInv, Runs
<1>6. ASSUME NEW c \in live' \cup open' PROVE result'[c] # "pending"
  <2>1. c \in Calls /\ (c \in live \cup open \/ c = Head1)
    BY <1>5, Zenon DEF Runs
  <2> QED
    BY <1>0, <1>4, <2>1, Zenon DEF EffectInv
<1>7. EffectInv'
  BY <1>3, <1>5, <1>6, Zenon DEF EffectInv, Runs
<1>8. ASSUME NEW c \in Calls, kind[c] = "transaction"
      PROVE  /\ result'[c] = "ok" => c \in stored'
             /\ result'[c] = "rolledBack" => c \notin live' \cup open'
             /\ result'[c] = "error" /\ Usable' => c \notin live' \cup open'
  <2>1. CASE c = Head1
    BY <1>4, <1>8, <2>1, Zenon
  <2>2. CASE c # Head1
    <3>1. Usable' => Usable
      BY Zenon DEF Usable, Worsens
    <3>2. c \in live' \cup open' => c \in live \cup open
      BY <2>2, Zenon DEF Runs
    <3>3. c \in stored => c \in stored'
      BY <1>0, Zenon DEF EffectInv, Runs
    <3> QED
      BY <1>0, <1>4, <1>8, <3>1, <3>2, <3>3, Zenon DEF AnswerInv
  <2> QED
    BY <2>1, <2>2, Zenon
<1>9. AnswerInv'
  BY <1>3, <1>8, Zenon DEF AnswerInv
<1>10. SoundInv'
  BY <1>3, Zenon DEF SoundInv
<1>11. BodyInv' /\ StageInv'
  BY <1>3, Zenon DEF BodyInv, StageInv, TxStages, SelfContained, Busy
<1>12. Serial!Answer(Head1, r)
  <2>1. Serial!Effect
    BY <1>0, EffectsAreReached, Zenon
  <2>2. Serial!Reached(Head1)
    BY <1>0, <1>1 DEF Serial!Reached, Calls, FifoInv
  <2> QED
    BY <1>1, <1>3, <2>1, <2>2, Zenon DEF Serial!Answer
<1>13. SerialStep
  BY <1>0, <1>1, <1>12, Zenon DEF SerialStep, Serial!Next, Answers, Calls, FifoInv
<1> QED
  BY <1>2, <1>7, <1>9, <1>10, <1>11, <1>13, Zenon DEF CoreInv

\* The turn goes on.
LEMMA TurnSerial ==
  ASSUME CoreInv, queue # << >>, Head1 # CloseSlot,
         UNCHANGED <<kind, result, queue>>, closeCalled' = closeCalled, Busy',
         Runs(Head1), Worsens, stored' \in {stored, live'},
         SoundInv', BodyInv', StageInv'
  PROVE  CoreInv' /\ SerialStep
<1>0. FifoInv /\ EffectInv /\ AnswerInv
  BY Zenon DEF CoreInv
<1>1. Head1 \in Calls /\ result[Head1] = "pending"
  BY <1>0, HeadFacts, Zenon
<1>2. FifoInv'
  BY <1>0, SameFifo, Zenon DEF Busy
<1>3. Calls' = Calls /\ Head1' = Head1
  BY Zenon DEF Calls, Head1
<1>4. live' \subseteq Calls /\ open' \subseteq Calls /\ stored' \subseteq live'
  BY <1>0, <1>1, Zenon DEF EffectInv, Runs
<1>5. EffectInv'
  BY <1>0, <1>3, <1>4, Zenon DEF EffectInv, Runs
<1>6. ASSUME NEW c \in Calls, kind[c] = "transaction"
      PROVE  /\ result[c] = "ok" => c \in stored'
             /\ result[c] = "rolledBack" => c \notin live' \cup open'
             /\ result[c] = "error" /\ Usable' => c \notin live' \cup open'
  <2>1. Usable' => Usable
    BY Zenon DEF Usable, Worsens
  <2>2. c \in live' \cup open' => c \in live \cup open \/ c = Head1
    BY Zenon DEF Runs
  <2>3. c \in stored => c \in stored'
    BY <1>0, Zenon DEF EffectInv, Runs
  <2> QED
    BY <1>0, <1>1, <1>6, <2>1, <2>2, <2>3, Zenon DEF AnswerInv
<1>7. AnswerInv'
  BY <1>3, <1>6, Zenon DEF AnswerInv
<1>8. SerialStep
  BY <1>0, EffectsAreReached, Zenon DEF SerialStep, Serial!Next, Serial!Work
<1> QED
  BY <1>2, <1>5, <1>7, <1>8, Zenon DEF CoreInv

\* The turn of a call that is not a transaction goes on.
LEMMA PlainSerial ==
  ASSUME CoreInv, queue # << >>, Head1 # CloseSlot, kind[Head1] # "transaction",
         NEW next \in {"describe", "execute", "undo", "raw", "stream", "backup",
                       "tool", "reserve", "publish"},
         Await(next), next \in SelfContained => kind[Head1] = next,
         next = "publish" => verdict' \in Answers \ {"pending"},
         Runs(Head1), Worsens, stored' = stored,
         Sound' /\ next \notin {"undo", "publish"} => stored = live',
         Sound' => \A c \in open' : kind[c] \in SelfContained
                                   \/ (c = Head1 /\ next = "undo")
  PROVE  CoreInv' /\ SerialStep
<1>1. /\ UNCHANGED <<kind, result, queue>> /\ closeCalled' = closeCalled
      /\ stage' = next
  BY Zenon DEF Await, handle
<1>2. Busy' /\ Head1' = Head1
  BY <1>1, Zenon DEF Busy, Head1
<1>3. SoundInv'
  BY <1>1, <1>2, Zenon DEF SoundInv
<1>4. BodyInv'
  BY <1>1, Zenon DEF BodyInv
<1>5. StageInv'
  BY <1>1, <1>2, Zenon DEF StageInv, TxStages
<1> QED
  BY <1>1, <1>2, <1>3, <1>4, <1>5, TurnSerial, Zenon

\* The turn ends because the outcome of an exchange is unknown.
LEMMA UnknownSerial ==
  ASSUME CoreInv, Busy, ExchangeUnknown(Head1), Settle(Head1, "error"),
         stored' = stored
  PROVE  CoreInv' /\ SerialStep
<1>1. FifoInv /\ EffectInv
  BY Zenon DEF CoreInv
<1>2. Runs(Head1) /\ Worsens /\ ~assertHealthy'
  BY <1>1, UnknownStep, Zenon
<1>3. ~Usable' /\ ~Sound'
  BY <1>2, Zenon DEF Usable, Sound
<1>4. queue # << >> /\ Head1 # CloseSlot
  BY <1>1, Zenon DEF FifoInv
<1>5. "error" \in Answers \ {"pending"}
  BY Zenon DEF Answers
<1> QED
  BY <1>2, <1>3, <1>4, <1>5, SettleSerial, Zenon

\* What holds when the head of the FIFO is a call in stage st.
LEMMA TurnFacts ==
  ASSUME SerialInv, NEW c, Head1 = c, stage \notin {"idle", "shutdown"}
  PROVE  /\ Busy /\ queue # << >> /\ Head1 # CloseSlot /\ c \in Calls
         /\ CoreInv /\ EffectInv
         /\ stage \in Exchanging => assertHealthy
BY HeadFacts, Zenon DEF SerialInv, CoreInv, Busy, FifoInv, PoisonInv

-----------------------------------------------------------------------------
(* Calls that are not transactions *)

LEMMA StartSerial ==
  ASSUME SerialInv, NEW c \in Calls, StartSlot(c)
  PROVE  CoreInv' /\ SerialStep
<1>1. PICK k \in Kinds \ {"transaction"} :
        /\ queue # << >> /\ Head1 = c /\ stage = "idle" /\ kind[c] = k
        /\ \/ reservation[c] = "canceled" /\ Settle(c, "ok")
           \/ Settle(c, "error")
           \/ Await(IF k = "query" THEN "describe" ELSE k)
        /\ UNCHANGED <<poison, session, backend, stored>>
  BY Zenon DEF StartSlot, AtHead, Head1
<1>2. CoreInv /\ FifoInv /\ EffectInv /\ SoundInv
  BY Zenon DEF SerialInv, CoreInv
<1>3. /\ UNCHANGED <<status, open, live, sFailed, dead, stored>>
      /\ assertHealthy' = assertHealthy
  BY <1>1, Zenon DEF poison, session, backend, assertHealthy
<1>4. Runs(Head1) /\ Worsens
  BY <1>2, <1>3, NoBackendStep, Zenon DEF Worsens
<1>5. c # CloseSlot
  BY DEF Calls, CloseSlot
<1>6. /\ Sound' => stored' = live'
      /\ Sound' => \A d \in open' : kind[d] \in SelfContained
  BY <1>1, <1>2, <1>3, Zenon DEF SoundInv, Sound, Usable
<1>7. Head1 \notin live
  BY <1>1, <1>2, <1>5, HeadFacts, Zenon DEF EffectInv, Busy
<1>8. CASE Settle(c, "ok") \/ Settle(c, "error")
  <2>1. PICK r \in {"ok", "error"} : Settle(Head1, r)
    BY <1>1, <1>8, Zenon
  <2>2. r \in Answers \ {"pending"}
    BY Zenon DEF Answers
  <2> QED
    BY <1>1, <1>2, <1>3, <1>4, <1>5, <1>6, <1>7, <2>1, <2>2, SettleSerial, Zenon
<1>9. CASE Await(IF k = "query" THEN "describe" ELSE k)
  <2> DEFINE next == IF k = "query" THEN "describe" ELSE k
  <2>1. next \in {"describe", "execute", "raw", "stream", "backup", "tool", "reserve"}
    BY KindsAssumption, Zenon
  <2>2. next \in SelfContained => kind[Head1] = next
    BY <1>1, Zenon DEF SelfContained
  <2> HIDE DEF next
  <2>3. Await(next) /\ next # "publish" /\ kind[Head1] # "transaction"
    BY <1>1, <1>9, <2>1, Zenon DEF next
  <2> QED
    BY <1>1, <1>2, <1>4, <1>5, <1>6, <2>1, <2>2, <2>3, PlainSerial, Zenon
<1> QED
  BY <1>1, <1>8, <1>9, Zenon

LEMMA DescribeSerial ==
  ASSUME SerialInv, NEW c \in Calls, Describe(c)
  PROVE  CoreInv' /\ SerialStep
<1>1. stage = "describe" /\ Head1 = c /\ stored' = stored
  BY Zenon DEF Describe
<1>2. /\ Busy /\ queue # << >> /\ Head1 # CloseSlot /\ CoreInv /\ EffectInv
      /\ kind[Head1] # "transaction"
      /\ Sound => stored = live
      /\ Sound => \A d \in open : kind[d] \in SelfContained
  BY <1>1, TurnFacts, Zenon DEF CoreInv, StageInv, SoundInv, TxStages
<1>3. CASE ExchangeUnknown(c) /\ Settle(c, "error")
  BY <1>1, <1>2, <1>3, UnknownSerial, Zenon
<1>4. ASSUME NEW tag \in StageTags, ExecReturns(c, tag), UNCHANGED poison,
             \/ Await("undo") \/ Await("execute") \/ Publish("error")
      PROVE  CoreInv' /\ SerialStep
  <2>1. Runs(Head1) /\ Worsens
    BY <1>1, <1>2, <1>4, ReturnsStep, Zenon
  <2>2. open' = open /\ live' = live
    BY <1>1, <1>4, Zenon DEF StageTags, ExecReturns, BackendRuns, backend
  <2>3. /\ Sound' => stored = live'
        /\ Sound' => \A d \in open' : kind[d] \in SelfContained
    BY <1>2, <2>1, <2>2, Zenon DEF Sound, Usable, Worsens
  <2>4. CASE Await("undo")
    BY <1>1, <1>2, <2>1, <2>3, <2>4, PlainSerial, Zenon DEF SelfContained
  <2>5. CASE Await("execute")
    BY <1>1, <1>2, <2>1, <2>3, <2>5, PlainSerial, Zenon DEF SelfContained
  <2>6. CASE Publish("error")
    <3>1. Await("publish") /\ verdict' \in Answers \ {"pending"}
      BY <2>6, Zenon DEF Publish, Answers
    <3> QED
      BY <1>1, <1>2, <2>1, <2>3, <3>1, PlainSerial, Zenon DEF SelfContained
  <2> QED
    BY <1>4, <2>4, <2>5, <2>6, Zenon
<1> QED
  BY <1>3, <1>4, Zenon DEF Describe

LEMMA ExecuteSerial ==
  ASSUME SerialInv, NEW c \in Calls, Execute(c)
  PROVE  CoreInv' /\ SerialStep
<1>1. stage = "execute" /\ Head1 = c /\ stored' = stored
  BY Zenon DEF Execute
<1>2. /\ Busy /\ queue # << >> /\ Head1 # CloseSlot /\ CoreInv /\ EffectInv
      /\ kind[Head1] # "transaction"
      /\ Sound => \A d \in open : kind[d] \in SelfContained
  BY <1>1, TurnFacts, Zenon DEF CoreInv, StageInv, SoundInv, TxStages
<1>3. CASE ExchangeUnknown(c) /\ Settle(c, "error")
  BY <1>1, <1>2, <1>3, UnknownSerial, Zenon
<1>4. ASSUME NEW tag \in Tags, ExecReturns(c, tag), UNCHANGED poison
      PROVE  /\ Runs(Head1) /\ Worsens
             /\ Sound' => \A d \in open' : kind[d] \in SelfContained \/ d = Head1
  <2>1. Runs(Head1) /\ Worsens
    BY <1>1, <1>2, <1>4, ReturnsStep, Zenon
  <2> QED
    BY <1>2, <2>1, Zenon DEF Runs, Worsens, Sound, Usable
<1>5. ASSUME NEW tag \in Tags, ExecReturns(c, tag), UNCHANGED poison,
             Await("undo")
      PROVE  CoreInv' /\ SerialStep
  BY <1>1, <1>2, <1>4, <1>5, PlainSerial, Zenon DEF SelfContained
<1>6. ASSUME NEW tag \in Tags, ExecReturns(c, tag), UNCHANGED poison,
             status' = "idle", NEW r \in {"ok", "error"}, Publish(r)
      PROVE  CoreInv' /\ SerialStep
  <2>1. open' = {}
    BY <1>4, <1>6, Zenon DEF Runs
  <2>2. Await("publish") /\ verdict' \in Answers \ {"pending"}
    BY <1>6, Zenon DEF Publish, Answers
  <2> QED
    BY <1>1, <1>2, <1>4, <1>6, <2>1, <2>2, PlainSerial, Zenon DEF SelfContained
<1> QED
  BY <1>3, <1>5, <1>6, Zenon DEF Execute

LEMMA UndoSerial ==
  ASSUME SerialInv, NEW c \in Calls, Undo(c)
  PROVE  CoreInv' /\ SerialStep
<1>1. stage = "undo" /\ Head1 = c /\ stored' = stored
  BY Zenon DEF Undo
<1>2. /\ Busy /\ queue # << >> /\ Head1 # CloseSlot /\ CoreInv /\ EffectInv
      /\ kind[Head1] # "transaction"
  BY <1>1, TurnFacts, Zenon DEF CoreInv, StageInv, TxStages
<1>3. CASE ExchangeUnknown(c) /\ Settle(c, "error")
  BY <1>1, <1>2, <1>3, UnknownSerial, Zenon
<1>4. CASE ExecReturns(c, "rollback") /\ UNCHANGED poison /\ Publish("error")
  <2>1. Runs(Head1) /\ Worsens
    BY <1>1, <1>2, <1>4, ReturnsStep, Zenon
  <2>2. open' = {}
    BY <1>4, Zenon DEF ExecReturns, BackendRuns
  <2>3. Await("publish") /\ verdict' \in Answers \ {"pending"}
    BY <1>4, Zenon DEF Publish, Answers
  <2> QED
    BY <1>1, <1>2, <2>1, <2>2, <2>3, PlainSerial, Zenon DEF SelfContained
<1> QED
  BY <1>3, <1>4, Zenon DEF Undo, RollbackControl

\* Publication makes all that is committed durable, or poisons the handle.
LEMMA SyncSerial ==
  ASSUME SerialInv, NEW c \in Calls, SyncPersistence(c)
  PROVE  CoreInv' /\ SerialStep
<1>1. stage = "publish" /\ Head1 = c /\ UNCHANGED <<status, open, live>>
  BY Zenon DEF SyncPersistence, backend
<1>2. /\ queue # << >> /\ Head1 # CloseSlot /\ CoreInv /\ EffectInv /\ StageInv
      /\ Sound => \A d \in open : kind[d] \in SelfContained
  BY <1>1, TurnFacts, Zenon DEF CoreInv, SoundInv
<1>3. Runs(Head1)
  BY <1>1, <1>2, NoBackendStep, Zenon
<1>4. CASE stored' = live /\ Settle(c, verdict) /\ UNCHANGED <<session, poison>>
  <2>1. Worsens /\ (Sound' => Sound)
    BY <1>4, Zenon DEF session, poison, assertHealthy, Worsens, Sound, Usable
  <2>2. verdict \in Answers \ {"pending"}
    BY <1>1, <1>2, Zenon DEF StageInv
  <2>3. kind[Head1] = "transaction" =>
          IF verdict = "ok" THEN Head1 \in live ELSE Head1 \notin live \cup open
    BY <1>1, <1>2, Zenon DEF StageInv
  <2> QED
    BY <1>1, <1>2, <1>3, <1>4, <2>1, <2>2, <2>3, SettleSerial, Zenon
<1>5. CASE /\ persistenceFailure' = TRUE /\ stored' \in {stored, live}
           /\ Settle(c, "error") /\ sFailed' = TRUE /\ dead' = dead
  <2>1. Worsens /\ ~Usable' /\ ~Sound'
    BY <1>5, Zenon DEF assertHealthy, Worsens, Sound, Usable
  <2>2. "error" \in Answers \ {"pending"}
    BY Zenon DEF Answers
  <2> QED
    BY <1>1, <1>2, <1>3, <1>5, <2>1, <2>2, SettleSerial, Zenon
<1> QED
  BY <1>4, <1>5, Zenon DEF SyncPersistence

\* The outcomes of a protocol exchange that the session publishes itself.
LEMMA SelfPublished ==
  ASSUME SerialInv, NEW c \in Calls, Head1 = c, stage \in SelfContained,
         NEW r \in {"ok", "error"}, Settle(c, r), Worsens,
         \/ stored' = live' /\ \E tag \in Tags : ExecReturns(c, tag)
         \/ /\ r = "error" /\ ExecThrows(c)
            /\ stored' \in {stored, live'}
  PROVE  CoreInv' /\ SerialStep
<1>1. /\ queue # << >> /\ Head1 # CloseSlot /\ CoreInv /\ EffectInv
      /\ kind[Head1] = stage /\ kind[Head1] # "transaction"
      /\ Sound => \A d \in open : kind[d] \in SelfContained
  BY TurnFacts, Zenon DEF CoreInv, StageInv, SoundInv, SelfContained
<1>2. r \in Answers \ {"pending"}
  BY Zenon DEF Answers
<1>3. Sound' => Sound
  BY Zenon DEF Worsens, Sound, Usable
<1>4. CASE stored' = live' /\ \E tag \in Tags : ExecReturns(c, tag)
  <2>1. Runs(Head1)
    BY <1>1, <1>4, BackendStep, Zenon DEF ExecReturns
  <2>2. Sound' => \A d \in open' : kind[d] \in SelfContained
    BY <1>1, <1>3, <2>1, Zenon DEF Runs
  <2> QED
    BY <1>1, <1>2, <1>4, <2>1, <2>2, SettleSerial, Zenon
<1>5. CASE r = "error" /\ ExecThrows(c) /\ stored' \in {stored, live'}
  <2>1. Runs(Head1) /\ ~Sound'
    BY <1>1, <1>5, ThrowsStep, Zenon DEF Sound
  <2> QED
    BY <1>1, <1>2, <2>1, SettleSerial, Zenon
<1> QED
  BY <1>4, <1>5, Zenon

LEMMA RawSerial ==
  ASSUME SerialInv, NEW c \in Calls, Raw(c)
  PROVE  CoreInv' /\ SerialStep
<1>1. stage \in SelfContained /\ Head1 = c
  BY Zenon DEF Raw, SelfContained
<1>2. CASE \E tag \in Tags : ExecReturns(c, tag) /\ stored' = live'
                            /\ Settle(c, "ok") /\ UNCHANGED poison
  <2>1. Worsens
    BY <1>2 DEF ExecReturns, poison, assertHealthy, Worsens
  <2> QED
    BY <1>1, <1>2, <2>1, SelfPublished, Zenon
<1>3. CASE /\ ExecThrows(c) /\ persistenceFailure' \in {persistenceFailure, TRUE}
           /\ stored' \in {stored, live'} /\ Settle(c, "error")
           /\ UNCHANGED transactionFailure
  <2>1. persistenceFailure' = persistenceFailure \/ persistenceFailure' = TRUE
    BY <1>3, Zenon
  <2>2. assertHealthy' => assertHealthy
    BY <1>3, Zenon DEF assertHealthy
  <2>3. Worsens
    BY <1>3, <2>2, Zenon DEF ExecThrows, Worsens
  <2> QED
    BY <1>1, <1>3, <2>3, SelfPublished, Zenon
<1> QED
  BY <1>2, <1>3, Zenon DEF Raw

LEMMA StreamSerial ==
  ASSUME SerialInv, NEW c \in Calls, Stream(c)
  PROVE  CoreInv' /\ SerialStep
<1>1. stage \in SelfContained /\ Head1 = c
  BY Zenon DEF Stream, SelfContained
<1>2. ASSUME \E tag \in Tags : ExecReturns(c, tag), stored' = live',
             NEW aborted \in BOOLEAN, NEW consumerThrew \in BOOLEAN,
             Settle(c, IF aborted \/ consumerThrew THEN "error" ELSE "ok"),
             transactionFailure' = (transactionFailure \/ aborted # consumerThrew),
             UNCHANGED persistenceFailure
      PROVE  CoreInv' /\ SerialStep
  <2>1. Worsens
    BY <1>2, Zenon DEF ExecReturns, assertHealthy, Worsens
  <2>2. \E r \in {"ok", "error"} : Settle(c, r)
    BY <1>2, Zenon
  <2> QED
    BY <1>1, <1>2, <2>1, SelfPublished, Zenon
<1>3. CASE /\ ExecThrows(c) /\ recordUnknownExchange
           /\ stored' \in {stored, live'} /\ Settle(c, "error")
  <2>1. Worsens
    BY <1>3, Zenon DEF ExecThrows, recordUnknownExchange, assertHealthy, Worsens
  <2> QED
    BY <1>1, <1>3, <2>1, SelfPublished, Zenon
<1> QED
  BY <1>2, <1>3, Zenon DEF Stream

LEMMA BackupSerial ==
  ASSUME SerialInv, NEW c \in Calls, Backup(c)
  PROVE  CoreInv' /\ SerialStep
<1>1. /\ stage = "backup" /\ Head1 = c /\ stored' = stored
      /\ UNCHANGED <<status, open, live>> /\ dead' = dead
      /\ UNCHANGED poison
      /\ Publish("ok") \/ Settle(c, "error")
      /\ sFailed' = sFailed \/ sFailed' = TRUE
  BY Zenon DEF Backup, backend
<1>2. /\ queue # << >> /\ Head1 # CloseSlot /\ CoreInv /\ EffectInv
      /\ kind[Head1] # "transaction"
      /\ Sound => stored = live
      /\ Sound => \A d \in open : kind[d] \in SelfContained
  BY <1>1, TurnFacts, Zenon DEF CoreInv, StageInv, SoundInv, TxStages
<1>3. Runs(Head1) /\ Worsens
  <2>1. Runs(Head1)
    BY <1>1, <1>2, NoBackendStep, Zenon
  <2>2. assertHealthy' = assertHealthy
    BY <1>1, Zenon DEF poison, assertHealthy
  <2>3. dead => dead'
    BY <1>1, Zenon
  <2>4. sFailed => sFailed'
    BY <1>1, Zenon
  <2> QED
    BY <2>1, <2>2, <2>3, <2>4, Zenon DEF Worsens
<1>4. "ok" \in Answers \ {"pending"} /\ "error" \in Answers \ {"pending"}
  BY Zenon DEF Answers
<1>5. Sound' => Sound
  BY <1>3, Zenon DEF Worsens, Sound, Usable
<1>6. CASE Publish("ok")
  BY <1>1, <1>2, <1>3, <1>4, <1>5, <1>6, PlainSerial, Zenon DEF Publish, SelfContained
<1>7. CASE Settle(c, "error")
  BY <1>1, <1>2, <1>3, <1>4, <1>5, <1>7, SettleSerial, Zenon
<1> QED
  BY <1>1, <1>6, <1>7, Zenon

LEMMA OwnSerial ==
  ASSUME SerialInv, NEW c \in Calls, Own(c)
  PROVE  CoreInv' /\ SerialStep
<1>1. stage \in {"tool", "reserve"} /\ Head1 = c
  BY Zenon DEF Own
<1>2. /\ queue # << >> /\ Head1 # CloseSlot /\ CoreInv /\ EffectInv
      /\ kind[Head1] # "transaction" /\ assertHealthy
      /\ Sound => stored = live
      /\ Sound => \A d \in open : kind[d] \in SelfContained
  BY <1>1, TurnFacts, Zenon DEF CoreInv, StageInv, SoundInv, TxStages, Exchanging
<1>3. "ok" \in Answers \ {"pending"} /\ "error" \in Answers \ {"pending"}
  BY Zenon DEF Answers
<1>4. CASE Settle(c, "error") /\ UNCHANGED <<session, poison, backend, stored>>
  <2>1. UNCHANGED <<status, open, live>> /\ stored' = stored
    BY <1>4, Zenon DEF backend
  <2>2. Runs(Head1) /\ Worsens /\ (Sound' => Sound)
    BY <1>2, <1>4, <2>1, NoBackendStep, Zenon
    DEF session, poison, assertHealthy, Worsens, Sound, Usable
  <2> QED
    BY <1>1, <1>2, <1>3, <1>4, <2>1, <2>2, SettleSerial, Zenon
<1>5. ASSUME ~sFailed, ~dead, status' = "idle", open' = {},
             live' \in {live, live \cup {c}}, UNCHANGED dead,
             \/ stored' = live' /\ Settle(c, "ok")
             \/ /\ stored' \in {stored, live, live'} /\ Settle(c, "error")
                /\ sFailed' \in {stored' # live', TRUE}
      PROVE  CoreInv' /\ SerialStep
  <2>1. Sound /\ stored = live
    BY <1>2, <1>5, Zenon DEF Sound, Usable
  <2>2. Runs(Head1) /\ Worsens
    BY <1>1, <1>2, <1>5, Zenon DEF Runs, Worsens
  <2>3. stored' \in {stored, live'} /\ (Sound' => stored' = live')
    BY <1>5, <2>1, Zenon DEF Sound
  <2>4. \E r \in {"ok", "error"} : Settle(c, r) /\ (r = "ok" => stored' = live')
    BY <1>5, Zenon
  <2> QED
    BY <1>1, <1>2, <1>3, <1>5, <2>2, <2>3, SettleSerial, Zenon
<1> QED
  BY <1>4, <1>5, Zenon DEF Own

-----------------------------------------------------------------------------
(* Transactions *)

\* What holds in the stages of a transaction.
LEMMA TxFacts ==
  ASSUME SerialInv, NEW c \in Calls, Head1 = c, stage \in TxStages
  PROVE  /\ Busy /\ queue # << >> /\ Head1 # CloseSlot
         /\ CoreInv /\ EffectInv /\ StageInv /\ BodyInv
         /\ kind[Head1] = "transaction"
         /\ Sound => stored = live
         /\ Sound => \A d \in open : kind[d] \in SelfContained \/ d = Head1
BY TurnFacts, Zenon DEF CoreInv, StageInv, SoundInv, TxStages

\* A transaction whose effect is known publishes: it was committed, or it left
\* nothing.
LEMMA TxPublishes ==
  ASSUME SerialInv, NEW c \in Calls, Head1 = c, stage \in TxStages,
         NEW r \in Answers \ {"pending"}, Publish(r), Runs(c), Worsens,
         stored' = stored,
         IF r = "ok" THEN c \in live' ELSE c \notin live' \cup open',
         Sound' => \A d \in open' : kind[d] \in SelfContained
  PROVE  CoreInv' /\ SerialStep
<1>1. /\ queue # << >> /\ Head1 # CloseSlot /\ CoreInv
      /\ kind[Head1] = "transaction"
  BY TxFacts, Zenon
<1>2. /\ UNCHANGED <<kind, result, queue>> /\ closeCalled' = closeCalled
      /\ stage' = "publish" /\ verdict' = r
  BY Zenon DEF Publish, Await, handle
<1>3. Busy' /\ Head1' = c
  BY <1>2, Zenon DEF Busy, Head1
<1>4. SoundInv'
  BY <1>2, Zenon DEF SoundInv
<1>5. BodyInv' /\ StageInv'
  BY <1>1, <1>2, <1>3, Zenon DEF BodyInv, StageInv, SelfContained
<1> QED
  BY <1>1, <1>2, <1>3, <1>4, <1>5, TurnSerial, Zenon

\* A transaction that starts has no effect yet.
LEMMA TxStartSerial ==
  ASSUME SerialInv, NEW c \in Calls, TxStart(c)
  PROVE  CoreInv' /\ SerialStep
<1>1. /\ queue # << >> /\ Head1 = c /\ stage = "idle" /\ kind[c] = "transaction"
      /\ stored' = stored /\ UNCHANGED <<status, open, live>>
  BY Zenon DEF TxStart, AtHead, Head1, backend
<1>2. CoreInv /\ FifoInv /\ EffectInv /\ SoundInv /\ c # CloseSlot
  BY DEF SerialInv, CoreInv, Calls, CloseSlot
<1>3. c \notin live \cup open
  BY <1>1, <1>2, HeadFacts, Zenon DEF EffectInv, Busy
<1>4. Runs(Head1) /\ Worsens /\ (Sound' => Sound)
  BY <1>1, <1>2, NoBackendStep, Zenon
  DEF TxStart, session, poison, assertHealthy, Worsens, Sound, Usable
<1>5. /\ Sound => stored = live
      /\ Sound => \A d \in open : kind[d] \in SelfContained
  BY <1>1, <1>2, Zenon DEF SoundInv
<1>6. CASE Settle(c, "error")
  BY <1>1, <1>2, <1>3, <1>4, <1>5, <1>6, SettleSerial, Zenon DEF Answers
<1>7. CASE /\ stage' = "begin" /\ txQueue' = << >> /\ txRollback' = "none"
           /\ UNCHANGED <<kind, result, queue>> /\ closeCalled' = closeCalled
  <2>1. Busy' /\ Head1' = c
    BY <1>1, <1>7, Zenon DEF Busy, Head1
  <2>2. SoundInv'
    BY <1>1, <1>4, <1>5, <1>7, Zenon DEF SoundInv
  <2>3. BodyInv' /\ StageInv'
    BY <1>1, <1>3, <1>7, <2>1, Zenon DEF BodyInv, StageInv, TxStages, SelfContained
  <2> QED
    BY <1>1, <1>2, <1>4, <1>7, <2>1, <2>2, <2>3, TurnSerial, Zenon
<1> QED
  BY <1>6, <1>7, Zenon DEF TxStart

LEMMA TxBeginSerial ==
  ASSUME SerialInv, NEW c \in Calls, TxBegin(c)
  PROVE  CoreInv' /\ SerialStep
<1>1. stage = "begin" /\ Head1 = c /\ stored' = stored /\ stage \in TxStages
  BY Zenon DEF TxBegin, TxStages
<1>2. /\ Busy /\ queue # << >> /\ Head1 # CloseSlot /\ CoreInv /\ EffectInv
      /\ kind[c] = "transaction"
      /\ Sound => stored = live
      /\ ~dead => c \notin live \cup open
      /\ txQueue = << >> /\ txRollback = "none"
  BY <1>1, TxFacts, Zenon DEF StageInv, BodyInv
<1>3. Sound => \A d \in open : kind[d] \in SelfContained
  BY <1>1, <1>2, Zenon DEF CoreInv, SoundInv
<1>4. CASE ExchangeUnknown(c) /\ Settle(c, "error")
  BY <1>1, <1>2, <1>4, UnknownSerial, Zenon
<1>5. CASE ExecReturns(c, "begin") /\ Await("body") /\ UNCHANGED poison
  <2>1. Runs(c) /\ Worsens /\ ~dead
    BY <1>2, <1>5, ReturnsStep, Zenon
  <2>2. open' = open \cup {c} /\ live' = live
    BY <1>5, Zenon DEF ExecReturns, BackendRuns
  <2>3. /\ UNCHANGED <<kind, result, queue>> /\ closeCalled' = closeCalled
        /\ stage' = "body" /\ txQueue' = txQueue /\ txRollback' = txRollback
    BY <1>5, Zenon DEF Await, handle, txVars
  <2>4. Busy' /\ Head1' = c
    BY <1>1, <2>3, Zenon DEF Busy, Head1
  <2>5. SoundInv'
    BY <1>1, <1>2, <1>3, <2>1, <2>2, <2>3, <2>4, Zenon DEF SoundInv, Worsens, Sound, Usable
  <2>6. BodyInv'
    BY <1>2, <2>3 DEF BodyInv
  <2>7. StageInv'
    BY <1>2, <2>1, <2>2, <2>3, <2>4, Zenon DEF StageInv, TxStages, SelfContained
  <2> QED
    BY <1>1, <1>2, <2>1, <2>3, <2>4, <2>5, <2>6, <2>7, TurnSerial, Zenon
<1>6. CASE /\ ExecReturns(c, "error") /\ UNCHANGED poison
           /\ Publish("error") \/ Await("beginUndo")
  <2>1. Runs(c) /\ Worsens /\ ~dead
    BY <1>2, <1>6, ReturnsStep, Zenon
  <2>2. open' = open /\ live' = live
    BY <1>6, Zenon DEF ExecReturns, BackendRuns
  <2>3. Sound' => Sound
    BY <2>1, Zenon DEF Worsens, Sound, Usable
  <2>4. CASE Publish("error")
    BY <1>1, <1>2, <1>3, <2>1, <2>2, <2>3, <2>4, TxPublishes, Zenon DEF Answers
  <2>5. CASE Await("beginUndo")
    <3>1. /\ UNCHANGED <<kind, result, queue>> /\ closeCalled' = closeCalled
          /\ stage' = "beginUndo"
      BY <2>5, Zenon DEF Await, handle
    <3>2. Busy' /\ Head1' = c
      BY <1>1, <3>1, Zenon DEF Busy, Head1
    <3>3. SoundInv'
      BY <1>1, <1>2, <1>3, <2>2, <2>3, <3>1, Zenon DEF SoundInv
    <3>4. BodyInv' /\ StageInv'
      BY <1>2, <2>1, <2>2, <3>1, <3>2, Zenon DEF BodyInv, StageInv, TxStages, SelfContained
    <3> QED
      BY <1>1, <1>2, <2>1, <3>1, <3>2, <3>3, <3>4, TurnSerial, Zenon
  <2> QED
    BY <1>6, <2>4, <2>5, Zenon
<1> QED
  BY <1>4, <1>5, <1>6, Zenon DEF TxBegin

\* A ROLLBACK that PostgreSQL confirms leaves nothing of the transaction.
LEMMA RolledBackSerial ==
  ASSUME SerialInv, NEW c \in Calls, Head1 = c, stage \in {"beginUndo", "abandon"},
         RollbackControl(c, Publish("error"), Settle(c, "error")), stored' = stored
  PROVE  CoreInv' /\ SerialStep
<1>1. /\ stage \in TxStages /\ Busy /\ CoreInv /\ EffectInv
      /\ ~dead => c \notin live
  BY TxFacts, Zenon DEF StageInv, TxStages
<1>2. CASE ExchangeUnknown(c) /\ Settle(c, "error")
  BY <1>1, <1>2, UnknownSerial, Zenon
<1>3. CASE ExecReturns(c, "rollback") /\ UNCHANGED poison /\ Publish("error")
  <2>1. Runs(c) /\ Worsens /\ ~dead
    BY <1>1, <1>3, ReturnsStep, Zenon
  <2>2. open' = {} /\ live' = live
    BY <1>3, Zenon DEF ExecReturns, BackendRuns
  <2> QED
    BY <1>1, <1>3, <2>1, <2>2, TxPublishes, Zenon DEF Answers
<1> QED
  BY <1>2, <1>3, Zenon DEF RollbackControl

LEMMA TxBeginUndoSerial ==
  ASSUME SerialInv, NEW c \in Calls, TxBeginUndo(c)
  PROVE  CoreInv' /\ SerialStep
BY RolledBackSerial, Zenon DEF TxBeginUndo

LEMMA TxAbandonSerial ==
  ASSUME SerialInv, NEW c \in Calls, TxAbandon(c)
  PROVE  CoreInv' /\ SerialStep
BY RolledBackSerial, Zenon DEF TxAbandon

\* What the transaction holds decides how its turn goes on.
LEMMA TxFinishSerial ==
  ASSUME SerialInv, NEW c \in Calls, TxFinish(c)
  PROVE  CoreInv' /\ SerialStep
<1>1. /\ stage = "body" /\ Head1 = c /\ stage \in TxStages
      /\ stored' = stored /\ UNCHANGED <<status, open, live>>
  BY Zenon DEF TxFinish, TxStages, backend
<1>2. /\ Busy /\ queue # << >> /\ Head1 # CloseSlot /\ CoreInv /\ EffectInv
      /\ kind[c] = "transaction"
      /\ Sound => stored = live
      /\ Sound => \A d \in open : kind[d] \in SelfContained \/ d = Head1
  BY <1>1, TxFacts, Zenon
<1>3. /\ txRollback = "none" /\ Usable => c \in open \ live
      /\ txRollback = "done" => c \notin live \cup open
      /\ txRollback = "failed" => ~assertHealthy
  BY <1>1, <1>2, Zenon DEF CoreInv, StageInv, BodyInv
<1>4. assertHealthy' = assertHealthy /\ dead' = dead /\ sFailed' = sFailed
  BY Zenon DEF TxFinish, poison, session, assertHealthy
<1>5. Runs(c) /\ Worsens /\ (Sound' => Sound)
  BY <1>1, <1>2, <1>4, NoBackendStep, Zenon DEF Worsens, Sound, Usable
<1>6. CASE Settle(c, "error") /\ ~assertHealthy
  <2>1. ~Usable' /\ ~Sound'
    BY <1>4, <1>6, Zenon DEF Usable, Sound
  <2> QED
    BY <1>1, <1>2, <1>5, <1>6, <2>1, SettleSerial, Zenon DEF Answers
<1>7. CASE txRollback = "done" /\ Publish(IF body = "returned" THEN "rolledBack" ELSE "error")
  <2>1. PICK r \in {"rolledBack", "error"} : Publish(r)
    BY <1>7, Zenon
  <2>2. Sound' => \A d \in open' : kind[d] \in SelfContained
    BY <1>1, <1>2, <1>3, <1>5, <1>7, Zenon
  <2> QED
    BY <1>1, <1>3, <1>5, <1>7, <2>2, TxPublishes, Zenon DEF Answers
<1>8. ASSUME txRollback = "none", assertHealthy,
             NEW next \in {"abandon", "commit"}, Await(next)
      PROVE  CoreInv' /\ SerialStep
  <2>1. /\ UNCHANGED <<kind, result, queue>> /\ closeCalled' = closeCalled
        /\ stage' = next
    BY <1>8, Zenon DEF Await, handle
  <2>2. Busy' /\ Head1' = c
    BY <1>1, <2>1, Zenon DEF Busy, Head1
  <2>3. SoundInv'
    BY <1>1, <1>2, <1>5, <2>1, <2>2, Zenon DEF SoundInv
  <2>4. ~dead' => c \in open' \ live'
    BY <1>1, <1>3, <1>4, <1>8, Zenon DEF Usable
  <2>5. BodyInv' /\ StageInv'
    BY <1>2, <2>1, <2>2, <2>4, Zenon DEF BodyInv, StageInv, TxStages, SelfContained
  <2> QED
    BY <1>1, <1>2, <1>5, <2>1, <2>2, <2>3, <2>5, TurnSerial, Zenon
<1> QED
  BY <1>3, <1>6, <1>7, <1>8, Zenon DEF TxFinish

LEMMA TxCommitSerial ==
  ASSUME SerialInv, NEW c \in Calls, TxCommit(c)
  PROVE  CoreInv' /\ SerialStep
<1>1. stage = "commit" /\ Head1 = c /\ stored' = stored /\ stage \in TxStages
  BY Zenon DEF TxCommit, TxStages
<1>2. /\ Busy /\ queue # << >> /\ Head1 # CloseSlot /\ CoreInv /\ EffectInv
      /\ ~dead => c \in open \ live
  BY <1>1, TxFacts, Zenon DEF StageInv
<1>3. CASE ExecReturns(c, "commit") /\ Publish("ok") /\ UNCHANGED poison
  <2>1. Runs(c) /\ Worsens /\ ~dead
    BY <1>2, <1>3, ReturnsStep, Zenon
  <2>2. open' = {} /\ live' = live \cup open
    BY <1>3, Zenon DEF ExecReturns, BackendRuns
  <2> QED
    BY <1>1, <1>2, <1>3, <2>1, <2>2, TxPublishes, Zenon DEF Answers
<1>4. CASE ExecReturns(c, "rollback") /\ Publish("error") /\ UNCHANGED poison
  <2>1. Runs(c) /\ Worsens /\ ~dead
    BY <1>2, <1>4, ReturnsStep, Zenon
  <2>2. open' = {} /\ live' = live
    BY <1>4, Zenon DEF ExecReturns, BackendRuns
  <2> QED
    BY <1>1, <1>2, <1>4, <2>1, <2>2, TxPublishes, Zenon DEF Answers
<1>5. CASE /\ ExecReturns(c, "rollback") /\ transactionFailure' = TRUE
           /\ Settle(c, "error")
  <2>1. Runs(c) /\ dead' = dead /\ sFailed' = sFailed
    BY <1>2, <1>5, BackendStep, Zenon DEF ExecReturns, session
  <2>2. Worsens /\ ~Usable' /\ ~Sound'
    BY <1>5, <2>1, Zenon DEF assertHealthy, Worsens, Usable, Sound
  <2> QED
    BY <1>1, <1>2, <1>5, <2>1, <2>2, SettleSerial, Zenon DEF Answers
<1>6. CASE ExchangeUnknown(c) /\ Settle(c, "error")
  BY <1>1, <1>2, <1>6, UnknownSerial, Zenon
<1> QED
  BY <1>3, <1>4, <1>5, <1>6, Zenon DEF TxCommit

-----------------------------------------------------------------------------
(* The body of a transaction *)

\* The transaction's own FIFO moves on.
LEMMA DoneBody ==
  ASSUME BodyInv, stage = "body", stage' = "body",
         txQueue \in Seq({"operation", "rollback"}), txQueue # << >>,
         NEW failed \in BOOLEAN, TxDone(failed),
         failed /\ txQueue[1] = "rollback" => ~assertHealthy'
  PROVE  /\ BodyInv'
         /\ txRollback \in {"none", "pending"}
         /\ txRollback' = IF txQueue[1] = "operation" THEN txRollback
                          ELSE IF failed THEN "failed" ELSE "done"
<1>1. /\ txQueue' = Tail(txQueue)
      /\ IF txQueue[1] = "rollback"
         THEN txRollback' = (IF failed THEN "failed" ELSE "done") /\ txState' = "closed"
         ELSE txRollback' = txRollback /\ txState' = txState
  BY Zenon DEF TxDone
<1>2. /\ Len(txQueue') = Len(txQueue) - 1 /\ txQueue[1] \in {"operation", "rollback"}
      /\ 1 \in 1..Len(txQueue) /\ txQueue' \in Seq({"operation", "rollback"})
      /\ \A i \in 1..Len(txQueue') : txQueue'[i] = txQueue[i + 1] /\ i + 1 \in 1..Len(txQueue)
  BY <1>1
<1>3. txRollback \in {"none", "pending"}
  BY Zenon DEF BodyInv
<1>4. CASE txRollback = "none"
  <2>1. txQueue[1] = "operation"
    BY <1>2, <1>4, Zenon DEF BodyInv
  <2>2. \A i \in 1..Len(txQueue') : txQueue'[i] = "operation"
    BY <1>2, <1>4 DEF BodyInv
  <2> QED
    BY <1>1, <1>4, <2>1, <2>2, Zenon DEF BodyInv
<1>5. CASE txRollback = "pending" /\ txQueue[1] = "operation"
  <2>1. \A i \in 1..Len(txQueue) : txQueue[i] = "rollback" <=> i = Len(txQueue)
    BY <1>5, Zenon DEF BodyInv
  <2>2. Len(txQueue) # 1
    BY <1>2, <1>5, <2>1, Zenon
  <2>3. txQueue' # << >>
    BY <1>2, <2>2
  <2>4. \A i \in 1..Len(txQueue') : txQueue'[i] = "rollback" <=> i = Len(txQueue')
    BY <1>2, <2>1
  <2>5. txState' # "active"
    BY <1>1, <1>5, Zenon DEF BodyInv
  <2> QED
    BY <1>1, <1>5, <2>3, <2>4, Zenon DEF BodyInv
<1>6. CASE txRollback = "pending" /\ txQueue[1] = "rollback"
  <2>1. Len(txQueue) = 1
    BY <1>2, <1>6, Zenon DEF BodyInv
  <2>2. txQueue' = << >>
    BY <1>2, <2>1
  <2> QED
    BY <1>1, <1>6, <2>2, Zenon DEF BodyInv
<1> QED
  BY <1>2, <1>3, <1>4, <1>5, <1>6, Zenon

\* The body calls an operation of its transaction.
LEMMA TxCallSerial ==
  ASSUME SerialInv, NEW op \in {"operation", "rollback"}, TxCall(op)
  PROVE  CoreInv' /\ SerialStep
<1>1. /\ stage = "body" /\ stage' = stage /\ txState = "active"
      /\ UNCHANGED <<kind, result, queue>> /\ closeCalled' = closeCalled
      /\ UNCHANGED <<status, open, live>> /\ stored' = stored
      /\ assertHealthy' = assertHealthy /\ dead' = dead /\ sFailed' = sFailed
  BY Zenon DEF TxCall, handle, poison, session, backend, assertHealthy
<1>2. /\ queue # << >> /\ Head1 # CloseSlot /\ Head1 \in Calls /\ stage \in TxStages
      /\ CoreInv /\ EffectInv /\ BodyInv /\ StageInv /\ SoundInv /\ PoisonInv
  BY <1>1, TurnFacts, Zenon DEF SerialInv, CoreInv, TxStages
<1>3. Runs(Head1) /\ Worsens /\ (Sound' => Sound) /\ (Usable' => Usable)
  BY <1>1, <1>2, NoBackendStep, Zenon DEF Worsens, Sound, Usable
<1>4. /\ txRollback = "none" /\ txQueue \in Seq({"operation", "rollback"})
      /\ \A i \in 1..Len(txQueue) : txQueue[i] = "operation"
  BY <1>1, <1>2, Zenon DEF BodyInv, PoisonInv
<1>5. /\ txQueue' = Append(txQueue, op)
      /\ IF op = "rollback" THEN txState' = "finishing" /\ txRollback' = "pending"
         ELSE txRollback' = txRollback
  BY Zenon DEF TxCall
<1>6. /\ txQueue' # << >> /\ Len(txQueue') = Len(txQueue) + 1
      /\ txQueue'[Len(txQueue')] = op
      /\ \A i \in 1..Len(txQueue') : i # Len(txQueue') => txQueue'[i] = "operation"
  BY <1>4, <1>5
<1>7. BodyInv'
  <2>1. CASE op = "rollback"
    BY <1>1, <1>5, <1>6, <2>1, Zenon DEF BodyInv
  <2>2. CASE op = "operation"
    BY <1>1, <1>4, <1>5, <1>6, Zenon DEF BodyInv
  <2> QED
    BY <2>1, <2>2, Zenon
<1>8. Busy' /\ Head1' = Head1
  BY <1>1, Zenon DEF Busy, Head1
<1>9. SoundInv'
  BY <1>1, <1>2, <1>3, <1>8, Zenon DEF SoundInv
<1>10. Usable' => Head1 \in open \ live
  BY <1>1, <1>2, <1>3, <1>4, Zenon DEF StageInv
<1>11. txRollback' \in {"none", "pending"}
  BY <1>4, <1>5, Zenon
<1>12. StageInv'
  BY <1>1, <1>2, <1>8, <1>10, <1>11, Zenon DEF StageInv
<1> QED
  BY <1>1, <1>2, <1>3, <1>7, <1>8, <1>9, <1>12, TurnSerial, Zenon

LEMMA BodyEndsSerial ==
  ASSUME SerialInv, NEW how, BodyEnds(how)
  PROVE  CoreInv' /\ SerialStep
<1>1. /\ stage = "body" /\ stage' = stage
      /\ UNCHANGED <<kind, result, queue>> /\ closeCalled' = closeCalled
      /\ UNCHANGED <<status, open, live>> /\ stored' = stored
      /\ assertHealthy' = assertHealthy /\ dead' = dead /\ sFailed' = sFailed
      /\ txQueue' = txQueue /\ txRollback' = txRollback
      /\ txState' # "active"
  BY Zenon DEF BodyEnds, handle, poison, session, backend, assertHealthy
<1>2. /\ queue # << >> /\ Head1 # CloseSlot /\ stage \in TxStages
      /\ CoreInv /\ EffectInv /\ BodyInv /\ StageInv /\ SoundInv
  BY <1>1, TurnFacts, Zenon DEF CoreInv, TxStages
<1>3. Runs(Head1) /\ Worsens /\ (Sound' => Sound) /\ (Usable' => Usable)
  BY <1>1, <1>2, NoBackendStep, Zenon DEF Worsens, Sound, Usable
<1>4. Busy' /\ Head1' = Head1
  BY <1>1, Zenon DEF Busy, Head1
<1>5. SoundInv'
  BY <1>1, <1>2, <1>3, <1>4, Zenon DEF SoundInv
<1>6. BodyInv'
  BY <1>1, <1>2, Zenon DEF BodyInv
<1>7. StageInv'
  BY <1>1, <1>2, <1>3, <1>4, Zenon DEF StageInv
<1> QED
  BY <1>1, <1>2, <1>3, <1>4, <1>5, <1>6, <1>7, TurnSerial, Zenon

LEMMA TxOpStartSerial ==
  ASSUME SerialInv, TxOpStart
  PROVE  CoreInv' /\ SerialStep
<1>1. /\ stage = "body" /\ stage' = stage /\ txQueue # << >>
      /\ UNCHANGED <<kind, result, queue>> /\ closeCalled' = closeCalled
      /\ UNCHANGED <<status, open, live>> /\ stored' = stored
      /\ assertHealthy' = assertHealthy /\ dead' = dead /\ sFailed' = sFailed
  BY Zenon DEF TxOpStart, handle, poison, session, backend, assertHealthy
<1>2. /\ queue # << >> /\ Head1 # CloseSlot /\ stage \in TxStages
      /\ CoreInv /\ EffectInv /\ BodyInv /\ StageInv /\ SoundInv
      /\ txQueue \in Seq({"operation", "rollback"})
  BY <1>1, TurnFacts, Zenon DEF SerialInv, CoreInv, TxStages, PoisonInv
<1>3. Runs(Head1) /\ Worsens /\ (Sound' => Sound) /\ (Usable' => Usable)
  BY <1>1, <1>2, NoBackendStep, Zenon DEF Worsens, Sound, Usable
<1>4. Busy' /\ Head1' = Head1
  BY <1>1, Zenon DEF Busy, Head1
<1>5. SoundInv'
  BY <1>1, <1>2, <1>3, <1>4, Zenon DEF SoundInv
<1>6. CASE assertHealthy
  <2>1. txQueue' = txQueue /\ txRollback' = txRollback /\ txState' = txState
    BY <1>6, Zenon DEF TxOpStart
  <2>2. BodyInv'
    BY <1>1, <1>2, <2>1, Zenon DEF BodyInv
  <2>3. StageInv'
    BY <1>1, <1>2, <1>3, <1>4, <2>1, Zenon DEF StageInv
  <2> QED
    BY <1>1, <1>2, <1>3, <1>4, <1>5, <2>2, <2>3, TurnSerial, Zenon
<1>7. CASE ~assertHealthy
  <2>1. TxDone(TRUE) /\ ~assertHealthy'
    BY <1>1, <1>7, Zenon DEF TxOpStart
  <2>2. BodyInv' /\ txRollback' # "done"
    BY <1>1, <1>2, <2>1, DoneBody, Zenon
  <2>3. StageInv'
    BY <1>1, <1>2, <1>4, <2>1, <2>2, Zenon DEF StageInv, Usable
  <2> QED
    BY <1>1, <1>2, <1>3, <1>4, <1>5, <2>2, <2>3, TurnSerial, Zenon
<1> QED
  BY <1>6, <1>7, Zenon

\* A managed statement of the body keeps its transaction open.
LEMMA ManagedStep ==
  ASSUME NEW c, NEW tag \in TransactionTags, BackendRuns(c, tag), ManagedResponse(tag)
  PROVE  open \subseteq open' /\ live' = live
BY Zenon DEF TransactionTags, BackendRuns, backend, ManagedResponse

LEMMA TxOpReplySerial ==
  ASSUME SerialInv, TxOpReply
  PROVE  CoreInv' /\ SerialStep
<1>1. /\ stage = "body" /\ stage' = stage /\ txBusy
      /\ UNCHANGED <<kind, result, queue>> /\ closeCalled' = closeCalled
      /\ stored' = stored
  BY Zenon DEF TxOpReply, handle
<1>2. /\ queue # << >> /\ Head1 # CloseSlot /\ stage \in TxStages
      /\ CoreInv /\ EffectInv /\ BodyInv /\ StageInv /\ SoundInv
      /\ txQueue \in Seq({"operation", "rollback"}) /\ txQueue # << >> /\ assertHealthy
  BY <1>1, TurnFacts, Zenon DEF SerialInv, CoreInv, TxStages, PoisonInv
<1>3. Busy' /\ Head1' = Head1
  BY <1>1, Zenon DEF Busy, Head1
<1>4. ASSUME NEW failed \in BOOLEAN, TxDone(failed), Runs(Head1), Worsens, ~assertHealthy',
             txQueue[1] = "rollback" => failed
      PROVE  CoreInv' /\ SerialStep
  <2>1. BodyInv' /\ txRollback' # "done"
    BY <1>1, <1>2, <1>4, DoneBody
  <2>2. SoundInv'
    BY <1>4, Zenon DEF SoundInv, Sound, Usable
  <2>3. StageInv'
    BY <1>1, <1>2, <1>3, <1>4, <2>1, Zenon DEF StageInv, Usable
  <2> QED
    BY <1>1, <1>2, <1>3, <1>4, <2>1, <2>2, <2>3, TurnSerial, Zenon
<1>5. ASSUME NEW failed \in BOOLEAN, TxDone(failed), txQueue[1] = "operation",
             NEW tag \in TransactionTags, ExecReturns(Head1, tag), ManagedResponse(tag),
             UNCHANGED poison
      PROVE  CoreInv' /\ SerialStep
  <2>1. Runs(Head1) /\ Worsens
    BY <1>2, <1>5, ReturnsStep, Zenon
  <2>2. open \subseteq open' /\ live' = live
    BY <1>5, ManagedStep, Zenon DEF ExecReturns
  <2>3. /\ BodyInv' /\ txRollback' = txRollback /\ txRollback \in {"none", "pending"}
    BY <1>1, <1>2, <1>5, DoneBody, Zenon
  <2>4. Usable' => Head1 \in open' \ live'
    BY <1>1, <1>2, <2>1, <2>2, <2>3, Zenon DEF StageInv, Worsens, Usable
  <2>5. StageInv'
    BY <1>1, <1>2, <1>3, <2>3, <2>4, Zenon DEF StageInv
  <2>6. SoundInv'
    BY <1>1, <1>2, <1>3, <2>1, <2>2, Zenon DEF SoundInv, Runs, Worsens, Sound, Usable
  <2> QED
    BY <1>1, <1>2, <1>3, <2>1, <2>3, <2>5, <2>6, TurnSerial, Zenon
<1>6. ASSUME TxDone(FALSE), txQueue[1] = "rollback", ExecReturns(Head1, "rollback"),
             UNCHANGED poison
      PROVE  CoreInv' /\ SerialStep
  <2>1. Runs(Head1) /\ Worsens /\ ~dead
    BY <1>2, <1>6, ReturnsStep, Zenon
  <2>2. open' = {} /\ live' = live
    BY <1>6, Zenon DEF ExecReturns, BackendRuns
  <2>3. /\ BodyInv' /\ txRollback' = "done" /\ txRollback \in {"none", "pending"}
    BY <1>1, <1>2, <1>6, DoneBody, Zenon
  <2>4. Head1 \notin live
    BY <1>1, <1>2, <2>1, <2>3, Zenon DEF StageInv, Usable
  <2>5. StageInv'
    BY <1>1, <1>2, <1>3, <2>2, <2>3, <2>4, Zenon DEF StageInv
  <2>6. SoundInv'
    BY <1>1, <1>2, <2>1, <2>2, Zenon DEF SoundInv, Worsens, Sound, Usable
  <2> QED
    BY <1>1, <1>2, <1>3, <2>1, <2>3, <2>5, <2>6, TurnSerial, Zenon
<1>7. CASE /\ txQueue[1] = "operation"
           /\ \E tag \in StageTags :
                /\ ExecReturns(Head1, tag)
                /\ IF ManagedResponse(tag)
                   THEN /\ TxDone(tag = "error") \/ TxDone(TRUE)
                        /\ UNCHANGED poison
                   ELSE /\ TxDone(TRUE)
                        /\ transactionFailure' = TRUE
                        /\ UNCHANGED persistenceFailure
  <2>1. PICK tag \in TransactionTags :
          /\ ExecReturns(Head1, tag)
          /\ IF ManagedResponse(tag)
             THEN /\ TxDone(tag = "error") \/ TxDone(TRUE)
                  /\ UNCHANGED poison
             ELSE /\ TxDone(TRUE)
                  /\ transactionFailure' = TRUE
                  /\ UNCHANGED persistenceFailure
    BY <1>1, <1>7, Zenon DEF StageTags
  <2>2. CASE ManagedResponse(tag)
    <3>1. PICK failed \in BOOLEAN : TxDone(failed)
      BY <2>1, Zenon
    <3> QED
      BY <1>5, <1>7, <2>1, <2>2, Zenon
  <2>3. CASE ~ManagedResponse(tag)
    <3>1. Runs(Head1)
      BY <1>2, <2>1, BackendStep, Zenon DEF ExecReturns
    <3>2. Worsens /\ ~assertHealthy'
      BY <2>1, <2>3, Zenon DEF ExecReturns, Worsens, assertHealthy
    <3> QED
      BY <1>4, <1>7, <3>1, <3>2, Zenon
  <2> QED
    BY <2>2, <2>3, Zenon
<1>8. CASE ExchangeUnknown(Head1) /\ TxDone(TRUE)
  BY <1>2, <1>4, <1>8, UnknownStep, Zenon
<1> QED
  BY <1>6, <1>7, <1>8, Zenon DEF TxOpReply, RollbackControl

-----------------------------------------------------------------------------
(* Admission, close and the worker *)

\* A step that leaves the calls, their effects and the transaction alone.
LEMMA SameSerial ==
  ASSUME CoreInv, UNCHANGED <<kind, result, queue, stage, verdict>>,
         closeCalled => closeCalled', UNCHANGED <<status, open, live>>, stored' = stored,
         UNCHANGED <<txState, txQueue, txRollback>>,
         assertHealthy' = assertHealthy, dead => dead', sFailed' = sFailed
  PROVE  CoreInv' /\ SerialStep
<1>1. Calls' = Calls /\ Head1' = Head1 /\ Busy' = Busy
  BY Zenon DEF Calls, Head1, Busy
<1>2. (Usable' => Usable) /\ (Sound' => Sound)
  BY Zenon DEF Usable, Sound
<1>3. FifoInv'
  BY <1>1, Zenon DEF CoreInv, FifoInv
<1>4. EffectInv'
  BY <1>1, Zenon DEF CoreInv, EffectInv
<1>5. AnswerInv'
  BY <1>1, <1>2, Zenon DEF CoreInv, AnswerInv
<1>6. SoundInv'
  BY <1>1, <1>2, Zenon DEF CoreInv, SoundInv
<1>7. BodyInv'
  BY Zenon DEF CoreInv, BodyInv
<1>8. StageInv'
  BY <1>1, <1>2, Zenon DEF CoreInv, StageInv
<1> QED
  BY <1>3, <1>4, <1>5, <1>6, <1>7, <1>8, Zenon DEF CoreInv, SerialStep

\* A call is admitted only before close, and it is the last of the FIFO.
LEMMA CallSerial ==
  ASSUME SerialInv, NEW k \in Kinds, Call(k)
  PROVE  CoreInv' /\ SerialStep
<1>1. /\ kind' = Append(kind, k) /\ result' = Append(result, "pending")
      /\ queue' = Append(queue, Len(kind) + 1) /\ closeCalled' = closeCalled
      /\ stage' = stage /\ verdict' = verdict /\ stored' = stored
      /\ UNCHANGED <<status, open, live>> /\ UNCHANGED <<txState, txQueue, txRollback>>
      /\ assertHealthy' = assertHealthy /\ dead' = dead /\ sFailed' = sFailed
  BY Zenon DEF Call, txVars, poison, session, backend, assertHealthy
<1>2. FifoInv /\ EffectInv /\ AnswerInv /\ SoundInv /\ BodyInv /\ StageInv
  BY Zenon DEF SerialInv, CoreInv
<1>3. ~closeCalled
  BY Zenon DEF Call, assertAvailable, assertOpen, SerialInv, CloseInv
<1>4. /\ Len(kind) \in Nat /\ Len(result) = Len(kind)
      /\ kind' \in Seq(Kinds) /\ result' \in Seq(Answers) /\ queue' \in Seq(Nat)
      /\ Len(kind') = Len(kind) + 1 /\ Len(result') = Len(kind')
  BY <1>1, <1>2 DEF FifoInv, Answers
<1>5. /\ Calls' = Calls \cup {Len(kind) + 1} /\ Len(kind) + 1 \notin Calls
      /\ \A c \in Calls : c \in Nat /\ c # CloseSlot /\ c < Len(kind) + 1
  BY <1>4 DEF Calls, CloseSlot
<1>6. /\ \A c \in Calls : kind'[c] = kind[c] /\ result'[c] = result[c]
      /\ result'[Len(kind) + 1] = "pending"
  BY <1>1, <1>4 DEF Calls
<1>7. /\ Len(queue') = Len(queue) + 1 /\ Len(queue) \in Nat
      /\ \A i \in 1..Len(queue) : queue'[i] = queue[i] /\ queue[i] \in Calls
      /\ queue'[Len(queue')] = Len(kind) + 1
  BY <1>1, <1>2, <1>3 DEF FifoInv
<1>8. (queue # << >> => Head1' = Head1 /\ queue' # << >>) /\ Busy' = Busy
  <2>1. queue \in Seq(Nat) /\ Len(kind) + 1 \in Nat
    BY <1>2 DEF FifoInv
  <2> QED
    BY <1>1, <2>1, AppendHead DEF Busy
<1>9. FifoInv'
  <2>1. ASSUME NEW i \in 1..Len(queue')
        PROVE  queue'[i] # CloseSlot /\ queue'[i] \in Calls' /\ result'[queue'[i]] = "pending"
    <3>1. CASE i = Len(queue')
      BY <1>5, <1>6, <1>7, <3>1 DEF CloseSlot
    <3>2. CASE i \in 1..Len(queue)
      <4>1. queue'[i] = queue[i] /\ queue[i] \in Calls /\ queue[i] # CloseSlot
        BY <1>5, <1>7, <3>2, Zenon
      <4>2. result[queue[i]] = "pending"
        BY <1>2, <3>2, <4>1, Zenon DEF FifoInv
      <4> QED
        BY <1>5, <1>6, <4>1, <4>2, Zenon
    <3> QED
      BY <1>7, <3>1, <3>2
  <2>2. ASSUME NEW i \in 1..Len(queue'), NEW j \in 1..Len(queue'), i < j
        PROVE  queue'[i] < queue'[j]
    <3>1. i \in 1..Len(queue)
      BY <1>7, <2>2
    <3>2. CASE j = Len(queue')
      BY <1>5, <1>7, <3>1, <3>2, Zenon
    <3>3. CASE j \in 1..Len(queue)
      BY <1>2, <1>5, <1>7, <2>2, <3>1, <3>3, Zenon DEF FifoInv
    <3> QED
      BY <1>7, <3>2, <3>3
  <2>3. ASSUME NEW c \in Calls', result'[c] = "pending"
        PROVE  \E i \in 1..Len(queue') : queue'[i] = c
    <3>1. CASE c = Len(kind) + 1
      BY <1>7, <3>1
    <3>2. CASE c \in Calls
      <4>1. PICK i \in 1..Len(queue) : queue[i] = c
        BY <1>2, <1>6, <2>3, <3>2, Zenon DEF FifoInv
      <4> QED
        BY <1>7, <4>1
    <3> QED
      BY <1>5, <3>1, <3>2, Zenon
  <2>4. ASSUME NEW c \in Calls', NEW d \in Calls', c < d, result'[c] = "pending"
        PROVE  result'[d] = "pending"
    <3>1. c \in Calls
      BY <1>5, <2>4
    <3>2. CASE d \in Calls
      <4>1. result[c] = "pending" => result[d] = "pending"
        BY <1>2, <2>4, <3>1, <3>2 DEF FifoInv
      <4> QED
        BY <1>6, <2>4, <3>1, <3>2, <4>1
    <3> QED
      BY <1>5, <1>6, <3>2, Zenon
  <2>5. (Busy' => queue' # << >> /\ Head1' # CloseSlot) /\ stage' # "shutdown"
    BY <1>1, <1>2, <1>3, <1>8 DEF FifoInv, Head1
  <2> QED
    BY <1>4, <2>1, <2>2, <2>3, <2>4, <2>5, Zenon DEF FifoInv
<1>10. EffectInv'
  BY <1>1, <1>2, <1>5, <1>6, <1>8, Zenon DEF EffectInv, FifoInv
<1>11. AnswerInv'
  <2>1. Usable' = Usable
    BY <1>1, Zenon DEF Usable
  <2> QED
    BY <1>1, <1>2, <1>5, <1>6, <2>1, Zenon DEF AnswerInv
<1>12. SoundInv'
  <2>1. Sound' = Sound
    BY <1>1, Zenon DEF Sound, Usable
  <2>2. open \subseteq Calls /\ (stage \in {"undo", "body", "abandon", "commit"} => Busy)
    BY <1>2, Zenon DEF EffectInv, Busy
  <2> QED
    BY <1>1, <1>2, <1>6, <1>8, <2>1, <2>2, Zenon DEF SoundInv, FifoInv
<1>13. BodyInv'
  BY <1>1, <1>2, Zenon DEF BodyInv
<1>14. StageInv'
  <2>1. Busy => Head1' = Head1 /\ kind'[Head1] = kind[Head1]
    BY <1>2, <1>6, <1>8, HeadFacts, Zenon DEF FifoInv
  <2>2. stage \in TxStages \cup SelfContained \cup {"publish"} => Busy
    BY Zenon DEF TxStages, SelfContained, Busy
  <2>3. Usable' = Usable
    BY <1>1, Zenon DEF Usable
  <2> QED
    BY <1>1, <1>2, <1>8, <2>1, <2>2, <2>3, Zenon DEF StageInv, TxStages
<1>15. SerialStep
  BY <1>1, Zenon DEF SerialStep, Serial!Next, Serial!Admit
<1> QED
  BY <1>9, <1>10, <1>11, <1>12, <1>13, <1>14, <1>15, Zenon DEF CoreInv

LEMMA DecideSerial ==
  ASSUME SerialInv, NEW c, NEW decision, Decide(c, decision)
  PROVE  CoreInv' /\ SerialStep
BY SameSerial, Zenon
DEF SerialInv, Decide, handle, poison, txVars, session, backend, assertHealthy

LEMMA StreamChunkSerial ==
  ASSUME SerialInv, NEW c, StreamChunk(c)
  PROVE  CoreInv' /\ SerialStep
BY SameSerial, Zenon
DEF SerialInv, StreamChunk, handle, poison, txVars, session, backend, assertHealthy

LEMMA CloseDeadlineSerial ==
  ASSUME SerialInv, CloseDeadline
  PROVE  CoreInv' /\ SerialStep
BY SameSerial, Zenon
DEF SerialInv, CloseDeadline, poison, txVars, backend, assertHealthy

LEMMA CloseResourcesSerial ==
  ASSUME SerialInv, CloseResources
  PROVE  CoreInv' /\ SerialStep
BY SameSerial, Zenon
DEF SerialInv, CloseResources, poison, txVars, session, backend, assertHealthy

LEMMA StutterSerial ==
  ASSUME SerialInv, UNCHANGED vars
  PROVE  CoreInv' /\ SerialStep
BY SameSerial, Zenon
DEF SerialInv, vars, handle, poison, txVars, session, backend, assertHealthy

\* close() queues behind every call.
LEMMA CloseCallSerial ==
  ASSUME SerialInv, CloseCall
  PROVE  CoreInv' /\ SerialStep
<1>1. /\ queue' = Append(queue, CloseSlot) /\ closeCalled' = TRUE /\ ~closeCalled
      /\ UNCHANGED <<kind, result, stage, verdict>> /\ stored' = stored
      /\ UNCHANGED <<status, open, live>> /\ UNCHANGED <<txState, txQueue, txRollback>>
      /\ assertHealthy' = assertHealthy /\ dead' = dead /\ sFailed' = sFailed
  BY Zenon DEF CloseCall, txVars, poison, session, backend, assertHealthy
<1>2. FifoInv /\ EffectInv /\ AnswerInv /\ SoundInv /\ BodyInv /\ StageInv
  BY Zenon DEF SerialInv, CoreInv
<1>3. /\ queue' \in Seq(Nat) /\ Len(queue') = Len(queue) + 1 /\ Len(queue) \in Nat
      /\ \A i \in 1..Len(queue) : queue'[i] = queue[i] /\ queue[i] # CloseSlot
      /\ queue'[Len(queue')] = CloseSlot
  BY <1>1, <1>2 DEF FifoInv, CloseSlot
<1>4. Calls' = Calls /\ Busy' = Busy /\ Usable' = Usable /\ Sound' = Sound
  BY <1>1, Zenon DEF Calls, Busy, Usable, Sound
<1>5. queue # << >> => queue' # << >> /\ Head1' = Head1
  <2>1. queue \in Seq(Nat) /\ CloseSlot \in Nat
    BY <1>2 DEF FifoInv, CloseSlot
  <2> QED
    BY <1>1, <2>1, AppendHead
<1>6. FifoInv'
  <2>1. ASSUME NEW i \in 1..Len(queue')
        PROVE  IF queue'[i] = CloseSlot THEN i = Len(queue') /\ closeCalled'
               ELSE queue'[i] \in Calls' /\ result'[queue'[i]] = "pending"
    <3>1. CASE i = Len(queue')
      BY <1>1, <1>3, <3>1, Zenon
    <3>2. CASE i \in 1..Len(queue)
      BY <1>1, <1>2, <1>3, <1>4, <3>2, Zenon DEF FifoInv
    <3> QED
      BY <1>3, <3>1, <3>2
  <2>2. ASSUME NEW i \in 1..Len(queue'), NEW j \in 1..Len(queue'), i < j,
               queue'[j] # CloseSlot
        PROVE  queue'[i] < queue'[j]
    <3>1. j # Len(queue')
      BY <1>3, <2>2, Zenon
    <3>2. i \in 1..Len(queue) /\ j \in 1..Len(queue)
      <4>1. Len(queue) \in Nat /\ Len(queue') = Len(queue) + 1
        BY <1>3, Zenon
      <4> QED
        BY <2>2, <3>1, <4>1
    <3> QED
      BY <1>2, <1>3, <2>2, <3>2, Zenon DEF FifoInv
  <2>3. ASSUME NEW c \in Calls', result'[c] = "pending"
        PROVE  \E i \in 1..Len(queue') : queue'[i] = c
    <3>1. PICK i \in 1..Len(queue) : queue[i] = c
      BY <1>1, <1>2, <1>4, <2>3, Zenon DEF FifoInv
    <3> QED
      BY <1>3, <3>1
  <2>4. (Busy' => queue' # << >> /\ Head1' # CloseSlot) /\ stage' # "shutdown"
    BY <1>1, <1>2, <1>4, <1>5 DEF FifoInv, Head1
  <2> QED
    BY <1>1, <1>2, <1>3, <1>4, <2>1, <2>2, <2>3, <2>4, Zenon DEF FifoInv
<1>7. Busy => Head1' = Head1
  BY <1>2, <1>5, Zenon DEF FifoInv
<1>8. EffectInv'
  BY <1>1, <1>2, <1>4, <1>7, Zenon DEF EffectInv
<1>9. AnswerInv'
  BY <1>1, <1>2, <1>4, Zenon DEF AnswerInv
<1>10. SoundInv'
  BY <1>1, <1>2, <1>4, <1>7, Zenon DEF SoundInv, Busy
<1>11. BodyInv'
  BY <1>1, <1>2, Zenon DEF BodyInv
<1>12. StageInv'
  <2>1. stage \in TxStages \cup SelfContained \cup {"publish"} => Busy
    BY Zenon DEF TxStages, SelfContained, Busy
  <2> QED
    BY <1>1, <1>2, <1>4, <1>7, <2>1, Zenon DEF StageInv, TxStages
<1> QED
  BY <1>1, <1>6, <1>8, <1>9, <1>10, <1>11, <1>12, Zenon DEF CoreInv, SerialStep

LEMMA CloseStartSerial ==
  ASSUME SerialInv, CloseStart
  PROVE  CoreInv' /\ SerialStep
<1>1. /\ queue # << >> /\ Head1 = CloseSlot /\ stage = "idle" /\ stage' = "shutdown"
      /\ UNCHANGED <<kind, result, queue, verdict>> /\ closeCalled' = closeCalled
      /\ UNCHANGED <<status, open, live>> /\ stored' = stored
      /\ assertHealthy' = assertHealthy /\ dead' = dead /\ sFailed' = sFailed
  BY Zenon DEF CloseStart, handle, poison, backend, assertHealthy
<1>2. FifoInv /\ EffectInv /\ AnswerInv /\ SoundInv
  BY Zenon DEF SerialInv, CoreInv
<1>3. /\ Calls' = Calls /\ Head1' = Head1 /\ ~Busy /\ ~Busy'
      /\ Usable' = Usable /\ Sound' = Sound
  BY <1>1, Zenon DEF Calls, Head1, Busy, Usable, Sound
<1>4. FifoInv'
  BY <1>1, <1>2, <1>3, SameFifo, Zenon
<1>5. EffectInv' /\ AnswerInv'
  BY <1>1, <1>2, <1>3, Zenon DEF EffectInv, AnswerInv
<1>6. SoundInv'
  BY <1>1, <1>2, <1>3, Zenon DEF SoundInv
<1>7. BodyInv' /\ StageInv'
  BY <1>1, <1>3, Zenon DEF BodyInv, StageInv, TxStages, SelfContained
<1> QED
  BY <1>1, <1>4, <1>5, <1>6, <1>7, Zenon DEF CoreInv, SerialStep

\* When the session is shut down every call was answered.
LEMMA CloseEndSerial ==
  ASSUME SerialInv, CloseEnd
  PROVE  CoreInv' /\ SerialStep
<1>1. /\ stage = "shutdown" /\ stage' = "idle" /\ queue' = Tail(queue)
      /\ status' = "idle" /\ open' = {} /\ live' = live
      /\ stored' \in {stored, live}
      /\ kind' = kind /\ result' = result
      /\ assertHealthy' = assertHealthy /\ dead' = dead /\ sFailed' = sFailed
  BY Zenon DEF CloseEnd, poison, session, assertHealthy
<1>2. FifoInv /\ EffectInv /\ AnswerInv /\ SoundInv
  BY Zenon DEF SerialInv, CoreInv
<1>3. /\ Calls' = Calls /\ ~Busy /\ ~Busy'
      /\ Usable' = Usable /\ Sound' = Sound
  BY <1>1, Zenon DEF Calls, Busy, Usable, Sound
<1>4. Len(queue) = 1
  <2>1. queue # << >> /\ queue[1] = CloseSlot
    BY <1>1, <1>2, Zenon DEF FifoInv, Head1
  <2>2. 1 \in 1..Len(queue)
    BY <2>1
  <2> QED
    BY <1>2, <2>1, <2>2, Zenon DEF FifoInv
<1>5. queue' = << >>
  BY <1>1, <1>2, <1>4 DEF FifoInv
<1>6. \A c \in Calls : result[c] # "pending"
  <2> SUFFICES ASSUME NEW c \in Calls, result[c] = "pending" PROVE FALSE
    OBVIOUS
  <2>1. PICK i \in 1..Len(queue) : queue[i] = c
    BY <1>2, Zenon DEF FifoInv
  <2>2. Head1 = CloseSlot
    BY <1>1, <1>2, Zenon DEF FifoInv
  <2> QED
    BY <1>4, <2>1, <2>2 DEF Head1, CloseSlot, Calls
<1>7. FifoInv'
  <2>1. queue' \in Seq(Nat) /\ 1..Len(queue') = {}
    BY <1>5
  <2> QED
    BY <1>1, <1>2, <1>3, <1>6, <2>1, Zenon DEF FifoInv
<1>8. EffectInv'
  BY <1>1, <1>2, <1>3, Zenon DEF EffectInv
<1>9. AnswerInv'
  BY <1>1, <1>2, <1>3, Zenon DEF AnswerInv, EffectInv
<1>10. SoundInv'
  BY <1>1, <1>2, <1>3, Zenon DEF SoundInv
<1>11. BodyInv' /\ StageInv'
  BY <1>1, <1>3, Zenon DEF BodyInv, StageInv, TxStages, SelfContained
<1>12. SerialStep
  BY <1>1, Zenon DEF SerialStep, Serial!Next, Serial!Work, Serial!Effect
<1> QED
  BY <1>7, <1>8, <1>9, <1>10, <1>11, <1>12, Zenon DEF CoreInv

\* A worker that dies may have run what was in flight; the handle can no longer
\* use the session.
LEMMA WorkerDiesSerial ==
  ASSUME SerialInv, WorkerDies
  PROVE  CoreInv' /\ SerialStep
<1>1. /\ UNCHANGED <<kind, result, queue>> /\ stage' = stage /\ verdict' = verdict
      /\ closeCalled' = closeCalled
      /\ txState' = txState /\ txQueue' = txQueue /\ txRollback' = txRollback
      /\ assertHealthy' = assertHealthy /\ dead' = TRUE /\ sFailed' = sFailed
  BY Zenon DEF WorkerDies, handle, poison, txVars, assertHealthy
<1>2. /\ CoreInv /\ FifoInv /\ EffectInv /\ AnswerInv /\ BodyInv /\ StageInv
      /\ PoisonInv
  BY Zenon DEF SerialInv, CoreInv
<1>3. ~Usable' /\ ~Sound' /\ Worsens
  BY <1>1, Zenon DEF Usable, Sound, Worsens
<1>4. Calls' = Calls /\ Head1' = Head1 /\ (Busy' <=> Busy)
  BY <1>1, Zenon DEF Calls, Head1, Busy
<1>5. stored' = stored \/ stored' = live'
  BY Zenon DEF WorkerDies
<1>6. SoundInv' /\ BodyInv'
  BY <1>1, <1>2, <1>3, Zenon DEF SoundInv, BodyInv
<1>7. ASSUME StageTags = {} \/ (stage = "body" /\ ~txBusy),
             stage \notin {"tool", "reserve"}
      PROVE  status' = status /\ open' = open /\ live' = live
  BY <1>7, Zenon DEF WorkerDies, backend
<1>8. CASE Busy
  <2>1. queue # << >> /\ Head1 # CloseSlot
    BY <1>2, <1>8, Zenon DEF FifoInv
  <2>2. Runs(Head1)
    <3>1. CASE UNCHANGED backend
      BY <1>2, <3>1, NoBackendStep, Zenon DEF backend
    <3>2. CASE \E tag \in StageTags : BackendRuns(Head1, tag)
      BY <1>2, <3>2, BackendStep, Zenon
    <3>3. CASE live' = live \cup {Head1} /\ UNCHANGED <<status, open>>
      BY <1>2, <3>3, Zenon DEF Runs, EffectInv
    <3> QED
      BY <3>1, <3>2, <3>3, Zenon DEF WorkerDies
  <2>3. stage = "body" /\ txRollback = "done" => live' = live /\ open' = open
    <3>1. stage = "body" /\ txRollback = "done" => ~txBusy
      BY <1>2, Zenon DEF BodyInv, PoisonInv
    <3> QED
      BY <1>7, <3>1, Zenon
  <2>4. stage = "publish" => live' = live /\ open' = open
    BY <1>7, Zenon DEF StageTags
  <2>5. StageInv'
    <3>1. stage = "publish" => stage' = "publish" /\ kind'[Head1'] = kind[Head1]
      BY <1>1, <1>4, Zenon
    <3> QED
      BY <1>1, <1>2, <1>3, <1>4, <2>3, <2>4, Zenon DEF StageInv
  <2> QED
    BY <1>1, <1>2, <1>3, <1>4, <1>5, <1>6, <1>8, <2>1, <2>2, <2>5, TurnSerial, Zenon
<1>9. CASE ~Busy
  <2>1. stage \in {"idle", "shutdown"}
    BY <1>9, Zenon DEF Busy
  <2>2. status' = status /\ open' = open /\ live' = live
    BY <1>7, <2>1, Zenon DEF StageTags
  <2>3. FifoInv'
    <3>1. FifoInv /\ kind' = kind /\ result' = result /\ queue' = queue
      BY <1>1, <1>2, Zenon
    <3>2. (stage' = "shutdown" <=> stage = "shutdown") /\ Calls' = Calls /\ Head1' = Head1
      BY <1>1, <1>4, Zenon
    <3> QED
      BY <1>1, <1>4, <3>1, <3>2, Zenon DEF FifoInv
  <2>4. EffectInv'
    BY <1>1, <1>2, <1>4, <1>5, <2>2, Zenon DEF EffectInv
  <2>5. AnswerInv'
    BY <1>1, <1>2, <1>3, <1>4, <1>5, <2>2, Zenon DEF AnswerInv, EffectInv
  <2>6. StageInv'
    BY <1>1, <1>4, <1>9, <2>1, Zenon DEF StageInv, TxStages, SelfContained
  <2>7. SerialStep
    BY <1>1, <1>5, <2>2, Zenon DEF SerialStep, Serial!Next, Serial!Work, Serial!Effect
  <2> QED
    BY <1>6, <2>3, <2>4, <2>5, <2>6, <2>7, Zenon DEF CoreInv
<1> QED
  BY <1>8, <1>9, Zenon

-----------------------------------------------------------------------------
(* The theorems *)

LEMMA SlotSerial ==
  ASSUME SerialInv, NEW c \in Calls, Slot(c)
  PROVE  CoreInv' /\ SerialStep
BY StartSerial, DescribeSerial, ExecuteSerial, UndoSerial, SyncSerial, RawSerial,
   StreamSerial, BackupSerial, OwnSerial, TxStartSerial, TxBeginSerial, TxBeginUndoSerial,
   TxFinishSerial, TxAbandonSerial, TxCommitSerial, Zenon
DEF Slot

LEMMA NextSerial ==
  ASSUME SerialInv, [Next]_vars
  PROVE  SerialInv' /\ SerialStep
<1>1. CloseInv' /\ PoisonInv'
  BY NextClose, NextPoison, Zenon DEF SerialInv
<1>2. CoreInv' /\ SerialStep
  <2>1. CASE \E k \in Kinds : Call(k)
    BY <2>1, CallSerial, Zenon
  <2>2. CASE \E c \in Calls, decision \in {"started", "canceled"} : Decide(c, decision)
    BY <2>2, DecideSerial, Zenon
  <2>3. CASE \E c \in Calls : Slot(c)
    BY <2>3, SlotSerial, Zenon
  <2>4. CASE \E c \in Calls : StreamChunk(c)
    BY <2>4, StreamChunkSerial, Zenon
  <2>5. CASE \E op \in {"operation", "rollback"} : TxCall(op)
    BY <2>5, TxCallSerial, Zenon
  <2>6. CASE \E how \in {"returned", "threw"} : BodyEnds(how)
    BY <2>6, BodyEndsSerial, Zenon
  <2>7. CASE TxOpStart
    BY <2>7, TxOpStartSerial, Zenon
  <2>8. CASE TxOpReply
    BY <2>8, TxOpReplySerial, Zenon
  <2>9. CASE CloseCall
    BY <2>9, CloseCallSerial, Zenon
  <2>10. CASE CloseStart
    BY <2>10, CloseStartSerial, Zenon
  <2>11. CASE CloseEnd
    BY <2>11, CloseEndSerial, Zenon
  <2>12. CASE CloseDeadline
    BY <2>12, CloseDeadlineSerial, Zenon
  <2>13. CASE CloseResources
    BY <2>13, CloseResourcesSerial, Zenon
  <2>14. CASE WorkerDies
    BY <2>14, WorkerDiesSerial, Zenon
  <2>15. CASE UNCHANGED vars
    BY <2>15, StutterSerial, Zenon
  <2> QED
    BY <2>1, <2>2, <2>3, <2>4, <2>5, <2>6, <2>7, <2>8, <2>9, <2>10, <2>11, <2>12, <2>13,
       <2>14, <2>15, Zenon DEF Next
<1> QED
  BY <1>1, <1>2, Zenon DEF SerialInv

\* No call is admitted and nothing has run.
LEMMA InitSerial ==
  ASSUME Init
  PROVE  SerialInv
<1>1. /\ kind = << >> /\ result = << >> /\ queue = << >> /\ stage = "idle"
      /\ open = {} /\ live = {} /\ stored = {} /\ closeCalled = FALSE
      /\ txQueue = << >> /\ txBusy = FALSE /\ assertHealthy
  BY Zenon DEF Init, assertHealthy
<1>2. kind \in Seq(Kinds) /\ result \in Seq(Answers) /\ queue \in Seq(Nat)
      /\ Len(kind) = 0 /\ Len(result) = 0 /\ Len(queue) = 0 /\ Calls = {}
  BY <1>1 DEF Calls
<1>3. FifoInv
  BY <1>1, <1>2 DEF FifoInv, Busy
<1>4. EffectInv /\ AnswerInv /\ SoundInv /\ BodyInv
  BY <1>1, Zenon DEF EffectInv, AnswerInv, SoundInv, BodyInv
<1>5. StageInv
  BY <1>1, Zenon DEF StageInv, TxStages, SelfContained, Busy
<1>6. CloseInv
  BY <1>1, Zenon DEF CloseInv
<1>7. PoisonInv
  <2>1. txQueue \in Seq({"operation", "rollback"})
    BY <1>1
  <2>2. txBusy \in BOOLEAN /\ ~txBusy
    BY <1>1, Zenon
  <2> QED
    BY <1>1, <2>1, Zenon DEF PoisonInv
<1> QED
  BY <1>3, <1>4, <1>5, <1>6, <1>7, Zenon DEF SerialInv, CoreInv

LEMMA SerialInvariant == Spec => []SerialInv
<1> QED
  BY InitSerial, NextSerial, PTL DEF Spec

\* A callback transaction has the backend to itself: nothing it left open
\* survives its turn on a handle and a session that still work.
THEOREM TransactionsAreAlone == Spec => []TransactionIsAlone
<1>1. SerialInv => TransactionIsAlone
  <2> SUFFICES ASSUME SerialInv PROVE TransactionIsAlone
    OBVIOUS
  <2>1. FifoInv /\ SoundInv
    BY Zenon DEF SerialInv, CoreInv
  <2>2. ASSUME NEW c \in open, kind[c] = "transaction",
               ~(queue # << >> /\ Head1 = c)
        PROVE  ~assertHealthy \/ sFailed \/ sClosed \/ dead
    <3>1. Sound => stage \in {"undo", "body", "abandon", "commit"} /\ c = Head1
      BY <2>1, <2>2, Zenon DEF SoundInv, SelfContained
    <3> QED
      BY <2>1, <2>2, <3>1, Zenon DEF FifoInv, Busy, Sound, Usable
  <2>3. ASSUME stage = "idle", assertHealthy, ~sFailed, ~dead, NEW c \in open
        PROVE  kind[c] \in {"raw", "stream"}
    BY <2>1, <2>3, Zenon DEF SoundInv, Sound, Usable, SelfContained
  <2> QED
    BY <2>2, <2>3, Zenon DEF TransactionIsAlone
<1> QED
  BY <1>1, SerialInvariant, PTL

\* A transaction that resolved is durable; one that rolled back, or that was
\* rejected on a handle still usable, left no effect.
THEOREM TransactionsAreAtomic == Spec => []TransactionIsAtomic
<1>1. SerialInv => TransactionIsAtomic
  BY Zenon DEF SerialInv, CoreInv, AnswerInv, Usable, TransactionIsAtomic
<1> QED
  BY <1>1, SerialInvariant, PTL

\* The handle implements the serial, durable database: its calls are answered
\* in the order they were made, with no effect of a later call before that, and
\* an answered effect is durable.
THEOREM HandleIsSerial == Spec => ImplementsSerial
<1>1. Init => Serial!Init
  BY Zenon DEF Init, Serial!Init
<1>2. SerialInv /\ [Next]_vars => [Serial!Next]_Serial!serialVars
  BY NextSerial, Zenon DEF SerialStep, Serial!serialVars
<1> QED
  BY <1>1, <1>2, SerialInvariant, PTL DEF Spec, ImplementsSerial, Serial!Spec
=============================================================================
