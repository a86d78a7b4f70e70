---------------------------- MODULE WasixDatabase ---------------------------
(***************************************************************************)
(* The database handle of the WASIX TypeScript SDK (core/database.ts) over *)
(* one session (hosts/browser/direct-client-common.ts): a promise FIFO     *)
(* that gives each call the one PostgreSQL backend in turn, callback       *)
(* transactions with their own FIFO, publication of PGDATA after each      *)
(* operation, poisoning when an outcome or a publication is unknown, and   *)
(* terminal close.                                                         *)
(*                                                                         *)
(* A step runs from one await to the next.  `stage' says what the slot at  *)
(* the head of the FIFO awaits.  A call's effect on the database is its    *)
(* own number: it is in `open' while uncommitted, in `live' once           *)
(* committed, and in `stored' once published to durable storage.  A call   *)
(* that is refused on admission changes nothing and is not a step.         *)
(***************************************************************************)
EXTENDS Integers, Sequences

CONSTANTS Kinds,      \* the kinds of call made
          MaxCalls,   \* bound: how many calls are made
          MaxTxOps,   \* bound: how many operations a transaction body makes
          IsWorker,   \* the session lives in a worker, which may die
          HasAbort    \* the session can be aborted when close is too slow

ASSUME KindsAssumption ==
  Kinds \subseteq {"execute", "query", "raw", "stream", "backup", "tool",
                   "reserve", "transaction"}
ASSUME BoundsAssumption == MaxCalls \in Nat /\ MaxTxOps \in Nat
ASSUME SessionAssumption == IsWorker \in BOOLEAN /\ HasAbort \in BOOLEAN

VARIABLES kind,                \* the calls admitted so far, in order
          result,              \* what each of them returned
          queue,               \* the FIFO (#tail); CloseSlot is close()
          stage,               \* what the head of the FIFO awaits
          verdict,             \* how it settles once publication succeeds
          reservation,         \* the start decision of each "reserve" call
          closeCalled, closing, closed,
          closeSettled,        \* the session's close, or its deadline, is over
          persistenceFailure, transactionFailure,
          activeTransaction, transactionRunning, streamCallbackActive,
          txState, txQueue, txBusy, txFailed, txRollback, \* the transaction
          body,                \* its callback
          sFailed, sClosed,    \* the session's #failed and #closed
          dead,                \* the worker died or was terminated
          status, open, live,  \* PostgreSQL
          stored               \* durable storage

handle == <<closeCalled, closing, closed, closeSettled, activeTransaction,
            transactionRunning>>
poison == <<persistenceFailure, transactionFailure>>
txVars == <<txState, txQueue, txBusy, txFailed, txRollback, body>>
backend == <<status, open, live>>
session == <<sFailed, sClosed, dead>>
vars == <<kind, result, queue, stage, verdict, reservation, handle, poison,
          streamCallbackActive, txVars, session, backend, stored>>

CloseSlot == 0
Calls == 1..Len(kind)
Head1 == queue[1]

Init ==
  /\ kind = << >> /\ result = << >> /\ queue = << >>
  /\ stage = "idle" /\ verdict = "ok" /\ reservation = << >>
  /\ closeCalled = FALSE /\ closing = FALSE /\ closed = FALSE
  /\ closeSettled = FALSE
  /\ persistenceFailure = FALSE /\ transactionFailure = FALSE
  /\ activeTransaction = FALSE /\ transactionRunning = FALSE
  /\ streamCallbackActive = FALSE
  /\ txState = "closed" /\ txQueue = << >> /\ txBusy = FALSE
  /\ txFailed = FALSE /\ txRollback = "none" /\ body = "none"
  /\ sFailed = FALSE /\ sClosed = FALSE /\ dead = FALSE
  /\ status = "idle" /\ open = {} /\ live = {} /\ stored = {}

-----------------------------------------------------------------------------
(* The handle's admission checks *)

assertHealthy == ~transactionFailure /\ ~persistenceFailure

assertOpen ==
  /\ ~streamCallbackActive
  /\ ~closed /\ ~dead
  /\ ~closing
  /\ assertHealthy

assertAvailable == assertOpen /\ ~activeTransaction

-----------------------------------------------------------------------------
(* PostgreSQL and the session, as the handle uses them *)

\* What a statement on behalf of call c may do, and the command it reports.
BackendRuns(c, tag) ==
  \/ /\ tag = "write" /\ status = "idle"
     /\ live' = live \cup {c}
     /\ UNCHANGED <<status, open>>
  \/ /\ tag = "write" /\ status = "transaction"
     /\ open' = open \cup {c}
     /\ UNCHANGED <<status, live>>
  \/ /\ tag = "error"
     /\ status' = IF status = "idle" THEN "idle" ELSE "failed"
     /\ UNCHANGED <<open, live>>
  \/ /\ tag = "recover" /\ status = "failed"   \* ROLLBACK TO SAVEPOINT
     /\ status' = "transaction"
     /\ UNCHANGED <<open, live>>
  \/ /\ tag = "begin" /\ status # "failed"
     /\ status' = "transaction"
     /\ open' = open \cup {c}
     /\ UNCHANGED live
  \/ /\ tag = "commit" /\ status # "failed"
     /\ status' = "idle" /\ open' = {}
     /\ live' = live \cup open
  \/ /\ tag = "rollback"                       \* also COMMIT when failed
     /\ status' = "idle" /\ open' = {}
     /\ UNCHANGED live
  \/ /\ tag = "chain" /\ status # "idle"       \* ROLLBACK AND CHAIN
     /\ status' = "transaction" /\ open' = {}
     /\ UNCHANGED live
  \/ /\ tag = "read" /\ status # "failed"
     /\ UNCHANGED backend

Tags == {"read", "write", "error", "recover", "begin", "commit", "rollback",
         "chain"}

\* Mutant: chaining SQL is let through.
TransactionTagsChain == Tags

\* assertNoTransactionChain: a transaction refuses SQL that chains.
TransactionTags == Tags \ {"chain"}

\* What PostgreSQL may do with the request the head of the FIFO awaits.
StageTags ==
  CASE stage = "describe" -> {"read", "error"}
    [] stage = "begin" -> {"begin", "error"}
    [] stage = "commit" -> {"commit", "rollback"}
    [] stage \in {"undo", "beginUndo", "abandon"} -> {"rollback"}
    [] stage = "body" -> IF txQueue[1] = "rollback" THEN {"rollback"} ELSE TransactionTags
    [] stage \in {"execute", "raw", "stream"} -> Tags
    [] OTHER -> {}

\* session.exec throws: it marks the session failed, and if the session let
\* the statement through the backend may or may not have run it.
ExecThrows(c) ==
  /\ \/ UNCHANGED backend
     \/ ~sFailed /\ ~sClosed /\ ~dead /\ \E tag \in StageTags : BackendRuns(c, tag)
  /\ sFailed' = TRUE
  /\ UNCHANGED <<sClosed, dead>>

\* session.exec returns what the backend answered.
ExecReturns(c, tag) ==
  /\ ~sFailed /\ ~sClosed /\ ~dead
  /\ BackendRuns(c, tag)
  /\ UNCHANGED session

\* recordUnknownExchange: a storage error or any other one.
recordUnknownExchange ==
  \/ persistenceFailure' = TRUE /\ UNCHANGED transactionFailure
  \/ transactionFailure' = TRUE /\ UNCHANGED persistenceFailure

\* An exchange with no known outcome: exec throws, or it returns bytes with no
\* valid readiness boundary.
ExchangeUnknown(c) ==
  \/ ExecThrows(c) /\ recordUnknownExchange
  \/ /\ \E tag \in StageTags : ExecReturns(c, tag)
     /\ transactionFailure' = TRUE
     /\ UNCHANGED persistenceFailure

-----------------------------------------------------------------------------
(* Calls.  serialize appends the operation to the FIFO. *)

Call(k) ==
  /\ assertAvailable
  /\ Len(kind) < MaxCalls
  /\ kind' = Append(kind, k)
  /\ result' = Append(result, "pending")
  /\ reservation' = Append(reservation, IF k = "reserve" THEN "pending" ELSE "none")
  /\ queue' = Append(queue, Len(kind) + 1)
  /\ activeTransaction' = (k = "transaction")
  /\ UNCHANGED <<stage, verdict, closeCalled, closing, closed, closeSettled, poison,
                 transactionRunning, streamCallbackActive, txVars, session,
                 backend, stored>>

\* The start() and cancel() of a reservation, whenever its owner decides.
Decide(c, decision) ==
  /\ reservation[c] = "pending"
  /\ reservation' = [reservation EXCEPT ![c] = decision]
  /\ UNCHANGED <<kind, result, queue, stage, verdict, handle, poison,
                 streamCallbackActive, txVars, session, backend, stored>>

\* The slot of call c ends with result r; a transaction also lets go of the
\* handle (its finally blocks).
Settle(c, r) ==
  /\ result' = [result EXCEPT ![c] = r]
  /\ queue' = Tail(queue)
  /\ stage' = "idle" /\ verdict' = "ok"
  /\ IF kind[c] = "transaction"
     THEN /\ activeTransaction' = FALSE /\ transactionRunning' = FALSE
          /\ txState' = "closed"
     ELSE UNCHANGED <<activeTransaction, transactionRunning, txState>>
  /\ UNCHANGED <<kind, reservation, closeCalled, closing, closed,
                 closeSettled, streamCallbackActive, txQueue, txBusy, txFailed, txRollback,
                 body>>

\* The slot goes on to await something else.
Await(next) ==
  /\ stage' = next
  /\ UNCHANGED <<kind, result, queue, reservation, handle,
                 streamCallbackActive, txVars>>

\* The slot publishes, then settles with r.
Publish(r) == Await("publish") /\ verdict' = r

AtHead(c, k) == queue # << >> /\ queue[1] = c /\ stage = "idle" /\ kind[c] = k

\* Mutant: health is checked on admission only.
StartSlotUnchecked(c) ==
  \E k \in Kinds \ {"transaction"} :
    /\ AtHead(c, k)
    /\ reservation[c] # "pending"
    /\ IF reservation[c] = "canceled" THEN Settle(c, "ok")
       ELSE Await(IF k = "query" THEN "describe" ELSE k) /\ UNCHANGED verdict
    /\ UNCHANGED <<poison, session, backend, stored>>

\* The first step of a slot that is not a transaction: every operation checks
\* the handle's health again, since an earlier slot may have poisoned it.
StartSlot(c) ==
  \E k \in Kinds \ {"transaction"} :
    /\ AtHead(c, k)
    /\ reservation[c] # "pending"
    /\ \/ /\ reservation[c] = "canceled"
          /\ Settle(c, "ok")
          /\ UNCHANGED poison
       \/ /\ reservation[c] # "canceled" /\ ~assertHealthy
          /\ Settle(c, "error")
          /\ UNCHANGED poison
       \/ /\ reservation[c] # "canceled" /\ assertHealthy
          /\ Await(IF k = "query" THEN "describe" ELSE k)
          /\ UNCHANGED <<verdict, poison>>
    /\ UNCHANGED <<session, backend, stored>>

-----------------------------------------------------------------------------
(* Structured operations: exchangeKnown, then finishDatabaseExchange *)

\* runDatabasePlan: describe first.  Describing may fail, binding may fail, and
\* otherwise the statement follows.
Describe(c) ==
  /\ stage = "describe" /\ Head1 = c
  /\ \/ /\ ExchangeUnknown(c)
        /\ Settle(c, "error")
     \/ \E tag \in StageTags :
        /\ ExecReturns(c, tag)
        /\ IF status' # "idle" THEN Await("undo") /\ UNCHANGED verdict
           ELSE \/ tag # "error" /\ Await("execute") /\ UNCHANGED verdict
                \/ Publish("error")
        /\ UNCHANGED poison
  /\ UNCHANGED stored

\* The exchange.  A statement that leaves a transaction open is rolled back;
\* decoding the response may fail; either way the result is published.
Execute(c) ==
  /\ stage = "execute" /\ Head1 = c
  /\ \/ /\ ExchangeUnknown(c)
        /\ Settle(c, "error")
     \/ \E tag \in Tags :
        /\ ExecReturns(c, tag)
        /\ IF status' # "idle" THEN Await("undo") /\ UNCHANGED verdict
           ELSE \/ tag # "error" /\ Publish("ok")
                \/ Publish("error")
        /\ UNCHANGED poison
  /\ UNCHANGED stored

\* executeTransactionControl('ROLLBACK'): anything but a confirmed ROLLBACK
\* with readiness "idle" poisons the handle.
RollbackControl(c, Confirmed, Failed) ==
  \/ /\ ExecReturns(c, "rollback")
     /\ UNCHANGED poison
     /\ Confirmed
  \/ /\ ExchangeUnknown(c)
     /\ Failed

Undo(c) ==
  /\ stage = "undo" /\ Head1 = c
  /\ RollbackControl(c, Publish("error"), Settle(c, "error"))
  /\ UNCHANGED stored

\* Mutant: a failed publication is recorded but not reported to the caller.
SyncPersistenceSilent(c) ==
  /\ stage = "publish" /\ Head1 = c
  /\ \/ stored' = live /\ UNCHANGED <<session, poison>>
     \/ /\ persistenceFailure' = TRUE /\ sFailed' = TRUE
        /\ UNCHANGED <<stored, sClosed, dead, transactionFailure>>
  /\ Settle(c, verdict)
  /\ UNCHANGED backend

\* syncPersistence: what is live becomes durable, or the handle is poisoned.
SyncPersistence(c) ==
  /\ stage = "publish" /\ Head1 = c
  /\ \/ /\ ~sFailed /\ ~sClosed /\ ~dead
        /\ stored' = live
        /\ Settle(c, verdict)
        /\ UNCHANGED <<session, poison>>
     \/ /\ persistenceFailure' = TRUE
        /\ sFailed' = TRUE
        /\ stored' \in IF sFailed \/ dead THEN {stored} ELSE {stored, live}
        /\ Settle(c, "error")
        /\ UNCHANGED <<sClosed, dead, transactionFailure>>
  /\ UNCHANGED backend

-----------------------------------------------------------------------------
(* Operations whose session call publishes by itself *)

\* execProtocolRaw: the session runs the bytes and publishes.  The bytes may
\* leave a transaction open.  A failure marks the session; only a storage
\* failure is also recorded by the handle.
Raw(c) ==
  /\ stage = "raw" /\ Head1 = c
  /\ \/ /\ \E tag \in Tags : ExecReturns(c, tag)
        /\ stored' = live'
        /\ Settle(c, "ok")
        /\ UNCHANGED poison
     \/ /\ ExecThrows(c)
        /\ persistenceFailure' \in {persistenceFailure, TRUE}
        /\ stored' \in IF sFailed \/ dead THEN {stored} ELSE {stored, live'}
        /\ Settle(c, "error")
        /\ UNCHANGED transactionFailure

\* execProtocolRawStream: the consumer runs synchronously for each chunk.
StreamChunk(c) ==
  /\ stage = "stream" /\ Head1 = c
  /\ streamCallbackActive \/ (~sFailed /\ ~dead)
  /\ streamCallbackActive' = ~streamCallbackActive
  /\ UNCHANGED <<kind, result, queue, stage, verdict, reservation, handle,
                 poison, txVars, session, backend, stored>>

\* The session reports "complete" or "callbackAborted"; a report that does
\* not agree with what the consumer did leaves the outcome unknown.
Stream(c) ==
  /\ stage = "stream" /\ Head1 = c /\ ~streamCallbackActive
  /\ \/ /\ \E tag \in Tags : ExecReturns(c, tag)
        /\ stored' = live'
        /\ \E aborted, consumerThrew \in BOOLEAN :
             /\ Settle(c, IF aborted \/ consumerThrew THEN "error" ELSE "ok")
             /\ transactionFailure' = (transactionFailure \/ aborted # consumerThrew)
             /\ UNCHANGED persistenceFailure
     \/ /\ ExecThrows(c)
        /\ recordUnknownExchange
        /\ stored' \in IF sFailed \/ dead THEN {stored} ELSE {stored, live'}
        /\ Settle(c, "error")

\* backup: the archive is made in the session, then published.  A failure to
\* leave backup mode marks the session.
Backup(c) ==
  /\ stage = "backup" /\ Head1 = c
  /\ \/ /\ ~sFailed /\ ~sClosed /\ ~dead
        /\ Publish("ok")
        /\ UNCHANGED sFailed
     \/ /\ Settle(c, "error")
        /\ sFailed' \in {sFailed, TRUE}
  /\ UNCHANGED <<sClosed, dead, poison, backend, stored>>

\* runPgDump, runNativeTool and serve own the backend until the tool or the
\* client is done; the session resets the backend before and after and then
\* publishes.  It may refuse before it starts.  serve's storage failures are
\* recorded by the handle.
Own(c) ==
  /\ stage \in {"tool", "reserve"} /\ Head1 = c
  /\ \/ /\ Settle(c, "error")
        /\ UNCHANGED <<session, poison, backend, stored>>
     \/ /\ ~sFailed /\ ~sClosed /\ ~dead
        /\ status' = "idle" /\ open' = {}
        /\ live' \in {live, live \cup {c}}
        /\ \/ /\ stored' = live' /\ Settle(c, "ok")
              /\ UNCHANGED <<sFailed, persistenceFailure>>
           \/ /\ stored' \in {stored, live, live'} /\ Settle(c, "error")
              /\ sFailed' \in {stored' # live', TRUE}
              /\ persistenceFailure' \in {FALSE, stage = "reserve"}
        /\ UNCHANGED <<sClosed, dead, transactionFailure>>

-----------------------------------------------------------------------------
(* transaction(body) *)

\* Mutant: a queued transaction checks the handle's health, not that it is open.
TxStartIfHealthy(c) ==
  /\ AtHead(c, "transaction")
  /\ assertHealthy
  /\ stage' = "begin"
  /\ transactionRunning' = TRUE
  /\ txState' = "active" /\ txQueue' = << >> /\ txBusy' = FALSE
  /\ txFailed' = FALSE /\ txRollback' = "none" /\ body' = "running"
  /\ UNCHANGED <<kind, result, queue, verdict, reservation, closeCalled,
                 closing, closed, closeSettled, activeTransaction,
                 streamCallbackActive, poison, session, backend, stored>>

\* A transaction may have been queued before close was called.
TxStart(c) ==
  /\ AtHead(c, "transaction")
  /\ \/ /\ ~assertOpen
        /\ Settle(c, "error")
     \/ /\ assertOpen
        /\ stage' = "begin"
        /\ transactionRunning' = TRUE
        /\ txState' = "active" /\ txQueue' = << >> /\ txBusy' = FALSE
        /\ txFailed' = FALSE /\ txRollback' = "none" /\ body' = "running"
        /\ UNCHANGED <<kind, result, queue, verdict, reservation, closeCalled,
                       closing, closed, closeSettled, activeTransaction,
                       streamCallbackActive>>
  /\ UNCHANGED <<poison, session, backend, stored>>

\* executeTransactionControl('BEGIN')
TxBegin(c) ==
  /\ stage = "begin" /\ Head1 = c
  /\ \/ /\ ExecReturns(c, "begin")
        /\ Await("body")
        /\ UNCHANGED <<verdict, poison>>
     \/ /\ ExecReturns(c, "error")
        /\ IF status' = "idle" THEN Publish("error")
           ELSE Await("beginUndo") /\ UNCHANGED verdict
        /\ UNCHANGED poison
     \/ /\ ExchangeUnknown(c)
        /\ Settle(c, "error")
  /\ UNCHANGED stored

TxBeginUndo(c) ==
  /\ stage = "beginUndo" /\ Head1 = c
  /\ RollbackControl(c, Publish("error"), Settle(c, "error"))
  /\ UNCHANGED stored

\* The body calls an operation of its transaction, or rolls it back; neither
\* need be awaited by the body.
TxCall(op) ==
  /\ stage = "body" /\ body = "running"
  /\ txState = "active"
  /\ Len(txQueue) < MaxTxOps
  /\ txQueue' = Append(txQueue, op)
  /\ IF op = "rollback" THEN txState' = "finishing" /\ txRollback' = "pending"
     ELSE UNCHANGED <<txState, txRollback>>
  /\ UNCHANGED <<kind, result, queue, stage, verdict, reservation, handle,
                 poison, streamCallbackActive, txBusy, txFailed, body,
                 session, backend, stored>>

\* The body returns or throws: the transaction takes no more operations.
BodyEnds(how) ==
  /\ stage = "body" /\ body = "running"
  /\ body' = how
  /\ txState' = IF txState = "active" THEN "finishing" ELSE txState
  /\ UNCHANGED <<kind, result, queue, stage, verdict, reservation, handle,
                 poison, streamCallbackActive, txQueue, txBusy, txFailed,
                 txRollback, session, backend, stored>>

\* The operation at the head of the transaction's FIFO is over.
TxDone(failed) ==
  /\ txQueue' = Tail(txQueue)
  /\ txBusy' = FALSE
  /\ txFailed' = (txFailed \/ failed)
  /\ IF txQueue[1] = "rollback"
     THEN /\ txRollback' = IF failed THEN "failed" ELSE "done"
          /\ txState' = "closed"
     ELSE UNCHANGED <<txRollback, txState>>
  /\ UNCHANGED body

TxOpStart ==
  /\ stage = "body" /\ txQueue # << >> /\ ~txBusy
  /\ IF assertHealthy
     THEN /\ txBusy' = TRUE
          /\ UNCHANGED <<txState, txQueue, txFailed, txRollback, body>>
     ELSE TxDone(TRUE)
  /\ UNCHANGED <<kind, result, queue, stage, verdict, reservation, handle,
                 poison, streamCallbackActive, session, backend, stored>>

\* inspectManagedTransactionResponse: a statement that ended or nested the
\* transaction poisons the handle.
ManagedResponse(tag) == status' # "idle" /\ tag \notin {"begin", "commit"}

\* A planned operation makes two exchanges; the first changes nothing here.
TxOpReply ==
  /\ stage = "body" /\ txBusy
  /\ \/ /\ txQueue[1] = "operation"
        /\ \E tag \in StageTags :
             /\ ExecReturns(Head1, tag)
             /\ IF ManagedResponse(tag)
                THEN /\ TxDone(tag = "error") \/ TxDone(TRUE)
                     /\ UNCHANGED poison
                ELSE /\ TxDone(TRUE)
                     /\ transactionFailure' = TRUE
                     /\ UNCHANGED persistenceFailure
     \/ /\ txQueue[1] = "rollback"
        /\ RollbackControl(Head1, TxDone(FALSE), TxDone(TRUE))
     \/ /\ txQueue[1] = "operation"
        /\ ExchangeUnknown(Head1)
        /\ TxDone(TRUE)
  /\ UNCHANGED <<kind, result, queue, stage, verdict, reservation, handle,
                 streamCallbackActive, stored>>

\* Mutant: a body that throws is not rolled back.
TxFinishNoRollback(c) ==
  /\ stage = "body" /\ Head1 = c
  /\ body # "running" /\ txQueue = << >>
  /\ \/ body = "threw" /\ Settle(c, "error")
     \/ body = "returned" /\ assertHealthy /\ Await("commit") /\ UNCHANGED verdict
  /\ UNCHANGED <<poison, session, backend, stored>>

\* Body and operations are over: settle, publish, roll back or commit.
TxFinish(c) ==
  /\ stage = "body" /\ Head1 = c
  /\ body # "running" /\ txQueue = << >>
  /\ \/ /\ txRollback = "failed"
        /\ Settle(c, "error")
     \/ /\ txRollback = "done"
        /\ Publish(IF body = "returned" THEN "rolledBack" ELSE "error")
     \/ /\ txRollback = "none" /\ body = "threw"
        /\ IF assertHealthy THEN Await("abandon") /\ UNCHANGED verdict
           ELSE Settle(c, "error")
     \/ /\ txRollback = "none" /\ body = "returned"
        /\ IF assertHealthy THEN Await("commit") /\ UNCHANGED verdict
           ELSE Settle(c, "error")
  /\ UNCHANGED <<poison, session, backend, stored>>

TxAbandon(c) ==
  /\ stage = "abandon" /\ Head1 = c
  /\ RollbackControl(c, Publish("error"), Settle(c, "error"))
  /\ UNCHANGED stored

\* executeTransactionControl('COMMIT'): PostgreSQL commits, or rolls back a
\* failed transaction; any other answer leaves the outcome unknown.
TxCommit(c) ==
  /\ stage = "commit" /\ Head1 = c
  /\ \/ /\ status # "failed"
        /\ ExecReturns(c, "commit")
        /\ Publish("ok")
        /\ UNCHANGED poison
     \/ /\ status = "failed"
        /\ ExecReturns(c, "rollback")
        /\ Publish("error")
        /\ UNCHANGED poison
     \/ /\ status = "transaction"          \* COMMIT itself fails
        /\ ExecReturns(c, "rollback")
        /\ transactionFailure' = TRUE
        /\ Settle(c, "error")
        /\ UNCHANGED persistenceFailure
     \/ /\ ExchangeUnknown(c)
        /\ Settle(c, "error")
  /\ UNCHANGED stored

-----------------------------------------------------------------------------
(* close() and the worker *)

\* Mutant: close waits for the reservations.
CloseCallWaits ==
  /\ ~streamCallbackActive /\ ~closeCalled /\ ~transactionRunning
  /\ closeCalled' = TRUE /\ closing' = TRUE
  /\ queue' = Append(queue, CloseSlot)
  /\ UNCHANGED <<kind, result, stage, verdict, reservation, closed, closeSettled,
                 activeTransaction, transactionRunning, poison,
                 streamCallbackActive, txVars, session, backend, stored>>

CloseCall ==
  /\ ~streamCallbackActive /\ ~closeCalled /\ ~transactionRunning
  /\ closeCalled' = TRUE /\ closing' = TRUE
  /\ reservation' = [c \in Calls |-> IF reservation[c] = "pending" THEN "canceled"
                                     ELSE reservation[c]]
  /\ queue' = Append(queue, CloseSlot)
  /\ UNCHANGED <<kind, result, stage, verdict, closed, closeSettled, activeTransaction,
                 transactionRunning, poison, streamCallbackActive, txVars,
                 session, backend, stored>>

\* session.close cuts off admission, then shuts PostgreSQL down.
CloseStart ==
  /\ queue # << >> /\ Head1 = CloseSlot /\ stage = "idle"
  /\ stage' = "shutdown"
  /\ sClosed' = TRUE
  /\ UNCHANGED <<kind, result, queue, verdict, reservation, handle, poison,
                 streamCallbackActive, txVars, sFailed, dead, backend, stored>>

\* A clean close of a healthy session publishes once more.
CloseEnd ==
  /\ stage = "shutdown"
  /\ stage' = "idle"
  /\ queue' = Tail(queue)
  /\ closeSettled' = TRUE
  /\ status' = "idle" /\ open' = {}
  /\ stored' \in IF sFailed \/ dead THEN {stored} ELSE {stored, live}
  /\ UNCHANGED <<kind, result, verdict, reservation, closeCalled, closing,
                 closed, activeTransaction, transactionRunning, poison,
                 streamCallbackActive, txVars, session, live>>

\* withDeadline: the session is aborted, and close rejects.
CloseDeadline ==
  /\ HasAbort /\ closing /\ ~closeSettled /\ ~streamCallbackActive
  /\ dead' = TRUE
  /\ closeSettled' = TRUE
  /\ UNCHANGED <<kind, result, queue, stage, verdict, reservation,
                 closeCalled, closing, closed, activeTransaction,
                 transactionRunning, poison, streamCallbackActive, txVars,
                 sFailed, sClosed, backend, stored>>

\* closeResources, then the handle is closed whatever close reports.
CloseResources ==
  /\ closeSettled /\ closing
  /\ closed' = TRUE /\ closing' = FALSE
  /\ UNCHANGED <<kind, result, queue, stage, verdict, reservation,
                 closeCalled, closeSettled, activeTransaction,
                 transactionRunning, poison, streamCallbackActive, txVars,
                 session, backend, stored>>

\* The worker dies; a request in flight may have run and been published.
WorkerDies ==
  /\ IsWorker /\ ~dead
  /\ dead' = TRUE
  /\ \/ UNCHANGED backend
     \/ /\ ~sFailed /\ ~sClosed
        /\ stage = "body" => txBusy
        /\ \E tag \in StageTags : BackendRuns(Head1, tag)
     \/ /\ stage \in {"tool", "reserve"} /\ ~sFailed
        /\ live' = live \cup {Head1}
        /\ UNCHANGED <<status, open>>
  /\ stored' \in IF sFailed \/ stage \notin {"publish", "raw", "stream", "tool",
                                             "reserve", "shutdown"}
                 THEN {stored} ELSE {stored, live'}
  /\ UNCHANGED <<kind, result, queue, stage, verdict, reservation, handle,
                 poison, streamCallbackActive, txVars, sFailed, sClosed>>

-----------------------------------------------------------------------------
\* A step of the slot of call c.
Slot(c) ==
  \/ StartSlot(c) \/ Describe(c) \/ Execute(c) \/ Undo(c)
  \/ SyncPersistence(c) \/ Raw(c) \/ Stream(c) \/ Backup(c) \/ Own(c)
  \/ TxStart(c) \/ TxBegin(c) \/ TxBeginUndo(c) \/ TxFinish(c)
  \/ TxAbandon(c) \/ TxCommit(c)

Next ==
  \/ \E k \in Kinds : Call(k)
  \/ \E c \in Calls, decision \in {"started", "canceled"} : Decide(c, decision)
  \/ \E c \in Calls : Slot(c)
  \/ \E c \in Calls : StreamChunk(c)
  \/ \E op \in {"operation", "rollback"} : TxCall(op)
  \/ \E how \in {"returned", "threw"} : BodyEnds(how)
  \/ TxOpStart \/ TxOpReply
  \/ CloseCall \/ CloseStart \/ CloseEnd \/ CloseDeadline \/ CloseResources
  \/ WorkerDies

Spec == Init /\ [][Next]_vars

(* The event loop runs what is ready, the session answers or throws, tools *)
(* and clients finish, a response is finite, and callbacks return or       *)
(* throw.  Nobody need call close, and nobody need start or cancel a       *)
(* reservation.                                                            *)
Fairness ==
  /\ SF_vars(\E c \in Calls : Slot(c))
  /\ WF_vars(streamCallbackActive /\ \E c \in Calls : StreamChunk(c))
  /\ WF_vars(TxOpStart \/ TxOpReply)
  /\ WF_vars(\E how \in {"returned", "threw"} : BodyEnds(how))
  /\ WF_vars(CloseStart \/ CloseEnd \/ CloseResources)

FairSpec == Spec /\ Fairness

-----------------------------------------------------------------------------
\* Every variable of the handle, the transaction, the session and the backend
\* holds a value of its type.
TypeOK ==
  /\ kind \in Seq(Kinds)
  /\ result \in Seq({"pending", "ok", "rolledBack", "error"})
  /\ reservation \in Seq({"none", "pending", "started", "canceled"})
  /\ Len(result) = Len(kind) /\ Len(reservation) = Len(kind)
  /\ queue \in Seq(0..Len(kind))
  /\ stage \in {"idle", "describe", "execute", "undo", "publish", "raw",
                "stream", "backup", "tool", "reserve", "begin", "beginUndo",
                "body", "abandon", "commit", "shutdown"}
  /\ verdict \in {"ok", "rolledBack", "error"}
  /\ {closeCalled, closing, closed, closeSettled, persistenceFailure, transactionFailure,
      activeTransaction, transactionRunning, streamCallbackActive, txBusy,
      txFailed, sFailed, sClosed, dead} \subseteq BOOLEAN
  /\ txState \in {"active", "finishing", "closed"}
  /\ txQueue \in Seq({"operation", "rollback"})
  /\ txRollback \in {"none", "pending", "done", "failed"}
  /\ body \in {"none", "running", "returned", "threw"}
  /\ status \in {"idle", "transaction", "failed"}
  /\ open \subseteq Calls /\ live \subseteq Calls /\ stored \subseteq Calls

Exchanging == {"describe", "execute", "undo", "raw", "stream", "backup",
               "tool", "reserve", "begin", "beginUndo", "abandon", "commit"}

\* Once a transaction outcome or a publication is unknown the handle is
\* poisoned: it sends PostgreSQL nothing more, so nothing changes there until
\* the session is shut down, whatever was already queued.
NothingRunsAfterPoison ==
  [][~assertHealthy =>
       /\ stage' \in Exchanging => stage' = stage
       /\ txBusy' => txBusy
       /\ live' = live]_vars

\* Commands of one callback transaction are never interleaved with another
\* call's: while its effects are uncommitted the head of the FIFO is the
\* transaction itself, or nothing can reach PostgreSQL any more.  And between the
\* turns of structured calls PostgreSQL is out of any transaction that they, or a
\* callback transaction, opened.
TransactionIsAlone ==
  /\ \A c \in open :
       kind[c] = "transaction" /\ ~(queue # << >> /\ Head1 = c) =>
         ~assertHealthy \/ sFailed \/ sClosed \/ dead
  /\ stage = "idle" /\ assertHealthy /\ ~sFailed /\ ~dead =>
       \A c \in open : kind[c] \in {"raw", "stream"}

\* A transaction that is rejected on a handle that is still usable left no
\* effect, and one that resolved without rolling back is durable.
TransactionIsAtomic ==
  \A c \in Calls : kind[c] = "transaction" =>
    /\ result[c] = "ok" => c \in stored
    /\ result[c] = "rolledBack" => c \notin live
    /\ result[c] = "error" /\ assertHealthy /\ ~dead => c \notin live \cup open

\* No callback transaction runs on a handle whose close was accepted: close is
\* refused while one runs, and one that is queued is refused when its turn comes.
CloseExcludesTransaction == closeCalled => ~transactionRunning

\* The handle implements the serial, durable database.
Serial == INSTANCE SerialDatabase
            WITH answers <- result, committed <- live, durable <- stored
ImplementsSerial == Serial!Spec

\* Once close is called the handle is eventually closed, and every call that was
\* admitted before is answered, even one behind a reservation that nobody starts.
CloseEnds ==
  /\ closeCalled ~> closed
  /\ \A c \in 1..MaxCalls :
       (closeCalled /\ c \in Calls) ~> (c \in Calls /\ result[c] # "pending")
=============================================================================
