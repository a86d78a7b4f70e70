--------------------------- MODULE EngineExecutor ---------------------------
(***************************************************************************)
(* The owner executor of the native Rust SDK (executor.rs with             *)
(* cancellation.rs, session.rs, reply.rs and the transaction part of       *)
(* database.rs): one owner thread runs the commands of one FIFO on one     *)
(* PostgreSQL session.  Ordinary work waits for capacity in a fair line,   *)
(* settlement and close do not.  Any future may be dropped at any await,   *)
(* the session may fail or panic, and cancellation is out of band.  A      *)
(* request of the mobile bindings has cancellation limited to itself.      *)
(*                                                                         *)
(* A client makes one call and drives its future.  A step of a client is   *)
(* one poll (or drop) of it, a step of the owner runs from one lock or one *)
(* session call to the next.  What a client's SQL writes is the client     *)
(* itself: in `open' while its transaction is open, in `live' once it is   *)
(* committed.                                                              *)
(***************************************************************************)
EXTENDS Integers, Sequences, FiniteSets, Functions

CONSTANTS Clients,   \* tasks that use the handle, one call each
          Kinds,     \* the calls they make
          Capacity,  \* ORDINARY_QUEUE_CAPACITY
          MaxTxOps   \* bound: operations of one transaction body

ASSUME ExecutorAssumption ==
  /\ Kinds \subseteq {"exec", "request", "backup", "transaction", "close", "cancel"}
  /\ Capacity \in Nat \ {0} /\ MaxTxOps \in Nat /\ "nobody" \notin Clients

None == 0
Nobody == "nobody"

VARIABLES
  op, pc, value, outcome,    \* a call: kind, await point, reply slot, result
  tok, guard, txops,         \* AsyncTransaction: token, guard.state, operations
  commands, ordinary_count,  \* CommandQueueState
  admission_waiters, woken, rejected,
  transaction_poisoned, closing, teardown_started, closed, terminal_drop,
  in_progress, terminal_result, close_waiters, \* CloseState
  accepting, cancellations,  \* CancellationGate: its flag, the calls under way
  phase, cancelled,          \* RequestCancellation of each "request"
  own, cur, ending,          \* the owner thread, its command, its close result
  active_pin, next_pin,      \* OwnerState
  handle,                    \* the last clone of the handle
  inTx, open, live,          \* the PostgreSQL session and its database
  wrote, tainted             \* history: whose transaction's SQL was answered, and
                             \* whose work began on a poisoned session

call == <<op, outcome>>
transaction == <<tok, guard, txops>>
capacity == <<ordinary_count, admission_waiters, woken, rejected>>
flags == <<closing, teardown_started, closed, terminal_drop>>
closeState == <<in_progress, terminal_result, close_waiters>>
request == <<phase, cancelled>>
gate == <<accepting, cancellations, request>>
pins == <<active_pin, next_pin>>
db == <<inTx, open, live>>
history == <<wrote, tainted>>
vars == <<call, pc, value, transaction, commands, capacity,
          transaction_poisoned, flags, closeState, gate, own, cur, ending,
          pins, handle, db, history>>

Command(c, k, t, a) == [client |-> c, kind |-> k, token |-> t, alive |-> a]
Idle == Command(Nobody, "none", None, FALSE)
is_ordinary(command) == command.kind \in {"exec", "request", "backup", "begin", "op"}
Stopped == own \in {"complete", "stopped"}

Init ==
  /\ op = [c \in Clients |-> "none"] /\ pc = [c \in Clients |-> "new"]
  /\ value = [c \in Clients |-> "none"] /\ outcome = [c \in Clients |-> "none"]
  /\ tok = [c \in Clients |-> None] /\ guard = [c \in Clients |-> "none"]
  /\ txops = [c \in Clients |-> 0]
  /\ commands = <<>> /\ ordinary_count = 0
  /\ admission_waiters = <<>> /\ woken = {} /\ rejected = {}
  /\ transaction_poisoned = FALSE /\ closing = FALSE /\ teardown_started = FALSE
  /\ closed = FALSE /\ terminal_drop = FALSE
  /\ in_progress = FALSE /\ terminal_result = "none" /\ close_waiters = {}
  /\ accepting = TRUE /\ cancellations = {}
  /\ phase = [c \in Clients |-> "queued"] /\ cancelled = {}
  /\ own = "opening" /\ cur = Idle /\ ending = "none"
  /\ active_pin = None /\ next_pin = 1 /\ handle = "opening"
  /\ inTx = FALSE /\ open = {} /\ live = {}
  /\ wrote = {} /\ tainted = {}

-----------------------------------------------------------------------------
(* Opening: the owner thread constructs the session *)

\* The session is open and the caller has its handle.
Opened ==
  /\ own = "opening" /\ handle = "opening"
  /\ own' = "receive" /\ handle' = "open"
  /\ UNCHANGED <<call, pc, value, transaction, commands, capacity,
                 transaction_poisoned, flags, closeState, gate, cur, ending,
                 pins, db, history>>

\* Opening failed, or its future was dropped: the session, if any, is disposed.
OpenFails ==
  /\ own = "opening"
  /\ own' = "panic" /\ accepting' = FALSE
  /\ UNCHANGED <<call, pc, value, transaction, commands, capacity,
                 transaction_poisoned, flags, closeState, cancellations, request,
                 cur, ending, pins, handle, db, history>>

-----------------------------------------------------------------------------
(* Admission of ordinary work: send and poll_send_ordinary *)

\* Mutant: whoever leaves the line wakes nobody.
SuccessorAsleep(line, count) == {}

\* The waiter to wake when there is capacity left.
Successor(line, count) ==
  IF count < Capacity /\ line # <<>> THEN {Head(line)} ELSE {}

\* The line without client c: remove at its position.
Without(line, c) ==
  LET at == CHOOSE i \in DOMAIN line : line[i] = c
  IN
  IF c \in Range(line) THEN SubSeq(line, 1, at - 1) \o SubSeq(line, at + 1, Len(line))
  ELSE line

\* cancel_admission, which Drop for AdmissionRegistration calls.
cancel_admission(c) ==
  LET was_next == admission_waiters # <<>> /\ Head(admission_waiters) = c
  IN
  /\ admission_waiters' = Without(admission_waiters, c)
  /\ woken' = (woken \ {c}) \cup
       IF was_next THEN Successor(admission_waiters', ordinary_count) ELSE {}
  /\ rejected' = rejected \ {c}

Refused(c) ==
  closed \/ closing \/ transaction_poisoned \/ Stopped \/ c \in rejected

\* A waiter is admitted from the front of the line, a new arrival only when
\* nobody waits.
IsNext(c) ==
  IF c \in Range(admission_waiters) THEN Head(admission_waiters) = c
  ELSE admission_waiters = <<>>

\* One poll of send that is not refused: admitted, or in the line.
poll_send_ordinary(c, k) ==
  /\ ~Refused(c)
  /\ IF ordinary_count < Capacity /\ IsNext(c)
     THEN /\ commands' = Append(commands, Command(c, k, tok[c], TRUE))
          /\ ordinary_count' = ordinary_count + 1
          /\ admission_waiters' = IF c \in Range(admission_waiters)
                                  THEN Tail(admission_waiters) ELSE admission_waiters
          /\ woken' = (woken \ {c}) \cup Successor(admission_waiters', ordinary_count')
          /\ pc' = [pc EXCEPT ![c] = IF k = "op" THEN "opsent" ELSE "sent"]
     ELSE /\ admission_waiters' = IF c \in Range(admission_waiters) THEN admission_waiters
                                  ELSE Append(admission_waiters, c)
          /\ woken' = woken \ {c}
          /\ pc' = [pc EXCEPT ![c] = IF k = "op" THEN "opwait" ELSE "wait"]
          /\ UNCHANGED <<commands, ordinary_count>>
  /\ UNCHANGED <<rejected, outcome>>

\* One that is refused ends the call; in a transaction body, the operation.
RefuseSend(c, k) ==
  /\ Refused(c)
  /\ cancel_admission(c)
  /\ pc' = [pc EXCEPT ![c] = IF k = "op" THEN "body" ELSE "done"]
  /\ outcome' = IF k = "op" THEN outcome ELSE [outcome EXCEPT ![c] = "refused"]
  /\ UNCHANGED <<commands, ordinary_count>>

\* run_cancellable drops its RequestFuture, which cancels, when send fails.
send(c, k) ==
  /\ poll_send_ordinary(c, k) \/ RefuseSend(c, k)
  /\ cancelled' = IF k = "request" /\ Refused(c) THEN cancelled \cup {c} ELSE cancelled
  /\ UNCHANGED <<value, tok, guard, transaction_poisoned, flags, closeState,
                 accepting, cancellations, phase, own, cur, ending, pins, handle,
                 db, history>>

CommandOf(kind) == IF kind = "transaction" THEN "begin" ELSE kind

\* exec_protocol_raw, exec_structured, the stream, backup, begin_transaction and,
\* for a request, run_cancellable
Call(c, kind) ==
  /\ pc[c] = "new" /\ handle = "open"
  /\ op' = [op EXCEPT ![c] = kind]
  /\ send(c, CommandOf(kind))
  /\ UNCHANGED txops

\* A transaction body issues an operation: ensure_active, then
\* pinned_exec_structured.
TxOp(c) ==
  /\ pc[c] = "body" /\ guard[c] = "active" /\ txops[c] < MaxTxOps
  /\ txops' = [txops EXCEPT ![c] = @ + 1]
  /\ send(c, "op")
  /\ UNCHANGED op

\* The task of a waiter is polled, because it was woken or for no reason.
PollSend(c) ==
  /\ pc[c] \in {"wait", "opwait"}
  /\ send(c, IF pc[c] = "opwait" THEN "op" ELSE CommandOf(op[c]))
  /\ UNCHANGED <<op, txops>>

-----------------------------------------------------------------------------
(* close *)

Deliver(answers) ==
  value' = [c \in Clients |-> IF c \in DOMAIN answers THEN answers[c] ELSE value[c]]

ToWaiters(waiters, v) ==
  [c \in {w \in waiters : pc[w] = "closing"} |-> v]

\* Mutant: a failed close can be repeated.
complete_terminal_closeAgain(waiters, result) ==
  LET kept == IF terminal_result = "none" THEN result ELSE terminal_result
  IN
  /\ terminal_result' = (IF result = "failed" THEN terminal_result ELSE kept)
  /\ in_progress' = FALSE /\ close_waiters' = {}
  /\ closing' = FALSE /\ closed' = TRUE
  /\ Deliver(ToWaiters(waiters, kept))

\* complete_terminal_close: the first result is the one that stays.
complete_terminal_close(waiters, result) ==
  LET kept == IF terminal_result = "none" THEN result ELSE terminal_result
  IN
  /\ terminal_result' = kept /\ in_progress' = FALSE /\ close_waiters' = {}
  /\ closing' = FALSE /\ closed' = TRUE
  /\ Deliver(ToWaiters(waiters, kept))

\* reject_admissions: nobody waits in line across a cutoff.
reject_admissions ==
  /\ rejected' = rejected \cup Range(admission_waiters)
  /\ woken' = woken \cup Range(admission_waiters)
  /\ admission_waiters' = <<>>

CloseCommand == Command(Nobody, "close", None, FALSE)

\* Mutant: the cutoff is not set.
StartCloseOpen(c) ==
  /\ ~in_progress
  /\ reject_admissions
  /\ IF Stopped
     THEN /\ terminal_result' = "stopped" /\ in_progress' = FALSE /\ close_waiters' = {}
          /\ closing' = FALSE /\ closed' = TRUE
          /\ value' = [value EXCEPT ![c] = "stopped"]
          /\ UNCHANGED commands
     ELSE /\ in_progress' = TRUE /\ close_waiters' = {c} /\ UNCHANGED closing
          /\ commands' = Append(commands, CloseCommand)
          /\ UNCHANGED <<closed, terminal_result, value>>

\* A first close sets the cutoff and queues Close; the queue may have stopped.
StartClose(c) ==
  /\ ~in_progress
  /\ reject_admissions
  /\ IF Stopped
     THEN /\ terminal_result' = "stopped" /\ in_progress' = FALSE /\ close_waiters' = {}
          /\ closing' = FALSE /\ closed' = TRUE
          /\ value' = [value EXCEPT ![c] = "stopped"]
          /\ UNCHANGED commands
     ELSE /\ in_progress' = TRUE /\ close_waiters' = {c} /\ closing' = TRUE
          /\ commands' = Append(commands, CloseCommand)
          /\ UNCHANGED <<closed, terminal_result, value>>

close(c) ==
  /\ pc[c] = "new" /\ handle = "open"
  /\ op' = [op EXCEPT ![c] = "close"]
  /\ \/ /\ terminal_result # "none"
        /\ pc' = [pc EXCEPT ![c] = "done"]
        /\ outcome' = [outcome EXCEPT ![c] = terminal_result]
        /\ UNCHANGED <<value, commands, capacity, flags, closeState>>
     \/ /\ terminal_result = "none"
        /\ pc' = [pc EXCEPT ![c] = "closing"]
        /\ \/ StartClose(c)
           \/ /\ in_progress
              /\ close_waiters' = close_waiters \cup {c}
              /\ UNCHANGED <<value, commands, admission_waiters, woken, rejected,
                             closing, closed, in_progress, terminal_result>>
        /\ UNCHANGED <<outcome, ordinary_count, teardown_started, terminal_drop>>
  /\ UNCHANGED <<transaction, transaction_poisoned, gate, own, cur, ending, pins,
                 handle, db, history>>

-----------------------------------------------------------------------------
(* cancel: out of band, on a thread of its own *)

cancel(c) ==
  /\ pc[c] = "new" /\ handle = "open"
  /\ op' = [op EXCEPT ![c] = "cancel"]
  /\ IF accepting
     THEN /\ cancellations' = cancellations \cup {c}
          /\ pc' = [pc EXCEPT ![c] = "cancelling"] /\ UNCHANGED outcome
     ELSE /\ pc' = [pc EXCEPT ![c] = "done"]
          /\ outcome' = [outcome EXCEPT ![c] = "refused"] /\ UNCHANGED cancellations
  /\ UNCHANGED <<value, transaction, commands, capacity, transaction_poisoned,
                 flags, closeState, accepting, request, own, cur, ending, pins,
                 handle, db, history>>

\* The engine's cancel call returns and its admission is dropped.
CancelReturns(c) ==
  /\ c \in cancellations
  /\ cancellations' = cancellations \ {c}
  /\ IF pc[c] = "cancelling"
     THEN pc' = [pc EXCEPT ![c] = "done"] /\ outcome' = [outcome EXCEPT ![c] = "ok"]
     ELSE UNCHANGED <<pc, outcome>>
  /\ UNCHANGED <<op, value, transaction, commands, capacity,
                 transaction_poisoned, flags, closeState, accepting, request,
                 own, cur, ending, pins, handle, db, history>>

\* RequestCancellation::cancel.  On a request that is running it starts a thread;
\* a request that is cancelled before never runs, so the thread is there exactly
\* while a cancelled request is active.
CancelRequest(c) ==
  /\ op[c] = "request" /\ handle = "open" /\ c \notin cancelled
  /\ pc[c] \in {"wait", "sent"} \/ phase[c] = "active"
  /\ cancelled' = cancelled \cup {c}
  /\ UNCHANGED <<call, pc, value, transaction, commands, capacity,
                 transaction_poisoned, flags, closeState, accepting,
                 cancellations, phase, own, cur, ending, pins, handle, db, history>>

\* That thread takes the request's phase lock, finds it active and calls the
\* engine's cancel; it keeps the lock until the call returns, then tries again.
InterruptRequest(c) ==
  /\ c \in cancelled \ cancellations /\ phase[c] = "active" /\ accepting
  /\ cancellations' = cancellations \cup {c}
  /\ UNCHANGED <<call, pc, value, transaction, commands, capacity,
                 transaction_poisoned, flags, closeState, accepting, request, own,
                 cur, ending, pins, handle, db, history>>

was_submitted(c) == phase[c] \in {"active", "finished"}

-----------------------------------------------------------------------------
(* The rest of a client's future *)

\* The reply ends the call.  A request that failed tells its caller whether it was
\* submitted.
Answered(c) ==
  /\ pc[c] \in {"sent", "closing"} /\ value[c] \notin {"none", "begun"}
  /\ pc' = [pc EXCEPT ![c] = "done"]
  /\ outcome' = [outcome EXCEPT ![c] =
       IF op[c] = "request" /\ value[c] # "ok" /\ ~was_submitted(c)
       THEN "cancelled" ELSE value[c]]
  /\ value' = [value EXCEPT ![c] = "none"]
  /\ UNCHANGED <<op, transaction, commands, capacity, transaction_poisoned,
                 flags, closeState, gate, own, cur, ending, pins, handle, db,
                 history>>

\* start_transaction has its token; a body's operation has its answer.
TxResumes(c) ==
  /\ \/ pc[c] = "sent" /\ value[c] = "begun"
        /\ guard' = [guard EXCEPT ![c] = "active"]
     \/ pc[c] = "opsent" /\ value[c] # "none" /\ UNCHANGED guard
  /\ pc' = [pc EXCEPT ![c] = "body"] /\ value' = [value EXCEPT ![c] = "none"]
  /\ UNCHANGED <<call, tok, txops, commands, capacity, transaction_poisoned,
                 flags, closeState, gate, own, cur, ending, pins, handle, db,
                 history>>

\* send_transaction_settlement and send_cleanup
CanSettle == ~closed /\ ~teardown_started /\ ~Stopped
Settle(c, k, alive) == commands' = Append(commands, Command(c, k, tok[c], alive))

\* rollback, called by the body or because the body failed
TxRollback(c) ==
  /\ pc[c] = "body" /\ guard[c] = "active"
  /\ \/ /\ CanSettle
        /\ Settle(c, "rollback", TRUE)
        /\ pc' = [pc EXCEPT ![c] = "rollback"]
        /\ guard' = [guard EXCEPT ![c] = "finishing"]
        /\ UNCHANGED transaction_poisoned
     \/ /\ ~CanSettle
        /\ transaction_poisoned' = TRUE
        /\ guard' = [guard EXCEPT ![c] = "failed"]
        /\ UNCHANGED <<commands, pc>>
  /\ UNCHANGED <<call, value, tok, txops, capacity, flags, closeState, gate, own,
                 cur, ending, pins, handle, db, history>>

TxRolledBack(c) ==
  /\ pc[c] = "rollback" /\ value[c] # "none"
  /\ guard' = [guard EXCEPT ![c] = IF value[c] = "ROLLBACK" THEN "rolledback" ELSE "failed"]
  /\ transaction_poisoned' = (transaction_poisoned \/ value[c] # "ROLLBACK")
  /\ pc' = [pc EXCEPT ![c] = "body"] /\ value' = [value EXCEPT ![c] = "none"]
  /\ UNCHANGED <<call, tok, txops, commands, capacity, flags, closeState, gate,
                 own, cur, ending, pins, handle, db, history>>

\* release: the end of a transaction with this result
Release(c, result) ==
  IF CanSettle
  THEN /\ Settle(c, "release", TRUE)
       /\ pc' = [pc EXCEPT ![c] = "release"]
       /\ outcome' = [outcome EXCEPT ![c] = result]
  ELSE /\ pc' = [pc EXCEPT ![c] = "done"]
       /\ outcome' = [outcome EXCEPT ![c] = "error"]
       /\ UNCHANGED commands

\* The body returned Ok: commit.
TxCommit(c) ==
  /\ pc[c] = "body" /\ guard[c] = "active"
  /\ \/ /\ CanSettle
        /\ Settle(c, "commit", TRUE)
        /\ pc' = [pc EXCEPT ![c] = "commit"]
        /\ guard' = [guard EXCEPT ![c] = "finishing"]
        /\ UNCHANGED <<outcome, transaction_poisoned>>
     \/ /\ ~CanSettle
        /\ transaction_poisoned' = TRUE
        /\ guard' = [guard EXCEPT ![c] = "released"]
        /\ Release(c, "error")
  /\ UNCHANGED <<op, value, tok, txops, capacity, flags, closeState, gate, own,
                 cur, ending, pins, handle, db, history>>

\* Only COMMIT is a success, and only ROLLBACK a failure with a known boundary.
TxCommitted(c) ==
  /\ pc[c] = "commit" /\ value[c] # "none"
  /\ transaction_poisoned' =
       (transaction_poisoned \/ value[c] \notin {"COMMIT", "ROLLBACK"} \/ ~CanSettle)
  /\ guard' = [guard EXCEPT ![c] = "released"] /\ value' = [value EXCEPT ![c] = "none"]
  /\ Release(c, IF value[c] = "COMMIT" THEN "ok" ELSE "error")
  /\ UNCHANGED <<op, tok, txops, capacity, flags, closeState, gate, own, cur,
                 ending, pins, handle, db, history>>

\* The body returned and the transaction is no longer active:
\* finish_explicit_rollback.
TxFinish(c) ==
  /\ pc[c] = "body" /\ guard[c] # "active"
  /\ transaction_poisoned' =
       (transaction_poisoned \/ guard[c] = "finishing" \/ ~CanSettle)
  /\ Release(c, IF guard[c] = "rolledback" THEN "rolledback" ELSE "error")
  /\ UNCHANGED <<op, value, transaction, capacity, flags, closeState, gate, own,
                 cur, ending, pins, handle, db, history>>

TxReleased(c) ==
  /\ pc[c] = "release" /\ value[c] # "none"
  /\ transaction_poisoned' = (transaction_poisoned \/ value[c] # "ok")
  /\ outcome' = IF value[c] = "ok" THEN outcome ELSE [outcome EXCEPT ![c] = "error"]
  /\ guard' = [guard EXCEPT ![c] = "released"]
  /\ pc' = [pc EXCEPT ![c] = "done"] /\ value' = [value EXCEPT ![c] = "none"]
  /\ UNCHANGED <<op, tok, txops, commands, capacity, flags, closeState, gate,
                 own, cur, ending, pins, handle, db, history>>

-----------------------------------------------------------------------------
(* Futures that are dropped at an await *)

\* The receiver of the client's outstanding reply is gone.
Orphaned(command, c) ==
  IF command.client = c THEN [command EXCEPT !.alive = FALSE] ELSE command
Orphan(c) ==
  /\ cur' = Orphaned(cur, c)
  /\ value' = [value EXCEPT ![c] = "none"]
Orphans(c) == [i \in DOMAIN commands |-> Orphaned(commands[i], c)]

Queued(c) == \E i \in DOMAIN commands : commands[i].client = c

\* Nothing of a call that is dropped at this point has been or will be run.
DroppedInTime(c) ==
  \/ pc[c] = "wait"
  \/ IF op[c] = "request" THEN ~was_submitted(c) ELSE Queued(c)

\* A call that is not a running transaction.  Its command, when the owner has not
\* begun it, is never run; Drop for RequestFuture also cancels.
Drop(c) ==
  /\ pc[c] \in {"wait", "sent", "closing", "cancelling"}
  /\ commands' = Orphans(c) /\ Orphan(c)
  /\ cancel_admission(c)
  /\ pc' = [pc EXCEPT ![c] = "done"]
  /\ outcome' = [outcome EXCEPT ![c] =
                   IF DroppedInTime(c) THEN "cancelled" ELSE "dropped"]
  /\ cancelled' = IF op[c] = "request" THEN cancelled \cup {c} ELSE cancelled
  /\ UNCHANGED <<op, transaction, ordinary_count, transaction_poisoned, flags,
                 closeState, accepting, cancellations, phase, own, ending, pins,
                 handle, db, history>>

\* A body drops the future of one of its operations, or of rollback, and goes on.
TxDropOp(c) ==
  /\ pc[c] \in {"opwait", "opsent", "rollback"}
  /\ commands' = Orphans(c) /\ Orphan(c)
  /\ cancel_admission(c)
  /\ pc' = [pc EXCEPT ![c] = "body"]
  /\ UNCHANGED <<call, transaction, ordinary_count, transaction_poisoned, flags,
                 closeState, gate, own, ending, pins, handle, db, history>>

\* Mutant: an active transaction that is dropped only gives back its pin.
DropCleanupNoRollback(c) == "release"

\* Drop for AsyncTransaction and SessionPin: an active transaction is rolled
\* back; one whose settlement is under way only gives back its pin.
DropCleanup(c) == IF guard[c] = "active" THEN "undo" ELSE "release"

TxDrop(c) ==
  /\ pc[c] \in {"body", "opwait", "opsent", "rollback", "commit", "release"}
  /\ Orphan(c) /\ cancel_admission(c)
  /\ commands' = IF CanSettle
                 THEN Append(Orphans(c), Command(c, DropCleanup(c), tok[c], FALSE))
                 ELSE Orphans(c)
  /\ transaction_poisoned' =
       (transaction_poisoned \/ (guard[c] = "finishing" /\ pc[c] # "release"))
  /\ guard' = [guard EXCEPT ![c] = "released"]
  /\ pc' = [pc EXCEPT ![c] = "done"] /\ outcome' = [outcome EXCEPT ![c] = "dropped"]
  /\ UNCHANGED <<op, tok, txops, ordinary_count, flags, closeState, gate, own,
                 ending, pins, handle, db, history>>

\* schedule_terminal_drop_close
schedule_terminal_drop_close ==
  IF terminal_drop /\ terminal_result = "none" /\ ~in_progress
  THEN IF Stopped
       THEN complete_terminal_close(close_waiters, "stopped") /\ UNCHANGED commands
       ELSE /\ in_progress' = TRUE /\ closing' = TRUE
            /\ commands' = Append(commands, CloseCommand)
            /\ UNCHANGED <<closed, terminal_result, close_waiters, value>>
  ELSE UNCHANGED <<closing, closed, commands, closeState, value>>

\* Drop for EngineExecutor, once no future and no transaction holds a handle: it
\* marks the drop, then schedules a close.
DropHandle ==
  /\ handle \in {"opening", "open"}
  /\ \A c \in Clients : pc[c] \in {"new", "done"}
  /\ handle' = IF closed THEN "dropped" ELSE "dropping"
  /\ terminal_drop' = (terminal_drop \/ ~closed)
  /\ UNCHANGED <<call, pc, value, transaction, commands, capacity,
                 transaction_poisoned, closing, teardown_started, closed,
                 closeState, gate, own, cur, ending, pins, db, history>>

DropSchedules ==
  /\ handle = "dropping" /\ handle' = "dropped"
  /\ schedule_terminal_drop_close
  /\ UNCHANGED <<call, pc, transaction, capacity, transaction_poisoned,
                 teardown_started, terminal_drop, gate, own, cur, ending, pins,
                 db, history>>

-----------------------------------------------------------------------------
(* The owner thread: receive and execute_command *)

\* receive takes the oldest command and wakes the first waiter.
Receive ==
  /\ own = "receive" /\ commands # <<>>
  /\ commands' = Tail(commands)
  /\ ordinary_count' = ordinary_count - (IF is_ordinary(Head(commands)) THEN 1 ELSE 0)
  /\ woken' = woken \cup IF admission_waiters # <<>> THEN {Head(admission_waiters)} ELSE {}
  /\ UNCHANGED <<admission_waiters, rejected>>

Reply(command, v) ==
  value' = IF command.alive THEN [value EXCEPT ![command.client] = v] ELSE value

is_abandoned(command) ==
  /\ is_ordinary(command)
  /\ ~command.alive \/ (command.kind = "request" /\ command.client \in cancelled)

\* A skipped command's reply is dropped, which answers whoever still awaits it.
Skip ==
  /\ Receive /\ is_abandoned(Head(commands))
  /\ Reply(Head(commands), "stopped")
  /\ UNCHANGED <<call, pc, transaction, transaction_poisoned, flags,
                 closeState, gate, own, cur, ending, pins, handle, db, history>>

\* Commands the owner answers without calling the session: work beside a pinned
\* transaction, work of a transaction that is over, settlement when the session
\* is poisoned.
IsRejected(command) ==
  \/ command.kind \in {"exec", "request", "backup", "begin"} /\ active_pin # None
  \/ command.kind \in {"op", "commit", "rollback"} /\ active_pin # command.token
  \/ command.kind = "op" /\ guard[command.client] # "active"
  \/ command.kind \in {"commit", "rollback"} /\ transaction_poisoned

Works(command) == command.kind \in {"exec", "backup", "begin", "op", "commit", "rollback"}

Reject ==
  /\ Receive /\ ~is_abandoned(Head(commands))
  /\ Works(Head(commands)) /\ IsRejected(Head(commands))
  /\ Reply(Head(commands), "active")
  /\ UNCHANGED <<call, pc, transaction, transaction_poisoned, flags, closeState,
                 gate, own, cur, ending, pins, handle, db, history>>

\* A request is first taken off the queue; nothing is locked yet.
TakeRequest ==
  /\ Receive /\ Head(commands).kind = "request" /\ ~is_abandoned(Head(commands))
  /\ own' = "enter" /\ cur' = Head(commands)
  /\ UNCHANGED <<call, pc, value, transaction, transaction_poisoned, flags,
                 closeState, gate, ending, pins, handle, db, history>>

\* Mutant: the owner does not look again for a cancellation.
EnterRequestUnchecked ==
  /\ own = "enter"
  /\ phase' = [phase EXCEPT ![cur.client] = "active"]
  /\ IF IsRejected(cur)
     THEN own' = "leave" /\ Reply(cur, "active") /\ UNCHANGED tainted
     ELSE own' = "run" /\ UNCHANGED <<value, tainted>>
  /\ UNCHANGED <<call, pc, transaction, commands, capacity, transaction_poisoned,
                 flags, closeState, accepting, cancellations, cancelled, ending,
                 cur, pins, handle, db, wrote>>

\* execute_command of a Cancellable, under its phase lock: a request that was
\* cancelled in the meantime is not run, any other is active from here on.
EnterRequest ==
  /\ own = "enter"
  /\ \/ /\ cur.client \in cancelled
        /\ phase' = [phase EXCEPT ![cur.client] = "unsubmitted"]
        /\ own' = "receive" /\ cur' = Idle /\ Reply(cur, "stopped")
        /\ UNCHANGED tainted
     \/ /\ cur.client \notin cancelled
        /\ phase' = [phase EXCEPT ![cur.client] = "active"]
        /\ IF IsRejected(cur)
           THEN own' = "leave" /\ Reply(cur, "active") /\ UNCHANGED tainted
           ELSE /\ own' = "run" /\ UNCHANGED value
                /\ tainted' = IF transaction_poisoned THEN tainted \cup {cur.client} ELSE tainted
        /\ UNCHANGED cur
  /\ UNCHANGED <<call, pc, transaction, commands, capacity, transaction_poisoned,
                 flags, closeState, accepting, cancellations, cancelled, ending,
                 pins, handle, db, wrote>>

allocate_pin == next_pin' = next_pin + 1

\* The session call begins; a BEGIN carries the token it will pin.
Start ==
  LET command == Head(commands)
  IN
  /\ Receive /\ ~is_abandoned(command) /\ Works(command) /\ ~IsRejected(command)
  /\ own' = "run"
  /\ IF command.kind = "begin"
     THEN cur' = [command EXCEPT !.token = next_pin] /\ allocate_pin
     ELSE cur' = command /\ UNCHANGED next_pin
  /\ tainted' = IF transaction_poisoned THEN tainted \cup {command.client} ELSE tainted
  /\ UNCHANGED <<call, pc, value, transaction, transaction_poisoned, flags,
                 closeState, gate, ending, active_pin, handle, db, wrote>>

ReleasePin ==
  LET command == Head(commands)
  IN
  /\ Receive /\ command.kind = "release"
  /\ IF active_pin = command.token
     THEN active_pin' = None /\ Reply(command, "ok")
     ELSE Reply(command, "error") /\ UNCHANGED active_pin
  /\ UNCHANGED <<call, pc, transaction, transaction_poisoned, flags, closeState,
                 gate, own, cur, ending, next_pin, handle, db, history>>

\* rollback_active_pin: a pin that matches is given back, after a ROLLBACK unless
\* the session is poisoned.
rollback_active_pin(command, after) ==
  IF active_pin # command.token \/ transaction_poisoned
  THEN /\ own' = after /\ cur' = Idle
       /\ active_pin' = IF active_pin = command.token THEN None ELSE active_pin
  ELSE own' = "rollback" /\ cur' = command /\ UNCHANGED active_pin

RollbackAndReleasePin ==
  /\ Receive /\ Head(commands).kind = "undo"
  /\ rollback_active_pin(Head(commands), "receive")
  /\ UNCHANGED <<call, pc, value, transaction, transaction_poisoned, flags,
                 closeState, gate, ending, next_pin, handle, db, history>>

\* Mutant: close does not look at the pin.
ReceiveCloseAnyway ==
  /\ Receive /\ Head(commands).kind = "close"
  /\ own' = "teardown" /\ UNCHANGED <<cur, active_pin>>
  /\ UNCHANGED <<call, pc, value, transaction, transaction_poisoned, flags,
                 closeState, gate, ending, next_pin, handle, db, history>>

\* Close: refused while a transaction is active, unless the last handle is gone.
ReceiveClose ==
  /\ Receive /\ Head(commands).kind = "close"
  /\ \/ /\ active_pin = None
        /\ own' = "teardown" /\ UNCHANGED <<cur, active_pin>>
     \/ /\ active_pin # None /\ terminal_drop
        /\ rollback_active_pin([CloseCommand EXCEPT !.token = active_pin], "teardown")
     \/ /\ active_pin # None /\ ~terminal_drop
        /\ own' = "retry" /\ UNCHANGED <<cur, active_pin>>
  /\ UNCHANGED <<call, pc, value, transaction, transaction_poisoned, flags,
                 closeState, gate, ending, next_pin, handle, db, history>>

-----------------------------------------------------------------------------
(* The session's answers *)

\* What the client's SQL does: at once, or when the open transaction commits.
Effect(c) ==
  IF inTx THEN open' = open \cup {c} /\ UNCHANGED <<inTx, live>>
  ELSE live' = live \cup {c} /\ UNCHANGED <<inTx, open>>

CommitTx == live' = live \cup open /\ open' = {} /\ inTx' = FALSE
AbortTx == open' = {} /\ inTx' = FALSE /\ UNCHANGED live

\* execute_raw_operation, execute_structured_operation, execute_stream, backup:
\* only an exchange without a complete response poisons the session, and its SQL
\* may or may not have run.
FinishWork ==
  /\ own = "run" /\ cur.kind \in {"exec", "request", "backup"}
  /\ \/ /\ Reply(cur, "ok")
        /\ IF cur.kind # "backup" THEN Effect(cur.client) ELSE UNCHANGED db
        /\ UNCHANGED transaction_poisoned
     \/ Reply(cur, "error") /\ UNCHANGED <<db, transaction_poisoned>>
     \/ /\ cur.kind # "backup"
        /\ Reply(cur, "error")
        /\ transaction_poisoned' = TRUE
        /\ Effect(cur.client) \/ UNCHANGED db
  /\ IF cur.kind = "request" THEN own' = "leave" /\ UNCHANGED cur
     ELSE own' = "receive" /\ cur' = Idle
  /\ UNCHANGED <<call, pc, transaction, commands, capacity, flags, closeState,
                 gate, ending, pins, handle, history>>

\* Mutant: the end of a request does not wait for its phase lock.
LeaveRequestUnlocked ==
  /\ own \in {"leave", "unwind"}
  /\ phase' = [phase EXCEPT ![cur.client] = "finished"] /\ cur' = Idle
  /\ IF own = "leave" THEN own' = "receive" /\ UNCHANGED accepting
     ELSE own' = "panic" /\ accepting' = FALSE
  /\ UNCHANGED <<call, pc, value, transaction, commands, capacity,
                 transaction_poisoned, flags, closeState, cancellations, cancelled,
                 ending, pins, handle, db, history>>

\* Drop for ActiveRequest, after the reply: it waits for the phase lock, which a
\* cancelling thread holds during the engine's cancel call.
LeaveRequest ==
  /\ own \in {"leave", "unwind"} /\ cur.client \notin cancellations
  /\ phase' = [phase EXCEPT ![cur.client] = "finished"] /\ cur' = Idle
  /\ IF own = "leave" THEN own' = "receive" /\ UNCHANGED accepting
     ELSE own' = "panic" /\ accepting' = FALSE
  /\ UNCHANGED <<call, pc, value, transaction, commands, capacity,
                 transaction_poisoned, flags, closeState, cancellations, cancelled,
                 ending, pins, handle, db, history>>

\* begin_transaction, and the pin; when the caller is gone it is rolled back.
FinishBegin ==
  /\ own = "run" /\ cur.kind = "begin"
  /\ \/ /\ inTx' = TRUE /\ UNCHANGED <<open, live, transaction_poisoned>>
        /\ IF cur.alive
           THEN /\ active_pin' = cur.token /\ tok' = [tok EXCEPT ![cur.client] = cur.token]
                /\ Reply(cur, "begun") /\ own' = "receive" /\ cur' = Idle
           ELSE /\ IF transaction_poisoned
                   THEN own' = "receive" /\ cur' = Idle /\ UNCHANGED active_pin
                   ELSE own' = "rollback" /\ active_pin' = cur.token /\ UNCHANGED cur
                /\ UNCHANGED <<tok, value>>
     \/ /\ Reply(cur, "error") /\ own' = "receive" /\ cur' = Idle
        /\ \/ UNCHANGED <<db, transaction_poisoned>>
           \/ /\ transaction_poisoned' = TRUE
              /\ inTx' \in {inTx, TRUE} /\ UNCHANGED <<open, live>>
        /\ UNCHANGED <<tok, active_pin>>
  /\ UNCHANGED <<call, pc, guard, txops, commands, capacity, flags, closeState,
                 gate, ending, next_pin, handle, history>>

\* execute_transaction_structured_operation: no complete response, or SQL that
\* ended the transaction itself, fails the transaction and poisons the session.
FinishOp ==
  /\ own = "run" /\ cur.kind = "op"
  /\ \/ /\ Reply(cur, "ok") /\ Effect(cur.client)
        /\ wrote' = wrote \cup {cur.client}
        /\ UNCHANGED <<guard, transaction_poisoned>>
     \/ Reply(cur, "error") /\ UNCHANGED <<db, guard, transaction_poisoned, wrote>>
     \/ /\ Reply(cur, "error")
        /\ transaction_poisoned' = TRUE
        /\ guard' = [guard EXCEPT ![cur.client] = "failed"]
        /\ Effect(cur.client) \/ CommitTx \/ AbortTx \/ UNCHANGED db
        /\ UNCHANGED wrote
  /\ own' = "receive" /\ cur' = Idle
  /\ UNCHANGED <<call, pc, tok, txops, commands, capacity, flags, closeState,
                 gate, ending, pins, handle, tainted>>

\* COMMIT and ROLLBACK of a pinned transaction.  A COMMIT may be answered by
\* ROLLBACK or by an error; without an answer anything may have happened.
FinishControl ==
  /\ own = "run" /\ cur.kind \in {"commit", "rollback"}
  /\ \/ /\ IF cur.kind = "commit" THEN CommitTx /\ Reply(cur, "COMMIT")
           ELSE AbortTx /\ Reply(cur, "ROLLBACK")
        /\ UNCHANGED transaction_poisoned
     \/ AbortTx /\ Reply(cur, "ROLLBACK") /\ UNCHANGED transaction_poisoned
     \/ AbortTx /\ Reply(cur, "error") /\ UNCHANGED transaction_poisoned
     \/ /\ transaction_poisoned' = TRUE /\ Reply(cur, "error")
        /\ UNCHANGED db \/ (cur.kind = "commit" /\ CommitTx)
  /\ own' = "receive" /\ cur' = Idle
  /\ UNCHANGED <<call, pc, transaction, commands, capacity, flags, closeState,
                 gate, ending, pins, handle, history>>

\* The ROLLBACK of rollback_active_pin; one that is not confirmed poisons.
FinishRollback ==
  /\ own = "rollback"
  /\ \/ AbortTx /\ UNCHANGED transaction_poisoned
     \/ transaction_poisoned' = TRUE /\ (AbortTx \/ UNCHANGED db)
  /\ active_pin' = None
  /\ own' = (IF cur.kind = "close" THEN "teardown" ELSE "receive") /\ cur' = Idle
  /\ UNCHANGED <<call, pc, value, transaction, commands, capacity, flags,
                 closeState, gate, ending, next_pin, handle, history>>

-----------------------------------------------------------------------------
(* The end of a close attempt, and of the owner thread *)

\* Mutant: the waiters of a refused attempt are left for the next one.
complete_retryable_closeWaits ==
  /\ own = "retry" /\ own' = "recheck"
  /\ in_progress' = FALSE /\ closing' = FALSE
  /\ UNCHANGED <<call, pc, value, close_waiters, transaction, commands, capacity,
                 transaction_poisoned, teardown_started, closed, terminal_drop,
                 terminal_result, gate, cur, ending, pins, handle, db, history>>

\* complete_retryable_close: admission reopens and every waiter is told.
complete_retryable_close ==
  /\ own = "retry" /\ own' = "recheck"
  /\ in_progress' = FALSE /\ closing' = FALSE /\ close_waiters' = {}
  /\ Deliver(ToWaiters(close_waiters, "active"))
  /\ UNCHANGED <<call, pc, transaction, commands, capacity,
                 transaction_poisoned, teardown_started, closed, terminal_drop,
                 terminal_result, gate, cur, ending, pins, handle, db, history>>

\* Mutant: the owner does not look again for a final drop.
RecheckNothing ==
  /\ own = "recheck" /\ own' = "receive"
  /\ UNCHANGED <<call, pc, value, transaction, commands, capacity, flags,
                 closeState, transaction_poisoned, gate, cur, ending, pins,
                 handle, db, history>>

\* The final drop may have raced with the attempt.
Recheck ==
  /\ own = "recheck" /\ own' = "receive"
  /\ schedule_terminal_drop_close
  /\ UNCHANGED <<call, pc, transaction, capacity, transaction_poisoned,
                 teardown_started, terminal_drop, gate, cur, ending, pins,
                 handle, db, history>>

stop_accepting == accepting' = FALSE

\* The destructive boundary, under the admission lock.
Teardown ==
  /\ own = "teardown" /\ own' = "drain"
  /\ stop_accepting /\ teardown_started' = TRUE
  /\ UNCHANGED <<call, pc, value, transaction, commands, capacity,
                 transaction_poisoned, closing, closed, terminal_drop,
                 closeState, cancellations, request, cur, ending, pins, handle,
                 db, history>>

wait_for_idle ==
  /\ own = "drain" /\ cancellations = {}
  /\ own' = "shut"
  /\ UNCHANGED <<call, pc, value, transaction, commands, capacity,
                 transaction_poisoned, flags, closeState, gate, cur, ending,
                 pins, handle, db, history>>

\* session.close: what is open is lost; a panic is a failure.
CloseSession ==
  /\ own = "shut" /\ own' = "stop"
  /\ ending' \in {"ok", "failed"}
  /\ AbortTx
  /\ UNCHANGED <<call, pc, value, transaction, commands, capacity,
                 transaction_poisoned, flags, closeState, gate, cur, pins,
                 handle, history>>

\* A session call panics: the reply's sender is dropped on the way.
OwnerPanics ==
  /\ own \in {"run", "rollback"}
  /\ Reply(cur, "stopped")
  /\ IF cur.kind = "request" THEN own' = "unwind" /\ UNCHANGED <<cur, accepting>>
     ELSE own' = "panic" /\ cur' = Idle /\ accepting' = FALSE
  /\ UNCHANGED <<call, pc, transaction, commands, capacity,
                 transaction_poisoned, flags, closeState, cancellations, request,
                 ending, pins, handle, db, history>>

\* stop_and_wait, then the session is disposed.
Dispose ==
  /\ own = "panic" /\ cancellations = {}
  /\ own' = "stop" /\ ending' = "stopped"
  /\ AbortTx /\ active_pin' = None
  /\ UNCHANGED <<call, pc, value, transaction, commands, capacity,
                 transaction_poisoned, flags, closeState, gate, cur, next_pin,
                 handle, history>>

\* queue.stop: everyone in the queue or in line learns that the engine stopped.
stop ==
  LET pending == {commands[i].client : i \in {j \in DOMAIN commands : commands[j].alive}}
  IN
  /\ own = "stop" /\ own' = "complete" /\ teardown_started' = TRUE
  /\ Deliver([c \in pending |-> "stopped"])
  /\ commands' = <<>> /\ ordinary_count' = 0
  /\ reject_admissions
  /\ UNCHANGED <<call, pc, transaction, transaction_poisoned, closing, closed,
                 terminal_drop, closeState, gate, cur, ending, pins, handle,
                 db, history>>

Complete ==
  /\ own = "complete" /\ own' = "stopped"
  /\ complete_terminal_close(close_waiters, ending)
  /\ UNCHANGED <<call, pc, transaction, commands, capacity,
                 transaction_poisoned, teardown_started, terminal_drop, gate,
                 cur, ending, pins, handle, db, history>>

-----------------------------------------------------------------------------
Owner ==
  \/ Skip \/ TakeRequest \/ EnterRequest \/ Reject \/ Start
  \/ ReleasePin \/ RollbackAndReleasePin \/ ReceiveClose
  \/ FinishWork \/ FinishBegin \/ FinishOp \/ FinishControl \/ FinishRollback
  \/ LeaveRequest \/ complete_retryable_close \/ Recheck \/ Teardown \/ wait_for_idle
  \/ CloseSession \/ Dispose \/ stop \/ Complete

\* What a client's task does when it is woken or its body goes on.
Resume(c) ==
  \/ Answered(c) \/ TxResumes(c) \/ TxRolledBack(c) \/ TxCommitted(c) \/ TxReleased(c)
  \/ TxRollback(c) \/ TxCommit(c) \/ TxFinish(c)

Client(c) ==
  \/ \E kind \in Kinds \cap {"exec", "request", "backup", "transaction"} : Call(c, kind)
  \/ "close" \in Kinds /\ close(c)
  \/ "cancel" \in Kinds /\ cancel(c)
  \/ CancelRequest(c) \/ InterruptRequest(c)
  \/ CancelReturns(c) \/ PollSend(c) \/ TxOp(c) \/ Resume(c)
  \/ Drop(c) \/ TxDropOp(c) \/ TxDrop(c)

Next ==
  \/ Opened \/ OpenFails \/ DropHandle \/ DropSchedules
  \/ Owner \/ OwnerPanics
  \/ \E c \in Clients : Client(c)

Spec == Init /\ [][Next]_vars

\* The session opens or fails to; the owner thread runs and the session answers
\* it; a woken task is polled; a transaction body and a cancel call end; a request's
\* cancelling thread sleeps between its calls without the phase lock, so that the
\* owner gets it.
FairSpec ==
  /\ Spec /\ WF_vars(Opened \/ OpenFails) /\ WF_vars(Owner) /\ WF_vars(DropSchedules)
  /\ SF_vars(LeaveRequest)
  /\ \A c \in Clients :
       /\ WF_vars(c \in woken /\ PollSend(c))
       /\ WF_vars(Resume(c)) /\ WF_vars(CancelReturns(c))

-----------------------------------------------------------------------------
(* Properties *)

\* Every variable holds a value of its type, and ordinary_count counts the
\* ordinary commands in the queue, never more than the capacity.
TypeOK ==
  /\ op \in [Clients -> {"none"} \cup Kinds]
  /\ pc \in [Clients -> {"new", "wait", "sent", "body", "opwait", "opsent",
                         "rollback", "commit", "release", "closing",
                         "cancelling", "done"}]
  /\ value \in [Clients -> {"none", "ok", "error", "active", "begun", "COMMIT",
                            "ROLLBACK", "stopped", "failed"}]
  /\ outcome \in [Clients -> {"none", "ok", "error", "active", "stopped",
                              "failed", "refused", "rolledback", "cancelled",
                              "dropped"}]
  /\ tok \in [Clients -> Nat] /\ txops \in [Clients -> 0..MaxTxOps]
  /\ guard \in [Clients -> {"none", "active", "finishing", "rolledback",
                            "failed", "released"}]
  /\ commands \in Seq([client : Clients \cup {Nobody}, token : Nat, alive : BOOLEAN,
                       kind : {"exec", "request", "backup", "begin", "op", "commit",
                               "rollback", "release", "undo", "close"}])
  /\ ordinary_count \in Nat
  /\ admission_waiters \in Seq(Clients)
  /\ woken \subseteq Clients /\ rejected \subseteq Clients
  /\ \A b \in {transaction_poisoned, closing, teardown_started, closed,
               terminal_drop, in_progress, accepting, inTx} : b \in BOOLEAN
  /\ terminal_result \in {"none", "ok", "failed", "stopped"}
  /\ close_waiters \subseteq Clients /\ cancellations \subseteq Clients
  /\ phase \in [Clients -> {"queued", "active", "finished", "unsubmitted"}]
  /\ cancelled \subseteq Clients
  /\ own \in {"opening", "receive", "enter", "run", "leave", "unwind", "rollback",
              "retry", "recheck",
              "teardown", "drain", "shut", "panic", "stop", "complete", "stopped"}
  /\ ending \in {"none", "ok", "failed", "stopped"}
  /\ active_pin \in Nat /\ next_pin \in Nat
  /\ handle \in {"opening", "open", "dropping", "dropped"}
  /\ open \subseteq Clients /\ live \subseteq Clients
  /\ wrote \subseteq Clients /\ tainted \subseteq Clients

\* Close is a cutoff: no ordinary command is behind it in the queue, and none is
\* left when teardown begins, however often a close was refused and admission
\* reopened (close, send and the owner under the admission lock).  A capacity
\* waiter that a close rejected never gets into the queue, also after that close
\* was refused (AdmissionToken.rejected).
WorkBeforeClose ==
  /\ \A i, j \in DOMAIN commands :
       i < j /\ commands[i].kind = "close" => ~is_ordinary(commands[j])
  /\ own \in {"teardown", "drain", "shut"} =>
       \A i \in DOMAIN commands : ~is_ordinary(commands[i])
  /\ \A i \in DOMAIN commands :
       is_ordinary(commands[i]) /\ commands[i].alive => commands[i].client \notin rejected

\* The queue never holds more ordinary commands than its capacity, and a free
\* place is always on offer: its first waiter has been woken for it, whoever
\* admitted, refused or dropped the others.
CapacityIsOffered ==
  /\ ordinary_count = Cardinality({i \in DOMAIN commands : is_ordinary(commands[i])})
  /\ ordinary_count <= Capacity
  /\ admission_waiters # <<>> /\ ordinary_count < Capacity => Head(admission_waiters) \in woken

\* On a session that is not poisoned the open transaction holds the writes of the
\* pin's owner and of nobody else; without a pin nothing is open.
TransactionIsAlone ==
  ~transaction_poisoned => \A c \in open : active_pin = tok[c] /\ active_pin # None

\* Answers are true, for work that began on a session not poisoned: success means
\* committed; refused, cancelled in the queue, rejected beside a transaction,
\* rolled back, or a request not submitted ("false failures leave SQL untouched",
\* Request::was_submitted) means that nothing was or will be.
AnswersAreTrue ==
  \A c \in Clients \ tainted :
    /\ outcome[c] = "ok" /\ (op[c] \in {"exec", "request"} \/ c \in wrote) => c \in live
    /\ outcome[c] \in {"refused", "cancelled", "active", "rolledback"} =>
         c \notin live \cup open

\* The cancellation of one request is never delivered to other work: while its
\* thread is in the engine's cancel call the owner runs, or has just run, that
\* request ("Request cancellation without targeting any other queued or later
\* operation"; the owner cannot advance past a held phase lock).
InterruptHitsItsRequest ==
  \A c \in cancellations : op[c] = "request" =>
    own \in {"run", "leave", "unwind"} /\ cur.client = c

\* The session is torn down alone: no transaction is found (it was settled, or
\* rolled back because the last handle is gone, or the session is poisoned), and
\* it is closed only when no cancel call uses it and none can start later.
TeardownIsAlone ==
  /\ own \in {"drain", "shut"} => active_pin = None /\ (transaction_poisoned \/ ~inTx)
  /\ own \in {"shut", "stop", "complete", "stopped"} => cancellations = {} /\ ~accepting

\* Every close that was answered got the one terminal result, or was told that a
\* transaction is active; success comes only after the session is gone ("a
\* failure is retained exactly and returned by every repeated close").
CloseIsExact ==
  \A c \in Clients : op[c] = "close" /\ outcome[c] \in {"ok", "failed", "stopped"} =>
    outcome[c] = terminal_result /\ closed /\ Stopped

\* Every call is answered, or its future dropped: no wake-up of a capacity waiter
\* is lost and no reply forgotten, whoever drops, fails, panics or closes.
EveryCallIsAnswered ==
  \A c \in Clients : (pc[c] # "new") ~> (pc[c] = "done")

\* Once the last handle is dropped the session is closed and the owner thread
\* ends, whichever close it races with (schedule_terminal_drop_close).
DropClosesSession == (handle = "dropped") ~> (own = "stopped")

\* A client that drops its future leaves no transaction behind: when the queue is
\* empty and no call is under way, nothing is pinned.
NothingLeftPinned ==
  own = "receive" /\ commands = <<>> /\ (\A c \in Clients : pc[c] \in {"new", "done"}) =>
    active_pin = None
=============================================================================
