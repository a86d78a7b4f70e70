------------------------- MODULE EngineExecutorSteps -------------------------
(***************************************************************************)
(* Theorems about the owner executor, for any clients, any kinds of call,  *)
(* any capacity and any number of operations in a transaction: close has   *)
(* one result for everybody, and an interrupt hits its own request.        *)
(*                                                                         *)
(* OwnerInv says which commands may be in the queue and who waits for      *)
(* them. Every reply has exactly one client that awaits it (ReplyInv), so  *)
(* that a result is delivered once and to its caller; there is one close   *)
(* attempt at a time, behind which no ordinary work is queued (CutoffInv); *)
(* a request is active only while the owner has it (RequestInv). The       *)
(* lemmas on the line of capacity waiters are here too. They use the three *)
(* facts about counting in CountFacts, which EngineExecutorTokens proves.  *)
(***************************************************************************)
EXTENDS EngineExecutor, TLAPS

CommandKinds ==
  {"exec", "request", "backup", "begin", "op", "commit", "rollback", "release", "undo",
   "close", "none"}
CommandSet ==
  [client : Clients \cup {Nobody}, kind : CommandKinds, token : Nat, alive : BOOLEAN]

(* What the clients hold is a function of the client, and the queue holds  *)
(* commands.                                                               *)
Shape ==
  /\ DOMAIN op = Clients /\ DOMAIN pc = Clients /\ DOMAIN value = Clients
  /\ DOMAIN outcome = Clients /\ DOMAIN guard = Clients /\ DOMAIN phase = Clients
  /\ commands \in Seq(CommandSet) /\ cur \in CommandSet
  /\ tok \in [Clients -> Nat] /\ active_pin \in Nat /\ next_pin \in Nat
  /\ \A c \in Clients :
       pc[c] = "wait" => op[c] \in {"exec", "request", "backup", "transaction"}

(* The gate is shut before the session is touched. *)
GateInv ==
  /\ own \in {"drain", "shut", "panic", "stop", "complete", "stopped"} =>
       accepting = FALSE
  /\ own \in {"shut", "stop", "complete", "stopped"} => cancellations = {}

(* A request is active exactly while the owner has it, and only an active  *)
(* request is interrupted.                                                 *)
RequestInv ==
  /\ \A c \in Clients : pc[c] = "new" => op[c] = "none"
  /\ \A c \in cancelled : c \in Clients /\ op[c] = "request"
  /\ \A c \in cancellations :
       c \in Clients /\ (op[c] = "cancel" \/ (op[c] = "request" /\ phase[c] = "active"))
  /\ \A c \in Clients : phase[c] = "active" =>
       own \in {"run", "leave", "unwind"} /\ cur.client = c /\ cur.kind = "request"
  /\ own \in {"enter", "leave", "unwind"} => cur.kind = "request"

-----------------------------------------------------------------------------
(* What the two sides leave alone *)

\* A step of a client leaves the owner thread and the session alone.
LEMMA ClientFrame ==
  ASSUME NEW c \in Clients, Client(c)
  PROVE  /\ own' = own /\ ending' = ending /\ accepting' = accepting
         /\ active_pin' = active_pin /\ next_pin' = next_pin /\ handle' = handle
         /\ inTx' = inTx /\ open' = open /\ live' = live
         /\ wrote' = wrote /\ tainted' = tainted /\ phase' = phase
         /\ teardown_started' = teardown_started /\ terminal_drop' = terminal_drop
<1>1. CASE \E kind \in Kinds : Call(c, kind)
  BY <1>1, Zenon DEF Call, send, flags, pins, db, history
<1>2. CASE close(c)
  BY <1>2, Zenon DEF close, flags, gate, request, pins, db, history, StartClose
<1>3. CASE cancel(c)
  BY <1>3, Zenon DEF cancel, flags, request, pins, db, history
<1>4. CASE CancelRequest(c)
  BY <1>4, Zenon DEF CancelRequest, flags, pins, db, history
<1>5. CASE InterruptRequest(c) \/ CancelReturns(c)
  BY <1>5, Zenon DEF InterruptRequest, CancelReturns, flags, request, pins, db, history
<1>6. CASE PollSend(c) \/ TxOp(c)
  BY <1>6, Zenon DEF PollSend, TxOp, send, flags, pins, db, history
<1>7. CASE Resume(c)
  BY <1>7, Zenon DEF Resume, Answered, TxResumes, TxRolledBack, TxCommitted, TxReleased,
     TxRollback, TxCommit, TxFinish, flags, gate, request, pins, db, history
<1>8. CASE Drop(c) \/ TxDropOp(c) \/ TxDrop(c)
  BY <1>8, Zenon DEF Drop, TxDropOp, TxDrop, flags, gate, request, pins, db, history
<1> QED
  BY <1>1, <1>2, <1>3, <1>4, <1>5, <1>6, <1>7, <1>8, Zenon DEF Client

\* A step of the owner leaves the clients' calls alone.
LEMMA OwnerFrame ==
  ASSUME Owner \/ OwnerPanics
  PROVE  /\ op' = op /\ pc' = pc /\ outcome' = outcome /\ txops' = txops
         /\ cancellations' = cancellations /\ cancelled' = cancelled /\ handle' = handle
         /\ terminal_drop' = terminal_drop
<1>1. CASE Skip \/ TakeRequest \/ EnterRequest \/ Reject
  BY <1>1, Zenon DEF Skip, TakeRequest, EnterRequest, Reject, call, transaction, flags, gate, request
<1>2. CASE Start \/ ReleasePin \/ RollbackAndReleasePin \/ ReceiveClose
  BY <1>2, Zenon DEF Start, ReleasePin, RollbackAndReleasePin, ReceiveClose, call, transaction,
     flags, gate, request
<1>3. CASE FinishWork \/ FinishBegin \/ FinishOp \/ FinishControl \/ FinishRollback
  BY <1>3, Zenon DEF FinishWork, FinishBegin, FinishOp, FinishControl, FinishRollback, call,
     transaction, flags, gate, request
<1>4. CASE LeaveRequest \/ complete_retryable_close \/ Recheck \/ Teardown \/ wait_for_idle
  BY <1>4, Zenon DEF LeaveRequest, complete_retryable_close, Recheck, Teardown, wait_for_idle,
     call, transaction, flags, gate, request
<1>5. CASE CloseSession \/ Dispose \/ stop \/ Complete \/ OwnerPanics
  BY <1>5, Zenon DEF CloseSession, Dispose, stop, Complete, OwnerPanics, call, transaction,
     flags, gate, request
<1> QED
  BY <1>1, <1>2, <1>3, <1>4, <1>5, Zenon DEF Owner

\* Cancellation calls begin only while the gate accepts them.
LEMMA ClientGate ==
  ASSUME NEW c \in Clients, Client(c)
  PROVE  /\ cancellations' \subseteq cancellations \cup {c}
         /\ c \in cancellations' \ cancellations => accepting
<1>1. CASE \E kind \in Kinds : Call(c, kind)
  BY <1>1, Zenon DEF Call, send
<1>2. CASE close(c)
  BY <1>2, Zenon DEF close, gate
<1>3. CASE cancel(c) \/ InterruptRequest(c) \/ CancelReturns(c) \/ CancelRequest(c)
  BY <1>3, Zenon DEF cancel, InterruptRequest, CancelReturns, CancelRequest
<1>4. CASE PollSend(c) \/ TxOp(c)
  BY <1>4, Zenon DEF PollSend, TxOp, send
<1>5. CASE Resume(c)
  BY <1>5, Zenon DEF Resume, Answered, TxResumes, TxRolledBack, TxCommitted, TxReleased,
     TxRollback, TxCommit, TxFinish, gate
<1>6. CASE Drop(c) \/ TxDropOp(c) \/ TxDrop(c)
  BY <1>6, Zenon DEF Drop, TxDropOp, TxDrop, gate
<1> QED
  BY <1>1, <1>2, <1>3, <1>4, <1>5, <1>6, Zenon DEF Client

-----------------------------------------------------------------------------
(* Types *)

\* A command is one, whoever sends it and whoever drops its reply.
LEMMA CommandType ==
  ASSUME Shape, NEW c \in Clients, NEW k \in CommandKinds, NEW a \in BOOLEAN
  PROVE  Command(c, k, tok[c], a) \in CommandSet
BY Zenon DEF Shape, Command, CommandSet

LEMMA CloseType == CloseCommand \in CommandSet /\ Idle \in CommandSet
<1>1. ASSUME NEW k \in CommandKinds PROVE Command(Nobody, k, None, FALSE) \in CommandSet
  BY Zenon DEF Command, CommandSet, None
<1> QED
  BY <1>1, Zenon DEF CloseCommand, Idle, CommandKinds

LEMMA AppendSeq ==
  ASSUME NEW q \in Seq(CommandSet), NEW m \in CommandSet
  PROVE  Append(q, m) \in Seq(CommandSet)
OBVIOUS

LEMMA AppendType ==
  ASSUME Shape, NEW m \in CommandSet
  PROVE  Append(commands, m) \in Seq(CommandSet)
BY DEF Shape

LEMMA HeadType ==
  ASSUME Shape, commands # << >>
  PROVE  Head(commands) \in CommandSet /\ Tail(commands) \in Seq(CommandSet)
BY DEF Shape

LEMMA OrphanedType ==
  ASSUME NEW m \in CommandSet, NEW c
  PROVE  /\ Orphaned(m, c) \in CommandSet
         /\ Orphaned(m, c).client = m.client /\ Orphaned(m, c).kind = m.kind
         /\ Orphaned(m, c).token = m.token
         /\ Orphaned(m, c).alive = (m.alive /\ m.client # c)
BY Zenon DEF Orphaned, CommandSet

LEMMA OrphansType ==
  ASSUME Shape, NEW c
  PROVE  /\ Orphans(c) \in Seq(CommandSet) /\ Len(Orphans(c)) = Len(commands)
         /\ \A i \in 1..Len(commands) : Orphans(c)[i] = Orphaned(commands[i], c)
<1>1. Orphans(c) = [i \in 1..Len(commands) |-> Orphaned(commands[i], c)]
  BY DEF Orphans, Shape
<1>2. \A i \in 1..Len(commands) : Orphaned(commands[i], c) \in CommandSet
  BY OrphanedType DEF Shape
<1> QED
  BY <1>1, <1>2 DEF Shape

\* A reply is put in the slot of the command's client, a result in the slots of
\* those it is for.
LEMMA ReplyShape ==
  ASSUME DOMAIN value = Clients, NEW m, NEW v, Reply(m, v)
  PROVE  /\ DOMAIN value' = Clients
         /\ \A c \in Clients :
              value'[c] = IF m.alive /\ m.client = c THEN v ELSE value[c]
BY Zenon DEF Reply

LEMMA DeliverShape ==
  ASSUME NEW S, NEW v, Deliver([c \in S |-> v])
  PROVE  /\ DOMAIN value' = Clients
         /\ \A c \in Clients : value'[c] = IF c \in S THEN v ELSE value[c]
BY Zenon DEF Deliver

\* A step of client c changes what c holds, and nothing of another client.
OnlyOf(c) ==
  \A d \in Clients \ {c} :
    /\ op'[d] = op[d] /\ pc'[d] = pc[d] /\ value'[d] = value[d]
    /\ outcome'[d] = outcome[d] /\ guard'[d] = guard[d]

\* The command in the owner's hands stays, though its reply may be dropped.
SameCommand ==
  /\ cur'.client = cur.client /\ cur'.kind = cur.kind /\ cur'.token = cur.token
  /\ cur'.alive => cur.alive

\* A call is made once.
CallsOnce(c) ==
  /\ op'[c] = op[c] \/ pc[c] = "new"
  /\ pc'[c] = "new" => pc[c] = "new" /\ op'[c] = op[c]

LEMMA OrphanShape ==
  ASSUME Shape, NEW c \in Clients, Orphan(c)
  PROVE  /\ cur' \in CommandSet /\ SameCommand /\ DOMAIN value' = Clients
         /\ \A d \in Clients \ {c} : value'[d] = value[d]
<1>1. cur' = Orphaned(cur, c) /\ cur \in CommandSet
  BY Zenon DEF Orphan, Shape
<1>2. cur' \in CommandSet /\ SameCommand
  BY <1>1, OrphanedType, Zenon DEF SameCommand
<1> QED
  BY <1>2, Zenon DEF Orphan, Shape

LEMMA SendShape ==
  ASSUME Shape, NEW c \in Clients,
         NEW k \in {"exec", "request", "backup", "begin", "op"}, send(c, k)
  PROVE  /\ DOMAIN pc' = Clients /\ DOMAIN outcome' = Clients
         /\ commands' \in Seq(CommandSet)
         /\ pc'[c] # "new" /\ (pc'[c] = "wait" => k # "op")
         /\ \A d \in Clients \ {c} : pc'[d] = pc[d] /\ outcome'[d] = outcome[d]
         /\ value' = value /\ tok' = tok /\ guard' = guard /\ cur' = cur
<1>1. value' = value /\ tok' = tok /\ guard' = guard /\ cur' = cur
  BY Zenon DEF send
<1>2. CASE poll_send_ordinary(c, k)
  <2>1. commands' = commands \/ commands' = Append(commands, Command(c, k, tok[c], TRUE))
    BY <1>2, Zenon DEF poll_send_ordinary
  <2>2. Command(c, k, tok[c], TRUE) \in CommandSet
    BY CommandType, Zenon DEF CommandKinds
  <2>3. commands' \in Seq(CommandSet)
    BY <2>1, <2>2, AppendType, Zenon DEF Shape
  <2> QED
    BY <1>1, <1>2, <2>3, Zenon DEF poll_send_ordinary, Shape
<1>3. CASE RefuseSend(c, k)
  BY <1>1, <1>3, Zenon DEF RefuseSend, Shape
<1> QED
  BY <1>2, <1>3, Zenon DEF send

\* What is settled, or cleaned up, joins the queue.
LEMMA SettleShape ==
  ASSUME Shape, NEW c \in Clients, NEW k \in {"commit", "rollback", "release", "undo"},
         NEW a \in BOOLEAN, Settle(c, k, a)
  PROVE  commands' \in Seq(CommandSet)
BY CommandType, AppendType, Zenon DEF Settle, CommandKinds

LEMMA ReleaseShape ==
  ASSUME Shape, NEW c \in Clients, NEW r, Release(c, r)
  PROVE  /\ DOMAIN pc' = Clients /\ DOMAIN outcome' = Clients
         /\ commands' \in Seq(CommandSet) /\ pc'[c] \notin {"new", "wait"}
         /\ \A d \in Clients \ {c} : pc'[d] = pc[d] /\ outcome'[d] = outcome[d]
BY SettleShape, Zenon DEF Release, Shape

LEMMA ClientShape ==
  ASSUME Shape, NEW c \in Clients, Client(c)
  PROVE  Shape' /\ tok' = tok /\ OnlyOf(c) /\ SameCommand /\ CallsOnce(c)
<1>0. active_pin' = active_pin /\ next_pin' = next_pin /\ phase' = phase
  BY ClientFrame, Zenon
<1>1. CASE \E kind \in Kinds \cap {"exec", "request", "backup", "transaction"} : Call(c, kind)
  <2>1. PICK kind \in {"exec", "request", "backup", "transaction"} : Call(c, kind)
    BY <1>1, Zenon
  <2>2. CommandOf(kind) \in {"exec", "request", "backup", "begin", "op"}
    BY Zenon DEF CommandOf
  <2>3. send(c, CommandOf(kind)) /\ pc[c] = "new" /\ op' = [op EXCEPT ![c] = kind]
    BY <2>1, Zenon DEF Call
  <2> QED
    BY <1>0, <2>2, <2>3, SendShape, Zenon DEF Shape, OnlyOf, SameCommand, CallsOnce
<1>2. CASE close(c)
  <2>1. commands' = commands \/ commands' = Append(commands, CloseCommand)
    BY <1>2, Zenon DEF close, StartClose
  <2>2. commands' \in Seq(CommandSet)
    BY <2>1, AppendType, CloseType, Zenon DEF Shape
  <2>3. /\ DOMAIN value' = Clients /\ \A d \in Clients \ {c} : value'[d] = value[d]
    BY <1>2, Zenon DEF close, StartClose, Shape
  <2>4. /\ DOMAIN pc' = Clients /\ DOMAIN outcome' = Clients /\ DOMAIN op' = Clients
        /\ pc'[c] \notin {"new", "wait"} /\ pc[c] = "new" /\ tok' = tok /\ guard' = guard /\ cur' = cur
        /\ \A d \in Clients \ {c} : pc'[d] = pc[d] /\ outcome'[d] = outcome[d] /\ op'[d] = op[d]
    BY <1>2, Zenon DEF close, transaction, Shape
  <2> QED
    BY <1>0, <2>2, <2>3, <2>4, Zenon DEF Shape, OnlyOf, SameCommand, CallsOnce
<1>3. CASE cancel(c)
  BY <1>0, <1>3, Zenon DEF cancel, transaction, Shape, OnlyOf, SameCommand, CallsOnce
<1>4. CASE CancelRequest(c) \/ InterruptRequest(c)
  BY <1>0, <1>4, Zenon DEF CancelRequest, InterruptRequest, call, transaction, Shape,
     OnlyOf, SameCommand, CallsOnce
<1>5. CASE CancelReturns(c)
  BY <1>0, <1>5, Zenon DEF CancelReturns, transaction, Shape, OnlyOf, SameCommand,
     CallsOnce
<1>6. CASE PollSend(c)
  <2>1. op' = op
    BY <1>6, Zenon DEF PollSend
  <2>2. CASE pc[c] = "opwait"
    <3>1. send(c, "op")
      BY <1>6, <2>2, Zenon DEF PollSend
    <3> QED
      BY <1>0, <2>1, <3>1, SendShape, Zenon DEF Shape, OnlyOf, SameCommand, CallsOnce
  <2>3. CASE pc[c] = "wait"
    <3>1. op[c] \in {"exec", "request", "backup", "transaction"}
      BY <2>3, Zenon DEF Shape
    <3>2. send(c, CommandOf(op[c]))
      BY <1>6, <2>3, Zenon DEF PollSend
    <3>3. CommandOf(op[c]) \in {"exec", "request", "backup", "begin", "op"}
      BY <3>1, Zenon DEF CommandOf
    <3> QED
      BY <1>0, <2>1, <3>1, <3>2, <3>3, SendShape, Zenon DEF Shape, OnlyOf, SameCommand,
         CallsOnce
  <2> QED
    BY <1>6, <2>2, <2>3, Zenon DEF PollSend
<1>7. CASE TxOp(c)
  <2>1. send(c, "op") /\ op' = op
    BY <1>7, Zenon DEF TxOp
  <2> QED
    BY <1>0, <2>1, SendShape, Zenon DEF Shape, OnlyOf, SameCommand, CallsOnce
<1>8. CASE Answered(c) \/ TxResumes(c) \/ TxRolledBack(c)
  BY <1>0, <1>8, Zenon DEF Answered, TxResumes, TxRolledBack, call, transaction, Shape,
     OnlyOf, SameCommand, CallsOnce
<1>9. CASE TxReleased(c)
  BY <1>0, <1>9, Zenon DEF TxReleased, Shape, OnlyOf, SameCommand, CallsOnce
<1>10. CASE TxRollback(c)
  <2>1. commands' \in Seq(CommandSet)
    BY <1>10, SettleShape, Zenon DEF TxRollback, Shape
  <2> QED
    BY <1>0, <1>10, <2>1, Zenon DEF TxRollback, call, Shape, OnlyOf, SameCommand, CallsOnce
<1>11. CASE TxCommit(c)
  <2>1. /\ commands' \in Seq(CommandSet) /\ DOMAIN pc' = Clients
        /\ DOMAIN outcome' = Clients /\ pc'[c] \notin {"new", "wait"}
        /\ \A d \in Clients \ {c} : pc'[d] = pc[d] /\ outcome'[d] = outcome[d]
    <3>1. CASE CanSettle /\ Settle(c, "commit", TRUE)
               /\ pc' = [pc EXCEPT ![c] = "commit"] /\ outcome' = outcome
      BY <3>1, SettleShape, Zenon DEF Shape
    <3>2. CASE Release(c, "error")
      BY <3>2, ReleaseShape, Zenon
    <3> QED
      BY <1>11, <3>1, <3>2, Zenon DEF TxCommit
  <2> QED
    BY <1>0, <1>11, <2>1, Zenon DEF TxCommit, Shape, OnlyOf, SameCommand, CallsOnce
<1>12. CASE TxCommitted(c) \/ TxFinish(c)
  <2>1. \E r : Release(c, r)
    BY <1>12, Zenon DEF TxCommitted, TxFinish
  <2>2. /\ commands' \in Seq(CommandSet) /\ DOMAIN pc' = Clients
        /\ DOMAIN outcome' = Clients /\ pc'[c] \notin {"new", "wait"}
        /\ \A d \in Clients \ {c} : pc'[d] = pc[d] /\ outcome'[d] = outcome[d]
    BY <2>1, ReleaseShape, Zenon
  <2> QED
    BY <1>0, <1>12, <2>2, Zenon DEF TxCommitted, TxFinish, transaction, Shape, OnlyOf,
       SameCommand, CallsOnce
<1>13. CASE Drop(c) \/ TxDropOp(c)
  <2>1. commands' \in Seq(CommandSet)
    BY <1>13, OrphansType, Zenon DEF Drop, TxDropOp
  <2>2. Orphan(c)
    BY <1>13, Zenon DEF Drop, TxDropOp
  <2> QED
    BY <1>0, <1>13, <2>1, <2>2, OrphanShape, Zenon DEF Drop, TxDropOp, call, transaction,
       Shape, OnlyOf, CallsOnce
<1>14. CASE TxDrop(c)
  <2>1. commands' \in Seq(CommandSet)
    <3>1. Orphans(c) \in Seq(CommandSet)
      BY OrphansType, Zenon
    <3>2. Command(c, DropCleanup(c), tok[c], FALSE) \in CommandSet
      BY CommandType, Zenon DEF CommandKinds, DropCleanup
    <3>3. commands' \in Seq(CommandSet)
      <4>1. \/ commands' = Orphans(c)
            \/ commands' = Append(Orphans(c), Command(c, DropCleanup(c), tok[c], FALSE))
        BY <1>14, Zenon DEF TxDrop
      <4> QED
        BY <3>1, <3>2, <4>1, AppendSeq, Zenon
    <3> QED
      BY <3>3, Zenon
  <2>2. Orphan(c)
    BY <1>14, Zenon DEF TxDrop
  <2> QED
    BY <1>0, <1>14, <2>1, <2>2, OrphanShape, Zenon DEF TxDrop, Shape, OnlyOf, CallsOnce
<1> QED
  BY <1>1, <1>2, <1>3, <1>4, <1>5, <1>6, <1>7, <1>8, <1>9, <1>10, <1>11, <1>12, <1>13,
     <1>14, Zenon DEF Client, Resume

\* What receive takes is a command, and what it leaves a queue.
LEMMA ReceiveShape ==
  ASSUME Shape, Receive
  PROVE  /\ commands # << >> /\ commands' = Tail(commands) /\ own = "receive"
         /\ Head(commands) \in CommandSet /\ commands' \in Seq(CommandSet)
BY HeadType, Zenon DEF Receive

LEMMA ScheduleShape ==
  ASSUME Shape, schedule_terminal_drop_close
  PROVE  commands' \in Seq(CommandSet) /\ DOMAIN value' = Clients
<1>1. commands' = commands \/ commands' = Append(commands, CloseCommand)
  BY Zenon DEF schedule_terminal_drop_close, closeState
<1>2. value' = value \/ DOMAIN value' = Clients
  BY Zenon DEF schedule_terminal_drop_close, closeState, complete_terminal_close, Deliver
<1> QED
  BY <1>1, <1>2, AppendType, CloseType, Zenon DEF Shape

LEMMA OwnerShape ==
  ASSUME Shape, Owner \/ OwnerPanics
  PROVE  Shape'
<1>0. op' = op /\ pc' = pc /\ outcome' = outcome
  BY OwnerFrame, Zenon
<1> DEFINE Rest == DOMAIN guard' = Clients /\ DOMAIN phase' = Clients
                   /\ tok' \in [Clients -> Nat] /\ active_pin' \in Nat /\ next_pin' \in Nat
<1>1. CASE Skip \/ Reject \/ ReleasePin
  <2>1. Receive /\ \E v : Reply(Head(commands), v)
    BY <1>1, Zenon DEF Skip, Reject, ReleasePin
  <2>2. DOMAIN value' = Clients
    BY <2>1, ReplyShape, Zenon DEF Shape
  <2>3. Rest /\ cur' = cur
    BY <1>1 DEF Skip, Reject, ReleasePin, transaction, gate, request, pins, Shape, None
  <2> QED
    BY <1>0, <2>1, <2>2, <2>3, ReceiveShape, Zenon DEF Shape
<1>2. CASE TakeRequest
  BY <1>0, <1>2, ReceiveShape, Zenon DEF TakeRequest, transaction, gate, request, pins,
     Shape
<1>3. CASE EnterRequest
  <2>1. value' = value \/ \E v : Reply(cur, v)
    BY <1>3, Zenon DEF EnterRequest
  <2>2. DOMAIN value' = Clients
    BY <2>1, ReplyShape, Zenon DEF Shape
  <2>3. Rest /\ commands' = commands /\ (cur' = cur \/ cur' = Idle)
    BY <1>3, Zenon DEF EnterRequest, transaction, pins, Shape
  <2> QED
    BY <1>0, <2>2, <2>3, CloseType, Zenon DEF Shape
<1>4. CASE Start
  <2>1. Receive /\ value' = value /\ Rest
    BY <1>4 DEF Start, transaction, gate, request, allocate_pin, Shape
  <2>2. cur' \in CommandSet
    <3>1. cur' = Head(commands) \/ cur' = [Head(commands) EXCEPT !.token = next_pin]
      BY <1>4, Zenon DEF Start
    <3>2. Head(commands) \in CommandSet
      BY <2>1, ReceiveShape, Zenon
    <3> QED
      BY <3>1, <3>2, Zenon DEF CommandSet, Shape
  <2> QED
    BY <1>0, <2>1, <2>2, ReceiveShape, Zenon DEF Shape
<1>5. CASE RollbackAndReleasePin \/ ReceiveClose
  <2>1. Receive /\ value' = value /\ Rest
    BY <1>5 DEF RollbackAndReleasePin, ReceiveClose, rollback_active_pin, transaction, gate,
       request, Shape, None
  <2>2. cur' \in CommandSet
    <3>1. Head(commands) \in CommandSet
      BY <2>1, ReceiveShape, Zenon
    <3>2. \/ cur' = cur \/ cur' = Idle \/ cur' = Head(commands)
          \/ cur' = [CloseCommand EXCEPT !.token = active_pin]
      BY <1>5, Zenon DEF RollbackAndReleasePin, ReceiveClose, rollback_active_pin
    <3> QED
      BY <3>1, <3>2, CloseType, Zenon DEF CommandSet, Shape
  <2> QED
    BY <1>0, <2>1, <2>2, ReceiveShape, Zenon DEF Shape
<1>6. CASE FinishWork \/ FinishBegin \/ FinishOp \/ FinishControl
  <2>1. value' = value \/ \E v : Reply(cur, v)
    BY <1>6, Zenon DEF FinishWork, FinishBegin, FinishOp, FinishControl
  <2>2. DOMAIN value' = Clients
    BY <2>1, ReplyShape, Zenon DEF Shape
  <2>3. commands' = commands /\ (cur' = cur \/ cur' = Idle)
    BY <1>6, Zenon DEF FinishWork, FinishBegin, FinishOp, FinishControl
  <2>4. cur.token \in Nat
    BY Zenon DEF Shape, CommandSet
  <2>5. CASE FinishWork \/ FinishControl
    BY <1>0, <2>2, <2>3, <2>5, CloseType, Zenon
    DEF FinishWork, FinishControl, transaction, gate, request, pins, Shape
  <2>6. CASE FinishOp
    BY <1>0, <2>2, <2>3, <2>6, CloseType, Zenon DEF FinishOp, gate, request, pins, Shape
  <2>7. CASE FinishBegin
    <3>1. Rest
      BY <2>4, <2>7, Zenon DEF FinishBegin, gate, request, Shape
    <3> QED
      BY <1>0, <2>2, <2>3, <3>1, CloseType, Zenon DEF Shape
  <2> QED
    BY <1>6, <2>5, <2>6, <2>7, Zenon
<1>7. CASE FinishRollback \/ LeaveRequest
  BY <1>0, <1>7, CloseType DEF FinishRollback, LeaveRequest, transaction, gate, request, pins,
     Shape, None
<1>8. CASE complete_retryable_close \/ Complete
  <2>1. DOMAIN value' = Clients
    BY <1>8, Zenon DEF complete_retryable_close, Complete, complete_terminal_close, Deliver
  <2> QED
    BY <1>0, <1>8, <2>1, Zenon DEF complete_retryable_close, Complete, transaction, gate,
       request, pins, Shape
<1>9. CASE Recheck
  BY <1>0, <1>9, ScheduleShape, Zenon DEF Recheck, transaction, gate, request, pins, Shape
<1>10. CASE Teardown \/ wait_for_idle \/ CloseSession \/ Dispose
  BY <1>0, <1>10 DEF Teardown, wait_for_idle, CloseSession, Dispose, transaction, gate, request,
     pins, Shape, None
<1>11. CASE OwnerPanics
  <2>1. DOMAIN value' = Clients
    BY <1>11, ReplyShape, Zenon DEF OwnerPanics, Shape
  <2> QED
    BY <1>0, <1>11, <2>1, CloseType, Zenon DEF OwnerPanics, transaction, request, pins,
       Shape
<1>12. CASE stop
  <2>1. DOMAIN value' = Clients /\ commands' = << >>
    BY <1>12, Zenon DEF stop, Deliver
  <2> QED
    BY <1>0, <1>12, <2>1 DEF stop, transaction, gate, request, pins, Shape
<1> QED
  BY <1>1, <1>2, <1>3, <1>4, <1>5, <1>6, <1>7, <1>8, <1>9, <1>10, <1>11, <1>12, Zenon
  DEF Owner

LEMMA NextShape ==
  ASSUME Shape, [Next]_vars
  PROVE  Shape'
<1>1. CASE Opened \/ OpenFails \/ DropHandle
  BY <1>1, Zenon DEF Opened, OpenFails, DropHandle, call, transaction, gate, request, pins,
     Shape
<1>2. CASE DropSchedules
  BY <1>2, ScheduleShape, Zenon DEF DropSchedules, call, transaction, gate, request, pins,
     Shape
<1>3. CASE UNCHANGED vars
  BY <1>3, Zenon DEF vars, call, transaction, gate, request, pins, Shape
<1> QED
  BY <1>1, <1>2, <1>3, OwnerShape, ClientShape, Zenon DEF Next

-----------------------------------------------------------------------------
(* The cancellation gate *)

\* The steps of the owner that end a close attempt or the thread.
OwnerEnds ==
  \/ LeaveRequest \/ OwnerPanics \/ Teardown \/ wait_for_idle \/ CloseSession
  \/ Dispose \/ stop \/ Complete

\* Any other step of the owner begins or ends work, with the gate as it was.
LEMMA OwnerWorks ==
  ASSUME Owner \/ OwnerPanics, ~OwnerEnds
  PROVE  /\ own \in {"receive", "enter", "run", "rollback", "retry", "recheck"}
         /\ own' \in {"receive", "enter", "run", "leave", "rollback", "retry", "recheck",
                      "teardown"}
         /\ accepting' = accepting /\ ending' = ending
         /\ teardown_started' = teardown_started
<1>1. CASE Skip \/ TakeRequest \/ EnterRequest \/ Reject
  BY <1>1, Zenon DEF Skip, TakeRequest, EnterRequest, Reject, Receive, flags, gate
<1>2. CASE Start \/ ReleasePin
  BY <1>2, Zenon DEF Start, ReleasePin, Receive, flags, gate
<1>3. CASE RollbackAndReleasePin \/ ReceiveClose
  BY <1>3, Zenon DEF RollbackAndReleasePin, ReceiveClose, Receive, rollback_active_pin,
     flags, gate
<1>4. CASE FinishWork \/ FinishBegin \/ FinishOp \/ FinishControl \/ FinishRollback
  BY <1>4, Zenon DEF FinishWork, FinishBegin, FinishOp, FinishControl, FinishRollback,
     flags, gate
<1>5. CASE complete_retryable_close \/ Recheck
  BY <1>5, Zenon DEF complete_retryable_close, Recheck, flags, gate
<1> QED
  BY <1>1, <1>2, <1>3, <1>4, <1>5, Zenon DEF Owner, OwnerEnds

LEMMA NextGate ==
  ASSUME GateInv, [Next]_vars
  PROVE  GateInv'
<1>1. CASE Opened \/ OpenFails
  BY <1>1, Zenon DEF Opened, OpenFails, gate, GateInv
<1>2. CASE DropHandle \/ DropSchedules
  BY <1>2, Zenon DEF DropHandle, DropSchedules, gate, GateInv
<1>3. CASE OwnerEnds
  BY <1>3, Zenon DEF OwnerEnds, LeaveRequest, OwnerPanics, Teardown, stop_accepting,
     wait_for_idle, CloseSession, Dispose, stop, Complete, gate, GateInv
<1>4. CASE (Owner \/ OwnerPanics) /\ ~OwnerEnds
  BY <1>4, OwnerWorks, OwnerFrame, Zenon DEF GateInv
<1>5. CASE \E c \in Clients : Client(c)
  BY <1>5, ClientFrame, ClientGate, Zenon DEF GateInv
<1>6. CASE UNCHANGED vars
  BY <1>6, Zenon DEF vars, gate, GateInv
<1> QED
  BY <1>1, <1>2, <1>3, <1>4, <1>5, <1>6, Zenon DEF Next

-----------------------------------------------------------------------------
(* Cancellation limited to one request *)

\* Only a request is cancelled as one, and only an active one interrupted.
LEMMA ClientCancels ==
  ASSUME Shape, NEW c \in Clients, Client(c)
  PROVE  /\ cancelled' \subseteq cancelled \cup {c}
         /\ c \in cancelled' \ cancelled => op'[c] = "request"
         /\ c \in cancellations' \ cancellations =>
              op'[c] = "cancel" \/ (op'[c] = op[c] /\ c \in cancelled /\ phase[c] = "active")
<1>1. CASE \E kind \in Kinds \cap {"exec", "request", "backup", "transaction"} : Call(c, kind)
  <2>1. PICK kind \in {"exec", "request", "backup", "transaction"} : Call(c, kind)
    BY <1>1, Zenon
  <2>2. op'[c] = kind /\ (CommandOf(kind) = "request" <=> kind = "request")
    BY <2>1, Zenon DEF Call, CommandOf, Shape
  <2> QED
    BY <2>1, <2>2, Zenon DEF Call, send
<1>2. CASE close(c)
  BY <1>2, Zenon DEF close, gate, request
<1>3. CASE cancel(c)
  BY <1>3, Zenon DEF cancel, request, Shape
<1>4. CASE InterruptRequest(c) \/ CancelReturns(c) \/ CancelRequest(c)
  BY <1>4, Zenon DEF InterruptRequest, CancelReturns, CancelRequest, call, request
<1>5. CASE PollSend(c)
  <2>1. /\ send(c, IF pc[c] = "opwait" THEN "op" ELSE CommandOf(op[c])) /\ op' = op
    BY <1>5, Zenon DEF PollSend
  <2> QED
    BY <2>1, Zenon DEF send, CommandOf
<1>6. CASE TxOp(c)
  BY <1>6, Zenon DEF TxOp, send
<1>7. CASE Resume(c)
  BY <1>7, Zenon DEF Resume, Answered, TxResumes, TxRolledBack, TxCommitted, TxReleased,
     TxRollback, TxCommit, TxFinish, gate, request
<1>8. CASE Drop(c) \/ TxDropOp(c) \/ TxDrop(c)
  BY <1>8, Zenon DEF Drop, TxDropOp, TxDrop, gate, request, call
<1> QED
  BY <1>1, <1>2, <1>3, <1>4, <1>5, <1>6, <1>7, <1>8, Zenon DEF Client

LEMMA ClientRequest ==
  ASSUME Shape, RequestInv, NEW c \in Clients, Client(c)
  PROVE  RequestInv'
<1>1. OnlyOf(c) /\ SameCommand /\ CallsOnce(c) /\ own' = own /\ phase' = phase
  BY ClientShape, ClientFrame, Zenon
<1>2. \A d \in Clients : pc'[d] = "new" => op'[d] = "none"
  BY <1>1, Zenon DEF RequestInv, OnlyOf, CallsOnce
<1>3. ASSUME NEW d \in cancelled' PROVE d \in Clients /\ op'[d] = "request"
  <2>1. CASE d \in cancelled
    BY <1>1, <2>1, Zenon DEF RequestInv, OnlyOf, CallsOnce
  <2> QED
    BY <1>3, <2>1, ClientCancels
<1>4. ASSUME NEW d \in cancellations'
      PROVE  /\ d \in Clients
             /\ op'[d] = "cancel" \/ (op'[d] = "request" /\ phase'[d] = "active")
  <2>1. CASE d \in cancellations
    BY <1>1, <2>1 DEF RequestInv, OnlyOf, CallsOnce
  <2>2. CASE d \notin cancellations
    <3>1. d = c
      BY <1>4, <2>2, ClientGate, Zenon
    <3> QED
      BY <1>1, <1>4, <2>2, <3>1, ClientCancels, Zenon DEF RequestInv
  <2> QED
    BY <2>1, <2>2, Zenon
<1> QED
  BY <1>1, <1>2, <1>3, <1>4 DEF RequestInv, SameCommand

LEMMA OwnerRequest ==
  ASSUME Shape, RequestInv, Owner \/ OwnerPanics
  PROVE  RequestInv'
<1>1. op' = op /\ pc' = pc /\ cancellations' = cancellations /\ cancelled' = cancelled
  BY OwnerFrame, Zenon
<1> DEFINE NoneActive == \A c \in Clients : phase[c] # "active"
<1>2. own \notin {"run", "leave", "unwind"} => NoneActive
  BY Zenon DEF RequestInv
<1>3. cur.kind # "request" => NoneActive
  BY Zenon DEF RequestInv
<1>4. NoneActive => \A c \in cancellations : op[c] = "cancel"
  BY Zenon DEF RequestInv
<1>5. ASSUME NoneActive, phase' = phase,
             own' \in {"enter", "leave", "unwind"} => cur'.kind = "request"
      PROVE  RequestInv'
  BY <1>1, <1>5, Zenon DEF RequestInv
<1>6. CASE Skip \/ Reject \/ ReleasePin
  BY <1>2, <1>5, <1>6, Zenon DEF Skip, Reject, ReleasePin, Receive, gate, request
<1>7. CASE TakeRequest
  BY <1>2, <1>5, <1>7, Zenon DEF TakeRequest, Receive, gate, request
<1>8. CASE EnterRequest
  <2>1. NoneActive /\ cur.kind = "request"
    BY <1>2, <1>8, Zenon DEF EnterRequest, RequestInv
  <2>2. CASE cur.client \in cancelled /\ phase' = [phase EXCEPT ![cur.client] = "unsubmitted"]
             /\ own' = "receive"
    <3>1. \A c \in Clients : phase'[c] # "active"
      BY <2>1, <2>2, Zenon DEF Shape
    <3> QED
      BY <1>1, <1>4, <2>1, <2>2, <3>1, Zenon DEF RequestInv
  <2>3. CASE cur.client \notin cancelled /\ phase' = [phase EXCEPT ![cur.client] = "active"]
             /\ own' \in {"run", "leave"} /\ cur' = cur
    <3>1. \A c \in Clients : phase'[c] = "active" => c = cur.client
      BY <2>1, <2>3, Zenon DEF Shape
    <3> QED
      BY <1>1, <1>4, <2>1, <2>3, <3>1, Zenon DEF RequestInv
  <2> QED
    BY <1>8, <2>2, <2>3, Zenon DEF EnterRequest
<1>9. CASE Start
  BY <1>2, <1>5, <1>9, Zenon DEF Start, Receive, gate, request
<1>10. CASE RollbackAndReleasePin \/ ReceiveClose
  BY <1>2, <1>5, <1>10, Zenon DEF RollbackAndReleasePin, ReceiveClose, rollback_active_pin,
     Receive, gate, request
<1>11. CASE FinishWork
  <2>1. CASE cur.kind = "request"
    BY <1>1, <1>11, <2>1, Zenon DEF FinishWork, gate, request, RequestInv
  <2>2. CASE cur.kind # "request"
    BY <1>3, <1>5, <1>11, <2>2, Zenon DEF FinishWork, gate, request
  <2> QED
    BY <2>1, <2>2, Zenon
<1>12. CASE FinishBegin \/ FinishOp \/ FinishControl
  <2>1. /\ cur.kind # "request" /\ phase' = phase
        /\ own' \notin {"enter", "leave", "unwind"}
    BY <1>12, Zenon DEF FinishBegin, FinishOp, FinishControl, gate, request
  <2> QED
    BY <1>3, <1>5, <2>1, Zenon
<1>13. CASE FinishRollback \/ complete_retryable_close \/ Recheck \/ Teardown
            \/ wait_for_idle \/ CloseSession \/ Dispose \/ stop \/ Complete
  <2>1. /\ own \notin {"run", "leave", "unwind"} /\ phase' = phase
        /\ own' \notin {"enter", "leave", "unwind"}
    BY <1>13, Zenon DEF FinishRollback, complete_retryable_close, Recheck, Teardown,
       wait_for_idle, CloseSession, Dispose, stop, Complete, gate, request
  <2> QED
    BY <1>2, <1>5, <2>1, Zenon
<1>14. CASE LeaveRequest
  <2>1. phase' = [phase EXCEPT ![cur.client] = "finished"] /\ own' \in {"receive", "panic"}
        /\ cur.client \notin cancellations
    BY <1>14, Zenon DEF LeaveRequest
  <2>2. \A c \in Clients : phase[c] = "active" => c = cur.client
    BY Zenon DEF RequestInv
  <2>3. \A c \in Clients : phase'[c] # "active"
    BY <2>1, <2>2, Zenon DEF Shape
  <2>4. \A c \in cancellations : op[c] = "cancel"
    BY <2>1, <2>2, Zenon DEF RequestInv
  <2> QED
    BY <1>1, <2>1, <2>3, <2>4, Zenon DEF RequestInv
<1>15. CASE OwnerPanics
  <2>1. phase' = phase
    BY <1>15, Zenon DEF OwnerPanics, request
  <2>2. CASE cur.kind = "request"
    BY <1>1, <1>15, <2>1, <2>2, Zenon DEF OwnerPanics, RequestInv
  <2>3. CASE cur.kind # "request"
    BY <1>3, <1>5, <1>15, <2>1, <2>3, Zenon DEF OwnerPanics
  <2> QED
    BY <2>2, <2>3, Zenon
<1> QED
  BY <1>6, <1>7, <1>8, <1>9, <1>10, <1>11, <1>12, <1>13, <1>14, <1>15, Zenon DEF Owner

LEMMA NextRequest ==
  ASSUME Shape, RequestInv, [Next]_vars
  PROVE  RequestInv'
<1>1. CASE Opened \/ OpenFails \/ DropHandle
  BY <1>1 DEF Opened, OpenFails, DropHandle, call, gate, request, RequestInv
<1>2. CASE DropSchedules
  BY <1>2, Zenon DEF DropSchedules, call, gate, request, RequestInv
<1>3. CASE UNCHANGED vars
  BY <1>3, Zenon DEF vars, call, gate, request, RequestInv
<1> QED
  BY <1>1, <1>2, <1>3, OwnerRequest, ClientRequest, Zenon DEF Next

-----------------------------------------------------------------------------
(* Close is a cutoff *)

NoOrdinary == \A i \in 1..Len(commands) : ~is_ordinary(commands[i])
NoClose == \A i \in 1..Len(commands) : commands[i].kind # "close"

\* The owner is on a close attempt.
AtClose ==
  own \in {"retry", "teardown", "drain", "shut"} \/ (own = "rollback" /\ cur.kind = "close")

(* There is one close attempt at a time, and admission is shut during it,  *)
(* so that the work in the queue is before Close.                          *)
CutoffInv ==
  /\ \A i, j \in 1..Len(commands) : i < j /\ commands[i].kind = "close" =>
       ~is_ordinary(commands[j]) /\ commands[j].kind # "close"
  /\ NoClose \/ (in_progress = TRUE /\ closing = TRUE /\ ~AtClose)
  /\ AtClose => in_progress = TRUE /\ closing = TRUE /\ NoOrdinary
  /\ Stopped => commands = << >>
  /\ terminal_result # "none" => closed = TRUE
  /\ closed = TRUE => Stopped

\* The variables of close, and where the owner is, are as they were.
SameAttempt ==
  /\ in_progress' = in_progress /\ closing' = closing /\ closed' = closed
  /\ terminal_result' = terminal_result /\ own' = own /\ cur'.kind = cur.kind

\* Commands keep their places when one is added, or loses its reply.
LEMMA SameKinds ==
  ASSUME Shape, CutoffInv, SameAttempt, commands' \in Seq(CommandSet),
         Len(commands') = Len(commands),
         \A i \in 1..Len(commands) : commands'[i].kind = commands[i].kind
  PROVE  CutoffInv'
<1>1. commands = << >> => commands' = << >>
  BY DEF Shape
<1>2. (NoOrdinary => NoOrdinary') /\ (NoClose => NoClose')
  BY Zenon DEF NoOrdinary, NoClose, is_ordinary
<1>3. (AtClose' <=> AtClose) /\ (Stopped' <=> Stopped)
  BY Zenon DEF AtClose, Stopped, SameAttempt
<1> QED
  BY <1>1, <1>2, <1>3 DEF CutoffInv, SameAttempt, is_ordinary

LEMMA GrowKinds ==
  ASSUME Shape, CutoffInv, SameAttempt, ~Stopped, commands' \in Seq(CommandSet),
         Len(commands') = Len(commands) + 1,
         \A i \in 1..Len(commands) : commands'[i].kind = commands[i].kind,
         commands'[Len(commands) + 1].kind # "close",
         ~is_ordinary(commands'[Len(commands) + 1]) \/ ~closing
  PROVE  CutoffInv'
<1>0. Len(commands) \in Nat /\ 1..Len(commands') = 1..Len(commands) \cup {Len(commands) + 1}
  BY DEF Shape
<1>1. NoClose => NoClose'
  BY <1>0, Zenon DEF NoClose
<1>2. AtClose => (NoOrdinary => NoOrdinary')
  BY <1>0, Zenon DEF NoOrdinary, is_ordinary, CutoffInv
<1>3. (AtClose' <=> AtClose) /\ ~Stopped'
  BY Zenon DEF AtClose, Stopped, SameAttempt
<1>4. ASSUME NEW i \in 1..Len(commands'), NEW j \in 1..Len(commands'), i < j,
             commands'[i].kind = "close"
      PROVE  ~is_ordinary(commands'[j]) /\ commands'[j].kind # "close"
  <2>1. i \in 1..Len(commands) /\ commands[i].kind = "close"
    BY <1>0, <1>4, Zenon
  <2>2. closing = TRUE
    BY <2>1, Zenon DEF CutoffInv, NoClose
  <2>3. CASE j \in 1..Len(commands)
    BY <1>4, <2>1, <2>3, Zenon DEF CutoffInv, is_ordinary
  <2> QED
    BY <1>0, <2>2, <2>3, Zenon
<1> QED
  BY <1>1, <1>2, <1>3, <1>4, Zenon DEF CutoffInv, SameAttempt

\* A Close joins the queue when there is none and no attempt is under way.
LEMMA QueueClose ==
  ASSUME Shape, CutoffInv, ~in_progress, ~Stopped, commands' = Append(commands, CloseCommand),
         in_progress' = TRUE, closing' = TRUE, closed' = closed,
         terminal_result' = terminal_result, ~AtClose', ~Stopped'
  PROVE  CutoffInv'
<1>1. NoClose /\ ~AtClose
  BY Zenon DEF CutoffInv
<1>2. /\ Len(commands) \in Nat /\ 1..Len(commands') = 1..Len(commands) \cup {Len(commands) + 1}
      /\ \A i \in 1..Len(commands) : commands'[i] = commands[i]
  BY CloseType DEF Shape
<1>3. \A i, j \in 1..Len(commands') : i < j => commands'[i].kind # "close"
  BY <1>1, <1>2 DEF NoClose
<1> QED
  BY <1>3, Zenon DEF CutoffInv

LEMMA AppendKinds ==
  ASSUME Shape, NEW m \in CommandSet, commands' = Append(commands, m)
  PROVE  /\ commands' \in Seq(CommandSet) /\ Len(commands') = Len(commands) + 1
         /\ \A i \in 1..Len(commands) : commands'[i].kind = commands[i].kind
         /\ commands'[Len(commands) + 1] = m
BY DEF Shape

LEMMA SendCutoff ==
  ASSUME Shape, CutoffInv, NEW c \in Clients,
         NEW k \in {"exec", "request", "backup", "begin", "op"}, send(c, k)
  PROVE  CutoffInv'
<1>1. SameAttempt
  BY Zenon DEF send, flags, closeState, SameAttempt
<1>2. CASE commands' = commands
  BY <1>1, <1>2, SameKinds, Zenon DEF Shape
<1>3. CASE poll_send_ordinary(c, k) /\ commands' = Append(commands, Command(c, k, tok[c], TRUE))
  <2>1. Command(c, k, tok[c], TRUE) \in CommandSet /\ Command(c, k, tok[c], TRUE).kind = k
    BY CommandType, Zenon DEF CommandKinds, Command
  <2>2. ~closing /\ ~Stopped
    BY <1>3, Zenon DEF poll_send_ordinary, Refused
  <2> QED
    BY <1>1, <1>3, <2>1, <2>2, AppendKinds, GrowKinds, Zenon
<1> QED
  BY <1>2, <1>3, Zenon DEF send, poll_send_ordinary, RefuseSend

\* Settlement and cleanup may be queued behind Close.
LEMMA SettleCutoff ==
  ASSUME Shape, CutoffInv, SameAttempt, NEW c \in Clients, CanSettle,
         NEW k \in {"commit", "rollback", "release", "undo"}, NEW a \in BOOLEAN,
         Settle(c, k, a)
  PROVE  CutoffInv'
<1>1. Command(c, k, tok[c], a) \in CommandSet /\ Command(c, k, tok[c], a).kind = k
  BY CommandType, Zenon DEF CommandKinds, Command
<1>2. ~Stopped /\ commands' = Append(commands, Command(c, k, tok[c], a))
  BY Zenon DEF CanSettle, Settle
<1> QED
  BY <1>1, <1>2, AppendKinds, GrowKinds, Zenon DEF is_ordinary

LEMMA ClientCutoff ==
  ASSUME Shape, CutoffInv, NEW c \in Clients, Client(c)
  PROVE  CutoffInv'
<1>0. own' = own /\ cur'.kind = cur.kind
  BY ClientFrame, ClientShape, Zenon DEF SameCommand
<1>1. CASE \E kind \in Kinds \cap {"exec", "request", "backup", "transaction"} : Call(c, kind)
  <2>1. PICK kind \in {"exec", "request", "backup", "transaction"} : Call(c, kind)
    BY <1>1, Zenon
  <2>2. CommandOf(kind) \in {"exec", "request", "backup", "begin", "op"}
    BY Zenon DEF CommandOf
  <2> QED
    BY <2>1, <2>2, SendCutoff, Zenon DEF Call
<1>2. CASE close(c)
  <2>1. CASE UNCHANGED <<commands, in_progress, closing, closed, terminal_result>>
    BY <1>0, <2>1, SameKinds, Zenon DEF Shape, SameAttempt
  <2>2. CASE StartClose(c) /\ Stopped
    <3>1. /\ commands' = commands /\ commands = << >> /\ closed' = TRUE /\ Stopped'
          /\ ~AtClose'
      BY <1>0, <2>2, Zenon DEF StartClose, CutoffInv, Stopped, AtClose
    <3> QED
      BY <3>1 DEF CutoffInv, NoClose
  <2>3. CASE StartClose(c) /\ ~Stopped
    <3>1. ~AtClose
      BY <2>3, Zenon DEF StartClose, CutoffInv
    <3>2. ~AtClose' /\ ~Stopped'
      BY <1>0, <2>3, <3>1, Zenon DEF AtClose, Stopped
    <3> QED
      BY <2>3, <3>2, QueueClose, Zenon DEF StartClose
  <2> QED
    BY <1>2, <2>1, <2>2, <2>3, Zenon DEF close, flags, closeState
<1>3. CASE cancel(c) \/ CancelRequest(c) \/ InterruptRequest(c) \/ CancelReturns(c)
  <2>1. commands' = commands /\ SameAttempt
    BY <1>0, <1>3, Zenon DEF cancel, CancelRequest, InterruptRequest, CancelReturns, flags,
       closeState, SameAttempt
  <2> QED
    BY <2>1, SameKinds, Zenon DEF Shape
<1>4. CASE PollSend(c)
  <2>1. CASE pc[c] = "opwait"
    BY <1>4, <2>1, SendCutoff, Zenon DEF PollSend
  <2>2. CASE pc[c] = "wait"
    <3>1. CommandOf(op[c]) \in {"exec", "request", "backup", "begin", "op"}
      BY <2>2, Zenon DEF Shape, CommandOf
    <3> QED
      BY <1>4, <2>2, <3>1, SendCutoff, Zenon DEF PollSend
  <2> QED
    BY <1>4, <2>1, <2>2, Zenon DEF PollSend
<1>5. CASE TxOp(c)
  BY <1>5, SendCutoff, Zenon DEF TxOp
<1>6. CASE Resume(c)
  <2>1. SameAttempt
    BY <1>0, <1>6, Zenon DEF Resume, Answered, TxResumes, TxRolledBack, TxCommitted, TxReleased,
       TxRollback, TxCommit, TxFinish, flags, closeState, SameAttempt
  <2>2. \/ commands' = commands
        \/ CanSettle /\ \E k \in {"commit", "rollback", "release"} : Settle(c, k, TRUE)
    BY <1>6, Zenon DEF Resume, Answered, TxResumes, TxRolledBack, TxCommitted, TxReleased,
       TxRollback, TxCommit, TxFinish, Release
  <2> QED
    BY <2>1, <2>2, SameKinds, SettleCutoff, Zenon DEF Shape
<1>7. CASE Drop(c) \/ TxDropOp(c) \/ TxDrop(c)
  <2>1. SameAttempt
    BY <1>0, <1>7, Zenon DEF Drop, TxDropOp, TxDrop, flags, closeState, SameAttempt
  <2>2. /\ Orphans(c) \in Seq(CommandSet) /\ Len(Orphans(c)) = Len(commands)
        /\ \A i \in 1..Len(commands) : Orphans(c)[i].kind = commands[i].kind
    BY OrphansType, OrphanedType DEF Shape
  <2>3. CASE commands' = Orphans(c)
    BY <2>1, <2>2, <2>3, SameKinds, Zenon
  <2>4. CASE CanSettle
             /\ commands' = Append(Orphans(c), Command(c, DropCleanup(c), tok[c], FALSE))
    <3> DEFINE m == Command(c, DropCleanup(c), tok[c], FALSE)
    <3>1. m \in CommandSet /\ m.kind \in {"undo", "release"}
      BY CommandType, Zenon DEF CommandKinds, DropCleanup, Command
    <3> HIDE DEF m
    <3>2. commands' = Append(Orphans(c), m)
      BY <2>4, Zenon DEF m
    <3>3. Len(commands) \in Nat
      BY DEF Shape
    <3>4. /\ commands' \in Seq(CommandSet) /\ Len(commands') = Len(commands) + 1
          /\ \A i \in 1..Len(commands) : commands'[i].kind = commands[i].kind
          /\ commands'[Len(commands) + 1] = m
      BY <2>2, <3>1, <3>2, <3>3
    <3> QED
      BY <2>1, <2>4, <3>1, <3>4, GrowKinds, Zenon DEF CanSettle, is_ordinary
  <2> QED
    BY <1>7, <2>3, <2>4, Zenon DEF Drop, TxDropOp, TxDrop
<1> QED
  BY <1>1, <1>2, <1>3, <1>4, <1>5, <1>6, <1>7, Zenon DEF Client

\* What is left when the owner took the oldest command.
LEMMA ReceiveCutoff ==
  ASSUME Shape, CutoffInv, Receive, in_progress' = in_progress, closing' = closing,
         closed' = closed, terminal_result' = terminal_result, ~Stopped',
         Head(commands).kind # "close" => ~AtClose'
  PROVE  CutoffInv'
<1>1. commands # << >> /\ commands' = Tail(commands) /\ own = "receive"
  BY ReceiveShape, Zenon
<1>2. /\ Len(commands') = Len(commands) - 1 /\ Len(commands) \in Nat \ {0}
      /\ \A i \in 1..Len(commands') : i + 1 \in 1..Len(commands) /\ commands'[i] = commands[i + 1]
      /\ Head(commands) = commands[1]
  BY <1>1 DEF Shape
<1>3. ASSUME NEW i \in 1..Len(commands'), NEW j \in 1..Len(commands'), i < j,
             commands'[i].kind = "close"
      PROVE  ~is_ordinary(commands'[j]) /\ commands'[j].kind # "close"
  <2>1. i + 1 \in 1..Len(commands) /\ j + 1 \in 1..Len(commands) /\ i + 1 < j + 1
    BY <1>2, <1>3
  <2>2. commands[i + 1].kind = "close" /\ commands'[j] = commands[j + 1]
    BY <1>2, <1>3, Zenon
  <2>3. ~is_ordinary(commands[j + 1]) /\ commands[j + 1].kind # "close"
    BY <2>1, <2>2, Zenon DEF CutoffInv
  <2> QED
    BY <2>2, <2>3, Zenon DEF is_ordinary
<1>4. ~closed /\ terminal_result = "none"
  BY <1>1, Zenon DEF CutoffInv, Stopped
<1>5. CASE Head(commands).kind # "close"
  <2>1. NoClose => NoClose'
    BY <1>2, Zenon DEF NoClose
  <2> QED
    BY <1>3, <1>4, <1>5, <2>1, Zenon DEF CutoffInv
<1>6. CASE Head(commands).kind = "close"
  <2>1. commands[1].kind = "close" /\ 1 \in 1..Len(commands)
    BY <1>2, <1>6
  <2>2. \A j \in 1..Len(commands) : 1 < j => ~is_ordinary(commands[j]) /\ commands[j].kind # "close"
    BY <2>1, Zenon DEF CutoffInv
  <2>3. ASSUME NEW i \in 1..Len(commands')
        PROVE  ~is_ordinary(commands'[i]) /\ commands'[i].kind # "close"
    <3>1. i + 1 \in 1..Len(commands) /\ 1 < i + 1
      BY <1>2
    <3>2. commands'[i] = commands[i + 1]
      BY <1>2, Zenon
    <3> QED
      BY <2>2, <3>1, <3>2, Zenon DEF is_ordinary
  <2>5. NoClose' /\ NoOrdinary'
    BY <2>3, Zenon DEF NoClose, NoOrdinary
  <2>4. in_progress = TRUE /\ closing = TRUE
    BY <2>1, Zenon DEF CutoffInv, NoClose
  <2> QED
    BY <1>3, <1>4, <2>5, <2>4, Zenon DEF CutoffInv
<1> QED
  BY <1>5, <1>6, Zenon

\* The owner goes on: with its attempt, or with something else.
LEMMA MoveCutoff ==
  ASSUME Shape, CutoffInv, commands' = commands, in_progress' = in_progress,
         closing' = closing, closed' = closed, terminal_result' = terminal_result,
         ~Stopped, ~Stopped', AtClose' => AtClose
  PROVE  CutoffInv'
BY Zenon DEF CutoffInv, NoClose, NoOrdinary

\* schedule_terminal_drop_close queues one Close, or completes a stopped one.
LEMMA ScheduleCutoff ==
  ASSUME Shape, CutoffInv, schedule_terminal_drop_close, own' = own \/ (own = "recheck" /\ own' = "receive"),
         cur' = cur
  PROVE  CutoffInv'
<1>1. (Stopped' <=> Stopped) /\ (AtClose' <=> AtClose)
  BY Zenon DEF Stopped, AtClose
<1>2. CASE UNCHANGED <<closing, closed, commands, closeState>>
  BY <1>1, <1>2, Zenon DEF closeState, CutoffInv, NoClose, NoOrdinary
<1>3. CASE Stopped /\ commands' = commands /\ closed' = TRUE
  BY <1>1, <1>3 DEF CutoffInv, NoClose, Stopped, AtClose
<1>4. CASE ~Stopped /\ ~in_progress /\ commands' = Append(commands, CloseCommand)
           /\ in_progress' = TRUE /\ closing' = TRUE /\ UNCHANGED <<closed, terminal_result>>
  <2>1. ~AtClose
    BY <1>4, Zenon DEF CutoffInv
  <2> QED
    BY <1>1, <1>4, <2>1, QueueClose, Zenon
<1> QED
  BY <1>2, <1>3, <1>4, Zenon DEF schedule_terminal_drop_close, complete_terminal_close,
     closeState

LEMMA OwnerCutoff ==
  ASSUME Shape, CutoffInv, Owner \/ OwnerPanics
  PROVE  CutoffInv'
<1> DEFINE Same == /\ in_progress' = in_progress /\ closing' = closing /\ closed' = closed
                   /\ terminal_result' = terminal_result
<1>1. CASE Skip \/ Reject \/ ReleasePin
  <2>1. Receive /\ Same /\ own' = own
    BY <1>1, Zenon DEF Skip, Reject, ReleasePin, flags, closeState
  <2>2. ~Stopped' /\ ~AtClose'
    BY <2>1, Zenon DEF Receive, Stopped, AtClose
  <2> QED
    BY <2>1, <2>2, ReceiveCutoff, Zenon
<1>2. CASE TakeRequest \/ Start
  <2>1. Receive /\ Same /\ own' \in {"enter", "run"}
    BY <1>2, Zenon DEF TakeRequest, Start, flags, closeState
  <2>2. ~Stopped' /\ ~AtClose'
    BY <2>1, Zenon DEF Stopped, AtClose
  <2> QED
    BY <2>1, <2>2, ReceiveCutoff, Zenon
<1>3. CASE RollbackAndReleasePin
  <2>1. Receive /\ Same /\ Head(commands).kind = "undo"
    BY <1>3, Zenon DEF RollbackAndReleasePin, flags, closeState
  <2>2. own' = "receive" \/ (own' = "rollback" /\ cur' = Head(commands))
    BY <1>3, Zenon DEF RollbackAndReleasePin, rollback_active_pin
  <2>3. ~Stopped' /\ ~AtClose'
    BY <2>1, <2>2, Zenon DEF Stopped, AtClose
  <2> QED
    BY <2>1, <2>3, ReceiveCutoff, Zenon
<1>4. CASE ReceiveClose
  <2>1. Receive /\ Same /\ Head(commands).kind = "close"
    BY <1>4, Zenon DEF ReceiveClose, flags, closeState
  <2>2. own' \in {"teardown", "rollback", "retry"}
    BY <1>4, Zenon DEF ReceiveClose, rollback_active_pin
  <2> QED
    BY <2>1, <2>2, ReceiveCutoff, Zenon DEF Stopped
<1>5. CASE EnterRequest \/ FinishWork \/ FinishBegin \/ FinishOp \/ FinishControl
           \/ LeaveRequest
  <2>1. commands' = commands /\ Same
    BY <1>5, Zenon DEF EnterRequest, FinishWork, FinishBegin, FinishOp, FinishControl,
       LeaveRequest, flags, closeState
  <2>2. /\ own \in {"enter", "run", "leave", "unwind"}
        /\ own' \in {"receive", "run", "leave", "panic"} \/ (FinishBegin /\ own' = "rollback" /\ cur' = cur)
    BY <1>5, Zenon DEF EnterRequest, FinishWork, FinishBegin, FinishOp, FinishControl,
       LeaveRequest
  <2>3. ~AtClose'
    BY <2>2, Zenon DEF AtClose, FinishBegin
  <2> QED
    BY <2>1, <2>2, <2>3, MoveCutoff, Zenon DEF Stopped
<1>6. CASE FinishRollback
  <2>1. commands' = commands /\ Same
    BY <1>6, Zenon DEF FinishRollback, flags, closeState
  <2>2. own = "rollback" /\ own' \in {"receive", "teardown"} /\ (own' = "teardown" => cur.kind = "close")
    BY <1>6, Zenon DEF FinishRollback
  <2> QED
    BY <2>1, <2>2, MoveCutoff, Zenon DEF Stopped, AtClose
<1>7. CASE Teardown \/ wait_for_idle \/ CloseSession \/ Dispose \/ OwnerPanics
  <2>1. commands' = commands /\ Same
    BY <1>7, Zenon DEF Teardown, wait_for_idle, CloseSession, Dispose, OwnerPanics, flags,
       closeState
  <2>2. /\ own \in {"teardown", "drain", "shut", "panic", "run", "rollback"}
        /\ own' \in {"drain", "shut", "stop", "unwind", "panic"}
        /\ own' \in {"drain", "shut"} => own \in {"teardown", "drain"}
    BY <1>7, Zenon DEF Teardown, wait_for_idle, CloseSession, Dispose, OwnerPanics
  <2> QED
    BY <2>1, <2>2, MoveCutoff, Zenon DEF Stopped, AtClose
<1>8. CASE complete_retryable_close
  <2>1. /\ own = "retry" /\ own' = "recheck" /\ commands' = commands /\ closed' = closed
        /\ terminal_result' = terminal_result
    BY <1>8, Zenon DEF complete_retryable_close
  <2>2. NoClose /\ ~closed
    BY <2>1, Zenon DEF CutoffInv, AtClose, Stopped
  <2>3. NoClose' /\ ~AtClose' /\ ~Stopped'
    BY <2>1, <2>2, Zenon DEF NoClose, AtClose, Stopped
  <2> QED
    BY <2>1, <2>2, <2>3, Zenon DEF CutoffInv
<1>9. CASE Recheck
  BY <1>9, ScheduleCutoff, Zenon DEF Recheck
<1>10. CASE stop
  <2>1. /\ own = "stop" /\ own' = "complete" /\ commands' = << >> /\ closed' = closed
        /\ terminal_result' = terminal_result
    BY <1>10, Zenon DEF stop, closeState
  <2>2. ~AtClose' /\ Stopped' /\ NoClose'
    BY <2>1 DEF AtClose, Stopped, NoClose
  <2> QED
    BY <2>1, <2>2 DEF CutoffInv, Stopped
<1>11. CASE Complete
  <2>1. /\ own = "complete" /\ own' = "stopped" /\ commands' = commands /\ closed' = TRUE
    BY <1>11, Zenon DEF Complete, complete_terminal_close
  <2>2. ~AtClose' /\ Stopped' /\ commands' = << >>
    BY <2>1, Zenon DEF AtClose, Stopped, CutoffInv
  <2>3. NoClose'
    BY <2>2 DEF NoClose
  <2> QED
    BY <2>1, <2>2, <2>3, Zenon DEF CutoffInv
<1> QED
  BY <1>1, <1>2, <1>3, <1>4, <1>5, <1>6, <1>7, <1>8, <1>9, <1>10, <1>11, Zenon DEF Owner

LEMMA NextCutoff ==
  ASSUME Shape, CutoffInv, [Next]_vars
  PROVE  CutoffInv'
<1>1. CASE Opened \/ OpenFails
  <2>1. /\ own = "opening" /\ own' \in {"receive", "panic"} /\ commands' = commands
        /\ in_progress' = in_progress /\ closing' = closing /\ closed' = closed
        /\ terminal_result' = terminal_result
    BY <1>1, Zenon DEF Opened, OpenFails, flags, closeState
  <2> QED
    BY <2>1, MoveCutoff, Zenon DEF Stopped, AtClose
<1>2. CASE DropHandle \/ UNCHANGED vars
  BY <1>2, SameKinds, Zenon DEF DropHandle, vars, closeState, flags, SameAttempt, Shape
<1>3. CASE DropSchedules
  BY <1>3, ScheduleCutoff, Zenon DEF DropSchedules
<1> QED
  BY <1>1, <1>2, <1>3, OwnerCutoff, ClientCutoff, Zenon DEF Next

-----------------------------------------------------------------------------
(* Every reply has one client that awaits it *)

Awaits == {"sent", "opsent", "commit", "rollback", "release"}
AwaitOf(kind) ==
  IF kind \in {"exec", "request", "backup", "begin"} THEN "sent"
  ELSE IF kind = "op" THEN "opsent" ELSE kind
Busy == own \in {"enter", "run", "rollback"}

\* Whoever holds the receiver of this command's reply awaits that reply.
Awaited(m) ==
  m.alive => /\ m.client \in Clients /\ pc[m.client] = AwaitOf(m.kind)
             /\ value[m.client] = "none" /\ m.kind \notin {"undo", "close", "none"}

(* A command whose receiver is there has a client that awaits it, another  *)
(* one for every command, and a slot is filled only where one is awaited.  *)
ReplyInv ==
  /\ \A i \in 1..Len(commands) : Awaited(commands[i])
  /\ Busy => Awaited(cur)
  /\ \A i, j \in 1..Len(commands) : i # j /\ commands[i].alive /\ commands[j].alive =>
       commands[i].client # commands[j].client
  /\ Busy /\ cur.alive => \A i \in 1..Len(commands) :
       commands[i].alive => commands[i].client # cur.client
  /\ own = "rollback" => cur.alive = FALSE
  /\ \A c \in Clients : value[c] # "none" => pc[c] \in Awaits \cup {"closing"}

\* No reply to this client is outstanding.
Silent(c) ==
  /\ \A i \in 1..Len(commands) : commands[i].alive => commands[i].client # c
  /\ Busy /\ cur.alive => cur.client # c

LEMMA AwaitOfKind ==
  ASSUME NEW k \in CommandKinds \ {"undo", "close", "none"}
  PROVE  AwaitOf(k) \in Awaits
BY Zenon DEF AwaitOf, Awaits, CommandKinds

LEMMA SilentClient ==
  ASSUME Shape, ReplyInv, NEW c \in Clients, pc[c] \notin Awaits \/ value[c] # "none"
  PROVE  Silent(c)
<1>1. ASSUME NEW m \in CommandSet, Awaited(m), m.alive PROVE m.client # c
  <2>1. m.kind \in CommandKinds \ {"undo", "close", "none"}
    BY <1>1, Zenon DEF Awaited, CommandSet
  <2> QED
    BY <1>1, <2>1, AwaitOfKind, Zenon DEF Awaited
<1>2. \A i \in 1..Len(commands) : commands[i] \in CommandSet
  BY DEF Shape
<1>3. cur \in CommandSet
  BY Zenon DEF Shape
<1> QED
  BY <1>1, <1>2, <1>3, Zenon DEF ReplyInv, Silent

\* What a step does to the other clients and to the owner's command.
Apart(c) ==
  /\ own' = own /\ SameCommand
  /\ \A d \in Clients \ {c} : pc'[d] = pc[d] /\ value'[d] = value[d]

\* A step of client c that adds no command.
LEMMA KeepReplies ==
  ASSUME Shape, ReplyInv, NEW c \in Clients, Apart(c), Len(commands') = Len(commands),
         \A i \in 1..Len(commands) :
           /\ commands'[i].client = commands[i].client /\ commands'[i].kind = commands[i].kind
           /\ commands'[i].alive => commands[i].alive,
         (Silent(c))' \/ (pc'[c] = pc[c] /\ value'[c] = value[c]),
         value'[c] # "none" => pc'[c] \in Awaits \cup {"closing"}
  PROVE  ReplyInv'
<1>1. Busy' <=> Busy
  BY Zenon DEF Busy, Apart
<1>2. ASSUME NEW i \in 1..Len(commands') PROVE (Awaited(commands[i]))'
  <2>1. Awaited(commands[i])
    BY <1>2, Zenon DEF ReplyInv
  <2> QED
    BY <1>2, <2>1 DEF Awaited, Silent, Apart
<1>3. Busy' => (Awaited(cur))'
  <2>1. Busy => Awaited(cur)
    BY Zenon DEF ReplyInv
  <2> QED
    BY <1>1, <2>1 DEF Awaited, Silent, Apart, SameCommand
<1>4. \A i, j \in 1..Len(commands') : i # j /\ commands'[i].alive /\ commands'[j].alive =>
        commands'[i].client # commands'[j].client
  BY DEF ReplyInv
<1>5. Busy' /\ cur'.alive => \A i \in 1..Len(commands') :
        commands'[i].alive => commands'[i].client # cur'.client
  BY <1>1, Zenon DEF ReplyInv, Apart, SameCommand
<1>6. own' = "rollback" => cur'.alive = FALSE
  BY DEF ReplyInv, Apart, SameCommand
<1>7. \A d \in Clients : value'[d] # "none" => pc'[d] \in Awaits \cup {"closing"}
  BY Zenon DEF ReplyInv, Apart
<1> QED
  BY <1>2, <1>3, <1>4, <1>5, <1>6, <1>7, Zenon DEF ReplyInv

\* A step of client c that adds a command: one whose reply c awaits from now on,
\* or one without a receiver.
LEMMA AddReply ==
  ASSUME Shape, ReplyInv, NEW c \in Clients, Apart(c), Len(commands') = Len(commands) + 1,
         \A i \in 1..Len(commands) :
           /\ commands'[i].client = commands[i].client /\ commands'[i].kind = commands[i].kind
           /\ commands'[i].alive => commands[i].alive /\ commands[i].client # c,
         Busy /\ cur'.alive => cur.client # c,
         NEW m, m = commands'[Len(commands) + 1], m.alive => m.client = c, (Awaited(m))',
         value'[c] # "none" => pc'[c] \in Awaits \cup {"closing"}
  PROVE  ReplyInv'
<1>0. Len(commands) \in Nat
  BY DEF Shape
<1>1. 1..Len(commands') = 1..Len(commands) \cup {Len(commands) + 1}
  BY <1>0
<1>2. Busy' <=> Busy
  BY Zenon DEF Busy, Apart
<1>3. ASSUME NEW i \in 1..Len(commands') PROVE (Awaited(commands[i]))'
  <2>1. CASE i \in 1..Len(commands)
    <3>1. Awaited(commands[i])
      BY <2>1, Zenon DEF ReplyInv
    <3> QED
      BY <2>1, <3>1 DEF Awaited, Apart
  <2>2. CASE i = Len(commands) + 1
    BY <2>2, Zenon DEF Awaited
  <2> QED
    BY <1>1, <1>3, <2>1, <2>2, Zenon
<1>4. Busy' => (Awaited(cur))'
  <2>1. Busy => Awaited(cur)
    BY Zenon DEF ReplyInv
  <2> QED
    BY <1>2, <2>1 DEF Awaited, Apart, SameCommand
<1>5. ASSUME NEW i \in 1..Len(commands'), NEW j \in 1..Len(commands'), i # j,
             commands'[i].alive, commands'[j].alive
      PROVE  commands'[i].client # commands'[j].client
  <2>1. CASE i \in 1..Len(commands) /\ j \in 1..Len(commands)
    <3>1. commands[i].alive /\ commands[j].alive
      BY <1>5, <2>1, Zenon
    <3>2. commands[i].client # commands[j].client
      BY <1>5, <2>1, <3>1, Zenon DEF ReplyInv
    <3> QED
      BY <2>1, <3>2, Zenon
  <2>2. CASE i = Len(commands) + 1 /\ j \in 1..Len(commands)
    BY <1>5, <2>2, Zenon
  <2>3. CASE j = Len(commands) + 1 /\ i \in 1..Len(commands)
    BY <1>5, <2>3, Zenon
  <2> QED
    BY <1>1, <1>5, <2>1, <2>2, <2>3, Zenon
<1>6. Busy' /\ cur'.alive => \A i \in 1..Len(commands') :
        commands'[i].alive => commands'[i].client # cur'.client
  BY <1>1, <1>2, Zenon DEF ReplyInv, Apart, SameCommand
<1>7. own' = "rollback" => cur'.alive = FALSE
  BY DEF ReplyInv, Apart, SameCommand
<1>8. \A d \in Clients : value'[d] # "none" => pc'[d] \in Awaits \cup {"closing"}
  BY Zenon DEF ReplyInv, Apart
<1> QED
  BY <1>3, <1>4, <1>5, <1>6, <1>7, <1>8, Zenon DEF ReplyInv

\* The two lemmas for the queue as it is, and for it with one command more.
LEMMA SameReplies ==
  ASSUME Shape, ReplyInv, NEW c \in Clients, Apart(c), commands' = commands, cur' = cur,
         Silent(c) \/ (pc'[c] = pc[c] /\ value'[c] = value[c]),
         value'[c] # "none" => pc'[c] \in Awaits \cup {"closing"}
  PROVE  ReplyInv'
<1>1. Silent(c) => (Silent(c))'
  BY Zenon DEF Silent, Busy, Apart
<1> QED
  BY <1>1, KeepReplies, Zenon

LEMMA MoreReplies ==
  ASSUME Shape, ReplyInv, NEW c \in Clients, Apart(c), Silent(c), cur' = cur,
         NEW m \in CommandSet, commands' = Append(commands, m),
         m.alive => m.client = c, (Awaited(m))',
         value'[c] # "none" => pc'[c] \in Awaits \cup {"closing"}
  PROVE  ReplyInv'
<1>1. /\ Len(commands') = Len(commands) + 1 /\ m = commands'[Len(commands) + 1]
      /\ \A i \in 1..Len(commands) : commands'[i] = commands[i]
  BY DEF Shape
<1>2. \A i \in 1..Len(commands) :
        /\ commands'[i].client = commands[i].client /\ commands'[i].kind = commands[i].kind
        /\ commands'[i].alive => commands[i].alive /\ commands[i].client # c
  BY <1>1, Zenon DEF Silent
<1>3. Busy /\ cur'.alive => cur.client # c
  BY Zenon DEF Silent
<1> QED
  BY <1>1, <1>2, <1>3, AddReply, Zenon

LEMMA SendReplies ==
  ASSUME Shape, ReplyInv, NEW c \in Clients, Apart(c), Silent(c), cur' = cur,
         NEW k \in CommandKinds \ {"undo", "close", "none"},
         commands' = Append(commands, Command(c, k, tok[c], TRUE)),
         pc'[c] = AwaitOf(k), value'[c] = "none"
  PROVE  ReplyInv'
<1>1. PICK m \in CommandSet : m = Command(c, k, tok[c], TRUE)
  BY CommandType, Zenon
<1>2. m.client = c /\ m.kind = k
  BY <1>1, Zenon DEF Command
<1>3. (Awaited(m))'
  BY <1>2, Zenon DEF Awaited
<1>4. commands' = Append(commands, m)
  BY <1>1, Zenon
<1> QED
  BY <1>2, <1>3, <1>4, MoreReplies, Zenon

LEMMA PollReplies ==
  ASSUME Shape, ReplyInv, NEW c \in Clients, Apart(c), pc[c] \notin Awaits \cup {"closing"},
         NEW k \in {"exec", "request", "backup", "begin", "op"}, send(c, k)
  PROVE  ReplyInv'
<1>1. Silent(c) /\ value[c] = "none"
  BY SilentClient, Zenon DEF ReplyInv
<1>2. value'[c] = "none" /\ cur' = cur
  BY <1>1, Zenon DEF send
<1>3. CASE commands' = commands
  BY <1>1, <1>2, <1>3, SameReplies, Zenon
<1>4. CASE /\ commands' = Append(commands, Command(c, k, tok[c], TRUE))
           /\ pc' = [pc EXCEPT ![c] = IF k = "op" THEN "opsent" ELSE "sent"]
  <2>1. pc'[c] = AwaitOf(k)
    BY <1>4, Zenon DEF AwaitOf, Shape
  <2>2. k \in CommandKinds \ {"undo", "close", "none"}
    BY Zenon DEF CommandKinds
  <2> QED
    BY <1>1, <1>2, <1>4, <2>1, <2>2, SendReplies, Zenon
<1> QED
  BY <1>3, <1>4, Zenon DEF send, poll_send_ordinary, RefuseSend

LEMMA ReleaseReplies ==
  ASSUME Shape, ReplyInv, NEW c \in Clients, Apart(c), Silent(c), NEW r, Release(c, r),
         cur' = cur, value'[c] = "none"
  PROVE  ReplyInv'
<1>1. CASE commands' = commands
  BY <1>1, SameReplies, Zenon
<1>2. CASE commands' = Append(commands, Command(c, "release", tok[c], TRUE)) /\ pc'[c] = "release"
  BY <1>2, SendReplies, Zenon DEF CommandKinds, AwaitOf
<1> QED
  BY <1>1, <1>2, Zenon DEF Release, Settle, Shape

\* Whoever drops a future drops the receiver.
LEMMA OrphanedDead ==
  ASSUME NEW m \in CommandSet, NEW c, Orphaned(m, c).alive
  PROVE  m.alive /\ m.client # c
BY Zenon DEF Orphaned, CommandSet

LEMMA DropReplies ==
  ASSUME Shape, ReplyInv, NEW c \in Clients, Apart(c), Orphan(c),
         \/ commands' = Orphans(c)
         \/ commands' = Append(Orphans(c), Command(c, DropCleanup(c), tok[c], FALSE))
  PROVE  ReplyInv'
<1>0. cur \in CommandSet /\ \A i \in 1..Len(commands) : commands[i] \in CommandSet
  BY DEF Shape
<1>1. value'[c] = "none" /\ (cur'.alive => cur'.client # c)
  BY <1>0, OrphanedType, OrphanedDead DEF Orphan, Shape
<1>2. /\ Orphans(c) \in Seq(CommandSet) /\ Len(Orphans(c)) = Len(commands)
      /\ \A i \in 1..Len(commands) :
           /\ Orphans(c)[i].client = commands[i].client
           /\ Orphans(c)[i].kind = commands[i].kind
           /\ Orphans(c)[i].alive => commands[i].alive /\ commands[i].client # c
  <2>1. ASSUME NEW i \in 1..Len(commands)
        PROVE  /\ Orphans(c)[i].client = commands[i].client
               /\ Orphans(c)[i].kind = commands[i].kind
               /\ Orphans(c)[i].alive => commands[i].alive /\ commands[i].client # c
    <3>1. Orphans(c)[i] = Orphaned(commands[i], c) /\ commands[i] \in CommandSet
      BY <1>0, OrphansType, Zenon
    <3> QED
      BY <3>1, OrphanedType, OrphanedDead
  <2> QED
    BY <2>1, OrphansType, Zenon
<1>3. CASE commands' = Orphans(c)
  <2>1. (Silent(c))'
    BY <1>1, <1>2, <1>3, Zenon DEF Silent
  <2> QED
    BY <1>1, <1>2, <1>3, <2>1, KeepReplies, Zenon
<1>4. CASE commands' = Append(Orphans(c), Command(c, DropCleanup(c), tok[c], FALSE))
  <2>1. PICK m \in CommandSet : m = Command(c, DropCleanup(c), tok[c], FALSE)
    BY CommandType, Zenon DEF CommandKinds, DropCleanup
  <2>2. m.alive = FALSE
    BY <2>1, Zenon DEF Command
  <2>3. Len(commands) \in Nat /\ commands' = Append(Orphans(c), m)
    BY <1>4, <2>1 DEF Shape
  <2>4. /\ Len(commands') = Len(commands) + 1 /\ m = commands'[Len(commands) + 1]
        /\ \A i \in 1..Len(commands) : commands'[i] = Orphans(c)[i]
    BY <1>2, <2>3
  <2>5. \A i \in 1..Len(commands) :
          /\ commands'[i].client = commands[i].client /\ commands'[i].kind = commands[i].kind
          /\ commands'[i].alive => commands[i].alive /\ commands[i].client # c
    BY <1>2, <2>4, Zenon
  <2>6. Busy /\ cur'.alive => cur.client # c
    BY <1>1, Zenon DEF Apart, SameCommand
  <2>7. (Awaited(m))'
    BY <2>2, Zenon DEF Awaited
  <2> QED
    BY <1>1, <2>2, <2>4, <2>5, <2>6, <2>7, AddReply, Zenon
<1> QED
  BY <1>3, <1>4, Zenon

LEMMA ClientReplies ==
  ASSUME Shape, ReplyInv, NEW c \in Clients, Client(c)
  PROVE  ReplyInv'
<1>0. Apart(c) /\ own' = own
  BY ClientShape, ClientFrame, Zenon DEF Apart, OnlyOf
<1>1. CASE \E kind \in Kinds \cap {"exec", "request", "backup", "transaction"} : Call(c, kind)
  <2>1. PICK kind \in {"exec", "request", "backup", "transaction"} : Call(c, kind)
    BY <1>1, Zenon
  <2>2. CommandOf(kind) \in {"exec", "request", "backup", "begin", "op"}
    BY Zenon DEF CommandOf
  <2>3. pc[c] \notin Awaits \cup {"closing"} /\ send(c, CommandOf(kind))
    BY <2>1, Zenon DEF Call, Awaits
  <2> QED
    BY <1>0, <2>2, <2>3, PollReplies, Zenon
<1>2. CASE close(c)
  <2>1. Silent(c) /\ value[c] = "none" /\ cur' = cur
    BY <1>2, SilentClient, Zenon DEF close, Awaits, ReplyInv
  <2>2. value'[c] # "none" => pc'[c] = "closing"
    BY <1>2, <2>1, Zenon DEF close, StartClose, Shape
  <2>3. CASE commands' = commands
    BY <1>0, <2>1, <2>2, <2>3, SameReplies, Zenon
  <2>4. CASE commands' = Append(commands, CloseCommand)
    <3>1. PICK m \in CommandSet : m = CloseCommand
      BY CloseType, Zenon
    <3>2. m.alive = FALSE
      BY <3>1, Zenon DEF CloseCommand, Command
    <3>3. (Awaited(m))'
      BY <3>2, Zenon DEF Awaited
    <3> QED
      BY <1>0, <2>1, <2>2, <2>4, <3>1, <3>2, <3>3, MoreReplies, Zenon
  <2> QED
    BY <1>2, <2>3, <2>4, Zenon DEF close, StartClose
<1>3. CASE cancel(c)
  <2>1. Silent(c) /\ value[c] = "none"
    BY <1>3, SilentClient, Zenon DEF cancel, Awaits, ReplyInv
  <2> QED
    BY <1>0, <1>3, <2>1, SameReplies, Zenon DEF cancel
<1>4. CASE CancelRequest(c) \/ InterruptRequest(c)
  BY <1>0, <1>4, SameReplies, Zenon DEF CancelRequest, InterruptRequest, ReplyInv
<1>5. CASE CancelReturns(c)
  <2>1. CASE pc[c] = "cancelling"
    <3>1. Silent(c) /\ value[c] = "none"
      BY <2>1, SilentClient, Zenon DEF Awaits, ReplyInv
    <3> QED
      BY <1>0, <1>5, <3>1, SameReplies, Zenon DEF CancelReturns
  <2>2. CASE pc' = pc
    BY <1>0, <1>5, <2>2, SameReplies, Zenon DEF CancelReturns, ReplyInv
  <2> QED
    BY <1>5, <2>1, <2>2, Zenon DEF CancelReturns
<1>6. CASE PollSend(c)
  <2>1. pc[c] \notin Awaits \cup {"closing"} /\ pc[c] \in {"wait", "opwait"}
    BY <1>6, Zenon DEF PollSend, Awaits
  <2>2. (IF pc[c] = "opwait" THEN "op" ELSE CommandOf(op[c]))
          \in {"exec", "request", "backup", "begin", "op"}
    BY <2>1, Zenon DEF CommandOf, Shape
  <2>3. send(c, IF pc[c] = "opwait" THEN "op" ELSE CommandOf(op[c]))
    BY <1>6, Zenon DEF PollSend
  <2> QED
    BY <1>0, <2>1, <2>2, <2>3, PollReplies, Zenon
<1>7. CASE TxOp(c)
  <2>1. pc[c] \notin Awaits \cup {"closing"} /\ send(c, "op")
    BY <1>7, Zenon DEF TxOp, Awaits
  <2> QED
    BY <1>0, <2>1, PollReplies, Zenon
<1>8. CASE Answered(c) \/ TxResumes(c) \/ TxRolledBack(c) \/ TxReleased(c)
  <2>1. value[c] # "none" /\ value'[c] = "none" /\ commands' = commands /\ cur' = cur
    BY <1>8, Zenon DEF Answered, TxResumes, TxRolledBack, TxReleased, Shape
  <2> QED
    BY <1>0, <2>1, SilentClient, SameReplies, Zenon
<1>9. CASE TxRollback(c) \/ TxCommit(c)
  <2>1. Silent(c) /\ value[c] = "none" /\ cur' = cur /\ value' = value
    BY <1>9, SilentClient, Zenon DEF TxRollback, TxCommit, Awaits, ReplyInv
  <2>2. CASE commands' = commands
    BY <1>0, <2>1, <2>2, SameReplies, Zenon
  <2>3. CASE Settle(c, "rollback", TRUE) /\ pc' = [pc EXCEPT ![c] = "rollback"]
    BY <1>0, <2>1, <2>3, SendReplies, Zenon DEF Settle, CommandKinds, AwaitOf, Shape
  <2>4. CASE Settle(c, "commit", TRUE) /\ pc' = [pc EXCEPT ![c] = "commit"]
    BY <1>0, <2>1, <2>4, SendReplies, Zenon DEF Settle, CommandKinds, AwaitOf, Shape
  <2>5. CASE Release(c, "error")
    BY <1>0, <2>1, <2>5, ReleaseReplies, Zenon
  <2> QED
    BY <1>9, <2>2, <2>3, <2>4, <2>5, Zenon DEF TxRollback, TxCommit
<1>10. CASE TxCommitted(c)
  <2>1. Silent(c) /\ value'[c] = "none" /\ cur' = cur
    BY <1>10, SilentClient, Zenon DEF TxCommitted, Shape
  <2>2. \E r : Release(c, r)
    BY <1>10, Zenon DEF TxCommitted
  <2> QED
    BY <1>0, <2>1, <2>2, ReleaseReplies, Zenon
<1>11. CASE TxFinish(c)
  <2>1. Silent(c) /\ value'[c] = "none" /\ cur' = cur
    BY <1>11, SilentClient, Zenon DEF TxFinish, Awaits, ReplyInv
  <2>2. \E r : Release(c, r)
    BY <1>11, Zenon DEF TxFinish
  <2> QED
    BY <1>0, <2>1, <2>2, ReleaseReplies, Zenon
<1>12. CASE Drop(c) \/ TxDropOp(c) \/ TxDrop(c)
  <2>1. Orphan(c)
    BY <1>12, Zenon DEF Drop, TxDropOp, TxDrop
  <2>2. \/ commands' = Orphans(c)
        \/ commands' = Append(Orphans(c), Command(c, DropCleanup(c), tok[c], FALSE))
    BY <1>12, Zenon DEF Drop, TxDropOp, TxDrop
  <2> QED
    BY <1>0, <2>1, <2>2, DropReplies, Zenon
<1> QED
  BY <1>1, <1>2, <1>3, <1>4, <1>5, <1>6, <1>7, <1>8, <1>9, <1>10, <1>11, <1>12, Zenon
  DEF Client, Resume

\* What is awaited of the commands that are left when the owner takes the oldest.
LEMMA RestReplies ==
  ASSUME Shape, ReplyInv, Receive
  PROVE  /\ Head(commands) \in CommandSet /\ Awaited(Head(commands)) /\ ~Busy
         /\ \A i \in 1..Len(commands') :
              /\ Awaited(commands'[i])
              /\ commands'[i].alive /\ Head(commands).alive =>
                   commands'[i].client # Head(commands).client
              /\ \A j \in 1..Len(commands') :
                   i # j /\ commands'[i].alive /\ commands'[j].alive =>
                     commands'[i].client # commands'[j].client
<1>1. /\ commands # << >> /\ commands' = Tail(commands) /\ own = "receive"
      /\ Head(commands) \in CommandSet
  BY ReceiveShape, Zenon
<1>2. /\ 1 \in 1..Len(commands) /\ Head(commands) = commands[1]
      /\ \A i \in 1..Len(commands') :
           i + 1 \in 1..Len(commands) /\ commands'[i] = commands[i + 1] /\ i + 1 # 1
      /\ \A i, j \in 1..Len(commands') : i # j => i + 1 # j + 1
  BY <1>1 DEF Shape
<1>3. \A i \in 1..Len(commands) : Awaited(commands[i])
  BY Zenon DEF ReplyInv
<1>4. \A i, j \in 1..Len(commands) : i # j /\ commands[i].alive /\ commands[j].alive =>
        commands[i].client # commands[j].client
  BY Zenon DEF ReplyInv
<1>5. ~Busy
  BY <1>1, Zenon DEF Busy
<1>6. \A i \in 1..Len(commands') : Awaited(commands'[i])
  BY <1>2, <1>3, Zenon
<1> QED
  BY <1>1, <1>2, <1>3, <1>4, <1>5, <1>6

\* The owner takes a command and answers it at once.
LEMMA AnswerHead ==
  ASSUME Shape, ReplyInv, Receive, pc' = pc, NEW v, Reply(Head(commands), v), own' = "receive"
  PROVE  ReplyInv'
<1>1. \A c \in Clients : value'[c] =
        IF Head(commands).alive /\ Head(commands).client = c THEN v ELSE value[c]
  BY ReplyShape DEF Shape
<1>2. ~Busy' /\ own' # "rollback"
  BY Zenon DEF Busy
<1>3. ASSUME NEW i \in 1..Len(commands') PROVE (Awaited(commands[i]))'
  <2>1. /\ Awaited(commands'[i])
        /\ commands'[i].alive /\ Head(commands).alive =>
             commands'[i].client # Head(commands).client
    BY <1>3, RestReplies, Zenon
  <2> QED
    BY <1>1, <2>1, Zenon DEF Awaited
<1>4. ASSUME NEW c \in Clients, value'[c] # "none" PROVE pc'[c] \in Awaits \cup {"closing"}
  <2>1. CASE Head(commands).alive /\ Head(commands).client = c
    <3>1. Awaited(Head(commands)) /\ Head(commands) \in CommandSet
      BY RestReplies, Zenon
    <3>2. pc[c] = AwaitOf(Head(commands).kind) /\ Head(commands).kind \notin {"undo", "close", "none"}
      BY <2>1, <3>1, Zenon DEF Awaited
    <3>3. Head(commands).kind \in CommandKinds
      BY <3>1, Zenon DEF CommandSet
    <3> QED
      BY <3>2, <3>3, AwaitOfKind, Zenon
  <2>2. CASE value'[c] = value[c]
    BY <1>4, <2>2, Zenon DEF ReplyInv
  <2> QED
    BY <1>1, <2>1, <2>2, Zenon
<1> QED
  BY <1>2, <1>3, <1>4, RestReplies, Zenon DEF ReplyInv

\* The owner takes a command, or puts its receiver aside, to answer it later.
LEMMA TakeHead ==
  ASSUME Shape, ReplyInv, Receive, pc' = pc, value' = value,
         own' \in {"enter", "run", "rollback"} /\ cur'.alive =>
           /\ own' # "rollback" /\ Head(commands).alive
           /\ cur'.client = Head(commands).client /\ cur'.kind = Head(commands).kind,
         own' = "rollback" => cur'.alive = FALSE
  PROVE  ReplyInv'
<1>1. Busy' /\ cur'.alive => /\ Head(commands).alive /\ cur'.client = Head(commands).client
                             /\ cur'.kind = Head(commands).kind
  BY Zenon DEF Busy
<1>2. ASSUME NEW i \in 1..Len(commands') PROVE (Awaited(commands[i]))'
  <2>1. Awaited(commands'[i])
    BY <1>2, RestReplies, Zenon
  <2> QED
    BY <2>1, Zenon DEF Awaited
<1>3. Busy' => (Awaited(cur))'
  <2>1. Awaited(Head(commands))
    BY RestReplies, Zenon
  <2> QED
    BY <1>1, <2>1, Zenon DEF Awaited
<1>4. Busy' /\ cur'.alive => \A i \in 1..Len(commands') :
        commands'[i].alive => commands'[i].client # cur'.client
  BY <1>1, RestReplies, Zenon
<1>5. \A c \in Clients : value'[c] # "none" => pc'[c] \in Awaits \cup {"closing"}
  BY Zenon DEF ReplyInv
<1> QED
  BY <1>2, <1>3, <1>4, <1>5, RestReplies, Zenon DEF ReplyInv

\* The owner answers the command in its hands.
LEMMA AnswerCur ==
  ASSUME Shape, ReplyInv, Busy, own' \notin {"enter", "run", "rollback"}, pc' = pc,
         commands' = commands, NEW v, Reply(cur, v)
  PROVE  ReplyInv'
<1>1. \A c \in Clients : value'[c] = IF cur.alive /\ cur.client = c THEN v ELSE value[c]
  BY ReplyShape DEF Shape
<1>2. ~Busy' /\ own' # "rollback"
  BY Zenon DEF Busy
<1>3. ASSUME NEW i \in 1..Len(commands') PROVE (Awaited(commands[i]))'
  <2>1. /\ Awaited(commands[i])
        /\ commands[i].alive /\ cur.alive => commands[i].client # cur.client
    BY <1>3, Zenon DEF ReplyInv
  <2> QED
    BY <1>1, <2>1, Zenon DEF Awaited
<1>4. ASSUME NEW c \in Clients, value'[c] # "none" PROVE pc'[c] \in Awaits \cup {"closing"}
  <2>1. CASE cur.alive /\ cur.client = c
    <3>1. Awaited(cur) /\ cur.kind \in CommandKinds
      BY Zenon DEF ReplyInv, Shape, CommandSet
    <3>2. pc[c] = AwaitOf(cur.kind) /\ cur.kind \notin {"undo", "close", "none"}
      BY <2>1, <3>1, Zenon DEF Awaited
    <3> QED
      BY <3>1, <3>2, AwaitOfKind, Zenon
  <2>2. CASE value'[c] = value[c]
    BY <1>4, <2>2, Zenon DEF ReplyInv
  <2> QED
    BY <1>1, <2>1, <2>2, Zenon
<1> QED
  BY <1>2, <1>3, <1>4, Zenon DEF ReplyInv

\* The owner goes on without an answer.
LEMMA MoveReplies ==
  ASSUME Shape, ReplyInv, pc' = pc, value' = value, commands' = commands,
         own' \in {"enter", "run", "rollback"} => Busy /\ cur' = cur,
         own' = "rollback" => cur.alive = FALSE
  PROVE  ReplyInv'
<1>1. Busy' => Busy /\ cur' = cur
  BY Zenon DEF Busy
<1>2. \A i \in 1..Len(commands') : (Awaited(commands[i]))'
  BY Zenon DEF ReplyInv, Awaited
<1>3. Busy' => (Awaited(cur))'
  BY <1>1, Zenon DEF ReplyInv, Awaited
<1> QED
  BY <1>1, <1>2, <1>3, Zenon DEF ReplyInv, Busy

\* The result of a close attempt goes to those who await it.
LEMMA CloseReplies ==
  ASSUME Shape, ReplyInv, pc' = pc, commands' = commands, cur' = cur, Busy' => Busy /\ own' = own,
         NEW S, NEW v, \A c \in S : pc[c] = "closing",
         \A c \in Clients : value'[c] = IF c \in S THEN v ELSE value[c]
  PROVE  ReplyInv'
<1>1. ASSUME NEW m \in CommandSet, Awaited(m), m.alive PROVE m.client \notin S
  <2>1. m.kind \in CommandKinds \ {"undo", "close", "none"}
    BY <1>1, Zenon DEF Awaited, CommandSet
  <2> QED
    BY <1>1, <2>1, AwaitOfKind, Zenon DEF Awaited, Awaits
<1>2. ASSUME NEW i \in 1..Len(commands') PROVE (Awaited(commands[i]))'
  <2>1. Awaited(commands[i]) /\ commands[i] \in CommandSet
    BY <1>2 DEF ReplyInv, Shape
  <2> QED
    BY <1>1, <2>1, Zenon DEF Awaited
<1>3. Busy' => (Awaited(cur))'
  <2>1. Busy => Awaited(cur)
    BY Zenon DEF ReplyInv
  <2>2. cur \in CommandSet
    BY Zenon DEF Shape
  <2> QED
    BY <1>1, <2>1, <2>2, Zenon DEF Awaited
<1>4. \A c \in Clients : value'[c] # "none" => pc'[c] \in Awaits \cup {"closing"}
  BY Zenon DEF ReplyInv
<1>5. own' = "rollback" => cur'.alive = FALSE
  BY Zenon DEF ReplyInv, Busy
<1> QED
  BY <1>2, <1>3, <1>4, <1>5, Zenon DEF ReplyInv

\* schedule_terminal_drop_close queues a Close without a receiver, or answers.
LEMMA ScheduleReplies ==
  ASSUME Shape, ReplyInv, schedule_terminal_drop_close, pc' = pc, cur' = cur,
         own' = own \/ own' = "receive"
  PROVE  ReplyInv'
<1>1. Busy' => Busy /\ own' = own
  BY Zenon DEF Busy
<1>2. CASE commands' = commands /\ value' = value
  <2>1. own' = "rollback" => cur.alive = FALSE
    BY <1>1, Zenon DEF Busy, ReplyInv
  <2> QED
    BY <1>1, <1>2, <2>1, MoveReplies, Zenon DEF Busy
<1>3. CASE commands' = commands /\ Deliver(ToWaiters(close_waiters,
             IF terminal_result = "none" THEN "stopped" ELSE terminal_result))
  <2> DEFINE S == {w \in close_waiters : pc[w] = "closing"}
  <2>1. PICK v : Deliver([c \in S |-> v])
    BY <1>3, Zenon DEF ToWaiters
  <2>0. \A c \in S : pc[c] = "closing"
    OBVIOUS
  <2> HIDE DEF S
  <2>2. \A c \in Clients : value'[c] = IF c \in S THEN v ELSE value[c]
    BY <2>1, DeliverShape, Zenon
  <2> QED
    BY <1>1, <1>3, <2>0, <2>2, CloseReplies, Zenon
<1>4. CASE commands' = Append(commands, CloseCommand) /\ value' = value
  <2>1. PICK m \in CommandSet : m = CloseCommand
    BY CloseType, Zenon
  <2>2. m.alive = FALSE /\ commands' = Append(commands, m)
    BY <1>4, <2>1, Zenon DEF CloseCommand, Command
  <2>3. /\ Len(commands) \in Nat /\ 1..Len(commands') = 1..Len(commands) \cup {Len(commands) + 1}
        /\ \A i \in 1..Len(commands) : commands'[i] = commands[i]
        /\ commands'[Len(commands) + 1].alive = FALSE
    BY <2>2 DEF Shape
  <2>4. \A i \in 1..Len(commands') : (Awaited(commands[i]))'
    BY <1>4, <2>3 DEF ReplyInv, Awaited
  <2>5. Busy' => (Awaited(cur))'
    BY <1>1, <1>4, Zenon DEF ReplyInv, Awaited
  <2>6. \A i, j \in 1..Len(commands') : i # j /\ commands'[i].alive /\ commands'[j].alive =>
          commands'[i].client # commands'[j].client
    BY <2>3, Zenon DEF ReplyInv
  <2>7. Busy' /\ cur'.alive => \A i \in 1..Len(commands') :
          commands'[i].alive => commands'[i].client # cur'.client
    BY <1>1, <2>3, Zenon DEF ReplyInv
  <2>8. own' = "rollback" => cur'.alive = FALSE
    BY Zenon DEF ReplyInv, Busy
  <2> QED
    BY <1>4, <2>4, <2>5, <2>6, <2>7, <2>8, Zenon DEF ReplyInv
<1> QED
  BY <1>2, <1>3, <1>4, Zenon DEF schedule_terminal_drop_close, complete_terminal_close, closeState

LEMMA OwnerReplies ==
  ASSUME Shape, ReplyInv, Owner \/ OwnerPanics
  PROVE  ReplyInv'
<1>0. pc' = pc
  BY OwnerFrame, Zenon
<1>1. CASE Skip \/ Reject \/ ReleasePin
  <2>1. Receive /\ own' = "receive" /\ \E v : Reply(Head(commands), v)
    BY <1>1, Zenon DEF Skip, Reject, ReleasePin, Receive
  <2> QED
    BY <1>0, <2>1, AnswerHead, Zenon
<1>2. CASE TakeRequest
  <2>1. Receive /\ own' = "enter" /\ cur' = Head(commands) /\ value' = value
    BY <1>2, Zenon DEF TakeRequest
  <2> QED
    BY <1>0, <2>1, TakeHead, Zenon
<1>3. CASE Start
  <2>1. Receive /\ own' = "run" /\ value' = value
    BY <1>3, Zenon DEF Start
  <2>2. cur' = Head(commands) \/ cur' = [Head(commands) EXCEPT !.token = next_pin]
    BY <1>3, Zenon DEF Start
  <2>3. Head(commands) \in CommandSet
    BY <2>1, ReceiveShape, Zenon
  <2>4. /\ cur'.client = Head(commands).client /\ cur'.kind = Head(commands).kind
        /\ cur'.alive = Head(commands).alive
    BY <2>2, <2>3, Zenon DEF CommandSet
  <2> QED
    BY <1>0, <2>1, <2>4, TakeHead, Zenon
<1>4. CASE RollbackAndReleasePin
  <2>1. Receive /\ value' = value /\ Head(commands).kind = "undo"
    BY <1>4, Zenon DEF RollbackAndReleasePin
  <2>2. own' = "receive" \/ (own' = "rollback" /\ cur' = Head(commands))
    BY <1>4, Zenon DEF RollbackAndReleasePin, rollback_active_pin
  <2>3. Head(commands).alive = FALSE
    <3>1. Awaited(Head(commands)) /\ Head(commands).alive \in BOOLEAN
      BY <2>1, RestReplies, Zenon DEF CommandSet
    <3> QED
      BY <2>1, <3>1, Zenon DEF Awaited
  <2> QED
    BY <1>0, <2>1, <2>2, <2>3, TakeHead, Zenon
<1>5. CASE ReceiveClose
  <2>1. Receive /\ value' = value
    BY <1>5, Zenon DEF ReceiveClose
  <2>2. \/ own' \in {"teardown", "retry"}
        \/ own' = "rollback" /\ cur' = [CloseCommand EXCEPT !.token = active_pin]
    BY <1>5, Zenon DEF ReceiveClose, rollback_active_pin
  <2>3. own' = "rollback" => cur'.alive = FALSE
    BY <2>2, Zenon DEF CloseCommand, Command
  <2> QED
    BY <1>0, <2>1, <2>2, <2>3, TakeHead, Zenon
<1>6. CASE EnterRequest
  <2>1. Busy /\ commands' = commands
    BY <1>6, Zenon DEF EnterRequest, Busy
  <2>2. CASE own' \in {"receive", "leave"} /\ \E v : Reply(cur, v)
    BY <1>0, <2>1, <2>2, AnswerCur, Zenon
  <2>3. CASE own' = "run" /\ value' = value /\ cur' = cur
    BY <1>0, <2>1, <2>3, MoveReplies, Zenon
  <2> QED
    BY <1>6, <2>2, <2>3, Zenon DEF EnterRequest
<1>7. CASE FinishWork \/ FinishOp \/ FinishControl
  <2>1. /\ own = "run" /\ commands' = commands /\ own' \in {"receive", "leave"}
        /\ \E v : Reply(cur, v)
    BY <1>7, Zenon DEF FinishWork, FinishOp, FinishControl
  <2> QED
    BY <1>0, <2>1, AnswerCur, Zenon DEF Busy
<1>8. CASE FinishBegin
  <2>1. own = "run" /\ commands' = commands
    BY <1>8, Zenon DEF FinishBegin
  <2>2. CASE own' = "receive" /\ \E v : Reply(cur, v)
    BY <1>0, <2>1, <2>2, AnswerCur, Zenon DEF Busy
  <2>3. CASE ~cur.alive /\ value' = value /\ own' \in {"receive", "rollback"}
             /\ (own' = "rollback" => cur' = cur)
    <3>1. cur.alive = FALSE
      BY <2>3, Zenon DEF Shape, CommandSet
    <3> QED
      BY <1>0, <2>1, <2>3, <3>1, MoveReplies, Zenon DEF Busy
  <2> QED
    BY <1>8, <2>2, <2>3, Zenon DEF FinishBegin
<1>9. CASE FinishRollback \/ LeaveRequest \/ Teardown \/ wait_for_idle \/ CloseSession
           \/ Dispose
  <2>1. /\ value' = value /\ commands' = commands
        /\ own' \in {"receive", "teardown", "panic", "drain", "shut", "stop"}
    BY <1>9, Zenon DEF FinishRollback, LeaveRequest, Teardown, wait_for_idle, CloseSession,
       Dispose
  <2> QED
    BY <1>0, <2>1, MoveReplies, Zenon
<1>10. CASE complete_retryable_close \/ Complete
  <2> DEFINE S == {w \in close_waiters : pc[w] = "closing"}
  <2>1. PICK v : Deliver([c \in S |-> v])
    BY <1>10, Zenon DEF complete_retryable_close, Complete, complete_terminal_close, ToWaiters
  <2>0. \A c \in S : pc[c] = "closing"
    OBVIOUS
  <2> HIDE DEF S
  <2>2. \A c \in Clients : value'[c] = IF c \in S THEN v ELSE value[c]
    BY <2>1, DeliverShape, Zenon
  <2>3. own' \in {"recheck", "stopped"} /\ commands' = commands /\ cur' = cur
    BY <1>10, Zenon DEF complete_retryable_close, Complete
  <2>4. ~Busy'
    BY <2>3, Zenon DEF Busy
  <2> QED
    BY <1>0, <2>0, <2>2, <2>3, <2>4, CloseReplies, Zenon
<1>11. CASE Recheck
  BY <1>0, <1>11, ScheduleReplies, Zenon DEF Recheck
<1>12. CASE OwnerPanics
  <2>1. /\ Busy /\ commands' = commands /\ own' \in {"unwind", "panic"}
        /\ Reply(cur, "stopped")
    BY <1>12, Zenon DEF OwnerPanics, Busy
  <2> QED
    BY <1>0, <2>1, AnswerCur, Zenon
<1>13. CASE stop
  <2> DEFINE pending == {commands[i].client : i \in {j \in DOMAIN commands : commands[j].alive}}
  <2>1. /\ Deliver([c \in pending |-> "stopped"]) /\ commands' = << >> /\ own' = "complete"
    BY <1>13, Zenon DEF stop
  <2>2. \A c \in Clients : value'[c] = IF c \in pending THEN "stopped" ELSE value[c]
    BY <2>1, DeliverShape, Zenon
  <2>3. ASSUME NEW c \in pending PROVE pc[c] \in Awaits
    <3>1. PICK i \in 1..Len(commands) : commands[i].alive /\ commands[i].client = c
      BY <2>3 DEF Shape
    <3>2. Awaited(commands[i]) /\ commands[i] \in CommandSet
      BY DEF ReplyInv, Shape
    <3>3. /\ pc[c] = AwaitOf(commands[i].kind) /\ commands[i].kind \in CommandKinds
          /\ commands[i].kind \notin {"undo", "close", "none"}
      BY <3>1, <3>2, Zenon DEF Awaited, CommandSet
    <3> QED
      BY <3>3, AwaitOfKind, Zenon
  <2>4. \A c \in Clients : value'[c] # "none" => pc'[c] \in Awaits \cup {"closing"}
    BY <1>0, <2>2, <2>3, Zenon DEF ReplyInv
  <2> HIDE DEF pending
  <2>5. ~Busy' /\ own' # "rollback" /\ Len(commands') = 0
    BY <2>1, Zenon DEF Busy
  <2> QED
    BY <2>4, <2>5 DEF ReplyInv
<1> QED
  BY <1>1, <1>2, <1>3, <1>4, <1>5, <1>6, <1>7, <1>8, <1>9, <1>10, <1>11, <1>12, <1>13, Zenon
  DEF Owner

LEMMA NextReplies ==
  ASSUME Shape, ReplyInv, [Next]_vars
  PROVE  ReplyInv'
<1>1. CASE Opened \/ OpenFails
  BY <1>1, MoveReplies, Zenon DEF Opened, OpenFails
<1>2. CASE DropHandle \/ UNCHANGED vars
  <2>1. pc' = pc /\ value' = value /\ commands' = commands /\ own' = own /\ cur' = cur
    BY <1>2, Zenon DEF DropHandle, vars
  <2>2. own' = "rollback" => cur.alive = FALSE
    BY <2>1, Zenon DEF ReplyInv
  <2> QED
    BY <2>1, <2>2, MoveReplies, Zenon DEF Busy
<1>3. CASE DropSchedules
  BY <1>3, ScheduleReplies, Zenon DEF DropSchedules
<1> QED
  BY <1>1, <1>2, <1>3, OwnerReplies, ClientReplies, Zenon DEF Next

-----------------------------------------------------------------------------
(* The one result of close *)

Results == {"ok", "failed", "stopped"}

\* What a close has in its slot, and then returns, is the terminal result.
ExactOf(c) ==
  /\ pc[c] = "closing" => op[c] = "close"
  /\ op[c] = "close" => pc[c] \in {"closing", "done"}
  /\ pc[c] \in {"new", "closing"} => outcome[c] = "none"
  /\ pc[c] = "closing" /\ value[c] \in Results => value[c] = terminal_result /\ closed = TRUE
  /\ op[c] = "close" /\ outcome[c] \in Results => outcome[c] = terminal_result /\ closed = TRUE
ExactInv == \A c \in Clients : ExactOf(c)

\* The terminal result, once there, stays.
LEMMA TerminalStays ==
  ASSUME [Next]_vars
  PROVE  /\ terminal_result # "none" => terminal_result' = terminal_result
         /\ closed = TRUE => closed' = TRUE
<1>1. CASE Opened \/ OpenFails \/ DropHandle \/ UNCHANGED vars
  BY <1>1, Zenon DEF Opened, OpenFails, DropHandle, vars, flags, closeState
<1>2. CASE DropSchedules
  BY <1>2, Zenon DEF DropSchedules, schedule_terminal_drop_close, complete_terminal_close,
     closeState
<1>3. CASE Owner \/ OwnerPanics
  <2>1. CASE Skip \/ TakeRequest \/ EnterRequest \/ Reject \/ Start \/ ReleasePin
             \/ RollbackAndReleasePin \/ ReceiveClose
    BY <2>1, Zenon DEF Skip, TakeRequest, EnterRequest, Reject, Start, ReleasePin,
       RollbackAndReleasePin, ReceiveClose, flags, closeState
  <2>2. CASE FinishWork \/ FinishBegin \/ FinishOp \/ FinishControl \/ FinishRollback
             \/ LeaveRequest \/ Teardown \/ wait_for_idle
    BY <2>2, Zenon DEF FinishWork, FinishBegin, FinishOp, FinishControl, FinishRollback,
       LeaveRequest, Teardown, wait_for_idle, flags, closeState
  <2>3. CASE CloseSession \/ Dispose \/ stop \/ OwnerPanics
    BY <2>3, Zenon DEF CloseSession, Dispose, stop, OwnerPanics, flags, closeState
  <2>4. CASE complete_retryable_close \/ Complete
    BY <2>4, Zenon DEF complete_retryable_close, Complete, complete_terminal_close
  <2>5. CASE Recheck
    BY <2>5, Zenon DEF Recheck, schedule_terminal_drop_close, complete_terminal_close,
       closeState
  <2> QED
    BY <1>3, <2>1, <2>2, <2>3, <2>4, <2>5, Zenon DEF Owner
<1>4. ASSUME NEW c \in Clients, Client(c)
      PROVE  /\ terminal_result # "none" => terminal_result' = terminal_result
             /\ closed = TRUE => closed' = TRUE
  <2>1. CASE close(c)
    BY <2>1, Zenon DEF close, StartClose, flags, closeState
  <2>2. CASE \E kind \in Kinds : Call(c, kind)
    BY <2>2, Zenon DEF Call, send, flags, closeState
  <2>3. CASE PollSend(c) \/ TxOp(c)
    BY <2>3, Zenon DEF PollSend, TxOp, send, flags, closeState
  <2>4. CASE cancel(c) \/ CancelRequest(c) \/ InterruptRequest(c) \/ CancelReturns(c)
    BY <2>4, Zenon DEF cancel, CancelRequest, InterruptRequest, CancelReturns, flags, closeState
  <2>5. CASE Resume(c)
    BY <2>5, Zenon DEF Resume, Answered, TxResumes, TxRolledBack, TxCommitted, TxReleased,
       TxRollback, TxCommit, TxFinish, flags, closeState
  <2>6. CASE Drop(c) \/ TxDropOp(c) \/ TxDrop(c)
    BY <2>6, Zenon DEF Drop, TxDropOp, TxDrop, flags, closeState
  <2> QED
    BY <1>4, <2>1, <2>2, <2>3, <2>4, <2>5, <2>6, Zenon DEF Client
<1> QED
  BY <1>1, <1>2, <1>3, <1>4, Zenon DEF Next

\* What a step of the owner puts in the slot of a close.
LEMMA OwnerClosing ==
  ASSUME Shape, ReplyInv, Owner \/ OwnerPanics, NEW c \in Clients, pc[c] = "closing"
  PROVE  \/ value'[c] = value[c] \/ value'[c] = "active"
         \/ value'[c] = terminal_result' /\ closed' = TRUE
<1>1. Silent(c)
  BY SilentClient, Zenon DEF Awaits
<1>2. ASSUME Busy, NEW v, Reply(cur, v) PROVE value'[c] = value[c]
  BY <1>1, <1>2, ReplyShape DEF Silent, Shape
<1>3. ASSUME Receive, NEW v, Reply(Head(commands), v) PROVE value'[c] = value[c]
  <2>1. 1 \in 1..Len(commands) /\ Head(commands) = commands[1]
    BY <1>3, ReceiveShape DEF Shape
  <2>2. ~(Head(commands).alive /\ Head(commands).client = c)
    BY <1>1, <2>1, Zenon DEF Silent
  <2> QED
    BY <1>3, <2>2, ReplyShape DEF Shape
<1>4. ASSUME NEW w, NEW r, complete_terminal_close(w, r)
      PROVE  \/ value'[c] = value[c]
             \/ value'[c] = terminal_result' /\ closed' = TRUE
  <2>1. closed' = TRUE /\ Deliver([d \in {x \in w : pc[x] = "closing"} |-> terminal_result'])
    BY <1>4, Zenon DEF complete_terminal_close, ToWaiters
  <2>2. PICK S : Deliver([d \in S |-> terminal_result'])
    BY <2>1, Zenon
  <2>3. value'[c] = IF c \in S THEN terminal_result' ELSE value[c]
    BY <2>2, DeliverShape, Zenon
  <2> QED
    BY <2>1, <2>3, Zenon
<1>5. CASE Skip \/ Reject \/ ReleasePin
  <2>1. Receive /\ \E v : Reply(Head(commands), v)
    BY <1>5, Zenon DEF Skip, Reject, ReleasePin
  <2> QED
    BY <1>3, <2>1, Zenon
<1>6. CASE EnterRequest \/ FinishWork \/ FinishBegin \/ FinishOp \/ FinishControl
           \/ OwnerPanics
  <2>1. own \in {"enter", "run", "rollback"} /\ (value' = value \/ \E v : Reply(cur, v))
    BY <1>6, Zenon DEF EnterRequest, FinishWork, FinishBegin, FinishOp, FinishControl,
       OwnerPanics
  <2> QED
    BY <1>2, <2>1, Zenon DEF Busy
<1>7. CASE TakeRequest \/ Start \/ RollbackAndReleasePin \/ ReceiveClose
  BY <1>7, Zenon DEF TakeRequest, Start, RollbackAndReleasePin, ReceiveClose
<1>8. CASE FinishRollback \/ LeaveRequest \/ Teardown \/ wait_for_idle \/ CloseSession
           \/ Dispose
  BY <1>8, Zenon DEF FinishRollback, LeaveRequest, Teardown, wait_for_idle, CloseSession,
     Dispose
<1>9. CASE complete_retryable_close
  <2>1. Deliver([d \in {x \in close_waiters : pc[x] = "closing"} |-> "active"])
    BY <1>9, Zenon DEF complete_retryable_close, ToWaiters
  <2>2. PICK S : Deliver([d \in S |-> "active"])
    BY <2>1, Zenon
  <2>3. value'[c] = IF c \in S THEN "active" ELSE value[c]
    BY <2>2, DeliverShape, Zenon
  <2> QED
    BY <2>3, Zenon
<1>10. CASE Complete \/ Recheck
  <2>1. value' = value \/ \E r : complete_terminal_close(close_waiters, r)
    BY <1>10, Zenon DEF Complete, Recheck, schedule_terminal_drop_close
  <2> QED
    BY <1>4, <2>1, Zenon
<1>11. CASE stop
  <2> DEFINE pending == {commands[i].client : i \in {j \in DOMAIN commands : commands[j].alive}}
  <2>1. c \notin pending
    BY <1>1 DEF Silent, Shape
  <2>2. Deliver([d \in pending |-> "stopped"])
    BY <1>11, Zenon DEF stop
  <2> HIDE DEF pending
  <2> QED
    BY <2>1, <2>2, DeliverShape, Zenon
<1> QED
  BY <1>5, <1>6, <1>7, <1>8, <1>9, <1>10, <1>11, Zenon DEF Owner

\* A step of a client that is not close has no close of its own to disturb, unless
\* it returns the answer or drops the future.
LEMMA ClientExact ==
  ASSUME Shape, ExactInv, CutoffInv, ReplyInv, NEW c \in Clients, Client(c),
         terminal_result # "none" => terminal_result' = terminal_result,
         closed = TRUE => closed' = TRUE
  PROVE  ExactOf(c)'
<1>0. ExactOf(c)
  BY Zenon DEF ExactInv
<1>1. ASSUME op'[c] # "close", pc'[c] \notin {"new", "closing"} PROVE ExactOf(c)'
  BY <1>1, Zenon DEF ExactOf
<1>2. ASSUME op' = op, pc[c] \notin {"closing", "done"}, pc'[c] \notin {"new", "closing"}
      PROVE  ExactOf(c)'
  BY <1>0, <1>1, <1>2, Zenon DEF ExactOf
<1>3. CASE \E kind \in Kinds \cap {"exec", "request", "backup", "transaction"} : Call(c, kind)
  <2>1. PICK kind \in {"exec", "request", "backup", "transaction"} : Call(c, kind)
    BY <1>3, Zenon
  <2>2. op'[c] = kind /\ send(c, CommandOf(kind))
    BY <2>1, Zenon DEF Call, Shape
  <2>3. pc'[c] \in {"sent", "opsent", "wait", "opwait", "body", "done"}
    BY <2>2, Zenon DEF send, poll_send_ordinary, RefuseSend, Shape
  <2> QED
    BY <1>1, <2>2, <2>3, Zenon
<1>4. CASE close(c)
  <2>1. op'[c] = "close" /\ outcome[c] = "none"
    BY <1>0, <1>4, Zenon DEF close, ExactOf, Shape
  <2>2. CASE /\ terminal_result # "none" /\ pc' = [pc EXCEPT ![c] = "done"]
             /\ outcome' = [outcome EXCEPT ![c] = terminal_result]
    <3>1. closed = TRUE
      BY <2>2, Zenon DEF CutoffInv
    <3> QED
      BY <2>1, <2>2, <3>1, Zenon DEF ExactOf, Shape
  <2>3. CASE pc' = [pc EXCEPT ![c] = "closing"] /\ outcome' = outcome /\ value' = value
    <3>1. value[c] = "none"
      BY <1>4, Zenon DEF close, ReplyInv, Awaits
    <3> QED
      BY <2>1, <2>3, <3>1, Zenon DEF ExactOf, Results, Shape
  <2>4. CASE /\ pc' = [pc EXCEPT ![c] = "closing"] /\ outcome' = outcome
             /\ terminal_result' = "stopped" /\ closed' = TRUE
             /\ value' = [value EXCEPT ![c] = "stopped"]
    BY <2>1, <2>4, Zenon DEF ExactOf, Shape, Results
  <2> QED
    BY <1>4, <2>2, <2>3, <2>4, Zenon DEF close, StartClose
<1>5. CASE cancel(c)
  <2>1. op'[c] = "cancel" /\ pc'[c] \in {"cancelling", "done"}
    BY <1>5, Zenon DEF cancel, Shape
  <2> QED
    BY <1>1, <2>1, Zenon
<1>6. CASE CancelRequest(c) \/ InterruptRequest(c)
  BY <1>0, <1>6, Zenon DEF CancelRequest, InterruptRequest, call, closeState, flags,
     ExactOf
<1>7. CASE CancelReturns(c)
  <2>1. CASE pc[c] = "cancelling"
    BY <1>2, <1>7, <2>1, Zenon DEF CancelReturns, Shape
  <2>2. CASE pc' = pc /\ outcome' = outcome
    BY <1>0, <1>7, <2>2, Zenon DEF CancelReturns, closeState, flags, ExactOf
  <2> QED
    BY <1>7, <2>1, <2>2, Zenon DEF CancelReturns
<1>8. CASE PollSend(c) \/ TxOp(c)
  <2>1. op' = op /\ pc[c] \in {"wait", "opwait", "body"} /\ \E k : send(c, k)
    BY <1>8, Zenon DEF PollSend, TxOp
  <2>2. pc'[c] \in {"sent", "opsent", "wait", "opwait", "body", "done"}
    BY <2>1, Zenon DEF send, poll_send_ordinary, RefuseSend, Shape
  <2> QED
    BY <1>2, <2>1, <2>2, Zenon
<1>9. CASE Answered(c)
  <2>1. CASE pc[c] = "sent"
    BY <1>2, <1>9, <2>1, Zenon DEF Answered, Shape
  <2>2. CASE pc[c] = "closing"
    <3>1. op[c] = "close" /\ outcome'[c] = value[c] /\ pc'[c] = "done" /\ op' = op
      BY <1>0, <1>9, <2>2, Zenon DEF Answered, ExactOf, Shape
    <3>2. terminal_result' = terminal_result /\ closed' = closed
      BY <1>9, Zenon DEF Answered, closeState, flags
    <3> QED
      BY <1>0, <2>2, <3>1, <3>2, Zenon DEF ExactOf
  <2> QED
    BY <1>9, <2>1, <2>2, Zenon DEF Answered
<1>10. CASE TxResumes(c) \/ TxRolledBack(c) \/ TxReleased(c) \/ TxRollback(c)
  <2>1. /\ op' = op /\ pc[c] \in {"sent", "opsent", "rollback", "release", "body"}
        /\ pc'[c] \in {"body", "done", "rollback"}
    BY <1>10, Zenon DEF TxResumes, TxRolledBack, TxReleased, TxRollback, call, Shape
  <2> QED
    BY <1>2, <2>1, Zenon
<1>11. CASE TxCommitted(c) \/ TxCommit(c) \/ TxFinish(c)
  <2>1. op' = op /\ pc[c] \in {"commit", "body"} /\ pc'[c] \in {"commit", "release", "done"}
    BY <1>11, Zenon DEF TxCommitted, TxCommit, TxFinish, Release, Shape
  <2> QED
    BY <1>2, <2>1, Zenon
<1>12. CASE Drop(c)
  <2>1. /\ op' = op /\ pc[c] \in {"wait", "sent", "closing", "cancelling"} /\ pc'[c] = "done"
        /\ outcome'[c] \in {"cancelled", "dropped"}
    BY <1>12, Zenon DEF Drop, Shape
  <2> QED
    BY <1>0, <2>1, Zenon DEF ExactOf, Results
<1>13. CASE TxDropOp(c) \/ TxDrop(c)
  <2>1. /\ op' = op /\ pc'[c] \in {"body", "done"}
        /\ pc[c] \in {"body", "opwait", "opsent", "rollback", "commit", "release"}
    BY <1>13, Zenon DEF TxDropOp, TxDrop, call, Shape
  <2> QED
    BY <1>2, <2>1, Zenon
<1> QED
  BY <1>3, <1>4, <1>5, <1>6, <1>7, <1>8, <1>9, <1>10, <1>11, <1>12, <1>13, Zenon
  DEF Client, Resume

LEMMA NextExact ==
  ASSUME Shape, CutoffInv, ReplyInv, ExactInv, [Next]_vars
  PROVE  ExactInv'
<1>0. /\ terminal_result # "none" => terminal_result' = terminal_result
      /\ closed = TRUE => closed' = TRUE
  BY TerminalStays, Zenon
<1>1. ASSUME NEW c \in Clients, op'[c] = op[c], pc'[c] = pc[c], outcome'[c] = outcome[c],
             pc[c] = "closing" =>
               \/ value'[c] = value[c] \/ value'[c] = "active"
               \/ value'[c] = terminal_result' /\ closed' = TRUE
      PROVE  ExactOf(c)'
  <2>1. ExactOf(c)
    BY Zenon DEF ExactInv
  <2> QED
    BY <1>0, <1>1, <2>1, Zenon DEF ExactOf, Results
<1>2. CASE Opened \/ OpenFails \/ DropHandle \/ UNCHANGED vars
  <2>1. op' = op /\ pc' = pc /\ outcome' = outcome /\ value' = value
    BY <1>2, Zenon DEF Opened, OpenFails, DropHandle, vars, call
  <2> QED
    BY <1>1, <2>1, Zenon DEF ExactInv
<1>3. CASE DropSchedules
  <2>1. op' = op /\ pc' = pc /\ outcome' = outcome
    BY <1>3, Zenon DEF DropSchedules, call
  <2>2. \/ value' = value
        \/ closed' = TRUE /\ Deliver([d \in {x \in close_waiters : pc[x] = "closing"} |-> terminal_result'])
    BY <1>3, Zenon DEF DropSchedules, schedule_terminal_drop_close, complete_terminal_close,
       ToWaiters
  <2>3. ASSUME NEW c \in Clients
        PROVE  value'[c] = value[c] \/ (value'[c] = terminal_result' /\ closed' = TRUE)
    BY <2>2, DeliverShape, Zenon
  <2> QED
    BY <1>1, <2>1, <2>3, Zenon DEF ExactInv
<1>4. CASE Owner \/ OwnerPanics
  <2>1. op' = op /\ pc' = pc /\ outcome' = outcome
    BY <1>4, OwnerFrame, Zenon
  <2> QED
    BY <1>1, <1>4, <2>1, OwnerClosing, Zenon DEF ExactInv
<1>5. ASSUME NEW c \in Clients, Client(c) PROVE ExactInv'
  <2>1. OnlyOf(c)
    BY <1>5, ClientShape, Zenon
  <2>2. ASSUME NEW d \in Clients, d # c PROVE ExactOf(d)'
    BY <1>1, <2>1, <2>2, Zenon DEF OnlyOf
  <2>3. ExactOf(c)'
    BY <1>0, <1>5, ClientExact, Zenon
  <2> QED
    BY <2>2, <2>3, Zenon DEF ExactInv
<1> QED
  BY <1>2, <1>3, <1>4, <1>5, Zenon DEF Next

-----------------------------------------------------------------------------
(* The line of capacity waiters *)

NoRepeat(line) == \A i, j \in 1..Len(line) : i # j => line[i] # line[j]

\* The line without one of its clients.
LEMMA WithoutLine ==
  ASSUME NEW S, NEW line \in Seq(S), NoRepeat(line), NEW c
  PROVE  /\ Without(line, c) \in Seq(S) /\ NoRepeat(Without(line, c))
         /\ \A i \in 1..Len(Without(line, c)) :
              Without(line, c)[i] # c /\ \E j \in 1..Len(line) : Without(line, c)[i] = line[j]
         /\ line # << >> /\ Head(line) # c =>
              Without(line, c) # << >> /\ Head(Without(line, c)) = Head(line)
<1>1. CASE c \notin Range(line)
  <2>1. Without(line, c) = line
    BY <1>1, Zenon DEF Without
  <2>2. \A i \in 1..Len(line) : line[i] # c
    BY <1>1 DEF Range
  <2> QED
    BY <2>1, <2>2, Zenon
<1>2. CASE c \in Range(line)
  <2> DEFINE k == CHOOSE i \in DOMAIN line : line[i] = c
             W == Without(line, c)
  <2>1. k \in 1..Len(line) /\ line[k] = c
    <3>1. \E i \in DOMAIN line : line[i] = c
      BY <1>2, Zenon DEF Range
    <3>2. k \in DOMAIN line /\ line[k] = c
      BY <3>1, Zenon
    <3> QED
      BY <3>2
  <2>2. W = SubSeq(line, 1, k - 1) \o SubSeq(line, k + 1, Len(line))
    BY <1>2, Zenon DEF Without
  <2> HIDE DEF k, W
  <2>3. /\ W \in Seq(S) /\ Len(W) = Len(line) - 1
        /\ \A i \in 1..Len(W) : W[i] = IF i < k THEN line[i] ELSE line[i + 1]
    <3> DEFINE X == SubSeq(line, 1, k - 1)
               Y == SubSeq(line, k + 1, Len(line))
    <3>1. /\ X \in Seq(S) /\ Len(X) = k - 1 /\ \A i \in 1..k - 1 : X[i] = line[i]
      BY <2>1
    <3>2. /\ Y \in Seq(S) /\ Len(Y) = Len(line) - k
          /\ \A i \in 1..Len(line) - k : Y[i] = line[k + i]
      BY <2>1
    <3>3. W = X \o Y
      BY <2>2, Zenon
    <3> HIDE DEF X, Y
    <3>4. W \in Seq(S) /\ Len(W) = Len(line) - 1
      BY <2>1, <3>1, <3>2, <3>3
    <3>5. \A i \in 1..Len(W) : W[i] = IF i <= Len(X) THEN X[i] ELSE Y[i - Len(X)]
      BY <3>1, <3>2, <3>3
    <3>6. ASSUME NEW i \in 1..Len(W) PROVE W[i] = IF i < k THEN line[i] ELSE line[i + 1]
      <4>1. CASE i < k
        BY <2>1, <3>1, <3>5, <4>1
      <4>2. CASE ~(i < k)
        <5>1. i - Len(X) \in 1..Len(line) - k /\ k + (i - Len(X)) = i + 1
          BY <2>1, <3>1, <3>4, <4>2
        <5>2. Y[i - Len(X)] = line[k + (i - Len(X))]
          BY <3>2, <5>1, Zenon
        <5>3. ~(i <= Len(X))
          BY <2>1, <3>1, <3>4, <4>2
        <5> QED
          BY <3>5, <4>2, <5>1, <5>2, <5>3, Zenon
      <4> QED
        BY <4>1, <4>2, Zenon
    <3> QED
      BY <3>4, <3>6, Zenon
  <2>4. ASSUME NEW i \in 1..Len(W) PROVE W[i] # c /\ \E j \in 1..Len(line) : W[i] = line[j]
    <3>1. /\ i \in 1..Len(line) /\ i + 1 \in 1..Len(line) /\ (i < k => i # k)
          /\ (~(i < k) => i + 1 # k)
      BY <2>1, <2>3
    <3>2. W[i] = IF i < k THEN line[i] ELSE line[i + 1]
      BY <2>3, Zenon
    <3> QED
      BY <2>1, <3>1, <3>2, Zenon DEF NoRepeat
  <2>5. ASSUME NEW i \in 1..Len(W), NEW j \in 1..Len(W), i # j PROVE W[i] # W[j]
    <3> DEFINE At(n) == IF n < k THEN n ELSE n + 1
    <3>1. At(i) \in 1..Len(line) /\ At(j) \in 1..Len(line) /\ At(i) # At(j)
      BY <2>1, <2>3, <2>5
    <3>2. W[i] = line[At(i)] /\ W[j] = line[At(j)]
      BY <2>3, Zenon
    <3> QED
      BY <3>1, <3>2, Zenon DEF NoRepeat
  <2>7. NoRepeat(W)
    BY <2>5, Zenon DEF NoRepeat
  <2>6. line # << >> /\ Head(line) # c => W # << >> /\ Head(W) = Head(line)
    BY <2>1, <2>3
  <2> QED
    BY <2>3, <2>4, <2>6, <2>7, Zenon DEF W
<1> QED
  BY <1>1, <1>2, Zenon

OrdinaryAt(q) == {i \in 1..Len(q) : is_ordinary(q[i])}

\* What the count of the ordinary commands is after one was added or taken
\* (proved as Counting where the theorems about finite sets are at hand).
CountFacts ==
  /\ Cardinality({}) = 0
  /\ \A q \in Seq(CommandSet) : Cardinality(OrdinaryAt(q)) \in Nat
  /\ \A q \in Seq(CommandSet), m \in CommandSet :
       Cardinality(OrdinaryAt(Append(q, m))) =
         Cardinality(OrdinaryAt(q)) + (IF is_ordinary(m) THEN 1 ELSE 0)
  /\ \A q \in Seq(CommandSet) : q # << >> =>
       Cardinality(OrdinaryAt(Tail(q))) =
         Cardinality(OrdinaryAt(q)) - (IF is_ordinary(Head(q)) THEN 1 ELSE 0)

Waiting(c) == pc[c] \in {"wait", "opwait"}

(* The line and the rejected are clients that wait, none of them twice in  *)
(* the line.                                                               *)
LineInv ==
  /\ admission_waiters \in Seq(Clients) /\ NoRepeat(admission_waiters)
  /\ \A i \in 1..Len(admission_waiters) : Waiting(admission_waiters[i])
  /\ \A c \in rejected : c \in Clients /\ Waiting(c)

Offered ==
  admission_waiters # << >> /\ ordinary_count < Capacity => Head(admission_waiters) \in woken
Counted == ordinary_count = Cardinality(OrdinaryAt(commands))
CapInv == Counted /\ ordinary_count <= Capacity /\ Offered

\* The queue changes in what is not counted.
SameCount ==
  /\ ordinary_count' = ordinary_count
  /\ \/ Len(commands') = Len(commands)
        /\ \A i \in 1..Len(commands) : commands'[i].kind = commands[i].kind
     \/ \E q \in Seq(CommandSet), m \in CommandSet :
          /\ commands' = Append(q, m) /\ ~is_ordinary(m) /\ Len(q) = Len(commands)
          /\ \A i \in 1..Len(q) : q[i].kind = commands[i].kind

LEMMA SameCounted ==
  ASSUME CountFacts, Shape, Counted, SameCount
  PROVE  Counted'
<1>1. CASE Len(commands') = Len(commands)
           /\ \A i \in 1..Len(commands) : commands'[i].kind = commands[i].kind
  <2>1. OrdinaryAt(commands') = OrdinaryAt(commands)
    BY <1>1, Zenon DEF OrdinaryAt, is_ordinary
  <2> QED
    BY <2>1, Zenon DEF Counted, SameCount
<1>2. ASSUME NEW q \in Seq(CommandSet), NEW m \in CommandSet, commands' = Append(q, m),
             ~is_ordinary(m), Len(q) = Len(commands),
             \A i \in 1..Len(q) : q[i].kind = commands[i].kind
      PROVE  Counted'
  <2>1. OrdinaryAt(q) = OrdinaryAt(commands)
    BY <1>2, Zenon DEF OrdinaryAt, is_ordinary
  <2>2. Cardinality(OrdinaryAt(commands')) = Cardinality(OrdinaryAt(q)) + 0
    BY <1>2, Zenon DEF CountFacts
  <2>3. Cardinality(OrdinaryAt(q)) \in Nat
    BY <1>2, Zenon DEF CountFacts
  <2> QED
    BY <2>1, <2>2, <2>3 DEF Counted, SameCount
<1> QED
  BY <1>1, <1>2, Zenon DEF SameCount

\* A client whose place in line, if any, stays as it is.
LEMMA SameLine ==
  ASSUME LineInv, NEW c, \A d \in Clients \ {c} : pc'[d] = pc[d],
         ~Waiting(c) \/ pc'[c] = pc[c],
         admission_waiters' = admission_waiters, rejected' = rejected
  PROVE  LineInv'
<1>1. \A i \in 1..Len(admission_waiters) : admission_waiters[i] \in Clients
  BY DEF LineInv
<1>2. \A d \in Clients : Waiting(d) => (Waiting(d))'
  BY Zenon DEF Waiting
<1> QED
  BY <1>1, <1>2, Zenon DEF LineInv

\* A client leaves the line, and its successor is woken for the place it was
\* offered.
LEMMA LeaveLine ==
  ASSUME LineInv, Offered, NEW c, \A d \in Clients \ {c} : pc'[d] = pc[d],
         cancel_admission(c), ordinary_count' = ordinary_count
  PROVE  LineInv' /\ Offered'
<1> DEFINE line == admission_waiters
           W == Without(line, c)
<1>1. /\ W \in Seq(Clients) /\ NoRepeat(W)
      /\ \A i \in 1..Len(W) : W[i] # c /\ \E j \in 1..Len(line) : W[i] = line[j]
      /\ line # << >> /\ Head(line) # c => W # << >> /\ Head(W) = Head(line)
  BY WithoutLine, Zenon DEF LineInv
<1>2. admission_waiters' = W /\ rejected' = rejected \ {c}
  BY Zenon DEF cancel_admission
<1>3. \A i \in 1..Len(W) : W[i] \in Clients \ {c} /\ Waiting(W[i])
  BY <1>1 DEF LineInv
<1>4. LineInv'
  BY <1>1, <1>2, <1>3, Zenon DEF LineInv, Waiting
<1>5. CASE line # << >> /\ Head(line) = c
  <2>1. woken' = (woken \ {c}) \cup Successor(W, ordinary_count)
    BY <1>2, <1>5, Zenon DEF cancel_admission
  <2> QED
    BY <1>2, <1>4, <2>1, Zenon DEF Offered, Successor
<1>6. CASE line # << >> /\ Head(line) # c
  <2>1. woken' = woken \ {c}
    BY <1>6, Zenon DEF cancel_admission
  <2> QED
    BY <1>1, <1>2, <1>4, <1>6, <2>1, Zenon DEF Offered
<1>7. CASE line = << >>
  <2>1. W = << >>
    BY <1>1, <1>7
  <2> QED
    BY <1>2, <1>4, <2>1, Zenon DEF Offered
<1> QED
  BY <1>5, <1>6, <1>7, Zenon

\* One poll that is not refused.
LEMMA PollLine ==
  ASSUME CountFacts, Shape, LineInv, CapInv, NEW c \in Clients, \A d \in Clients \ {c} : pc'[d] = pc[d],
         NEW k \in {"exec", "request", "backup", "begin", "op"}, poll_send_ordinary(c, k)
  PROVE  LineInv' /\ CapInv'
<1> DEFINE line == admission_waiters
<1>0. ordinary_count \in Nat /\ Capacity \in Nat
  BY ExecutorAssumption, Zenon DEF CountFacts, CapInv, Counted, Shape
<1>1. c \notin rejected /\ rejected' = rejected
  BY Zenon DEF poll_send_ordinary, Refused
<1>2. c \in Range(line) <=> \E i \in 1..Len(line) : line[i] = c
  BY DEF Range, LineInv
<1>3. CASE ordinary_count < Capacity /\ IsNext(c)
  <2>1. /\ commands' = Append(commands, Command(c, k, tok[c], TRUE))
        /\ ordinary_count' = ordinary_count + 1
        /\ admission_waiters' = IF c \in Range(line) THEN Tail(line) ELSE line
        /\ woken' = (woken \ {c}) \cup Successor(admission_waiters', ordinary_count')
    BY <1>3, Zenon DEF poll_send_ordinary
  <2>2. Counted'
    <3>1. Command(c, k, tok[c], TRUE) \in CommandSet /\ is_ordinary(Command(c, k, tok[c], TRUE))
      BY CommandType, Zenon DEF CommandKinds, is_ordinary, Command
    <3> QED
      BY <2>1, <3>1, Zenon DEF CountFacts, CapInv, Counted, Shape
  <2>3. /\ admission_waiters' \in Seq(Clients)
        /\ \A i \in 1..Len(admission_waiters') :
             admission_waiters'[i] # c /\ admission_waiters'[i] \in Clients
             /\ Waiting(admission_waiters'[i])
        /\ NoRepeat(admission_waiters')
    <3>1. CASE c \in Range(line)
      <4>1. line # << >> /\ Head(line) = c /\ line \in Seq(Clients)
        BY <1>2, <1>3, <3>1 DEF IsNext, LineInv
      <4>2. /\ Tail(line) \in Seq(Clients) /\ line[1] = c
            /\ \A i \in 1..Len(Tail(line)) :
                 i + 1 \in 1..Len(line) /\ i + 1 # 1 /\ Tail(line)[i] = line[i + 1]
            /\ \A i, j \in 1..Len(Tail(line)) : i # j => i + 1 # j + 1
            /\ 1 \in 1..Len(line)
        BY <4>1
      <4>3. \A i \in 1..Len(Tail(line)) :
              Tail(line)[i] # c /\ Tail(line)[i] \in Clients /\ Waiting(Tail(line)[i])
        BY <4>1, <4>2 DEF LineInv, NoRepeat
      <4>4. NoRepeat(Tail(line))
        BY <4>2 DEF LineInv, NoRepeat
      <4> QED
        BY <2>1, <3>1, <4>2, <4>3, <4>4, Zenon
    <3>2. CASE c \notin Range(line)
      <4>1. line = << >> /\ admission_waiters' = line
        BY <1>3, <2>1, <3>2, Zenon DEF IsNext
      <4> QED
        BY <4>1 DEF LineInv
    <3> QED
      BY <3>1, <3>2, Zenon
  <2>4. LineInv'
    BY <1>1, <2>3, Zenon DEF LineInv, Waiting
  <2>5. Offered'
    BY <2>1, Zenon DEF Offered, Successor
  <2> QED
    BY <1>0, <1>3, <2>1, <2>2, <2>4, <2>5 DEF CapInv
<1>4. CASE ~(ordinary_count < Capacity /\ IsNext(c))
  <2>1. /\ commands' = commands /\ ordinary_count' = ordinary_count
        /\ admission_waiters' = IF c \in Range(line) THEN line ELSE Append(line, c)
        /\ woken' = woken \ {c} /\ pc'[c] \in {"wait", "opwait"}
    BY <1>4, Zenon DEF poll_send_ordinary, Shape
  <2>2. \A d \in Clients : Waiting(d) \/ d = c => (Waiting(d))'
    BY <2>1, Zenon DEF Waiting
  <2>3. LineInv'
    <3>1. CASE c \in Range(line)
      BY <1>1, <2>1, <2>2, <3>1 DEF LineInv
    <3>2. CASE c \notin Range(line)
      <4>1. line \in Seq(Clients) /\ \A i \in 1..Len(line) : line[i] # c
        BY <1>2, <3>2, Zenon DEF LineInv
      <4>2. /\ Append(line, c) \in Seq(Clients) /\ Len(line) \in Nat
            /\ Len(Append(line, c)) = Len(line) + 1
            /\ \A i \in 1..Len(line) : Append(line, c)[i] = line[i]
            /\ Append(line, c)[Len(line) + 1] = c
        BY <4>1
      <4>3. NoRepeat(Append(line, c))
        BY <4>1, <4>2 DEF NoRepeat, LineInv
      <4>4. \A i \in 1..Len(Append(line, c)) : pc'[Append(line, c)[i]] \in {"wait", "opwait"}
        BY <2>2, <4>1, <4>2 DEF LineInv, Waiting
      <4>5. admission_waiters' = Append(line, c)
        BY <2>1, <3>2, Zenon
      <4>6. \A d \in rejected' : d \in Clients /\ (Waiting(d))'
        BY <1>1, <2>2, Zenon DEF LineInv
      <4> QED
        BY <4>2, <4>3, <4>4, <4>5, <4>6, Zenon DEF LineInv, Waiting
    <3> QED
      BY <3>1, <3>2, Zenon
  <2>4. Offered'
    <3>1. CASE ~(ordinary_count < Capacity)
      BY <2>1, <3>1, Zenon DEF Offered
    <3>2. CASE ~IsNext(c)
      <4>1. line # << >> /\ line \in Seq(Clients)
        BY <1>2, <3>2 DEF IsNext, LineInv
      <4>2. Head(line) # c
        <5>1. c = Head(line) => c \in Range(line)
          BY <1>2, <4>1
        <5> QED
          BY <3>2, <5>1, Zenon DEF IsNext
      <4>3. admission_waiters' # << >> /\ Head(admission_waiters') = Head(line)
        BY <2>1, <4>1
      <4> QED
        BY <2>1, <4>1, <4>2, <4>3, Zenon DEF Offered, CapInv
    <3> QED
      BY <1>4, <3>1, <3>2, Zenon
  <2> QED
    BY <2>1, <2>3, <2>4, Zenon DEF CapInv, Counted
<1> QED
  BY <1>3, <1>4, Zenon

LEMMA SendLine ==
  ASSUME CountFacts, Shape, LineInv, CapInv, NEW c \in Clients, \A d \in Clients \ {c} : pc'[d] = pc[d],
         NEW k \in {"exec", "request", "backup", "begin", "op"}, send(c, k)
  PROVE  LineInv' /\ CapInv'
<1>1. CASE poll_send_ordinary(c, k)
  BY <1>1, PollLine, Zenon
<1>2. CASE RefuseSend(c, k)
  <2>1. cancel_admission(c) /\ ordinary_count' = ordinary_count /\ commands' = commands
    BY <1>2, Zenon DEF RefuseSend
  <2>2. LineInv' /\ Offered'
    BY <2>1, LeaveLine, Zenon DEF CapInv
  <2> QED
    BY <2>1, <2>2, Zenon DEF CapInv, Counted
<1> QED
  BY <1>1, <1>2, Zenon DEF send

\* A step that leaves the line and the count alone.
LEMMA KeepLine ==
  ASSUME CountFacts, Shape, LineInv, CapInv, NEW c, \A d \in Clients \ {c} : pc'[d] = pc[d],
         ~Waiting(c) \/ pc'[c] = pc[c], UNCHANGED capacity, SameCount
  PROVE  LineInv' /\ CapInv'
<1>1. LineInv'
  BY SameLine, Zenon DEF capacity
<1>2. Counted'
  BY SameCounted, Zenon DEF CapInv
<1> QED
  BY <1>1, <1>2, Zenon DEF CapInv, Offered, capacity

LEMMA SameQueue ==
  ASSUME commands' = commands, UNCHANGED capacity
  PROVE  SameCount
BY Zenon DEF SameCount, capacity

LEMMA AppendCount ==
  ASSUME Shape, ordinary_count' = ordinary_count, NEW m \in CommandSet, ~is_ordinary(m),
         commands' = Append(commands, m)
  PROVE  SameCount
BY Zenon DEF SameCount, Shape

LEMMA SettleCount ==
  ASSUME Shape, UNCHANGED capacity, NEW c \in Clients,
         NEW k \in {"commit", "rollback", "release"}, Settle(c, k, TRUE)
  PROVE  SameCount
<1>1. Command(c, k, tok[c], TRUE) \in CommandSet /\ ~is_ordinary(Command(c, k, tok[c], TRUE))
  BY CommandType, Zenon DEF CommandKinds, is_ordinary, Command
<1> QED
  BY <1>1, AppendCount, Zenon DEF Settle, capacity

LEMMA DropCount ==
  ASSUME Shape, NEW c \in Clients, ordinary_count' = ordinary_count,
         \/ commands' = Orphans(c)
         \/ commands' = Append(Orphans(c), Command(c, DropCleanup(c), tok[c], FALSE))
  PROVE  SameCount
<1>1. /\ Orphans(c) \in Seq(CommandSet) /\ Len(Orphans(c)) = Len(commands)
      /\ \A i \in 1..Len(commands) : Orphans(c)[i].kind = commands[i].kind
  BY OrphansType, OrphanedType DEF Shape
<1>2. /\ Command(c, DropCleanup(c), tok[c], FALSE) \in CommandSet
      /\ ~is_ordinary(Command(c, DropCleanup(c), tok[c], FALSE))
  BY CommandType, Zenon DEF CommandKinds, DropCleanup, is_ordinary, Command
<1>3. CASE commands' = Orphans(c)
  BY <1>1, <1>3, Zenon DEF SameCount
<1>4. CASE commands' = Append(Orphans(c), Command(c, DropCleanup(c), tok[c], FALSE))
  BY <1>1, <1>2, <1>4, Zenon DEF SameCount
<1> QED
  BY <1>3, <1>4, Zenon

LEMMA ClientLine ==
  ASSUME CountFacts, Shape, LineInv, CapInv, NEW c \in Clients, Client(c)
  PROVE  LineInv' /\ CapInv'
<1>0. \A d \in Clients \ {c} : pc'[d] = pc[d]
  BY ClientShape, Zenon DEF OnlyOf
<1>1. CASE \E kind \in Kinds \cap {"exec", "request", "backup", "transaction"} : Call(c, kind)
  <2>1. PICK kind \in {"exec", "request", "backup", "transaction"} : Call(c, kind)
    BY <1>1, Zenon
  <2>2. CommandOf(kind) \in {"exec", "request", "backup", "begin", "op"}
    BY Zenon DEF CommandOf
  <2> QED
    BY <1>0, <2>1, <2>2, SendLine, Zenon DEF Call
<1>2. CASE close(c)
  <2>1. ~Waiting(c)
    BY <1>2, Zenon DEF close, Waiting
  <2>2. SameCount
    <3>1. ordinary_count' = ordinary_count
      BY <1>2, Zenon DEF close, capacity
    <3>2. commands' = commands \/ commands' = Append(commands, CloseCommand)
      BY <1>2, Zenon DEF close, StartClose
    <3>3. CloseCommand \in CommandSet /\ ~is_ordinary(CloseCommand)
      BY CloseType, Zenon DEF CloseCommand, Command, is_ordinary
    <3> QED
      BY <3>1, <3>2, <3>3, AppendCount, Zenon DEF SameCount
  <2>3. CASE UNCHANGED capacity
    BY <1>0, <2>1, <2>2, <2>3, KeepLine, Zenon
  <2>4. CASE reject_admissions
    <3>1. \A d \in rejected' : d \in Clients /\ Waiting(d)
      BY <2>4 DEF reject_admissions, Range, LineInv
    <3>2. LineInv'
      BY <1>0, <2>1, <2>4, <3>1 DEF reject_admissions, LineInv, NoRepeat, Waiting
    <3>3. Counted' /\ ordinary_count' = ordinary_count
      BY <2>2, SameCounted, Zenon DEF CapInv, SameCount
    <3> QED
      BY <2>4, <3>2, <3>3, Zenon DEF CapInv, Offered, reject_admissions
  <2> QED
    BY <1>2, <2>3, <2>4, Zenon DEF close, StartClose, capacity
<1>3. CASE cancel(c)
  BY <1>0, <1>3, SameQueue, KeepLine, Zenon DEF cancel, Waiting
<1>4. CASE CancelRequest(c) \/ InterruptRequest(c)
  BY <1>0, <1>4, SameQueue, KeepLine, Zenon DEF CancelRequest, InterruptRequest
<1>5. CASE CancelReturns(c)
  BY <1>0, <1>5, SameQueue, KeepLine, Zenon DEF CancelReturns, Waiting
<1>6. CASE PollSend(c)
  <2>1. (IF pc[c] = "opwait" THEN "op" ELSE CommandOf(op[c]))
          \in {"exec", "request", "backup", "begin", "op"}
    BY <1>6, Zenon DEF PollSend, CommandOf, Shape
  <2> QED
    BY <1>0, <1>6, <2>1, SendLine, Zenon DEF PollSend
<1>7. CASE TxOp(c)
  BY <1>0, <1>7, SendLine, Zenon DEF TxOp
<1>8. CASE Answered(c) \/ TxResumes(c) \/ TxRolledBack(c) \/ TxReleased(c)
  <2>1. ~Waiting(c) /\ commands' = commands /\ UNCHANGED capacity
    BY <1>8, Zenon DEF Answered, TxResumes, TxRolledBack, TxReleased, Waiting
  <2> QED
    BY <1>0, <2>1, SameQueue, KeepLine, Zenon
<1>9. CASE TxRollback(c) \/ TxCommit(c) \/ TxCommitted(c) \/ TxFinish(c)
  <2>1. ~Waiting(c) /\ UNCHANGED capacity
    BY <1>9, Zenon DEF TxRollback, TxCommit, TxCommitted, TxFinish, Waiting
  <2>2. \/ commands' = commands \/ Settle(c, "rollback", TRUE) \/ Settle(c, "commit", TRUE)
        \/ Settle(c, "release", TRUE)
    BY <1>9, Zenon DEF TxRollback, TxCommit, TxCommitted, TxFinish, Release
  <2>3. SameCount
    BY <2>1, <2>2, SameQueue, SettleCount, Zenon
  <2> QED
    BY <1>0, <2>1, <2>3, KeepLine, Zenon
<1>10. CASE Drop(c) \/ TxDropOp(c) \/ TxDrop(c)
  <2>1. cancel_admission(c) /\ ordinary_count' = ordinary_count
    BY <1>10, Zenon DEF Drop, TxDropOp, TxDrop
  <2>2. \/ commands' = Orphans(c)
        \/ commands' = Append(Orphans(c), Command(c, DropCleanup(c), tok[c], FALSE))
    BY <1>10, Zenon DEF Drop, TxDropOp, TxDrop
  <2>3. LineInv' /\ Offered'
    BY <1>0, <2>1, LeaveLine, Zenon DEF CapInv
  <2>4. Counted'
    BY <2>1, <2>2, DropCount, SameCounted, Zenon DEF CapInv
  <2> QED
    BY <2>1, <2>3, <2>4, Zenon DEF CapInv
<1> QED
  BY <1>1, <1>2, <1>3, <1>4, <1>5, <1>6, <1>7, <1>8, <1>9, <1>10, Zenon DEF Client, Resume

\* receive takes one command and wakes the first waiter.
LEMMA ReceiveLine ==
  ASSUME CountFacts, Shape, LineInv, CapInv, Receive, pc' = pc
  PROVE  LineInv' /\ CapInv'
<1>1. /\ commands # << >> /\ commands' = Tail(commands) /\ commands \in Seq(CommandSet)
  BY ReceiveShape, Zenon DEF Shape
<1>2. /\ ordinary_count' = ordinary_count - (IF is_ordinary(Head(commands)) THEN 1 ELSE 0)
      /\ admission_waiters' = admission_waiters /\ rejected' = rejected
      /\ woken' = woken \cup IF admission_waiters # << >> THEN {Head(admission_waiters)} ELSE {}
  BY Zenon DEF Receive
<1>3. Counted'
  BY <1>1, <1>2, Zenon DEF CountFacts, CapInv, Counted
<1>4. ordinary_count \in Nat /\ Capacity \in Nat
  BY <1>1, ExecutorAssumption, Zenon DEF CountFacts, CapInv, Counted
<1>5. ordinary_count' <= Capacity
  BY <1>2, <1>4 DEF CapInv
<1>6. LineInv'
  BY <1>2, Zenon DEF LineInv, Waiting
<1>7. Offered'
  BY <1>2, Zenon DEF Offered
<1> QED
  BY <1>3, <1>5, <1>6, <1>7, Zenon DEF CapInv

\* The owner queues a Close for the last handle.
LEMMA ScheduleLine ==
  ASSUME CountFacts, Shape, LineInv, CapInv, schedule_terminal_drop_close, UNCHANGED capacity, pc' = pc
  PROVE  LineInv' /\ CapInv'
<1>1. commands' = commands \/ commands' = Append(commands, CloseCommand)
  BY Zenon DEF schedule_terminal_drop_close
<1>2. CloseCommand \in CommandSet /\ ~is_ordinary(CloseCommand)
  BY CloseType, Zenon DEF CloseCommand, Command, is_ordinary
<1>3. SameCount
  BY <1>1, <1>2, SameQueue, AppendCount, Zenon DEF capacity
<1> QED
  BY <1>3, KeepLine, Zenon

LEMMA OwnerLine ==
  ASSUME CountFacts, Shape, LineInv, CapInv, Owner \/ OwnerPanics
  PROVE  LineInv' /\ CapInv'
<1>0. pc' = pc
  BY OwnerFrame, Zenon
<1>1. CASE Skip \/ TakeRequest \/ Reject \/ Start \/ ReleasePin \/ RollbackAndReleasePin
           \/ ReceiveClose
  <2>1. Receive
    BY <1>1, Zenon DEF Skip, TakeRequest, Reject, Start, ReleasePin, RollbackAndReleasePin,
       ReceiveClose
  <2> QED
    BY <1>0, <2>1, ReceiveLine, Zenon
<1>2. CASE EnterRequest \/ FinishWork \/ FinishBegin \/ FinishOp \/ FinishControl
           \/ FinishRollback \/ LeaveRequest \/ complete_retryable_close \/ Teardown
           \/ wait_for_idle \/ CloseSession \/ Dispose \/ Complete \/ OwnerPanics
  <2>1. commands' = commands /\ UNCHANGED capacity
    BY <1>2, Zenon DEF EnterRequest, FinishWork, FinishBegin, FinishOp, FinishControl,
       FinishRollback, LeaveRequest, complete_retryable_close, Teardown, wait_for_idle,
       CloseSession, Dispose, Complete, OwnerPanics
  <2> QED
    BY <1>0, <2>1, SameQueue, KeepLine, Zenon
<1>3. CASE Recheck
  BY <1>0, <1>3, ScheduleLine, Zenon DEF Recheck
<1>4. CASE stop
  <2>1. commands' = << >> /\ ordinary_count' = 0 /\ reject_admissions
    BY <1>4, Zenon DEF stop
  <2>2. \A d \in rejected' : d \in Clients /\ Waiting(d)
    BY <2>1 DEF reject_admissions, Range, LineInv
  <2>3. LineInv'
    BY <1>0, <2>1, <2>2 DEF reject_admissions, LineInv, NoRepeat, Waiting
  <2>4. OrdinaryAt(<< >>) = {}
    BY DEF OrdinaryAt
  <2>5. Counted'
    BY <2>1, <2>4, Zenon DEF CountFacts, Counted
  <2> QED
    BY <2>1, <2>3, <2>5, ExecutorAssumption DEF CapInv, Offered, reject_admissions
<1> QED
  BY <1>1, <1>2, <1>3, <1>4, Zenon DEF Owner

LEMMA NextLine ==
  ASSUME CountFacts, Shape, LineInv, CapInv, [Next]_vars
  PROVE  LineInv' /\ CapInv'
<1>1. CASE Opened \/ OpenFails \/ DropHandle \/ UNCHANGED vars
  <2>1. pc' = pc /\ commands' = commands /\ UNCHANGED capacity
    BY <1>1, Zenon DEF Opened, OpenFails, DropHandle, vars
  <2> QED
    BY <2>1, SameQueue, KeepLine, Zenon
<1>2. CASE DropSchedules
  BY <1>2, ScheduleLine, Zenon DEF DropSchedules
<1> QED
  BY <1>1, <1>2, OwnerLine, ClientLine, Zenon DEF Next

-----------------------------------------------------------------------------
(* The inductive invariant and what follows from it *)

OwnerInv == Shape /\ GateInv /\ RequestInv /\ CutoffInv /\ ReplyInv /\ ExactInv

LEMMA InitOwner == Init => OwnerInv
<1> SUFFICES ASSUME Init PROVE OwnerInv
  OBVIOUS
<1>1. /\ commands = << >> /\ own = "opening" /\ active_pin = 0 /\ next_pin = 1
      /\ cur = Idle /\ cancellations = {} /\ cancelled = {}
  BY Zenon DEF Init, None
<1>2. \A c \in Clients : /\ op[c] = "none" /\ pc[c] = "new" /\ value[c] = "none"
                         /\ outcome[c] = "none" /\ phase[c] = "queued"
  BY Zenon DEF Init, None
<1>3. commands \in Seq(CommandSet) /\ 1..Len(commands) = {} /\ DOMAIN commands = {}
  BY <1>1
<1>4. Shape
  <2>1. /\ DOMAIN op = Clients /\ DOMAIN pc = Clients /\ DOMAIN value = Clients
        /\ DOMAIN outcome = Clients /\ DOMAIN guard = Clients /\ DOMAIN phase = Clients
    BY Zenon DEF Init
  <2>2. tok \in [Clients -> Nat]
    BY Zenon DEF Init, None
  <2> QED
    BY <1>1, <1>2, <1>3, <2>1, <2>2, CloseType, Zenon DEF Shape
<1>5. GateInv /\ RequestInv
  BY <1>1, <1>2, Zenon DEF GateInv, RequestInv
<1>6. CutoffInv
  <2>1. terminal_result = "none" /\ closed = FALSE
    BY Zenon DEF Init
  <2> QED
    BY <1>1, <1>3, <2>1, Zenon DEF CutoffInv, NoClose, NoOrdinary, AtClose, Stopped
<1>7. ReplyInv
  BY <1>1, <1>2, <1>3, Zenon DEF ReplyInv, Busy
<1>8. ExactInv
  BY <1>2, Zenon DEF ExactInv, ExactOf, Results
<1> QED
  BY <1>4, <1>5, <1>6, <1>7, <1>8, Zenon DEF OwnerInv

LEMMA NextOwner == OwnerInv /\ [Next]_vars => OwnerInv'
<1> SUFFICES ASSUME OwnerInv, [Next]_vars PROVE OwnerInv'
  OBVIOUS
<1>1. Shape /\ GateInv /\ RequestInv /\ CutoffInv /\ ReplyInv /\ ExactInv
  BY Zenon DEF OwnerInv
<1>2. Shape' /\ GateInv' /\ RequestInv'
  BY <1>1, NextShape, NextGate, NextRequest, Zenon
<1>3. CutoffInv' /\ ReplyInv' /\ ExactInv'
  BY <1>1, NextCutoff, NextReplies, NextExact, Zenon
<1> QED
  BY <1>2, <1>3, Zenon DEF OwnerInv

(* The gate is shut before the session is touched, a request is active     *)
(* while the owner has it, close is the last command that counts, a        *)
(* command that is alive is its client's only one, and a close has the     *)
(* terminal result (the owner thread, send, close and RequestCancellation).*)
THEOREM OwnerInvariant == Spec => []OwnerInv
BY InitOwner, NextOwner, PTL DEF Spec

(* Every close that ended got the one terminal result, and the owner has   *)
(* stopped by then (complete_terminal_close keeps the first result).       *)
THEOREM CloseStaysExact == Spec => []CloseIsExact
<1>1. OwnerInv => CloseIsExact
  BY Zenon DEF OwnerInv, CutoffInv, ExactInv, ExactOf, Results, CloseIsExact
<1> QED
  BY <1>1, OwnerInvariant, PTL

(* A request's interrupt reaches the engine only while the owner has that  *)
(* request (the phase lock of RequestCancellation).                        *)
THEOREM InterruptIsAimed == Spec => []InterruptHitsItsRequest
<1>1. OwnerInv => InterruptHitsItsRequest
  BY Zenon DEF OwnerInv, RequestInv, InterruptHitsItsRequest
<1> QED
  BY <1>1, OwnerInvariant, PTL
=============================================================================
