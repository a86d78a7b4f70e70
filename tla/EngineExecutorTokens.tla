------------------------- MODULE EngineExecutorTokens -------------------------
(***************************************************************************)
(* The pin of the owner executor and the tokens of its transactions, and   *)
(* what follows for isolation, teardown, the cutoff of close and the offer *)
(* of capacity.                                                            *)
(*                                                                         *)
(* PinInv: tokens are unique and a command of a transaction bears its      *)
(* client's (TokenInv); what runs is the pin's own work, or nobody is      *)
(* pinned (RunInv); and while the session is not poisoned a transaction    *)
(* that is open keeps its pin, because its client gives the pin back only  *)
(* when it knows how the transaction ended (HeldInv). QueueInv: the line   *)
(* holds clients that wait, none twice, the count is that of the ordinary  *)
(* commands, and a free place is on offer to the first in line.            *)
(***************************************************************************)
EXTENDS EngineExecutorSteps

-----------------------------------------------------------------------------
(* Tokens and the pin *)

TxKinds == {"op", "commit", "rollback", "release", "undo"}
TxPcs == {"body", "opwait", "opsent", "rollback", "commit", "release"}
Early == {"new", "wait", "sent"}

\* A command of a transaction bears the token of its client.
TxCommand(m) ==
  m.kind \in TxKinds => /\ m.client \in Clients /\ m.token = tok[m.client] /\ m.token # None
                        /\ pc[m.client] \notin Early

\* A client has a token from the answer of BEGIN on.
TokenOf(c) ==
  /\ pc[c] \in {"new", "wait", "closing", "cancelling"} => tok[c] = None
  /\ pc[c] = "sent" => (tok[c] # None <=> value[c] = "begun")
  /\ pc[c] \in TxPcs => tok[c] # None
  /\ pc[c] \in Early => guard[c] = "none"
  /\ pc[c] \in TxPcs \ {"release"} =>
       guard[c] \in {"active", "finishing", "rolledback", "failed"}

(* Tokens are unique, and older than the next one. *)
TokenInv ==
  /\ 0 < next_pin /\ active_pin < next_pin
  /\ \A c \in Clients : tok[c] < next_pin /\ TokenOf(c)
  /\ \A c, d \in Clients : tok[c] = tok[d] /\ tok[c] # None => c = d
  /\ \A i \in 1..Len(commands) : TxCommand(commands[i])

(* What runs is the pin's own work, or there is no pin. *)
RunInv ==
  /\ own = "run" =>
       cur.kind \in {"exec", "request", "backup", "begin", "op", "commit", "rollback"}
  /\ own = "run" /\ cur.kind \in {"exec", "request", "backup", "begin"} => active_pin = None
  /\ own = "run" /\ cur.kind = "begin" =>
       /\ cur.token # None /\ cur.token < next_pin
       /\ \A c \in Clients : tok[c] # cur.token
  /\ own = "run" /\ cur.kind \in {"op", "commit", "rollback"} =>
       TxCommand(cur) /\ cur.token = active_pin
  /\ own \in {"teardown", "drain", "shut"} => active_pin = None

\* The pin is this client's, and so is the open transaction.
Held(c) == active_pin = tok[c] /\ tok[c] # None /\ inTx /\ ~transaction_poisoned

(* A transaction that is open, on a session not poisoned, keeps its pin:   *)
(* its client gives the pin back only when it knows that it ended.         *)
HeldOf(c) ==
  Held(c) => /\ pc[c] # "release" /\ guard[c] \notin {"rolledback", "failed"}
             /\ value[c] \notin {"COMMIT", "ROLLBACK"}
HeldInv ==
  /\ inTx \in BOOLEAN /\ transaction_poisoned \in BOOLEAN
  /\ inTx /\ ~transaction_poisoned => active_pin # None
  /\ open # {} => inTx
  /\ \A c \in Clients : HeldOf(c)
  /\ \A i \in 1..Len(commands) : commands[i].kind = "release" => ~Held(commands[i].client)

\* A poll of send, as its client sees it.
LEMMA SendPc ==
  ASSUME Shape, NEW c \in Clients,
         NEW k \in {"exec", "request", "backup", "begin", "op"}, send(c, k)
  PROVE  /\ pc'[c] \in IF k = "op" THEN {"opsent", "opwait", "body"} ELSE {"sent", "wait", "done"}
         /\ value' = value /\ guard' = guard
         /\ transaction_poisoned' = transaction_poisoned
         /\ \/ commands' = commands
            \/ commands' = Append(commands, Command(c, k, tok[c], TRUE))
BY Zenon DEF send, poll_send_ordinary, RefuseSend, Shape

\* A new command, in a step of client c, is a Close or bears c's name and token.
NewCommand(c, m) ==
  \/ m.kind = "close"
  \/ /\ m.client = c /\ m.token = tok[c]
     /\ m.kind \in TxKinds => pc[c] \in TxPcs /\ pc'[c] \notin Early

SameMessage(m, n) == m.client = n.client /\ m.kind = n.kind /\ m.token = n.token
Grows(c) ==
  \/ /\ Len(commands') = Len(commands)
     /\ \A i \in 1..Len(commands) : SameMessage(commands'[i], commands[i])
  \/ /\ Len(commands') = Len(commands) + 1
     /\ \A i \in 1..Len(commands) : SameMessage(commands'[i], commands[i])
     /\ NewCommand(c, commands'[Len(commands) + 1])

LEMMA SameGrows ==
  ASSUME NEW c, commands' = commands
  PROVE  Grows(c)
BY Zenon DEF Grows, SameMessage

LEMMA AppendGrows ==
  ASSUME Shape, NEW c \in Clients, NEW k \in CommandKinds, NEW a \in BOOLEAN,
         commands' = Append(commands, Command(c, k, tok[c], a)),
         k \in TxKinds => pc[c] \in TxPcs /\ pc'[c] \notin Early
  PROVE  Grows(c)
<1>1. PICK m \in CommandSet : m = Command(c, k, tok[c], a)
  BY CommandType, Zenon
<1>2. m.client = c /\ m.kind = k /\ m.token = tok[c]
  BY <1>1, Zenon DEF Command
<1>3. commands' = Append(commands, m)
  BY <1>1, Zenon
<1>4. /\ Len(commands') = Len(commands) + 1 /\ commands'[Len(commands) + 1] = m
      /\ \A i \in 1..Len(commands) : commands'[i] = commands[i]
  BY <1>3 DEF Shape
<1> QED
  BY <1>2, <1>4, Zenon DEF Grows, SameMessage, NewCommand

LEMMA CloseGrows ==
  ASSUME Shape, NEW c, commands' = Append(commands, CloseCommand)
  PROVE  Grows(c)
<1>1. PICK m \in CommandSet : m = CloseCommand
  BY CloseType, Zenon
<1>2. m.kind = "close" /\ commands' = Append(commands, m)
  BY <1>1, Zenon DEF CloseCommand, Command
<1>3. /\ Len(commands') = Len(commands) + 1 /\ commands'[Len(commands) + 1] = m
      /\ \A i \in 1..Len(commands) : commands'[i] = commands[i]
  BY <1>2 DEF Shape
<1> QED
  BY <1>2, <1>3, Zenon DEF Grows, SameMessage, NewCommand

LEMMA DropGrows ==
  ASSUME Shape, NEW c \in Clients,
         \/ commands' = Orphans(c)
         \/ /\ commands' = Append(Orphans(c), Command(c, DropCleanup(c), tok[c], FALSE))
            /\ pc[c] \in TxPcs /\ pc'[c] \notin Early
  PROVE  Grows(c)
<1>0. \A i \in 1..Len(commands) : commands[i] \in CommandSet
  BY DEF Shape
<1>1. /\ Orphans(c) \in Seq(CommandSet) /\ Len(Orphans(c)) = Len(commands)
      /\ \A i \in 1..Len(commands) : Orphans(c)[i] = Orphaned(commands[i], c)
  BY OrphansType, Zenon
<1>2. \A i \in 1..Len(commands) : SameMessage(Orphans(c)[i], commands[i])
  BY <1>0, <1>1, OrphanedType DEF SameMessage
<1>3. CASE commands' = Orphans(c)
  BY <1>1, <1>2, <1>3, Zenon DEF Grows
<1>4. CASE commands' = Append(Orphans(c), Command(c, DropCleanup(c), tok[c], FALSE))
           /\ pc[c] \in TxPcs /\ pc'[c] \notin Early
  <2>1. PICK m \in CommandSet : m = Command(c, DropCleanup(c), tok[c], FALSE)
    BY CommandType, Zenon DEF CommandKinds, DropCleanup
  <2>2. m.client = c /\ m.token = tok[c] /\ commands' = Append(Orphans(c), m)
    BY <1>4, <2>1, Zenon DEF Command
  <2>3. Len(commands) \in Nat
    BY DEF Shape
  <2>4. /\ Len(commands') = Len(commands) + 1 /\ commands'[Len(commands) + 1] = m
        /\ \A i \in 1..Len(commands) : commands'[i] = Orphans(c)[i]
    BY <1>1, <2>2, <2>3
  <2> QED
    BY <1>2, <1>4, <2>2, <2>4, Zenon DEF Grows, NewCommand
<1> QED
  BY <1>3, <1>4, Zenon

LEMMA ClientGrows ==
  ASSUME Shape, NEW c \in Clients, Client(c)
  PROVE  Grows(c)
<1>1. ASSUME NEW k \in {"exec", "request", "backup", "begin"}, send(c, k) PROVE Grows(c)
  BY <1>1, SendPc, SameGrows, AppendGrows, Zenon DEF TxKinds, CommandKinds
<1>2. ASSUME send(c, "op"), pc[c] \in TxPcs PROVE Grows(c)
  <2>1. pc'[c] \notin Early /\ "op" \in CommandKinds
    BY <1>2, SendPc, Zenon DEF Early, CommandKinds
  <2> QED
    BY <1>2, <2>1, SendPc, SameGrows, AppendGrows, Zenon
<1>3. CASE \E kind \in Kinds \cap {"exec", "request", "backup", "transaction"} : Call(c, kind)
  BY <1>1, <1>3, Zenon DEF Call, CommandOf
<1>4. CASE close(c)
  BY <1>4, SameGrows, CloseGrows, Zenon DEF close, StartClose
<1>5. CASE cancel(c) \/ CancelRequest(c) \/ InterruptRequest(c) \/ CancelReturns(c)
  BY <1>5, SameGrows, Zenon DEF cancel, CancelRequest, InterruptRequest, CancelReturns
<1>6. CASE PollSend(c)
  <2>1. CASE pc[c] = "opwait"
    BY <1>2, <1>6, <2>1, Zenon DEF PollSend, TxPcs
  <2>2. CASE pc[c] = "wait"
    <3>1. CommandOf(op[c]) \in {"exec", "request", "backup", "begin"}
      BY <2>2, Zenon DEF Shape, CommandOf
    <3> QED
      BY <1>1, <1>6, <2>2, <3>1, Zenon DEF PollSend
  <2> QED
    BY <1>6, <2>1, <2>2, Zenon DEF PollSend
<1>7. CASE TxOp(c)
  BY <1>2, <1>7, Zenon DEF TxOp, TxPcs
<1>8. CASE Resume(c)
  <2>1. CASE commands' = commands
    BY <2>1, SameGrows, Zenon
  <2>2. CASE \E k \in {"commit", "rollback", "release"} :
               Settle(c, k, TRUE) /\ pc' = [pc EXCEPT ![c] = k] /\ pc[c] \in {"body", "commit"}
    <3>1. PICK k \in {"commit", "rollback", "release"} :
            Settle(c, k, TRUE) /\ pc' = [pc EXCEPT ![c] = k] /\ pc[c] \in {"body", "commit"}
      BY <2>2, Zenon
    <3>2. pc[c] \in TxPcs /\ pc'[c] \notin Early /\ k \in CommandKinds
      BY <3>1, Zenon DEF TxPcs, Early, CommandKinds, Shape
    <3> QED
      BY <3>1, <3>2, AppendGrows, Zenon DEF Settle
  <2> QED
    BY <1>8, <2>1, <2>2, Zenon DEF Resume, Answered, TxResumes, TxRolledBack, TxCommitted,
       TxReleased, TxRollback, TxCommit, TxFinish, Release
<1>9. CASE Drop(c) \/ TxDropOp(c)
  BY <1>9, DropGrows, Zenon DEF Drop, TxDropOp
<1>10. CASE TxDrop(c)
  <2>1. pc[c] \in TxPcs /\ pc'[c] \notin Early
    BY <1>10, Zenon DEF TxDrop, TxPcs, Early, Shape
  <2> QED
    BY <1>10, <2>1, DropGrows, Zenon DEF TxDrop
<1> QED
  BY <1>3, <1>4, <1>5, <1>6, <1>7, <1>8, <1>9, <1>10, Zenon DEF Client

LEMMA ClientToken ==
  ASSUME Shape, ReplyInv, NEW c \in Clients, TokenOf(c), Client(c)
  PROVE  TokenOf(c)'
<1>0. tok' = tok
  BY ClientShape, Zenon
<1>1. CASE \E kind \in Kinds \cap {"exec", "request", "backup", "transaction"} : Call(c, kind)
  <2>1. PICK kind \in {"exec", "request", "backup", "transaction"} : Call(c, kind)
    BY <1>1, Zenon
  <2>2. CommandOf(kind) \in {"exec", "request", "backup", "begin", "op"} /\ CommandOf(kind) # "op"
    BY Zenon DEF CommandOf
  <2>3. pc'[c] \in {"sent", "wait", "done"} /\ value' = value /\ guard' = guard /\ pc[c] = "new"
    BY <2>1, <2>2, SendPc, Zenon DEF Call
  <2>4. value[c] = "none"
    BY <2>3, Zenon DEF ReplyInv, Awaits
  <2> QED
    BY <1>0, <2>3, <2>4, Zenon DEF TokenOf, TxPcs, Early
<1>2. CASE close(c)
  <2>1. pc[c] = "new" /\ pc'[c] \in {"done", "closing"}
    BY <1>2, Zenon DEF close, Shape
  <2> QED
    BY <1>0, <2>1, Zenon DEF TokenOf, TxPcs, Early
<1>3. CASE cancel(c)
  <2>1. pc[c] = "new" /\ pc'[c] \in {"done", "cancelling"}
    BY <1>3, Zenon DEF cancel, Shape
  <2> QED
    BY <1>0, <2>1, Zenon DEF TokenOf, TxPcs, Early
<1>4. CASE CancelRequest(c) \/ InterruptRequest(c)
  BY <1>0, <1>4, Zenon DEF CancelRequest, InterruptRequest, transaction, TokenOf
<1>5. CASE CancelReturns(c)
  <2>1. pc' = pc \/ pc'[c] = "done"
    BY <1>5, Zenon DEF CancelReturns, Shape
  <2>2. value' = value /\ guard' = guard
    BY <1>5, Zenon DEF CancelReturns, transaction
  <2> QED
    BY <1>0, <2>1, <2>2, Zenon DEF TokenOf, TxPcs, Early
<1>6. CASE PollSend(c)
  <2>1. CASE pc[c] = "opwait"
    <3>1. pc'[c] \in {"opsent", "opwait", "body"} /\ guard' = guard
      BY <1>6, <2>1, SendPc, Zenon DEF PollSend
    <3> QED
      BY <1>0, <2>1, <3>1, Zenon DEF TokenOf, TxPcs, Early
  <2>2. CASE pc[c] = "wait"
    <3>1. CommandOf(op[c]) \in {"exec", "request", "backup", "begin", "op"} /\ CommandOf(op[c]) # "op"
      BY <2>2, Zenon DEF Shape, CommandOf
    <3>2. pc'[c] \in {"sent", "wait", "done"} /\ value' = value /\ guard' = guard
      BY <1>6, <2>2, <3>1, SendPc, Zenon DEF PollSend
    <3>3. value[c] = "none"
      BY <2>2, Zenon DEF ReplyInv, Awaits
    <3> QED
      BY <1>0, <2>2, <3>2, <3>3, Zenon DEF TokenOf, TxPcs, Early
  <2> QED
    BY <1>6, <2>1, <2>2, Zenon DEF PollSend
<1>7. CASE TxOp(c)
  <2>1. pc[c] = "body" /\ pc'[c] \in {"opsent", "opwait", "body"} /\ guard' = guard
    BY <1>7, SendPc, Zenon DEF TxOp
  <2> QED
    BY <1>0, <2>1, Zenon DEF TokenOf, TxPcs, Early
<1>8. CASE Answered(c) \/ TxReleased(c) \/ Drop(c) \/ TxDrop(c)
  <2>1. pc'[c] = "done"
    BY <1>8, Zenon DEF Answered, TxReleased, Drop, TxDrop, Shape
  <2> QED
    BY <2>1, Zenon DEF TokenOf, TxPcs, Early
<1>9. CASE TxResumes(c)
  <2>1. pc'[c] = "body" /\ DOMAIN guard = Clients
    BY <1>9, Zenon DEF TxResumes, Shape
  <2>2. CASE pc[c] = "sent" /\ value[c] = "begun" /\ guard' = [guard EXCEPT ![c] = "active"]
    BY <1>0, <2>1, <2>2, Zenon DEF TokenOf, TxPcs, Early
  <2>3. CASE pc[c] = "opsent" /\ guard' = guard
    BY <1>0, <2>1, <2>3, Zenon DEF TokenOf, TxPcs, Early
  <2> QED
    BY <1>9, <2>2, <2>3, Zenon DEF TxResumes
<1>10. CASE TxRolledBack(c) \/ TxRollback(c)
  <2>1. /\ pc[c] \in {"rollback", "body"} /\ pc'[c] \in {"body", "rollback"}
        /\ guard'[c] \in {"finishing", "rolledback", "failed"}
    BY <1>10, Zenon DEF TxRolledBack, TxRollback, Shape
  <2> QED
    BY <1>0, <2>1, Zenon DEF TokenOf, TxPcs, Early
<1>11. CASE TxCommit(c) \/ TxCommitted(c) \/ TxFinish(c)
  <2>1. /\ pc[c] \in {"commit", "body"} /\ pc'[c] \in {"commit", "release", "done"}
        /\ pc'[c] = "commit" => guard'[c] = "finishing"
    BY <1>11, Zenon DEF TxCommit, TxCommitted, TxFinish, Release, Shape
  <2> QED
    BY <1>0, <2>1, Zenon DEF TokenOf, TxPcs, Early
<1>12. CASE TxDropOp(c)
  <2>1. /\ pc[c] \in {"opwait", "opsent", "rollback"} /\ pc'[c] = "body" /\ guard' = guard
    BY <1>12, Zenon DEF TxDropOp, transaction, Shape
  <2> QED
    BY <1>0, <2>1, Zenon DEF TokenOf, TxPcs, Early
<1> QED
  BY <1>1, <1>2, <1>3, <1>4, <1>5, <1>6, <1>7, <1>8, <1>9, <1>10, <1>11, <1>12, ZenonT(40)
  DEF Client, Resume

\* What a step of client c leaves of the transaction commands.
LEMMA ClientTxCommands ==
  ASSUME Shape, TokenInv, NEW c \in Clients, tok' = tok, Grows(c),
         \A d \in Clients \ {c} : pc'[d] = pc[d],
         pc[c] \notin Early => pc'[c] \notin Early
  PROVE  \A i \in 1..Len(commands') : (TxCommand(commands[i]))'

<1>0. Len(commands) \in Nat
  BY DEF Shape
<1>1. \A d \in Clients : pc[d] \notin Early => pc'[d] \notin Early
  OBVIOUS
<1> SUFFICES ASSUME NEW i \in 1..Len(commands'), NEW m, m = commands'[i], m.kind \in TxKinds
             PROVE  /\ m.client \in Clients /\ m.token = tok[m.client] /\ m.token # None
                    /\ pc'[m.client] \notin Early
  BY Zenon DEF TxCommand
<1>2. CASE i \in 1..Len(commands) /\ SameMessage(commands'[i], commands[i])
  <2>1. TxCommand(commands[i])
    BY <1>2, Zenon DEF TokenInv
  <2> QED
    BY <1>1, <1>2, <2>1, Zenon DEF TxCommand, SameMessage
<1>3. CASE NewCommand(c, m)
  <2>1. m.client = c /\ m.token = tok[c] /\ pc[c] \in TxPcs /\ pc'[c] \notin Early
    BY <1>3, Zenon DEF NewCommand, TxKinds
  <2>2. pc[c] \in TxPcs => tok[c] # None
    BY Zenon DEF TokenInv, TokenOf
  <2> QED
    BY <2>1, <2>2, Zenon
<1>4. i \in 1..Len(commands) \/ (Len(commands') = Len(commands) + 1 /\ i = Len(commands) + 1)
  BY <1>0 DEF Grows
<1> QED
  BY <1>0, <1>2, <1>3, <1>4, Zenon DEF Grows

\* A call that has begun does not begin again.
LEMMA ClientEarly ==
  ASSUME Shape, NEW c \in Clients, Client(c), pc[c] \notin Early
  PROVE  pc'[c] \notin Early
<1>1. CASE \E kind \in Kinds \cap {"exec", "request", "backup", "transaction"} : Call(c, kind)
  BY <1>1, Zenon DEF Call, Early
<1>2. CASE close(c) \/ cancel(c)
  BY <1>2, Zenon DEF close, cancel, Early
<1>3. CASE CancelRequest(c) \/ InterruptRequest(c) \/ CancelReturns(c)
  BY <1>3, Zenon DEF CancelRequest, InterruptRequest, CancelReturns, Early, Shape
<1>4. CASE PollSend(c) \/ TxOp(c)
  <2>1. send(c, "op")
    BY <1>4, Zenon DEF PollSend, TxOp, Early
  <2> QED
    BY <2>1, SendPc, Zenon DEF Early
<1>5. CASE Resume(c)
  BY <1>5, Zenon DEF Resume, Answered, TxResumes, TxRolledBack, TxCommitted, TxReleased,
     TxRollback, TxCommit, TxFinish, Release, Early, Shape
<1>6. CASE Drop(c) \/ TxDropOp(c) \/ TxDrop(c)
  BY <1>6, Zenon DEF Drop, TxDropOp, TxDrop, Early, Shape
<1> QED
  BY <1>1, <1>2, <1>3, <1>4, <1>5, <1>6, Zenon DEF Client

LEMMA ClientTokens ==
  ASSUME Shape, ReplyInv, TokenInv, NEW c \in Clients, Client(c)
  PROVE  TokenInv'
<1>1. tok' = tok /\ OnlyOf(c) /\ active_pin' = active_pin /\ next_pin' = next_pin
  BY ClientShape, ClientFrame, Zenon
<1>2. \A i \in 1..Len(commands') : (TxCommand(commands[i]))'
  BY <1>1, ClientGrows, ClientEarly, ClientTxCommands, Zenon DEF OnlyOf
<1>3. ASSUME NEW d \in Clients PROVE TokenOf(d)'
  <2>1. TokenOf(d)
    BY Zenon DEF TokenInv
  <2>2. CASE d # c
    BY <1>1, <2>1, <2>2, Zenon DEF TokenOf, OnlyOf
  <2> QED
    BY <2>1, <2>2, ClientToken, Zenon
<1> QED
  BY <1>1, <1>2, <1>3, Zenon DEF TokenInv

LEMMA ClientRun ==
  ASSUME Shape, RunInv, NEW c \in Clients, Client(c)
  PROVE  RunInv'
<1>1. /\ tok' = tok /\ OnlyOf(c) /\ SameCommand /\ own' = own
      /\ active_pin' = active_pin /\ next_pin' = next_pin
  BY ClientShape, ClientFrame, Zenon
<1>2. \A d \in Clients : pc[d] \notin Early => pc'[d] \notin Early
  BY <1>1, ClientEarly, Zenon DEF OnlyOf
<1>3. TxCommand(cur) => (TxCommand(cur))'
  BY <1>1, <1>2, Zenon DEF TxCommand, SameCommand
<1> QED
  BY <1>1, <1>3, Zenon DEF RunInv, SameCommand

\* A poisoned session stays so.
LEMMA ClientPoisons ==
  ASSUME NEW c \in Clients, Client(c)
  PROVE  /\ transaction_poisoned => transaction_poisoned'
         /\ transaction_poisoned \in BOOLEAN => transaction_poisoned' \in BOOLEAN
<1>1. CASE \E kind \in Kinds : Call(c, kind)
  BY <1>1 DEF Call, send
<1>2. CASE close(c) \/ cancel(c) \/ CancelRequest(c) \/ InterruptRequest(c) \/ CancelReturns(c)
  BY <1>2 DEF close, cancel, CancelRequest, InterruptRequest, CancelReturns
<1>3. CASE PollSend(c) \/ TxOp(c)
  BY <1>3 DEF PollSend, TxOp, send
<1>4. CASE Answered(c) \/ TxResumes(c) \/ TxRollback(c) \/ TxCommit(c)
  <2>1. transaction_poisoned' = transaction_poisoned \/ transaction_poisoned' = TRUE
    BY <1>4, Zenon DEF Answered, TxResumes, TxRollback, TxCommit
  <2>2. CASE transaction_poisoned' = transaction_poisoned
    BY <2>2, Zenon
  <2>3. CASE transaction_poisoned' = TRUE
    BY <2>3, Zenon
  <2> QED
    BY <2>1, <2>2, <2>3, Zenon
<1>5. CASE TxRolledBack(c) \/ TxCommitted(c) \/ TxReleased(c) \/ TxFinish(c) \/ TxDrop(c)
  BY <1>5, Zenon DEF TxRolledBack, TxCommitted, TxReleased, TxFinish, TxDrop
<1>6. CASE Drop(c) \/ TxDropOp(c)
  BY <1>6 DEF Drop, TxDropOp
<1> QED
  BY <1>1, <1>2, <1>3, <1>4, <1>5, <1>6, Zenon DEF Client, Resume

LEMMA ClientHolds ==
  ASSUME Shape, NEW c \in Clients, Client(c), NEW d \in Clients, (Held(d))'
  PROVE  Held(d)
<1>1. tok' = tok /\ active_pin' = active_pin /\ inTx' = inTx
  BY ClientShape, ClientFrame, Zenon
<1> QED
  BY <1>1, ClientPoisons, Zenon DEF Held

\* A client ends its transaction only when it knows that PostgreSQL did, or
\* poisons the session.
LEMMA ClientSettles ==
  ASSUME Shape, NEW c \in Clients, Client(c), TokenOf(c), HeldOf(c),
         TxRolledBack(c) \/ TxCommitted(c) \/ TxFinish(c) \/ TxReleased(c)
           \/ (TxDrop(c) /\ guard[c] # "active")
  PROVE  ~(Held(c))'
<1>1. CASE TxRolledBack(c)
  <2>1. CASE value[c] = "ROLLBACK"
    BY <2>1, ClientHolds, Zenon DEF HeldOf
  <2>2. CASE value[c] # "ROLLBACK"
    <3>1. transaction_poisoned'
      BY <1>1, <2>2, Zenon DEF TxRolledBack
    <3> QED
      BY <3>1, Zenon DEF Held
  <2> QED
    BY <2>1, <2>2, Zenon
<1>2. CASE TxCommitted(c)
  <2>1. CASE value[c] \in {"COMMIT", "ROLLBACK"}
    BY <2>1, ClientHolds, Zenon DEF HeldOf
  <2>2. CASE value[c] \notin {"COMMIT", "ROLLBACK"}
    <3>1. transaction_poisoned'
      BY <1>2, <2>2, Zenon DEF TxCommitted
    <3> QED
      BY <3>1, Zenon DEF Held
  <2> QED
    BY <2>1, <2>2, Zenon
<1>3. CASE TxFinish(c)
  <2>1. guard[c] \in {"finishing", "rolledback", "failed"}
    BY <1>3, Zenon DEF TxFinish, TokenOf, TxPcs
  <2>2. CASE guard[c] = "finishing"
    <3>1. transaction_poisoned'
      BY <1>3, <2>2, Zenon DEF TxFinish
    <3> QED
      BY <3>1, Zenon DEF Held
  <2>3. CASE guard[c] \in {"rolledback", "failed"}
    BY <2>3, ClientHolds, Zenon DEF HeldOf
  <2> QED
    BY <2>1, <2>2, <2>3, Zenon
<1>4. CASE TxReleased(c)
  BY <1>4, ClientHolds, Zenon DEF HeldOf, TxReleased
<1>5. CASE TxDrop(c) /\ guard[c] # "active"
  <2>1. CASE pc[c] = "release"
    BY <2>1, ClientHolds, Zenon DEF HeldOf
  <2>2. CASE pc[c] # "release"
    <3>1. guard[c] \in {"finishing", "rolledback", "failed"}
      BY <1>5, <2>2, Zenon DEF TxDrop, TokenOf, TxPcs
    <3>2. CASE guard[c] = "finishing"
      <4>1. transaction_poisoned'
        BY <1>5, <2>2, <3>2, Zenon DEF TxDrop
      <4> QED
        BY <4>1, Zenon DEF Held
    <3>3. CASE guard[c] \in {"rolledback", "failed"}
      BY <3>3, ClientHolds, Zenon DEF HeldOf
    <3> QED
      BY <3>1, <3>2, <3>3, Zenon
  <2> QED
    BY <2>1, <2>2, Zenon
<1> QED
  BY <1>1, <1>2, <1>3, <1>4, <1>5, Zenon

\* While its transaction is open a client does not say that it ended.
LEMMA ClientHeldOf ==
  ASSUME Shape, NEW c \in Clients, Client(c), TokenOf(c), HeldOf(c)
  PROVE  (HeldOf(c))'
<1> SUFFICES ASSUME (Held(c))'
             PROVE  /\ pc'[c] # "release" /\ guard'[c] \notin {"rolledback", "failed"}
                    /\ value'[c] \notin {"COMMIT", "ROLLBACK"}
  BY Zenon DEF HeldOf
<1>1. /\ tok[c] # None /\ pc[c] # "release" /\ guard[c] \notin {"rolledback", "failed"}
      /\ value[c] \notin {"COMMIT", "ROLLBACK"}
  BY ClientHolds, Zenon DEF HeldOf, Held
<1>2. CASE \/ \E kind \in Kinds : Call(c, kind)
           \/ close(c) \/ cancel(c)
  BY <1>1, <1>2, Zenon DEF Call, close, cancel, TokenOf
<1>3. CASE CancelRequest(c) \/ InterruptRequest(c) \/ CancelReturns(c)
  <2>1. pc' = pc \/ pc'[c] = "done"
    BY <1>3, Zenon DEF CancelRequest, InterruptRequest, CancelReturns, Shape
  <2>2. value' = value /\ guard' = guard
    BY <1>3, Zenon DEF CancelRequest, InterruptRequest, CancelReturns, transaction
  <2> QED
    BY <1>1, <2>1, <2>2, Zenon
<1>4. CASE PollSend(c) \/ TxOp(c)
  <2>1. PICK k \in {"exec", "request", "backup", "begin", "op"} : send(c, k)
    BY <1>4, Zenon DEF PollSend, TxOp, CommandOf, Shape
  <2> QED
    BY <1>1, <2>1, SendPc, Zenon
<1>5. CASE Answered(c) \/ TxResumes(c)
  BY <1>1, <1>5, Zenon DEF Answered, TxResumes, transaction, Shape
<1>6. CASE TxRolledBack(c) \/ TxCommitted(c) \/ TxFinish(c) \/ TxReleased(c)
  BY <1>6, ClientSettles, Zenon
<1>7. CASE TxRollback(c) \/ TxCommit(c)
  <2>1. CASE transaction_poisoned' = TRUE
    BY <2>1, Zenon DEF Held
  <2>2. CASE /\ pc' = [pc EXCEPT ![c] = "rollback"] \/ pc' = [pc EXCEPT ![c] = "commit"]
             /\ guard' = [guard EXCEPT ![c] = "finishing"] /\ value' = value
    BY <1>1, <2>2, Zenon DEF Shape
  <2> QED
    BY <1>7, <2>1, <2>2, Zenon DEF TxRollback, TxCommit
<1>8. CASE Drop(c) \/ TxDropOp(c)
  BY <1>1, <1>8, Zenon DEF Drop, TxDropOp, Orphan, transaction, Shape
<1>9. CASE TxDrop(c)
  BY <1>1, <1>9, Zenon DEF TxDrop, Orphan, Shape
<1> QED
  BY <1>2, <1>3, <1>4, <1>5, <1>6, <1>7, <1>8, <1>9, ZenonT(40) DEF Client, Resume

\* The steps that queue a Release.
LEMMA ClientReleases ==
  ASSUME Shape, NEW c \in Clients, Client(c), Len(commands') = Len(commands) + 1,
         commands'[Len(commands) + 1].kind = "release"
  PROVE  TxCommitted(c) \/ TxFinish(c) \/ (TxDrop(c) /\ guard[c] # "active")
<1>0. Len(commands) \in Nat
  BY DEF Shape
<1>1. commands' # commands
  BY <1>0
<1>2. ASSUME NEW m, commands' = Append(commands, m) PROVE m.kind = "release"
  BY <1>2 DEF Shape
<1>3. ASSUME NEW k \in {"exec", "request", "backup", "begin", "op"}, send(c, k) PROVE FALSE
  <2>1. commands' = Append(commands, Command(c, k, tok[c], TRUE))
    BY <1>1, <1>3, SendPc, Zenon
  <2>2. Command(c, k, tok[c], TRUE).kind = k
    BY Zenon DEF Command
  <2>3. Command(c, k, tok[c], TRUE).kind = "release"
    BY <1>2, <2>1, Zenon
  <2> QED
    BY <2>2, <2>3, Zenon
<1>4. CASE \E kind \in Kinds \cap {"exec", "request", "backup", "transaction"} : Call(c, kind)
  BY <1>3, <1>4, ZenonT(40) DEF Call, CommandOf
<1>5. CASE close(c)
  BY <1>1, <1>2, <1>5 DEF close, StartClose, CloseCommand, Command
<1>6. CASE cancel(c) \/ CancelRequest(c) \/ InterruptRequest(c) \/ CancelReturns(c)
  BY <1>1, <1>6, Zenon DEF cancel, CancelRequest, InterruptRequest, CancelReturns
<1>7. CASE PollSend(c) \/ TxOp(c)
  BY <1>3, <1>7, Zenon DEF PollSend, TxOp, CommandOf, Shape
<1>8. CASE Answered(c) \/ TxResumes(c) \/ TxRolledBack(c) \/ TxReleased(c)
  BY <1>1, <1>8, ZenonT(40) DEF Answered, TxResumes, TxRolledBack, TxReleased
<1>9. CASE TxRollback(c) \/ TxCommit(c)
  BY <1>1, <1>2, <1>9 DEF TxRollback, TxCommit, Release, Settle, Command
<1>10. CASE Drop(c) \/ TxDropOp(c)
  BY <1>0, <1>10, OrphansType DEF Drop, TxDropOp
<1>11. CASE TxDrop(c)
  <2>0. Orphans(c) \in Seq(CommandSet) /\ Len(Orphans(c)) = Len(commands)
    BY OrphansType, Zenon
  <2>1. PICK m \in CommandSet : m = Command(c, DropCleanup(c), tok[c], FALSE)
    BY CommandType, Zenon DEF CommandKinds, DropCleanup
  <2>2. commands' = Append(Orphans(c), m)
    <3>1. commands' = Orphans(c) \/ commands' = Append(Orphans(c), m)
      BY <1>11, <2>1, Zenon DEF TxDrop
    <3> QED
      BY <1>0, <2>0, <3>1
  <2>3. m.kind = "release"
    BY <1>0, <2>0, <2>2
  <2> QED
    BY <1>11, <2>1, <2>3, Zenon DEF Command, DropCleanup
<1> QED
  BY <1>4, <1>5, <1>6, <1>7, <1>8, <1>9, <1>10, <1>11, ZenonT(40) DEF Client, Resume

LEMMA ClientHeld ==
  ASSUME Shape, TokenInv, HeldInv, NEW c \in Clients, Client(c)
  PROVE  HeldInv'
<1>0. /\ tok' = tok /\ OnlyOf(c) /\ active_pin' = active_pin /\ inTx' = inTx /\ open' = open
  BY ClientShape, ClientFrame, Zenon
<1>1. inTx' \in BOOLEAN /\ transaction_poisoned' \in BOOLEAN
  BY <1>0, ClientPoisons, Zenon DEF HeldInv
<1>2. inTx' /\ ~transaction_poisoned' => active_pin' # None
  BY <1>0, ClientPoisons, Zenon DEF HeldInv
<1>3. open' # {} => inTx'
  BY <1>0, Zenon DEF HeldInv
<1>4. ASSUME NEW d \in Clients PROVE (HeldOf(d))'
  <2>1. TokenOf(d) /\ HeldOf(d)
    BY Zenon DEF TokenInv, HeldInv
  <2>2. CASE d # c
    <3>1. pc'[d] = pc[d] /\ guard'[d] = guard[d] /\ value'[d] = value[d]
      BY <1>0, <2>2, Zenon DEF OnlyOf
    <3> QED
      BY <2>1, <3>1, ClientHolds, Zenon DEF HeldOf
  <2> QED
    BY <2>1, <2>2, ClientHeldOf, Zenon
<1>5. ASSUME NEW i \in 1..Len(commands'), commands'[i].kind = "release", NEW d,
             d = commands'[i].client
      PROVE  ~(Held(d))'
  <2>0. Len(commands) \in Nat /\ \A j \in 1..Len(commands) : TxCommand(commands[j])
    BY DEF Shape, TokenInv
  <2>1. CASE i \in 1..Len(commands) /\ SameMessage(commands'[i], commands[i])
    <3>1. commands[i].kind = "release" /\ commands[i].client = d
      BY <1>5, <2>1, Zenon DEF SameMessage
    <3>2. ~Held(d) /\ d \in Clients
      BY <2>0, <2>1, <3>1, Zenon DEF HeldInv, TxCommand, TxKinds
    <3> QED
      BY <3>2, ClientHolds, Zenon
  <2>2. CASE Len(commands') = Len(commands) + 1 /\ i = Len(commands) + 1
             /\ NewCommand(c, commands'[i])
    <3>1. d = c
      BY <1>5, <2>2, Zenon DEF NewCommand
    <3>2. TxCommitted(c) \/ TxFinish(c) \/ (TxDrop(c) /\ guard[c] # "active")
      BY <1>5, <2>2, ClientReleases, Zenon
    <3>3. TokenOf(c) /\ HeldOf(c)
      BY Zenon DEF TokenInv, HeldInv
    <3> QED
      BY <3>1, <3>2, <3>3, ClientSettles, Zenon
  <2>3. Grows(c)
    BY ClientGrows, Zenon
  <2>4. i \in 1..Len(commands) \/ (Len(commands') = Len(commands) + 1 /\ i = Len(commands) + 1)
    BY <2>0, <2>3 DEF Grows
  <2> QED
    BY <2>0, <2>1, <2>2, <2>3, <2>4, ZenonT(40) DEF Grows
<1>6. \A i \in 1..Len(commands') : commands'[i].kind = "release" => ~(Held(commands[i].client))'
  BY <1>5, Zenon DEF Held
<1> QED
  BY <1>1, <1>2, <1>3, <1>4, <1>6, Zenon DEF HeldInv

\* What a step of the owner does to the pin, to the session and to a guard.
LEMMA OwnerPins ==
  ASSUME Owner \/ OwnerPanics
  PROVE  /\ next_pin' = next_pin \/ next_pin' = next_pin + 1
         /\ \/ active_pin' = active_pin \/ active_pin' = None
            \/ own = "run" /\ cur.kind = "begin" /\ active_pin' = cur.token
<1>1. CASE Skip \/ TakeRequest \/ EnterRequest \/ Reject \/ Start
  BY <1>1, Zenon DEF Skip, TakeRequest, EnterRequest, Reject, Start, pins, allocate_pin
<1>2. CASE ReleasePin \/ RollbackAndReleasePin \/ ReceiveClose
  BY <1>2, Zenon DEF ReleasePin, RollbackAndReleasePin, ReceiveClose, rollback_active_pin
<1>3. CASE FinishWork \/ FinishBegin \/ FinishOp \/ FinishControl \/ FinishRollback
  BY <1>3, Zenon DEF FinishWork, FinishBegin, FinishOp, FinishControl, FinishRollback, pins
<1>4. CASE LeaveRequest \/ complete_retryable_close \/ Recheck \/ Teardown \/ wait_for_idle
  BY <1>4, Zenon DEF LeaveRequest, complete_retryable_close, Recheck, Teardown, wait_for_idle, pins
<1>5. CASE CloseSession \/ Dispose \/ stop \/ Complete \/ OwnerPanics
  BY <1>5, Zenon DEF CloseSession, Dispose, stop, Complete, OwnerPanics, pins
<1> QED
  BY <1>1, <1>2, <1>3, <1>4, <1>5, Zenon DEF Owner

LEMMA OwnerGuard ==
  ASSUME Owner \/ OwnerPanics
  PROVE  \/ guard' = guard
         \/ /\ own = "run" /\ cur.kind = "op" /\ transaction_poisoned' = TRUE
            /\ guard' = [guard EXCEPT ![cur.client] = "failed"]
<1>1. CASE Skip \/ TakeRequest \/ EnterRequest \/ Reject \/ Start
  BY <1>1, Zenon DEF Skip, TakeRequest, EnterRequest, Reject, Start, transaction
<1>2. CASE ReleasePin \/ RollbackAndReleasePin \/ ReceiveClose
  BY <1>2, Zenon DEF ReleasePin, RollbackAndReleasePin, ReceiveClose, transaction
<1>3. CASE FinishWork \/ FinishBegin \/ FinishOp \/ FinishControl \/ FinishRollback
  BY <1>3, Zenon DEF FinishWork, FinishBegin, FinishOp, FinishControl, FinishRollback, transaction
<1>4. CASE LeaveRequest \/ complete_retryable_close \/ Recheck \/ Teardown \/ wait_for_idle
  BY <1>4, Zenon DEF LeaveRequest, complete_retryable_close, Recheck, Teardown, wait_for_idle,
     transaction
<1>5. CASE CloseSession \/ Dispose \/ stop \/ Complete \/ OwnerPanics
  BY <1>5, Zenon DEF CloseSession, Dispose, stop, Complete, OwnerPanics, transaction
<1> QED
  BY <1>1, <1>2, <1>3, <1>4, <1>5, Zenon DEF Owner

LEMMA OwnerPoisons ==
  ASSUME Owner \/ OwnerPanics
  PROVE  transaction_poisoned' = transaction_poisoned \/ transaction_poisoned' = TRUE
<1>1. CASE Skip \/ TakeRequest \/ EnterRequest \/ Reject \/ Start
  BY <1>1, Zenon DEF Skip, TakeRequest, EnterRequest, Reject, Start
<1>2. CASE ReleasePin \/ RollbackAndReleasePin \/ ReceiveClose
  BY <1>2, Zenon DEF ReleasePin, RollbackAndReleasePin, ReceiveClose
<1>3. CASE FinishWork \/ FinishBegin \/ FinishOp \/ FinishControl \/ FinishRollback
  BY <1>3, Zenon DEF FinishWork, FinishBegin, FinishOp, FinishControl, FinishRollback
<1>4. CASE LeaveRequest \/ complete_retryable_close \/ Recheck \/ Teardown \/ wait_for_idle
  BY <1>4, Zenon DEF LeaveRequest, complete_retryable_close, Recheck, Teardown, wait_for_idle
<1>5. CASE CloseSession \/ Dispose \/ stop \/ Complete \/ OwnerPanics
  BY <1>5, Zenon DEF CloseSession, Dispose, stop, Complete, OwnerPanics
<1> QED
  BY <1>1, <1>2, <1>3, <1>4, <1>5, Zenon DEF Owner

\* The session: work adds to the open transaction, BEGIN opens one, and the
\* others leave it or end it.
SessionStep ==
  \/ inTx' = inTx /\ open' = open
  \/ inTx' = FALSE /\ open' = {}
  \/ /\ inTx /\ inTx' = inTx /\ open' = open \cup {cur.client}
     /\ own = "run" /\ cur.kind \in {"exec", "request", "op"}
  \/ /\ inTx' = TRUE /\ open' = open /\ own = "run" /\ cur.kind = "begin"
     /\ transaction_poisoned' \/ active_pin' = cur.token

LEMMA OwnerSession ==
  ASSUME Owner \/ OwnerPanics
  PROVE  SessionStep
<1>1. CASE Skip \/ TakeRequest \/ EnterRequest \/ Reject \/ Start
  BY <1>1, Zenon DEF Skip, TakeRequest, EnterRequest, Reject, Start, db, SessionStep
<1>2. CASE ReleasePin \/ RollbackAndReleasePin \/ ReceiveClose
  BY <1>2, Zenon DEF ReleasePin, RollbackAndReleasePin, ReceiveClose, db, SessionStep
<1>3. CASE FinishWork
  BY <1>3, Zenon DEF FinishWork, Effect, db, SessionStep
<1>4. CASE FinishBegin
  <2>1. own = "run" /\ cur.kind = "begin" /\ (open' = open \/ UNCHANGED db)
    BY <1>4, Zenon DEF FinishBegin
  <2>2. CASE UNCHANGED db
    BY <2>2, Zenon DEF db, SessionStep
  <2>3. CASE /\ inTx' = TRUE /\ open' = open /\ transaction_poisoned' = transaction_poisoned
             /\ cur.alive /\ active_pin' = cur.token
    BY <2>1, <2>3, Zenon DEF SessionStep
  <2>4. CASE /\ inTx' = TRUE /\ open' = open /\ transaction_poisoned' = transaction_poisoned
             /\ transaction_poisoned \/ active_pin' = cur.token
    BY <2>1, <2>4, Zenon DEF SessionStep
  <2>5. CASE transaction_poisoned' = TRUE /\ (inTx' = inTx \/ inTx' = TRUE) /\ open' = open
    BY <2>1, <2>5, Zenon DEF SessionStep
  <2> QED
    BY <1>4, <2>2, <2>3, <2>4, <2>5, Zenon DEF FinishBegin
<1>5. CASE FinishOp
  BY <1>5, Zenon DEF FinishOp, Effect, CommitTx, AbortTx, db, SessionStep
<1>6. CASE FinishControl \/ FinishRollback
  BY <1>6, Zenon DEF FinishControl, FinishRollback, CommitTx, AbortTx, db, SessionStep
<1>7. CASE LeaveRequest \/ complete_retryable_close \/ Recheck \/ Teardown \/ wait_for_idle
  BY <1>7, Zenon DEF LeaveRequest, complete_retryable_close, Recheck, Teardown, wait_for_idle, db,
     SessionStep
<1>8. CASE CloseSession \/ Dispose
  BY <1>8, Zenon DEF CloseSession, Dispose, AbortTx, SessionStep
<1>9. CASE stop \/ Complete \/ OwnerPanics
  BY <1>9, Zenon DEF stop, Complete, OwnerPanics, db, SessionStep
<1> QED
  BY <1>1, <1>2, <1>3, <1>4, <1>5, <1>6, <1>7, <1>8, <1>9, ZenonT(40) DEF Owner

\* The owner adds nothing to the queue but a Close.
LEMMA OwnerQueue ==
  ASSUME Shape, Owner \/ OwnerPanics
  PROVE  \A i \in 1..Len(commands') :
           commands'[i].kind = "close" \/ \E j \in 1..Len(commands) : commands'[i] = commands[j]
<1>1. CASE commands' = commands
  BY <1>1, Zenon
<1>2. CASE Receive
  <2>1. commands # << >> /\ commands' = Tail(commands)
    BY <1>2, Zenon DEF Receive
  <2>2. /\ Len(commands) \in Nat /\ Len(commands') = Len(commands) - 1
        /\ \A i \in 1..Len(commands') : commands'[i] = commands[i + 1]
    BY <2>1 DEF Shape
  <2> QED
    BY <2>2
<1>3. CASE commands' = << >>
  BY <1>3
<1>4. CASE commands' = Append(commands, CloseCommand)
  <2>1. PICK m \in CommandSet : m = CloseCommand
    BY CloseType, Zenon
  <2>2. m.kind = "close" /\ commands' = Append(commands, m)
    BY <1>4, <2>1, Zenon DEF CloseCommand, Command
  <2> QED
    BY <2>2 DEF Shape
<1>5. CASE Skip \/ TakeRequest \/ Reject \/ Start \/ ReleasePin \/ RollbackAndReleasePin
           \/ ReceiveClose
  BY <1>2, <1>5, Zenon DEF Skip, TakeRequest, Reject, Start, ReleasePin, RollbackAndReleasePin,
     ReceiveClose
<1>6. CASE EnterRequest \/ FinishWork \/ FinishBegin \/ FinishOp \/ FinishControl \/ FinishRollback
  BY <1>1, <1>6, Zenon DEF EnterRequest, FinishWork, FinishBegin, FinishOp, FinishControl,
     FinishRollback
<1>7. CASE LeaveRequest \/ complete_retryable_close \/ Teardown \/ wait_for_idle \/ CloseSession
  BY <1>1, <1>7, Zenon DEF LeaveRequest, complete_retryable_close, Teardown, wait_for_idle,
     CloseSession
<1>8. CASE Recheck
  BY <1>1, <1>4, <1>8, Zenon DEF Recheck, schedule_terminal_drop_close
<1>9. CASE Dispose \/ stop \/ Complete \/ OwnerPanics
  BY <1>1, <1>3, <1>9, Zenon DEF Dispose, stop, Complete, OwnerPanics
<1> QED
  BY <1>5, <1>6, <1>7, <1>8, <1>9, Zenon DEF Owner

\* What a step of the owner puts in a slot: an answer where one is awaited, the
\* result of close, or the token of a new transaction.
Slot(d) ==
  \/ value'[d] = value[d] /\ tok'[d] = tok[d]
  \/ pc[d] = "closing" /\ tok'[d] = tok[d]
  \/ /\ value[d] = "none" /\ tok'[d] = tok[d] /\ value'[d] # "begun"
     /\ value'[d] \in {"COMMIT", "ROLLBACK"} => inTx' = FALSE
  \/ /\ pc[d] = "sent" /\ value'[d] = "begun" /\ tok'[d] = cur.token
     /\ own = "run" /\ cur.kind = "begin"

LEMMA ReplySlot ==
  ASSUME Shape, NEW m \in CommandSet, Awaited(m), tok' = tok, NEW v, Reply(m, v), v # "begun",
         v \in {"COMMIT", "ROLLBACK"} => inTx' = FALSE
  PROVE  \A d \in Clients : Slot(d)
<1>0. DOMAIN value = Clients
  BY Zenon DEF Shape
<1>1. \A d \in Clients : value'[d] = IF m.alive /\ m.client = d THEN v ELSE value[d]
  BY <1>0, ReplyShape, ZenonT(40)
<1> SUFFICES ASSUME NEW d \in Clients PROVE Slot(d)
  OBVIOUS
<1>2. CASE m.alive /\ m.client = d
  BY <1>1, <1>2, Zenon DEF Slot, Awaited
<1>3. CASE ~(m.alive /\ m.client = d)
  BY <1>1, <1>3, Zenon DEF Slot
<1> QED
  BY <1>2, <1>3, Zenon

LEMMA BeginSlot ==
  ASSUME Shape, ReplyInv, FinishBegin
  PROVE  /\ \A d \in Clients : Slot(d)
         /\ tok' = tok \/ (cur.client \in Clients /\ tok' = [tok EXCEPT ![cur.client] = cur.token])
<1>1. /\ cur \in CommandSet /\ Awaited(cur) /\ own = "run" /\ cur.kind = "begin"
      /\ DOMAIN tok = Clients
  BY Zenon DEF FinishBegin, ReplyInv, Busy, Shape
<1>2. CASE cur.alive /\ tok' = [tok EXCEPT ![cur.client] = cur.token] /\ Reply(cur, "begun")
  <2>1. cur.client \in Clients /\ pc[cur.client] = "sent"
    BY <1>1, <1>2, Zenon DEF Awaited, AwaitOf
  <2>2. \A d \in Clients : value'[d] = IF cur.client = d THEN "begun" ELSE value[d]
    BY <1>2, ReplyShape DEF Shape
  <2> QED
    BY <1>1, <1>2, <2>1, <2>2, Zenon DEF Slot
<1>3. CASE tok' = tok /\ value' = value
  BY <1>3, Zenon DEF Slot
<1>4. CASE tok' = tok /\ Reply(cur, "error")
  BY <1>1, <1>4, ReplySlot, Zenon
<1> QED
  BY <1>2, <1>3, <1>4, Zenon DEF FinishBegin

LEMMA OwnerSlots ==
  ASSUME Shape, ReplyInv, Owner \/ OwnerPanics
  PROVE  /\ \A d \in Clients : Slot(d)
         /\ \/ tok' = tok
            \/ /\ own = "run" /\ cur.kind = "begin" /\ cur.client \in Clients
               /\ tok' = [tok EXCEPT ![cur.client] = cur.token]
<1>0. cur \in CommandSet /\ (Busy => Awaited(cur))
  BY Zenon DEF ReplyInv, Shape
<1>1. CASE tok' = tok /\ value' = value
  BY <1>1, Zenon DEF Slot
<1>2. CASE FinishBegin
  BY <1>2, BeginSlot, Zenon DEF FinishBegin
<1>3. CASE Skip \/ Reject \/ ReleasePin
  <2>1. Head(commands) \in CommandSet /\ Awaited(Head(commands)) /\ tok' = tok
    BY <1>3, RestReplies, Zenon DEF Skip, Reject, ReleasePin, transaction
  <2>2. \E v \in {"stopped", "active", "ok", "error"} : Reply(Head(commands), v)
    BY <1>3, Zenon DEF Skip, Reject, ReleasePin
  <2> QED
    BY <2>1, <2>2, ReplySlot, Zenon
<1>4. CASE TakeRequest \/ Start \/ RollbackAndReleasePin \/ ReceiveClose \/ FinishRollback
  BY <1>1, <1>4, Zenon DEF TakeRequest, Start, RollbackAndReleasePin, ReceiveClose, FinishRollback,
     transaction
<1>5. CASE EnterRequest \/ FinishWork \/ OwnerPanics
  <2>1. Busy /\ tok' = tok
    BY <1>5, Zenon DEF EnterRequest, FinishWork, OwnerPanics, Busy, transaction
  <2>2. value' = value \/ \E v \in {"stopped", "active", "ok", "error"} : Reply(cur, v)
    BY <1>5, Zenon DEF EnterRequest, FinishWork, OwnerPanics
  <2> QED
    BY <1>0, <1>1, <2>1, <2>2, ReplySlot, Zenon
<1>6. CASE FinishOp
  <2>1. Busy /\ tok' = tok
    BY <1>6, Zenon DEF FinishOp, Busy
  <2>2. \E v \in {"ok", "error"} : Reply(cur, v)
    BY <1>6, Zenon DEF FinishOp
  <2> QED
    BY <1>0, <2>1, <2>2, ReplySlot, Zenon
<1>7. CASE FinishControl
  <2>1. Busy /\ tok' = tok
    BY <1>7, Zenon DEF FinishControl, Busy, transaction
  <2>2. \/ Reply(cur, "error")
        \/ inTx' = FALSE /\ (Reply(cur, "COMMIT") \/ Reply(cur, "ROLLBACK"))
    BY <1>7, Zenon DEF FinishControl, CommitTx, AbortTx
  <2> QED
    BY <1>0, <2>1, <2>2, ReplySlot, Zenon
<1>8. CASE LeaveRequest \/ Teardown \/ wait_for_idle \/ CloseSession \/ Dispose
  BY <1>1, <1>8, Zenon DEF LeaveRequest, Teardown, wait_for_idle, CloseSession, Dispose, transaction
<1>9. CASE complete_retryable_close \/ Recheck \/ Complete
  <2>0. tok' = tok
    BY <1>9, Zenon DEF complete_retryable_close, Recheck, Complete, transaction
  <2>1. value' = value \/ \E S, v : Deliver(ToWaiters(S, v))
    BY <1>9, Zenon DEF complete_retryable_close, Recheck, Complete, schedule_terminal_drop_close,
       complete_terminal_close
  <2>2. ASSUME NEW S, NEW v, Deliver(ToWaiters(S, v)) PROVE \A d \in Clients : Slot(d)
    <3>1. \A d \in Clients : value'[d] = IF d \in {w \in S : pc[w] = "closing"} THEN v ELSE value[d]
      BY <2>2, DeliverShape, Zenon DEF ToWaiters
    <3> QED
      BY <2>0, <3>1, Zenon DEF Slot
  <2> QED
    BY <1>1, <2>0, <2>1, <2>2, Zenon
<1>10. CASE stop
  <2>1. PICK S : S = {commands[i].client : i \in {j \in DOMAIN commands : commands[j].alive}}
    BY Zenon
  <2>2. tok' = tok /\ Deliver([c \in S |-> "stopped"])
    BY <1>10, <2>1, Zenon DEF stop, transaction
  <2>3. \A d \in Clients : value'[d] = IF d \in S THEN "stopped" ELSE value[d]
    BY <2>2, DeliverShape, Zenon
  <2>4. \A d \in S : value[d] = "none"
    <3>1. DOMAIN commands = 1..Len(commands) /\ \A i \in 1..Len(commands) : Awaited(commands[i])
      BY DEF Shape, ReplyInv
    <3> QED
      BY <2>1, <3>1, Zenon DEF Awaited
  <2> HIDE DEF stop
  <2> QED
    BY <2>2, <2>3, <2>4, Zenon DEF Slot
<1> QED
  BY <1>2, <1>3, <1>4, <1>5, <1>6, <1>7, <1>8, <1>9, <1>10, ZenonT(40) DEF Owner

\* The command of a transaction keeps its token.
LEMMA KeepToken ==
  ASSUME Shape, pc' = pc, \A d \in Clients : Slot(d), NEW d \in Clients, pc[d] \notin Early
  PROVE  tok'[d] = tok[d]
BY Zenon DEF Slot, Early

LEMMA OwnerTokens ==
  ASSUME Shape, ReplyInv, TokenInv, RunInv, Owner \/ OwnerPanics
  PROVE  TokenInv'
<1>0. pc' = pc /\ (\A d \in Clients : Slot(d))
  BY OwnerFrame, OwnerSlots, Zenon
<1>1. /\ active_pin \in Nat /\ next_pin \in Nat /\ tok \in [Clients -> Nat] /\ cur.token \in Nat
  BY Zenon DEF Shape, CommandSet
<1>2. next_pin' >= next_pin /\ active_pin' < next_pin'
  <2>1. own = "run" /\ cur.kind = "begin" => cur.token < next_pin
    BY Zenon DEF RunInv
  <2>2. 0 < next_pin /\ active_pin < next_pin
    BY Zenon DEF TokenInv
  <2> QED
    BY <1>1, <2>1, <2>2, OwnerPins DEF None
<1>3. \A d \in Clients : tok'[d] < next_pin'
  <2>1. \A d \in Clients : tok'[d] = tok[d]
          \/ (tok'[d] = cur.token /\ own = "run" /\ cur.kind = "begin")
    BY <1>0, Zenon DEF Slot
  <2>2. own = "run" /\ cur.kind = "begin" => cur.token < next_pin
    BY Zenon DEF RunInv
  <2>3. \A d \in Clients : tok[d] < next_pin
    BY Zenon DEF TokenInv
  <2>4. next_pin' = next_pin \/ next_pin' = next_pin + 1
    BY OwnerPins, Zenon
  <2> QED
    BY <1>1, <2>1, <2>2, <2>3, <2>4
<1>4. \A c, d \in Clients : tok'[c] = tok'[d] /\ tok'[c] # None => c = d
  <2>1. \A c, d \in Clients : tok[c] = tok[d] /\ tok[c] # None => c = d
    BY Zenon DEF TokenInv
  <2>2. CASE tok' = tok
    BY <2>1, <2>2, Zenon
  <2>3. CASE /\ own = "run" /\ cur.kind = "begin" /\ cur.client \in Clients
             /\ tok' = [tok EXCEPT ![cur.client] = cur.token]
    <3>1. \A c \in Clients : tok[c] # cur.token
      BY <2>3, Zenon DEF RunInv
    <3> QED
      BY <1>1, <2>1, <2>3, <3>1, Zenon
  <2> QED
    BY <2>2, <2>3, OwnerSlots, Zenon
<1>5. ASSUME NEW d \in Clients PROVE TokenOf(d)'
  <2>1. TokenOf(d) /\ Slot(d)
    BY <1>0, Zenon DEF TokenInv
  <2>2. \/ guard'[d] = guard[d]
        \/ guard'[d] = "failed" /\ pc[d] \notin Early
    <3>1. own = "run" /\ cur.kind = "op" => pc[cur.client] \notin Early
      BY Zenon DEF RunInv, TxCommand, TxKinds
    <3> QED
      BY <3>1, OwnerGuard, Zenon DEF Shape
  <2>3. own = "run" /\ cur.kind = "begin" => cur.token # None
    BY Zenon DEF RunInv
  <2>4. pc[d] \in {"new", "wait"} => value[d] = "none"
    BY Zenon DEF ReplyInv, Awaits
  <2>5. /\ pc[d] \in {"new", "wait", "closing", "cancelling"} => tok'[d] = None
        /\ pc[d] = "sent" => (tok'[d] # None <=> value'[d] = "begun")
        /\ pc[d] \in TxPcs => tok'[d] # None
    BY <2>1, <2>3, Zenon DEF TokenOf, Slot, TxPcs
  <2> QED
    BY <1>0, <2>1, <2>2, <2>5, Zenon DEF TokenOf, Early, TxPcs
<1>6. \A i \in 1..Len(commands') : (TxCommand(commands[i]))'
  <2> SUFFICES ASSUME NEW i \in 1..Len(commands'), NEW m, m = commands'[i], m.kind \in TxKinds
               PROVE  /\ m.client \in Clients /\ m.token = tok'[m.client] /\ m.token # None
                      /\ pc'[m.client] \notin Early
    BY Zenon DEF TxCommand
  <2>1. PICK j \in 1..Len(commands) : m = commands[j]
    BY OwnerQueue, Zenon DEF TxKinds
  <2>2. TxCommand(m)
    BY <2>1, Zenon DEF TokenInv
  <2> QED
    BY <1>0, <2>2, KeepToken, Zenon DEF TxCommand
<1>7. 0 < next_pin'
  BY <1>1, <1>2, OwnerPins DEF TokenInv
<1> QED
  BY <1>2, <1>3, <1>4, <1>5, <1>6, <1>7, Zenon DEF TokenInv

\* Where the owner stays off its session, or keeps its work, there is nothing new.
LEMMA OwnerRun ==
  ASSUME Shape, RequestInv, ReplyInv, TokenInv, RunInv, Owner \/ OwnerPanics
  PROVE  RunInv'
<1>0. /\ active_pin \in Nat /\ next_pin \in Nat /\ tok \in [Clients -> Nat]
  BY Zenon DEF Shape
<1>1. CASE own' \notin {"run", "teardown", "drain", "shut"}
  BY <1>1, Zenon DEF RunInv
<1>2. CASE own' \in {"teardown", "drain", "shut"} /\ active_pin' = None
  BY <1>2, Zenon DEF RunInv
<1>3. CASE Start
  <2> DEFINE m == Head(commands)
  <2>1. /\ commands # << >> /\ own' = "run" /\ Works(m) /\ ~IsRejected(m)
        /\ active_pin' = active_pin /\ tok' = tok /\ pc' = pc
    BY <1>3, Zenon DEF Start, Receive, transaction
  <2>2. m \in CommandSet /\ TxCommand(m)
    BY <2>1, HeadType DEF TokenInv, Shape
  <2>3. CASE m.kind = "begin"
    <3>1. cur' = [m EXCEPT !.token = next_pin] /\ next_pin' = next_pin + 1
      BY <1>3, <2>3, Zenon DEF Start, allocate_pin
    <3>2. cur'.kind = "begin" /\ cur'.token = next_pin
      BY <2>2, <2>3, <3>1, Zenon DEF CommandSet
    <3>3. active_pin = None
      BY <2>1, <2>3, Zenon DEF IsRejected
    <3>4. cur'.token # None /\ cur'.token < next_pin' /\ \A c \in Clients : tok'[c] # cur'.token
      BY <1>0, <2>1, <3>1, <3>2 DEF TokenInv, None
    <3> QED
      BY <2>1, <3>2, <3>3, <3>4, Zenon DEF RunInv
  <2>4. CASE m.kind # "begin"
    <3>1. cur' = m
      BY <1>3, <2>4, Zenon DEF Start
    <3>2. (TxCommand(cur))'
      BY <2>1, <2>2, <3>1, Zenon DEF TxCommand
    <3> QED
      BY <2>1, <2>4, <3>1, <3>2, Zenon DEF RunInv, Works, IsRejected
  <2> QED
    BY <2>3, <2>4, Zenon
<1>4. CASE EnterRequest
  <2>1. CASE own' = "run"
    <3>1. cur.kind = "request" /\ cur' = cur /\ ~IsRejected(cur) /\ active_pin' = active_pin
      BY <1>4, <2>1, Zenon DEF EnterRequest, RequestInv, pins
    <3> QED
      BY <2>1, <3>1, Zenon DEF RunInv, IsRejected
  <2> QED
    BY <1>1, <1>4, <2>1, Zenon DEF EnterRequest
<1>5. CASE Skip \/ Reject \/ ReleasePin
  BY <1>1, <1>5, Zenon DEF Skip, Reject, ReleasePin, Receive
<1>6. CASE TakeRequest \/ RollbackAndReleasePin \/ FinishWork \/ FinishBegin \/ FinishOp
           \/ FinishControl
  BY <1>1, <1>6, Zenon DEF TakeRequest, RollbackAndReleasePin, rollback_active_pin,
     FinishWork, FinishBegin, FinishOp, FinishControl
<1>7. CASE ReceiveClose
  <2> DEFINE m == [CloseCommand EXCEPT !.token = active_pin]
  <2>1. m.token = active_pin
    BY Zenon DEF CloseCommand, Command
  <2> HIDE DEF m
  <2>2. CASE active_pin = None /\ own' = "teardown" /\ active_pin' = active_pin
    BY <1>2, <2>2, Zenon
  <2>3. CASE rollback_active_pin(m, "teardown")
    BY <1>1, <1>2, <2>1, <2>3, Zenon DEF rollback_active_pin
  <2>4. CASE own' = "retry"
    BY <1>1, <2>4, Zenon
  <2> QED
    BY <1>7, <2>2, <2>3, <2>4, Zenon DEF ReceiveClose, m
<1>8. CASE FinishRollback
  BY <1>1, <1>2, <1>8, Zenon DEF FinishRollback
<1>9. CASE Teardown \/ wait_for_idle
  BY <1>2, <1>9, Zenon DEF Teardown, wait_for_idle, pins, RunInv
<1>10. CASE LeaveRequest \/ complete_retryable_close \/ Recheck \/ CloseSession \/ Dispose \/ stop
            \/ Complete \/ OwnerPanics
  BY <1>1, <1>10, Zenon DEF LeaveRequest, complete_retryable_close, Recheck, CloseSession,
     Dispose, stop, Complete, OwnerPanics
<1> QED
  BY <1>3, <1>4, <1>5, <1>6, <1>7, <1>8, <1>9, <1>10, ZenonT(40) DEF Owner

\* The owner gives nobody an open transaction but the client whose BEGIN it ran.
LEMMA OwnerHolds ==
  ASSUME Shape, TokenInv, RunInv, HeldInv, Owner \/ OwnerPanics,
         NEW d \in Clients, tok'[d] = tok[d], (Held(d))'
  PROVE  Held(d)
<1>1. active_pin' = tok[d] /\ tok[d] # None /\ inTx' /\ ~transaction_poisoned'
  BY Zenon DEF Held
<1>2. ~transaction_poisoned
  BY <1>1, OwnerPoisons, Zenon
<1>3. own = "run" /\ cur.kind = "begin" => cur.token # tok[d]
  BY Zenon DEF RunInv
<1>4. active_pin' = active_pin
  BY <1>1, <1>3, OwnerPins, Zenon
<1>5. inTx
  BY <1>1, <1>3, OwnerSession, Zenon DEF SessionStep
<1> QED
  BY <1>1, <1>2, <1>4, <1>5, Zenon DEF Held

\* The owner keeps the pin of an open transaction.
LEMMA OwnerKeepsPin ==
  ASSUME Shape, TokenInv, RunInv, HeldInv, Owner \/ OwnerPanics, inTx', ~transaction_poisoned'
  PROVE  active_pin' # None
<1>0. ~transaction_poisoned
  BY OwnerPoisons, Zenon
<1>1. CASE active_pin' = active_pin /\ inTx
  BY <1>0, <1>1, Zenon DEF HeldInv
<1>2. own = "run" /\ cur.kind = "begin" => cur.token # None
  BY Zenon DEF RunInv
<1>3. CASE inTx' = TRUE /\ own = "run" /\ cur.kind = "begin" /\ active_pin' = cur.token
  BY <1>2, <1>3, Zenon
<1>4. CASE inTx' = inTx
  <2>1. CASE Skip \/ TakeRequest \/ EnterRequest \/ Reject \/ Start
    BY <1>1, <1>4, <2>1, Zenon DEF Skip, TakeRequest, EnterRequest, Reject, Start, pins
  <2>2. CASE ReleasePin
    <3> DEFINE m == Head(commands)
    <3>1. /\ commands # << >> /\ m.kind = "release"
          /\ active_pin' = active_pin \/ active_pin = m.token
      BY <2>2, Zenon DEF ReleasePin, Receive
    <3>2. m = commands[1] /\ 1 \in 1..Len(commands)
      BY <3>1 DEF Shape
    <3>3. TxCommand(m) /\ ~Held(m.client)
      BY <3>1, <3>2, Zenon DEF TokenInv, HeldInv
    <3>4. active_pin # m.token
      BY <1>0, <1>4, <3>1, <3>3, Zenon DEF TxCommand, TxKinds, Held
    <3> QED
      BY <1>1, <1>4, <3>1, <3>4, Zenon
  <2>3. CASE RollbackAndReleasePin
    BY <1>0, <1>1, <1>4, <2>3, Zenon DEF RollbackAndReleasePin, rollback_active_pin
  <2>4. CASE ReceiveClose
    BY <1>0, <1>1, <1>4, <2>4, Zenon DEF ReceiveClose, rollback_active_pin, CloseCommand,
       Command
  <2>5. CASE FinishWork \/ FinishOp \/ FinishControl
    BY <1>1, <1>4, <2>5, Zenon DEF FinishWork, FinishOp, FinishControl, pins
  <2>6. CASE FinishBegin
    BY <1>1, <1>2, <1>4, <2>6, Zenon DEF FinishBegin
  <2>7. CASE FinishRollback \/ CloseSession \/ Dispose
    BY <2>7, Zenon DEF FinishRollback, CloseSession, Dispose, AbortTx
  <2>8. CASE LeaveRequest \/ complete_retryable_close \/ Recheck \/ Teardown \/ wait_for_idle
    BY <1>1, <1>4, <2>8, Zenon DEF LeaveRequest, complete_retryable_close, Recheck,
       Teardown, wait_for_idle, pins
  <2>9. CASE stop \/ Complete \/ OwnerPanics
    BY <1>1, <1>4, <2>9, Zenon DEF stop, Complete, OwnerPanics, pins
  <2> QED
    BY <2>1, <2>2, <2>3, <2>4, <2>5, <2>6, <2>7, <2>8, <2>9, ZenonT(40) DEF Owner
<1> QED
  BY <1>3, <1>4, OwnerSession, Zenon DEF SessionStep

LEMMA OwnerHeld ==
  ASSUME Shape, ReplyInv, TokenInv, RunInv, HeldInv, Owner \/ OwnerPanics
  PROVE  HeldInv'
<1>0. pc' = pc /\ (\A d \in Clients : Slot(d))
  BY OwnerFrame, OwnerSlots, Zenon
<1>1. inTx' \in BOOLEAN
  BY OwnerSession, Zenon DEF SessionStep, HeldInv
<1>2. transaction_poisoned' \in BOOLEAN
  BY OwnerPoisons, Zenon DEF HeldInv
<1>3. open' # {} => inTx'
  BY OwnerSession, Zenon DEF SessionStep, HeldInv
<1>4. ASSUME NEW d \in Clients PROVE (HeldOf(d))'
  <2> SUFFICES ASSUME (Held(d))'
               PROVE  /\ pc[d] # "release" /\ guard'[d] \notin {"rolledback", "failed"}
                      /\ value'[d] \notin {"COMMIT", "ROLLBACK"}
    BY <1>0, Zenon DEF HeldOf
  <2>1. TokenOf(d) /\ HeldOf(d) /\ Slot(d)
    BY <1>0, Zenon DEF TokenInv, HeldInv
  <2>2. inTx' /\ ~transaction_poisoned'
    BY Zenon DEF Held
  <2>3. guard'[d] = guard[d]
    BY <2>2, OwnerGuard, Zenon
  <2>4. CASE tok'[d] = tok[d]
    <3>1. Held(d)
      BY <2>4, OwnerHolds, Zenon
    <3>2. /\ pc[d] # "release" /\ guard[d] \notin {"rolledback", "failed"} /\ tok[d] # None
          /\ value[d] \notin {"COMMIT", "ROLLBACK"}
      BY <2>1, <3>1, Zenon DEF HeldOf, Held
    <3>3. pc[d] # "closing"
      BY <2>1, <3>2, Zenon DEF TokenOf
    <3>4. value'[d] \notin {"COMMIT", "ROLLBACK"}
      BY <2>1, <2>2, <3>2, <3>3, Zenon DEF Slot
    <3> QED
      BY <2>3, <3>2, <3>4, Zenon
  <2>5. CASE pc[d] = "sent" /\ value'[d] = "begun"
    BY <2>1, <2>3, <2>5, Zenon DEF TokenOf, Early
  <2> QED
    BY <2>1, <2>4, <2>5, Zenon DEF Slot
<1>5. ASSUME NEW i \in 1..Len(commands'), NEW m, m = commands'[i], m.kind = "release"
      PROVE  ~(Held(m.client))'
  <2>1. PICK j \in 1..Len(commands) : m = commands[j]
    BY <1>5, OwnerQueue, Zenon
  <2>2. TxCommand(m) /\ ~Held(m.client)
    BY <1>5, <2>1, Zenon DEF TokenInv, HeldInv
  <2>3. m.client \in Clients /\ pc[m.client] \notin Early
    BY <1>5, <2>2, Zenon DEF TxCommand, TxKinds
  <2> QED
    BY <1>0, <2>2, <2>3, KeepToken, OwnerHolds, ZenonT(40)
<1>6. \A i \in 1..Len(commands') : commands'[i].kind = "release" => ~(Held(commands[i].client))'
  BY <1>5, Zenon DEF Held
<1> QED
  BY <1>1, <1>2, <1>3, <1>4, <1>6, OwnerKeepsPin, ZenonT(40) DEF HeldInv

LEMMA OwnerAlone ==
  ASSUME Shape, ReplyInv, TokenInv, RunInv, HeldInv, TransactionIsAlone, Owner \/ OwnerPanics
  PROVE  TransactionIsAlone'
<1> SUFFICES ASSUME ~transaction_poisoned', NEW c \in open'
             PROVE  active_pin' = tok'[c] /\ active_pin' # None
  BY Zenon DEF TransactionIsAlone
<1>0. ~transaction_poisoned /\ \A d \in open : active_pin = tok[d] /\ active_pin # None
  <2>1. ~transaction_poisoned
    BY OwnerPoisons, Zenon
  <2> QED
    BY <2>1, Zenon DEF TransactionIsAlone
<1>1. active_pin' # None
  <2>1. inTx'
    BY OwnerHeld, Zenon DEF HeldInv
  <2> QED
    BY <2>1, OwnerKeepsPin, Zenon
<1>2. CASE own = "run" /\ cur.kind = "begin"
  <2>1. active_pin = None
    BY <1>2, Zenon DEF RunInv
  <2>2. open = {}
    BY <1>0, <2>1, Zenon DEF HeldInv
  <2> QED
    BY <1>2, <2>2, OwnerSession, Zenon DEF SessionStep
<1>3. CASE ~(own = "run" /\ cur.kind = "begin")
  <2>1. active_pin' = active_pin /\ tok' = tok
    BY <1>1, <1>3, OwnerPins, OwnerSlots, Zenon
  <2>2. CASE c \in open
    BY <1>0, <2>1, <2>2, Zenon
  <2>3. CASE c = cur.client /\ own = "run" /\ cur.kind \in {"exec", "request", "op"}
    <3>1. cur.kind = "op"
      BY <1>1, <2>1, <2>3, Zenon DEF RunInv
    <3>2. TxCommand(cur) /\ cur.token = active_pin
      BY <2>3, <3>1, Zenon DEF RunInv
    <3> QED
      BY <1>1, <2>1, <2>3, <3>1, <3>2, ZenonT(40) DEF TxCommand, TxKinds
  <2> QED
    BY <1>3, <2>2, <2>3, OwnerSession, Zenon DEF SessionStep
<1> QED
  BY <1>2, <1>3, Zenon

\* Opening the handle and dropping it are no part of a transaction.
LEMMA HandleTokens ==
  ASSUME Shape, TokenInv, RunInv, HeldInv, TransactionIsAlone,
         Opened \/ OpenFails \/ DropHandle \/ DropSchedules \/ UNCHANGED vars
  PROVE  TokenInv' /\ RunInv' /\ HeldInv' /\ TransactionIsAlone'
<1>1. /\ pc' = pc /\ tok' = tok /\ guard' = guard /\ cur' = cur
      /\ active_pin' = active_pin /\ next_pin' = next_pin
  BY Zenon DEF Opened, OpenFails, DropHandle, DropSchedules, vars, transaction, pins
<1>2. own' = own \/ own' = "receive" \/ own' = "panic"
  BY Zenon DEF Opened, OpenFails, DropHandle, DropSchedules, vars
<1>3. inTx' = inTx /\ open' = open /\ transaction_poisoned' = transaction_poisoned
  BY Zenon DEF Opened, OpenFails, DropHandle, DropSchedules, vars, db
<1>4. \A d \in Clients : value'[d] = value[d] \/ pc[d] = "closing"
  <2>1. value' = value \/ \E S, v : Deliver(ToWaiters(S, v))
    BY Zenon DEF Opened, OpenFails, DropHandle, DropSchedules, vars, schedule_terminal_drop_close,
       complete_terminal_close
  <2>2. ASSUME NEW S, NEW v, Deliver(ToWaiters(S, v))
        PROVE  \A d \in Clients : value'[d] = value[d] \/ pc[d] = "closing"
    <3>1. \A d \in Clients : value'[d] = IF d \in {w \in S : pc[w] = "closing"} THEN v ELSE value[d]
      BY <2>2, DeliverShape, Zenon DEF ToWaiters
    <3> QED
      BY <3>1, Zenon
  <2> QED
    BY <2>1, <2>2, Zenon
<1>5. \A i \in 1..Len(commands') :
        commands'[i].kind = "close" \/ \E j \in 1..Len(commands) : commands'[i] = commands[j]
  <2>1. CASE commands' = commands
    BY <2>1, Zenon
  <2>2. CASE commands' = Append(commands, CloseCommand)
    <3>1. PICK m \in CommandSet : m = CloseCommand
      BY CloseType, Zenon
    <3>2. m.kind = "close" /\ commands' = Append(commands, m)
      BY <2>2, <3>1, Zenon DEF CloseCommand, Command
    <3> QED
      BY <3>2 DEF Shape
  <2> QED
    BY <2>1, <2>2, Zenon DEF Opened, OpenFails, DropHandle, DropSchedules, vars,
       schedule_terminal_drop_close
<1>6. \A d \in Clients : (Held(d))' <=> Held(d)
  BY <1>1, <1>3, Zenon DEF Held
<1>7. TokenInv'
  <2>1. \A d \in Clients : (TokenOf(d))'
    BY <1>1, <1>4, Zenon DEF TokenInv, TokenOf
  <2>2. \A i \in 1..Len(commands') : (TxCommand(commands[i]))'
    <3> SUFFICES ASSUME NEW i \in 1..Len(commands'), NEW m, m = commands'[i], m.kind \in TxKinds
                 PROVE  /\ m.client \in Clients /\ m.token = tok[m.client] /\ m.token # None
                        /\ pc[m.client] \notin Early
      BY <1>1, Zenon DEF TxCommand
    <3>1. PICK j \in 1..Len(commands) : m = commands[j]
      BY <1>5, Zenon DEF TxKinds
    <3> QED
      BY <3>1, Zenon DEF TokenInv, TxCommand
  <2> QED
    BY <1>1, <2>1, <2>2, Zenon DEF TokenInv
<1>8. RunInv'
  BY <1>1, <1>2, Zenon DEF RunInv, TxCommand
<1>9. HeldInv'
  <2>1. ASSUME NEW d \in Clients PROVE (HeldOf(d))'
    <3>1. TokenOf(d) /\ HeldOf(d)
      BY Zenon DEF TokenInv, HeldInv
    <3>2. Held(d) => pc[d] # "closing"
      BY <3>1, Zenon DEF Held, TokenOf
    <3> QED
      BY <1>1, <1>4, <1>6, <3>1, <3>2, Zenon DEF HeldOf
  <2>2. ASSUME NEW i \in 1..Len(commands'), NEW m, m = commands'[i], m.kind = "release"
        PROVE  ~(Held(m.client))'
    <3>1. PICK j \in 1..Len(commands) : m = commands[j]
      BY <1>5, <2>2, Zenon
    <3>2. m.client \in Clients /\ ~Held(m.client)
      BY <2>2, <3>1, Zenon DEF TokenInv, HeldInv, TxCommand, TxKinds
    <3> QED
      BY <1>6, <3>2, Zenon
  <2>3. \A i \in 1..Len(commands') : commands'[i].kind = "release" => ~(Held(commands[i].client))'
    BY <2>2, Zenon DEF Held
  <2>4. /\ inTx' \in BOOLEAN /\ transaction_poisoned' \in BOOLEAN /\ (open' # {} => inTx')
        /\ inTx' /\ ~transaction_poisoned' => active_pin' # None
    BY <1>1, <1>3, Zenon DEF HeldInv
  <2> QED
    BY <2>1, <2>3, <2>4, Zenon DEF HeldInv
<1>10. TransactionIsAlone'
  BY <1>1, <1>3, Zenon DEF TransactionIsAlone
<1> QED
  BY <1>7, <1>8, <1>9, <1>10, Zenon

LEMMA ClientAlone ==
  ASSUME Shape, TransactionIsAlone, NEW c \in Clients, Client(c)
  PROVE  TransactionIsAlone'
<1>1. tok' = tok /\ open' = open /\ active_pin' = active_pin
  BY ClientShape, ClientFrame, Zenon
<1>2. transaction_poisoned => transaction_poisoned'
  BY ClientPoisons, Zenon
<1> QED
  BY <1>1, <1>2, Zenon DEF TransactionIsAlone

LEMMA NextTokens ==
  ASSUME Shape, RequestInv, ReplyInv, TokenInv, RunInv, HeldInv, TransactionIsAlone, [Next]_vars
  PROVE  TokenInv' /\ RunInv' /\ HeldInv' /\ TransactionIsAlone'
<1>1. CASE Opened \/ OpenFails \/ DropHandle \/ DropSchedules \/ UNCHANGED vars
  BY <1>1, HandleTokens, Zenon
<1>2. CASE Owner \/ OwnerPanics
  BY <1>2, OwnerTokens, OwnerRun, OwnerHeld, OwnerAlone, Zenon
<1>3. ASSUME NEW c \in Clients, Client(c)
      PROVE  TokenInv' /\ RunInv' /\ HeldInv' /\ TransactionIsAlone'
  BY <1>3, ClientTokens, ClientRun, ClientHeld, ClientAlone, Zenon
<1> QED
  BY <1>1, <1>2, <1>3, Zenon DEF Next

-----------------------------------------------------------------------------
(* The inductive invariant and what follows from it *)

PinInv == TokenInv /\ RunInv /\ HeldInv /\ TransactionIsAlone

LEMMA InitPin == Init => PinInv
<1> SUFFICES ASSUME Init PROVE PinInv
  OBVIOUS
<1>1. /\ commands = << >> /\ own = "opening" /\ active_pin = 0 /\ next_pin = 1
      /\ open = {} /\ inTx = FALSE /\ transaction_poisoned = FALSE
  BY Zenon DEF Init, None
<1>2. \A c \in Clients : pc[c] = "new" /\ tok[c] = 0 /\ guard[c] = "none"
  BY Zenon DEF Init, None
<1>3. 1..Len(commands) = {}
  BY <1>1
<1>4. TokenInv
  BY <1>1, <1>2, <1>3 DEF TokenInv, TokenOf, TxPcs, Early, None
<1>5. RunInv /\ TransactionIsAlone
  BY <1>1, Zenon DEF RunInv, TransactionIsAlone
<1>6. HeldInv
  BY <1>1, <1>3, Zenon DEF HeldInv, HeldOf, Held
<1> QED
  BY <1>4, <1>5, <1>6, Zenon DEF PinInv

LEMMA NextPin == OwnerInv /\ PinInv /\ [Next]_vars => PinInv'
<1> SUFFICES ASSUME OwnerInv, PinInv, [Next]_vars PROVE PinInv'
  OBVIOUS
<1>1. Shape /\ RequestInv /\ ReplyInv
  BY Zenon DEF OwnerInv
<1>2. TokenInv /\ RunInv /\ HeldInv /\ TransactionIsAlone
  BY Zenon DEF PinInv
<1> QED
  BY <1>1, <1>2, NextTokens, Zenon DEF PinInv

(* A token is its transaction's own, what runs beside a pin is the pin's   *)
(* own work, and the pin covers the session's transaction (allocate_pin,   *)
(* execute_command and the release paths).                                 *)
THEOREM PinInvariant == Spec => []PinInv
BY InitPin, NextPin, OwnerInvariant, PTL DEF Spec

(* On a session not poisoned the open transaction is the pin owner's alone *)
(* (execute_command rejects work beside a pin, the pin is given back only  *)
(* when the transaction ended).                                            *)
THEOREM PinnedIsAlone == Spec => []TransactionIsAlone
<1>1. PinInv => TransactionIsAlone
  BY Zenon DEF PinInv
<1> QED
  BY <1>1, PinInvariant, PTL

(* The session is torn down without a transaction, and after the last      *)
(* cancel call (ReceiveClose, stop_accepting and wait_for_idle).           *)
THEOREM TornDownAlone == Spec => []TeardownIsAlone
<1>1. OwnerInv /\ PinInv => TeardownIsAlone
  <2> SUFFICES ASSUME OwnerInv, PinInv PROVE TeardownIsAlone
    OBVIOUS
  <2>0. GateInv /\ RunInv /\ HeldInv
    BY Zenon DEF OwnerInv, PinInv
  <2>1. own \in {"drain", "shut"} => active_pin = None /\ (transaction_poisoned \/ ~inTx)
    BY <2>0, Zenon DEF RunInv, HeldInv
  <2>2. own \in {"shut", "stop", "complete", "stopped"} => cancellations = {} /\ ~accepting
    BY <2>0, Zenon DEF GateInv
  <2> QED
    BY <2>1, <2>2, Zenon DEF TeardownIsAlone
<1> QED
  BY <1>1, OwnerInvariant, PinInvariant, PTL

-----------------------------------------------------------------------------
(* The line of capacity waiters, and the count of what is queued *)

INSTANCE FiniteSetTheorems

LEMMA OrdinaryFinite ==
  ASSUME NEW S, NEW q \in Seq(S)
  PROVE  IsFiniteSet(OrdinaryAt(q)) /\ Cardinality(OrdinaryAt(q)) \in Nat
<1>1. IsFiniteSet(1..Len(q))
  BY FS_Interval
<1>2. IsFiniteSet(OrdinaryAt(q))
  BY <1>1, FS_Subset, Zenon DEF OrdinaryAt
<1> QED
  BY <1>2, FS_CardinalityType, Zenon

LEMMA CountAppend ==
  ASSUME NEW S, NEW q \in Seq(S), NEW m \in S
  PROVE  Cardinality(OrdinaryAt(Append(q, m))) =
           Cardinality(OrdinaryAt(q)) + (IF is_ordinary(m) THEN 1 ELSE 0)
<1>1. /\ Len(q) \in Nat /\ Len(Append(q, m)) = Len(q) + 1
      /\ \A i \in 1..Len(q) : Append(q, m)[i] = q[i]
      /\ Append(q, m)[Len(q) + 1] = m
  OBVIOUS
<1>2. Len(q) + 1 \notin OrdinaryAt(q)
  BY <1>1 DEF OrdinaryAt
<1>3. CASE is_ordinary(m)
  <2>1. OrdinaryAt(Append(q, m)) = OrdinaryAt(q) \cup {Len(q) + 1}
    BY <1>1, <1>3 DEF OrdinaryAt
  <2> QED
    BY <1>2, <1>3, <2>1, OrdinaryFinite, FS_AddElement, ZenonT(40)
<1>4. CASE ~is_ordinary(m)
  <2>1. OrdinaryAt(Append(q, m)) = OrdinaryAt(q)
    BY <1>1, <1>4 DEF OrdinaryAt
  <2> QED
    BY <1>4, <2>1, OrdinaryFinite
<1> QED
  BY <1>3, <1>4, Zenon

LEMMA CountTail ==
  ASSUME NEW S, NEW q \in Seq(S), q # << >>
  PROVE  Cardinality(OrdinaryAt(Tail(q))) =
           Cardinality(OrdinaryAt(q)) - (IF is_ordinary(Head(q)) THEN 1 ELSE 0)
<1> DEFINE A == OrdinaryAt(Tail(q))
           B == OrdinaryAt(q) \ {1}
           shift == [i \in A |-> i + 1]
<1>1. /\ Len(q) \in Nat \ {0} /\ Len(Tail(q)) = Len(q) - 1 /\ Head(q) = q[1]
      /\ Tail(q) \in Seq(S)
      /\ \A i \in 1..Len(q) - 1 : Tail(q)[i] = q[i + 1]
  OBVIOUS
<1>2. \A i \in A : i + 1 \in B
  BY <1>1 DEF OrdinaryAt
<1>3. \A j \in B : j - 1 \in A /\ (j - 1) + 1 = j
  BY <1>1 DEF OrdinaryAt
<1>4. A \subseteq Nat
  BY <1>1 DEF OrdinaryAt
<1> HIDE DEF A, B
<1>5. shift \in Bijection(A, B)
  <2>1. shift \in Injection(A, B)
    BY <1>2, <1>4 DEF Injection, IsInjective
  <2>2. \A j \in B : \E i \in A : shift[i] = j
    BY <1>3, Zenon
  <2>3. shift \in Surjection(A, B)
    BY <2>2, <1>2, Zenon DEF Surjection
  <2> QED
    BY <2>1, <2>3, Zenon DEF Bijection
<1>6. IsFiniteSet(A)
  BY <1>1, OrdinaryFinite, Zenon DEF A
<1>7. Cardinality(A) = Cardinality(B)
  BY <1>5, <1>6, FS_Bijection, Zenon DEF ExistsBijection
<1>8. IsFiniteSet(OrdinaryAt(q)) /\ Cardinality(OrdinaryAt(q)) \in Nat
  BY OrdinaryFinite, Zenon
<1>9. CASE is_ordinary(Head(q))
  <2>1. 1 \in OrdinaryAt(q)
    BY <1>1, <1>9 DEF OrdinaryAt
  <2> QED
    BY <1>7, <1>8, <1>9, <2>1, FS_RemoveElement, ZenonT(40) DEF A, B
<1>10. CASE ~is_ordinary(Head(q))
  <2>1. B = OrdinaryAt(q)
    BY <1>1, <1>10, Zenon DEF OrdinaryAt, B
  <2> QED
    BY <1>7, <1>8, <1>10, <2>1, SMTT(20) DEF A
<1> QED
  BY <1>9, <1>10, Zenon

\* The count of the ordinary commands goes up by one when an ordinary command
\* is added, and down by one when it is taken.
LEMMA Counting == CountFacts
<1>1. Cardinality({}) = 0
  BY FS_EmptySet, Zenon
<1> QED
  BY <1>1, OrdinaryFinite, CountAppend, CountTail, ZenonT(40) DEF CountFacts

QueueInv == LineInv /\ CapInv

LEMMA InitQueue == Init => QueueInv
<1> SUFFICES ASSUME Init PROVE QueueInv
  OBVIOUS
<1>1. /\ commands = << >> /\ admission_waiters = << >> /\ rejected = {}
      /\ ordinary_count = 0
  BY Zenon DEF Init
<1>2. \A c \in Clients : pc[c] = "new"
  BY Zenon DEF Init
<1>3. /\ 1..Len(commands) = {} /\ admission_waiters \in Seq(Clients)
      /\ 1..Len(admission_waiters) = {}
  BY <1>1
<1>4. LineInv
  BY <1>1, <1>2, <1>3, ZenonT(40) DEF LineInv, NoRepeat
<1>5. OrdinaryAt(commands) = {}
  BY <1>3, Zenon DEF OrdinaryAt
<1>6. Cardinality({}) = 0
  BY Counting, Zenon DEF CountFacts
<1>7. 0 <= Capacity
  BY ExecutorAssumption
<1>8. CapInv
  BY <1>1, <1>5, <1>6, <1>7, ZenonT(40) DEF CapInv, Counted, Offered
<1> QED
  BY <1>4, <1>8, Zenon DEF QueueInv

LEMMA NextQueue == OwnerInv /\ QueueInv /\ [Next]_vars => QueueInv'
<1> SUFFICES ASSUME OwnerInv, QueueInv, [Next]_vars PROVE QueueInv'
  OBVIOUS
<1> QED
  BY NextLine, Counting, ZenonT(40) DEF OwnerInv, QueueInv

(* The line of the admission waiters and the count of ordinary commands    *)
(* agree with the clients and the queue (poll_send_ordinary, receive,      *)
(* cancel_admission).                                                      *)
THEOREM QueueInvariant == Spec => []QueueInv
BY InitQueue, NextQueue, OwnerInvariant, PTL DEF Spec

(* Close is a cutoff (close, send and the owner under the admission lock): *)
(* no ordinary work is queued behind it or left at teardown, and no        *)
(* capacity waiter it rejected gets in later.                              *)
THEOREM CloseIsACutoff == Spec => []WorkBeforeClose
<1>1. OwnerInv /\ QueueInv => WorkBeforeClose
  <2> SUFFICES ASSUME OwnerInv, QueueInv PROVE WorkBeforeClose
    OBVIOUS
  <2>0. Shape /\ CutoffInv /\ ReplyInv /\ LineInv
    BY Zenon DEF OwnerInv, QueueInv
  <2>1. DOMAIN commands = 1..Len(commands)
    BY <2>0 DEF Shape
  <2>2. \A i, j \in 1..Len(commands) :
          i < j /\ commands[i].kind = "close" => ~is_ordinary(commands[j])
    BY <2>0, Zenon DEF CutoffInv
  <2>3. own \in {"teardown", "drain", "shut"} =>
          \A i \in 1..Len(commands) : ~is_ordinary(commands[i])
    BY <2>0, Zenon DEF CutoffInv, AtClose, NoOrdinary
  <2>4. ASSUME NEW i \in 1..Len(commands), is_ordinary(commands[i]), commands[i].alive
        PROVE  commands[i].client \notin rejected
    <3>1. pc[commands[i].client] \in {"sent", "opsent"}
      BY <2>0, <2>4, ZenonT(40) DEF ReplyInv, Awaited, AwaitOf, is_ordinary
    <3> QED
      BY <2>0, <3>1, Zenon DEF LineInv, Waiting
  <2> QED
    BY <2>1, <2>2, <2>3, <2>4, ZenonT(40) DEF WorkBeforeClose
<1> QED
  BY <1>1, OwnerInvariant, QueueInvariant, PTL

(* The queue never holds more ordinary work than its capacity, and a free  *)
(* place is on offer to the first in line (poll_send_ordinary, receive and *)
(* cancel_admission wake the next waiter).                                 *)
THEOREM CapacityStaysOffered == Spec => []CapacityIsOffered
<1>1. OwnerInv /\ QueueInv => CapacityIsOffered
  <2> SUFFICES ASSUME OwnerInv, QueueInv PROVE CapacityIsOffered
    OBVIOUS
  <2>1. Shape /\ CapInv
    BY Zenon DEF OwnerInv, QueueInv
  <2>2. {i \in DOMAIN commands : is_ordinary(commands[i])} = OrdinaryAt(commands)
    BY <2>1 DEF OrdinaryAt, Shape
  <2> QED
    BY <2>1, <2>2, Zenon DEF CapInv, Counted, Offered, CapacityIsOffered
<1> QED
  BY <1>1, OwnerInvariant, QueueInvariant, PTL

=============================================================================
