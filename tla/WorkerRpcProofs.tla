--------------------------- MODULE WorkerRpcProofs ---------------------------
(***************************************************************************)
(* Theorems about a session in a worker, for any number of requests and of *)
(* chunks: streams are whole, a close that succeeds left nothing behind,   *)
(* and cleanup is not cut short.                                           *)
(*                                                                         *)
(* RpcInv ties the page's pending request to what the worker has at hand   *)
(* (RequestInv), says where the one chunk that may be on its way is        *)
(* (StreamInv), and that what a message says is still true when the page   *)
(* reads it (MailInv): the page acts on messages that the worker posted    *)
(* long before. On Node at most one message of a live worker is on its     *)
(* way, and the worker is not stopped while it closes its database         *)
(* (NodeInv).                                                              *)
(***************************************************************************)
EXTENDS WorkerRpc, TLAPS

RpcSet == [pending : Methods \cup {"none"}, fatal : BOOLEAN, terminal : BOOLEAN,
           stopped : BOOLEAN]
WorkerSet == [alive : BOOLEAN, job : Methods \cup {"none"},
              pc : {"idle", "run", "wait", "closing", "unwinding"}]
PortSet == [expected : BOOLEAN, observed : BOOLEAN, exited : BOOLEAN,
            exit : {"pending", "ok", "failed"}]
StreamSet == [sent : Nat, aborted : BOOLEAN, seen : Seq(Nat), threw : BOOLEAN, acking : Nat]
Values == Nat \cup Results
Messages == {"chunk", "reply", "error", "exit"} \X Values

(* What the variables hold. *)
Shape ==
  /\ rpc \in RpcSet /\ port \in PortSet /\ worker \in WorkerSet
  /\ stream \in StreamSet /\ control \in [ack : Nat, failed : BOOLEAN]
  /\ outbox \in Seq(Messages)

Working == worker.pc \in {"run", "wait", "closing"}

(* The request that is pending is the one that the worker has at hand, or  *)
(* has answered.                                                           *)
RequestInv ==
  /\ rpc.stopped => rpc.fatal
  /\ rpc.terminal => rpc.fatal
  /\ rpc.pending # "none" => ~rpc.fatal
  /\ Working /\ ~rpc.fatal => rpc.pending = worker.job
  /\ Working => worker.job # "none"
  /\ worker.pc = "wait" => worker.job = "stream"
  /\ worker.pc \in {"closing", "unwinding"} => worker.job = "close"
  /\ session = "absent" => /\ outbox = << >> /\ worker.pc = "idle" /\ ~worker.alive
                           /\ ~rpc.fatal /\ ~port.exited
  /\ rpc.pending # "none" => session \in {"opening", "restoring", "open", "closing"}
  /\ rpc.pending = "close" <=> session = "closing"
  /\ Working /\ worker.job = "stream" => session \in {"open", "closed"}
  /\ worker.job = "close" => session \in {"closing", "exiting", "closed"}

(* One chunk at a time: the callback has seen all that was sent, or the    *)
(* last chunk is on its way, or it is being acknowledged.                  *)
StreamInv ==
  /\ \A i \in 1..Len(stream.seen) : stream.seen[i] = i
  /\ control.failed <=> stream.threw
  /\ \/ stream.sent = Len(stream.seen) /\ stream.acking = 0 /\ control.ack = stream.sent
     \/ /\ stream.sent = Len(stream.seen) + 1 /\ stream.acking = 0
        /\ control.ack = Len(stream.seen) /\ ~control.failed /\ worker.pc = "wait"
     \/ /\ stream.sent = Len(stream.seen) /\ stream.acking = stream.sent
        /\ control.ack < stream.sent /\ worker.pc = "wait"
  /\ worker.pc # "wait" /\ worker.job = "stream" => (stream.aborted <=> control.failed)
  /\ answer = "complete" => ~stream.threw /\ ~(Working /\ worker.job = "stream")
  /\ answer = "callbackAborted" => stream.threw /\ ~(Working /\ worker.job = "stream")

(* What a message on its way says is so. *)
Fits(m) ==
  /\ m[1] = "reply" => /\ ~Working /\ (~rpc.fatal => rpc.pending # "none")
                       /\ m[2] = "complete" => ~stream.threw
                       /\ m[2] = "callbackAborted" => stream.threw
                       /\ m[2] = "ok" /\ session = "closing" => engine = "closed"
  /\ m[1] = "chunk" => m[2] = stream.sent /\ stream.sent = Len(stream.seen) + 1
  /\ m[1] = "exit" => host = "node" /\ ~worker.alive /\ ~port.exited

Single == {"reply", "chunk", "exit"}

MailInv ==
  /\ \A i \in 1..Len(outbox) : Fits(outbox[i])
  /\ \A i, j \in 1..Len(outbox) :
       outbox[i][1] = outbox[j][1] /\ outbox[i][1] \in Single => i = j

(* What a close that succeeds has left behind. *)
CloseInv ==
  /\ session \in {"closing", "exiting"} /\ host = "node" => port.expected
  /\ worker.job = "close" /\ host = "node" => port.expected
  /\ worker.pc = "unwinding" => host = "node"
  /\ session \in {"exiting", "closed"} /\ outcome = "ok" =>
       /\ engine = "closed" /\ ~Working /\ ~rpc.terminal
       /\ host = "browser" => rpc.stopped
       /\ host = "node" => port.expected /\ port.observed /\ ~rpc.stopped
  /\ session = "closed" /\ outcome = "ok" /\ host = "node" => port.exit = "ok"
  /\ port.exited => ~worker.alive
  /\ port.exit = "ok" => port.exited
  /\ host \in {"node", "browser"}

(* A Node worker that is alive has at most one message on its way, and is  *)
(* stopped while it closes its database only if the reply was unreadable.  *)
NodeInv ==
  host = "node" /\ worker.alive =>
    /\ Len(outbox) <= 1
    /\ outbox # << >> =>
         /\ stream.acking = 0 /\ worker.pc \in {"idle", "wait", "unwinding"}
         /\ worker.pc = "wait" => control.ack < stream.sent
         /\ ~rpc.fatal => rpc.pending # "none"
         /\ rpc.pending = "close" => worker.pc = "unwinding"
    /\ rpc.stopped => /\ ~(Working /\ worker.job = "close")
                      /\ worker.pc = "unwinding" => port.exit = "failed"
    /\ worker.pc = "unwinding" => port.expected

RpcInv == Shape /\ RequestInv /\ StreamInv /\ MailInv /\ CloseInv /\ NodeInv

-----------------------------------------------------------------------------
(* Messages *)

LEMMA TakeMessage ==
  ASSUME Shape, outbox # << >>, outbox' = Tail(outbox)
  PROVE  /\ outbox' \in Seq(Messages) /\ Len(outbox') = Len(outbox) - 1
         /\ 1 \in 1..Len(outbox) /\ Head(outbox) = outbox[1]
         /\ \A i \in 1..Len(outbox') : i + 1 \in 1..Len(outbox) /\ outbox'[i] = outbox[i + 1]
BY DEF Shape

LEMMA AddMessage ==
  ASSUME Shape, NEW m \in Messages, outbox' = Append(outbox, m)
  PROVE  /\ outbox' \in Seq(Messages) /\ Len(outbox') = Len(outbox) + 1
         /\ outbox'[Len(outbox) + 1] = m /\ outbox' # << >>
         /\ \A i \in 1..Len(outbox) : outbox'[i] = outbox[i]
         /\ 1..Len(outbox') = 1..Len(outbox) \cup {Len(outbox) + 1}
BY DEF Shape

\* The page reads a message: those behind it still fit.
LEMMA ReadMail ==
  ASSUME Shape, MailInv, outbox # << >>, outbox' = Tail(outbox),
         \A m \in Messages :
           /\ Fits(m)
           /\ (m[1] \in Single => m[1] # Head(outbox)[1])
           => Fits(m)'
  PROVE  MailInv'
<1>1. /\ 1 \in 1..Len(outbox) /\ Head(outbox) = outbox[1] /\ Len(outbox') \in Nat
      /\ \A i \in 1..Len(outbox') : i + 1 \in 1..Len(outbox) /\ outbox'[i] = outbox[i + 1]
  BY TakeMessage DEF Shape
<1>2. ASSUME NEW i \in 1..Len(outbox') PROVE Fits(outbox[i])'
  <2>1. PICK m \in Messages : m = outbox[i + 1] /\ m = outbox'[i]
    BY <1>1 DEF Shape
  <2>2. Fits(m)
    BY <1>1, <2>1, Zenon DEF MailInv
  <2>3. m[1] \in Single => m[1] # Head(outbox)[1]
    <3>1. i + 1 \in 1..Len(outbox) /\ i + 1 # 1
      BY <1>1
    <3> QED
      BY <1>1, <2>1, <3>1, Zenon DEF MailInv
  <2>4. Fits(m)'
    BY <2>2, <2>3, Zenon
  <2> QED
    BY <2>1, <2>4, Zenon DEF Fits, Working
<1>3. ASSUME NEW i \in 1..Len(outbox'), NEW j \in 1..Len(outbox'),
             outbox'[i][1] = outbox'[j][1], outbox'[i][1] \in Single
      PROVE  i = j
  <2>0. /\ i + 1 \in 1..Len(outbox) /\ outbox'[i] = outbox[i + 1]
        /\ j + 1 \in 1..Len(outbox) /\ outbox'[j] = outbox[j + 1]
    BY <1>1, Zenon
  <2>1. i + 1 = j + 1
    BY <1>3, <2>0, Zenon DEF MailInv
  <2> QED
    BY <2>1
<1> QED
  BY <1>2, <1>3, Zenon DEF MailInv

\* Nothing is read, and what was on its way still fits; a message of a new
\* kind, or an error, is added.
LEMMA PostMail ==
  ASSUME Shape, MailInv, \A m \in Messages : Fits(m) => Fits(m)',
         NEW m \in Messages, outbox' = Append(outbox, m), Fits(m)',
         m[1] \in Single =>
           \A i \in 1..Len(outbox) : outbox[i][1] # m[1]
  PROVE  MailInv'
<1>1. /\ outbox'[Len(outbox) + 1] = m /\ \A i \in 1..Len(outbox) : outbox'[i] = outbox[i]
      /\ 1..Len(outbox') = 1..Len(outbox) \cup {Len(outbox) + 1}
  BY AddMessage, Zenon
<1>2. ASSUME NEW i \in 1..Len(outbox') PROVE Fits(outbox[i])'
  <2>1. CASE i \in 1..Len(outbox)
    <3>1. PICK n \in Messages : n = outbox[i] /\ n = outbox'[i]
      BY <1>1, <2>1 DEF Shape
    <3>2. Fits(n)
      BY <2>1, <3>1, Zenon DEF MailInv
    <3>3. Fits(n)'
      BY <3>2, Zenon
    <3> QED
      BY <3>1, <3>3, Zenon DEF Fits, Working
  <2>2. CASE i = Len(outbox) + 1
    BY <1>1, <2>2, Zenon DEF Fits, Working
  <2> QED
    BY <1>1, <2>1, <2>2, Zenon
<1>3. ASSUME NEW i \in 1..Len(outbox'), NEW j \in 1..Len(outbox'),
             outbox'[i][1] = outbox'[j][1], outbox'[i][1] \in Single
      PROVE  i = j
  BY <1>1, <1>3, Zenon DEF MailInv
<1> QED
  BY <1>2, <1>3, Zenon DEF MailInv

LEMMA SameMail ==
  ASSUME Shape, MailInv, outbox' = outbox, \A m \in Messages : Fits(m) => Fits(m)'
  PROVE  MailInv'
<1>1. ASSUME NEW i \in 1..Len(outbox') PROVE Fits(outbox[i])'
  <2>1. PICK n \in Messages : n = outbox[i] /\ n = outbox'[i]
    BY DEF Shape
  <2>2. Fits(n)'
    BY <2>1, Zenon DEF MailInv
  <2> QED
    BY <2>1, <2>2, Zenon DEF Fits, Working
<1> QED
  BY <1>1, Zenon DEF MailInv

LEMMA ForgetMail ==
  ASSUME NEW m \in Messages, outbox' = <<m>>, Fits(m)'
  PROVE  MailInv'
<1>1. 1..Len(outbox') = {1} /\ outbox'[1] = m
  OBVIOUS
<1>2. ASSUME NEW i \in 1..Len(outbox') PROVE Fits(outbox[i])'
  BY <1>1, Zenon DEF Fits, Working
<1> QED
  BY <1>1, <1>2, Zenon DEF MailInv

-----------------------------------------------------------------------------
(* The page: requests *)

LEMMA OpenInv ==
  ASSUME RpcInv, NEW method \in {"open", "restore"}, Open(method)
  PROVE  RpcInv'
<1>0. Shape /\ RequestInv /\ StreamInv /\ MailInv /\ CloseInv /\ NodeInv
  BY Zenon DEF RpcInv
<1>1. /\ outbox = << >> /\ worker.pc = "idle" /\ session = "absent"
      /\ ~rpc.fatal /\ ~port.exited
  BY <1>0, Zenon DEF Open, RequestInv
<1>2. /\ rpc' \in RpcSet /\ rpc'.pending = method /\ rpc'.fatal = rpc.fatal
      /\ rpc'.terminal = rpc.terminal /\ rpc'.stopped = rpc.stopped
  BY <1>0, Zenon DEF Open, Shape, RpcSet, Methods
<1>3. worker' \in WorkerSet /\ worker'.pc = "run" /\ worker'.job = method
  BY Zenon DEF Open, WorkerSet, Methods
<1>4. /\ session' \in {"opening", "restoring"}
      /\ UNCHANGED <<host, outcome, port, asked, answer, engine, stream, control, outbox>>
  BY Zenon DEF Open, streamVars
<1>5. Shape'
  BY <1>0, <1>2, <1>3, <1>4, Zenon DEF Shape
<1>6. RequestInv'
  BY <1>0, <1>1, <1>2, <1>3, <1>4, Zenon DEF RequestInv
<1>7. StreamInv'
  BY <1>0, <1>1, <1>3, <1>4, Zenon DEF StreamInv
<1>8. MailInv'
  BY <1>1, <1>4 DEF MailInv
<1>9. CloseInv'
  BY <1>0, <1>1, <1>3, <1>4, Zenon DEF CloseInv
<1>10. NodeInv'
  BY <1>0, <1>1, <1>2, <1>3, <1>4 DEF NodeInv, RequestInv
<1> QED
  BY <1>5, <1>6, <1>7, <1>8, <1>9, <1>10, Zenon DEF RpcInv

LEMMA RequestKeeps ==
  ASSUME RpcInv, NEW method \in {"exec", "stream"}, Request(method)
  PROVE  RpcInv'
<1>0. Shape /\ RequestInv /\ StreamInv /\ MailInv /\ CloseInv /\ NodeInv
  BY Zenon DEF RpcInv
<1>1. /\ session = "open" /\ rpc.pending = "none"
      /\ UNCHANGED <<host, session, outcome, port, engine, outbox>>
  BY Zenon DEF Request
<1>2. CASE rpc.fatal
  <2>1. answer' = "failed" /\ UNCHANGED <<rpc, worker, stream, control>>
    BY <1>2, Zenon DEF Request, streamVars
  <2>2. Shape' /\ RequestInv' /\ CloseInv' /\ NodeInv'
    BY <1>0, <1>1, <2>1, Zenon DEF Shape, RequestInv, CloseInv, NodeInv, Working
  <2>3. StreamInv'
    BY <1>0, <1>1, <2>1, Zenon DEF StreamInv, Working
  <2>4. MailInv'
    BY <1>0, <1>1, <2>1, SameMail, Zenon DEF Fits, Working
  <2> QED
    BY <2>2, <2>3, <2>4, Zenon DEF RpcInv
<1>3. CASE ~rpc.fatal
  <2>1. ~Working /\ \A i \in 1..Len(outbox) : outbox[i][1] \notin {"reply", "chunk"}
    <3>1. ~Working
      BY <1>0, <1>1, <1>3, Zenon DEF RequestInv, Shape, WorkerSet, Methods, Working
    <3> QED
      BY <1>0, <1>1, <1>3, <3>1 DEF MailInv, Fits, StreamInv, Working
  <2>2. /\ rpc' \in RpcSet /\ rpc'.pending = method /\ rpc'.fatal = rpc.fatal
        /\ rpc'.terminal = rpc.terminal /\ rpc'.stopped = rpc.stopped
    BY <1>0, <1>3, Zenon DEF Request, Send, Shape, RpcSet, Methods
  <2>3. /\ worker' \in WorkerSet /\ worker'.pc = "run" /\ worker'.job = method
        /\ worker'.alive = worker.alive
    BY <1>0, <1>3, Zenon DEF Request, Send, Shape, WorkerSet, Methods
  <2>4. answer' = "none"
    BY <1>3, Zenon DEF Request
  <2>5. method # "stream" => UNCHANGED <<stream, control>>
    BY <1>3, Zenon DEF Request, streamVars
  <2>12. ASSUME method = "stream"
         PROVE  /\ stream' \in StreamSet /\ control' \in [ack : Nat, failed : BOOLEAN]
                /\ stream'.sent = 0 /\ stream'.aborted = FALSE /\ stream'.seen = << >>
                /\ stream'.threw = FALSE /\ stream'.acking = 0
                /\ control'.ack = 0 /\ control'.failed = FALSE
    <3>1. /\ stream' = [sent |-> 0, aborted |-> FALSE, seen |-> << >>, threw |-> FALSE,
                        acking |-> 0]
          /\ control' = [ack |-> 0, failed |-> FALSE]
      BY <1>3, <2>12, Zenon DEF Request
    <3> QED
      BY <3>1 DEF StreamSet
  <2>6. Shape'
    BY <1>0, <1>1, <2>2, <2>3, <2>5, <2>12, Zenon DEF Shape
  <2>7. RequestInv'
    BY <1>0, <1>1, <1>3, <2>2, <2>3, Zenon DEF RequestInv, Working
  <2>8. StreamInv'
    <3>1. CASE method # "stream"
      BY <1>0, <1>1, <2>1, <2>3, <2>4, <2>5, <3>1, Zenon DEF StreamInv, Working
    <3>2. CASE method = "stream"
      <4>1. 1..Len(stream'.seen) = {} /\ stream'.sent = Len(stream'.seen)
        BY <2>12, <3>2
      <4> QED
        BY <2>3, <2>4, <2>12, <3>2, <4>1, Zenon DEF StreamInv
    <3> QED
      BY <3>1, <3>2, Zenon
  <2>9. MailInv'
    BY <1>0, <1>1, <2>1, <2>3, Zenon DEF MailInv, Fits
  <2>10. CloseInv'
    BY <1>0, <1>1, <2>3, Zenon DEF CloseInv
  <2>11. NodeInv'
    BY <1>0, <1>1, <1>3, <2>2, <2>3, Zenon DEF NodeInv, RequestInv
  <2> QED
    BY <2>6, <2>7, <2>8, <2>9, <2>10, <2>11, Zenon DEF RpcInv
<1> QED
  BY <1>2, <1>3, Zenon

LEMMA CloseKeeps == ASSUME RpcInv, Close PROVE RpcInv'
<1>0. Shape /\ RequestInv /\ StreamInv /\ MailInv /\ CloseInv /\ NodeInv
  BY Zenon DEF RpcInv
<1>1. /\ session = "open" /\ rpc.pending = "none"
      /\ UNCHANGED <<host, asked, answer, engine, stream, control, outbox>>
  BY Zenon DEF Close, streamVars
<1>2. CASE rpc.fatal
  <2>1. session' = "closed" /\ outcome' = "failed" /\ UNCHANGED <<rpc, port, worker>>
    BY <1>2, Zenon DEF Close
  <2>2. Shape' /\ RequestInv' /\ CloseInv' /\ NodeInv'
    BY <1>0, <1>1, <2>1, Zenon DEF Shape, RequestInv, CloseInv, NodeInv, Working
  <2>3. StreamInv'
    BY <1>0, <1>1, <2>1, Zenon DEF StreamInv, Working
  <2>4. MailInv'
    BY <1>0, <1>1, <2>1, SameMail, Zenon DEF Fits, Working
  <2> QED
    BY <2>2, <2>3, <2>4, Zenon DEF RpcInv
<1>3. CASE ~rpc.fatal
  <2>1. ~Working /\ \A i \in 1..Len(outbox) : outbox[i][1] \notin {"reply", "chunk"}
    <3>1. ~Working
      BY <1>0, <1>1, <1>3, Zenon DEF RequestInv, Shape, WorkerSet, Methods, Working
    <3> QED
      BY <1>0, <1>1, <1>3, <3>1 DEF MailInv, Fits, StreamInv, Working
  <2>2. /\ rpc' \in RpcSet /\ rpc'.pending = "close" /\ rpc'.fatal = rpc.fatal
        /\ rpc'.terminal = rpc.terminal /\ rpc'.stopped = rpc.stopped
    BY <1>0, <1>3, Zenon DEF Close, Send, Shape, RpcSet, Methods
  <2>3. /\ worker' \in WorkerSet /\ worker'.pc = "run" /\ worker'.job = "close"
        /\ worker'.alive = worker.alive
    BY <1>0, <1>3, Zenon DEF Close, Send, Shape, WorkerSet, Methods
  <2>4. /\ port' \in PortSet /\ port'.expected = (host = "node")
        /\ port'.exited = port.exited /\ port'.exit = port.exit
    BY <1>0, <1>3, Zenon DEF Close, Shape, PortSet
  <2>5. session' = "closing" /\ outcome' = outcome
    BY <1>3, Zenon DEF Close
  <2>6. Shape'
    BY <1>0, <1>1, <2>2, <2>3, <2>4, Zenon DEF Shape
  <2>7. RequestInv'
    BY <1>0, <1>1, <1>3, <2>2, <2>3, <2>5, Zenon DEF RequestInv, Working
  <2>8. StreamInv'
    BY <1>0, <1>1, <2>1, <2>3, Zenon DEF StreamInv, Working
  <2>9. MailInv'
    BY <1>0, <1>1, <2>1, <2>3, <2>4, Zenon DEF MailInv, Fits
  <2>10. CloseInv'
    BY <1>0, <1>1, <2>3, <2>4, <2>5, Zenon DEF CloseInv
  <2>11. NodeInv'
    BY <1>0, <1>1, <1>3, <2>2, <2>3, <2>4, Zenon DEF NodeInv, RequestInv
  <2> QED
    BY <2>6, <2>7, <2>8, <2>9, <2>10, <2>11, Zenon DEF RpcInv
<1> QED
  BY <1>2, <1>3, Zenon

-----------------------------------------------------------------------------
(* The page: how a request settles *)

LEMMA SettleFacts ==
  ASSUME Shape, RequestInv, rpc.pending # "none", NEW result, NEW r \in RpcSet,
         r.pending = "none", Settle(result, r)
  PROVE  /\ rpc' \in RpcSet /\ rpc'.pending = "none" /\ rpc'.terminal = r.terminal
         /\ rpc'.stopped = (Terminates(result) \/ r.stopped)
         /\ rpc'.fatal = (Terminates(result) \/ r.fatal)
         /\ session = "open" => session' = "open" /\ outcome' = outcome /\ answer' = result
         /\ session = "closing" => session' = "exiting" /\ outcome' = result /\ answer' = answer
         /\ session \in {"opening", "restoring"} =>
              session' \in {"open", "refusing", "stopping"} /\ answer' = answer
         /\ session \in {"opening", "restoring", "open", "closing"}
<1>1. session \in {"opening", "restoring", "open", "closing"}
  BY Zenon DEF RequestInv
<1>2. /\ Stop(r) \in RpcSet /\ Stop(r).pending = "none" /\ Stop(r).terminal = r.terminal
      /\ Stop(r).stopped = TRUE /\ Stop(r).fatal = TRUE
  BY Zenon DEF Stop, RpcSet
<1>3. Terminates(result) \in BOOLEAN /\ r.stopped \in BOOLEAN /\ r.fatal \in BOOLEAN
  BY Zenon DEF Terminates, RpcSet
<1>4. CASE Terminates(result)
  <2>1. rpc' = Stop(r)
    BY <1>4, Zenon DEF Settle
  <2>2. /\ rpc' \in RpcSet /\ rpc'.pending = "none" /\ rpc'.terminal = r.terminal
        /\ rpc'.stopped = TRUE /\ rpc'.fatal = TRUE
    BY <1>2, <2>1, Zenon
  <2>3. rpc'.stopped = (Terminates(result) \/ r.stopped)
    BY <1>3, <1>4, <2>2, Zenon
  <2>4. rpc'.fatal = (Terminates(result) \/ r.fatal)
    BY <1>3, <1>4, <2>2, Zenon
  <2> QED
    BY <1>1, <2>2, <2>3, <2>4, Zenon DEF Settle
<1>5. CASE ~Terminates(result)
  <2>1. rpc' = r
    BY <1>5, Zenon DEF Settle
  <2>2. rpc'.stopped = (Terminates(result) \/ r.stopped)
    BY <1>3, <1>5, <2>1, Zenon
  <2>3. rpc'.fatal = (Terminates(result) \/ r.fatal)
    BY <1>3, <1>5, <2>1, Zenon
  <2> QED
    BY <1>1, <2>1, <2>2, <2>3, Zenon DEF Settle
<1> QED
  BY <1>4, <1>5, Zenon

\* A failure: the RPC object is stopped, and what was pending has failed.
Stopped ==
  /\ rpc' \in RpcSet /\ rpc'.pending = "none" /\ rpc'.fatal /\ rpc'.stopped
  /\ rpc'.terminal => rpc.terminal \/ ~rpc.stopped
  /\ rpc.pending = "none" => session' = session /\ outcome' = outcome /\ answer' = answer
  /\ rpc.pending # "none" =>
       /\ session = "open" => session' = "open" /\ answer' = "failed"
       /\ session = "closing" => session' = "exiting" /\ outcome' = "failed" /\ answer' = answer
       /\ session \in {"opening", "restoring"} =>
            session' \in {"open", "refusing", "stopping"} /\ answer' = answer

LEMMA FatalFacts ==
  ASSUME Shape, RequestInv, Fatal
  PROVE  \/ UNCHANGED <<rpc, session, outcome, answer>> /\ rpc.stopped
         \/ Stopped
<1>1. CASE host = "node" /\ rpc.stopped
  BY <1>1, Zenon DEF Fatal
<1>2. CASE ~(host = "node" /\ rpc.stopped)
  <2> DEFINE r == [Stop(rpc) EXCEPT !.terminal = rpc.terminal \/ ~rpc.stopped]
  <2>1. /\ r \in RpcSet /\ r.pending = "none" /\ r.fatal /\ r.stopped
        /\ r.terminal = (rpc.terminal \/ ~rpc.stopped)
    BY Zenon DEF Shape, RpcSet, Stop
  <2>2. IF rpc.pending # "none" THEN Settle("failed", r)
        ELSE rpc' = r /\ UNCHANGED <<session, outcome, answer>>
    BY <1>2, Zenon DEF Fatal, Fail
  <2> HIDE DEF r
  <2>3. CASE rpc.pending = "none"
    BY <2>1, <2>2, <2>3, Zenon DEF Stopped
  <2>4. CASE rpc.pending # "none"
    BY <2>1, <2>2, <2>4, SettleFacts, Zenon DEF Stopped
  <2> QED
    BY <2>3, <2>4, Zenon
<1> QED
  BY <1>1, <1>2, Zenon

\* What the events error and exit have in common: the port may note the exit,
\* and the RPC object may be stopped.
LEMMA LossKeeps ==
  ASSUME RpcInv, outbox # << >>, outbox' = Tail(outbox), Head(outbox)[1] \in {"error", "exit"},
         UNCHANGED <<host, asked, worker, engine, stream, control>>,
         UNCHANGED <<rpc, session, outcome, answer>> \/ Stopped,
         port.expected /\ port.observed => UNCHANGED <<rpc, session, outcome, answer>>,
         port' \in PortSet, port'.expected = port.expected, port'.observed = port.observed,
         port'.exited => port.exited \/ (~worker.alive /\ Head(outbox)[1] = "exit"),
         port.exit = "ok" => port'.exit = "ok", port'.exit = "ok" => port'.exited,
         host = "node" /\ worker.alive /\ rpc'.stopped /\ worker.pc = "unwinding" =>
           port'.exit = "failed"
  PROVE  RpcInv'
<1>0. Shape /\ RequestInv /\ StreamInv /\ MailInv /\ CloseInv /\ NodeInv
  BY Zenon DEF RpcInv
<1>1. outbox' \in Seq(Messages) /\ Len(outbox') = Len(outbox) - 1 /\ Len(outbox) \in Nat
  BY <1>0, TakeMessage DEF Shape
<1>2. Shape'
  BY <1>0, <1>1, Zenon DEF Shape, Stopped
<1>3. RequestInv'
  <2>1. CASE UNCHANGED <<rpc, session, outcome, answer>>
    BY <1>0, <2>1, Zenon DEF RequestInv, Working
  <2>2. CASE Stopped
    <3>1. session # "absent" /\ session' # "absent"
      BY <1>0, <2>2, Zenon DEF RequestInv, Stopped
    <3>2. rpc'.pending = "none" /\ rpc'.fatal /\ session' # "closing"
      BY <1>0, <2>2, Zenon DEF RequestInv, Stopped
    <3>3. Working /\ worker.job = "stream" => session' \in {"open", "closed"}
      BY <1>0, <2>2, Zenon DEF RequestInv, Stopped
    <3>4. worker.job = "close" => session' \in {"closing", "exiting", "closed"}
      BY <1>0, <2>2, Zenon DEF RequestInv, Stopped
    <3> QED
      BY <1>0, <3>1, <3>2, <3>3, <3>4, Zenon DEF RequestInv, Working
  <2> QED
    BY <2>1, <2>2, Zenon
<1>4. StreamInv'
  BY <1>0, Zenon DEF StreamInv, RequestInv, Stopped, Working
<1>5. MailInv'
  <2>1. ASSUME NEW m \in Messages, Fits(m), m[1] \in Single => m[1] # Head(outbox)[1]
        PROVE  Fits(m)'
    <3>1. m[1] = "exit" => ~port'.exited
      BY <2>1, Zenon DEF Fits, Single
    <3>2. m[1] = "reply" =>
            /\ rpc'.fatal \/ UNCHANGED <<rpc, session>>
            /\ session' = "closing" => session = "closing"
      BY <1>0, Zenon DEF Stopped, RequestInv
    <3> QED
      BY <2>1, <3>1, <3>2, Zenon DEF Fits, Working
  <2> QED
    BY <1>0, <2>1, ReadMail, Zenon
<1>6. CloseInv'
  <2>1. port'.exited => ~worker.alive
    BY <1>0, Zenon DEF CloseInv
  <2>2. CASE UNCHANGED <<rpc, session, outcome, answer>>
    BY <1>0, <2>1, <2>2, Zenon DEF CloseInv, Working
  <2>3. CASE Stopped /\ ~(port.expected /\ port.observed)
    <3>1. session' \in {"closing", "exiting"} => session \in {"closing", "exiting"}
      BY <1>0, <2>3, Zenon DEF Stopped, RequestInv
    <3>2. ASSUME session' \in {"exiting", "closed"}, outcome' = "ok"
          PROVE  session' = session /\ outcome' = outcome
      BY <1>0, <2>3, <3>2, Zenon DEF Stopped, RequestInv
    <3> QED
      BY <1>0, <2>1, <2>3, <3>1, <3>2, Zenon DEF CloseInv, Working, Stopped
  <2> QED
    BY <2>2, <2>3, Zenon
<1>7. NodeInv'
  <2> SUFFICES ASSUME host = "node", worker.alive PROVE NodeInv'
    BY Zenon DEF NodeInv
  <2>1. Len(outbox) = 1 /\ worker.pc \in {"idle", "wait", "unwinding"}
    BY <1>0, <1>1 DEF NodeInv
  <2>2. outbox' = << >> /\ Len(outbox') <= 1
    BY <1>1, <2>1
  <2>3. ~(Working /\ worker.job = "close")
    BY <1>0, <2>1, Zenon DEF Working, RequestInv
  <2> QED
    BY <1>0, <2>2, <2>3, Zenon DEF NodeInv, Working
<1> QED
  BY <1>2, <1>3, <1>4, <1>5, <1>6, <1>7, Zenon DEF RpcInv

-----------------------------------------------------------------------------
(* The page: events of the worker *)

LEMMA OnErrorKeeps == ASSUME RpcInv, OnError PROVE RpcInv'
<1>0. Shape /\ RequestInv /\ StreamInv /\ MailInv /\ CloseInv /\ NodeInv
  BY Zenon DEF RpcInv
<1>1. /\ outbox # << >> /\ Head(outbox)[1] = "error" /\ outbox' = Tail(outbox)
      /\ UNCHANGED <<host, asked, worker, engine, stream, control>>
  BY Zenon DEF OnError, Event, streamVars
<1>2. UNCHANGED <<rpc, session, outcome, answer>> \/ Stopped
  BY <1>0, FatalFacts, Zenon DEF OnError
<1>3. port.expected /\ port.observed => UNCHANGED <<rpc, session, outcome, answer>>
  BY Zenon DEF OnError
<1>4. /\ port' \in PortSet /\ port'.expected = port.expected /\ port'.observed = port.observed
      /\ port'.exited = port.exited
      /\ port'.exit = IF port.expected /\ ~port.exited /\ port.exit = "pending"
                      THEN "failed" ELSE port.exit
  BY <1>0, Zenon DEF OnError, Shape, PortSet
<1>5. ASSUME host = "node", worker.alive, rpc'.stopped, worker.pc = "unwinding"
      PROVE  port'.exit = "failed"
  <2>1. ~port.exited /\ port.expected
    BY <1>0, <1>5, Zenon DEF NodeInv, CloseInv
  <2>2. port.exit \in {"pending", "failed"}
    BY <1>0, <2>1, Zenon DEF CloseInv, Shape, PortSet
  <2> QED
    BY <1>4, <2>1, <2>2, Zenon
<1> QED
  BY <1>0, <1>1, <1>2, <1>3, <1>4, <1>5, LossKeeps, Zenon DEF CloseInv

LEMMA OnExitKeeps == ASSUME RpcInv, OnExit PROVE RpcInv'
<1>0. Shape /\ RequestInv /\ StreamInv /\ MailInv /\ CloseInv /\ NodeInv
  BY Zenon DEF RpcInv
<1>1. /\ outbox # << >> /\ Head(outbox)[1] = "exit" /\ outbox' = Tail(outbox)
      /\ UNCHANGED <<host, asked, worker, engine, stream, control>>
  BY Zenon DEF OnExit, Event, streamVars
<1>2. UNCHANGED <<rpc, session, outcome, answer>> \/ Stopped
  BY <1>0, FatalFacts, Zenon DEF OnExit
<1>3. port.expected /\ port.observed => UNCHANGED <<rpc, session, outcome, answer>>
  BY Zenon DEF OnExit
<1>4. /\ port' \in PortSet /\ port'.expected = port.expected /\ port'.observed = port.observed
      /\ port'.exited = TRUE
  BY <1>0, Zenon DEF OnExit, Shape, PortSet
<1>5. ~worker.alive /\ ~port.exited
  BY <1>0, <1>1, TakeMessage, Zenon DEF MailInv, Fits
<1> QED
  BY <1>0, <1>1, <1>2, <1>3, <1>4, <1>5, LossKeeps, Zenon DEF CloseInv

\* The port notes a message after close(), and nothing else.
LEMMA ObservedFacts ==
  ASSUME Shape, port' = Observed
  PROVE  /\ port' \in PortSet /\ port'.expected = port.expected /\ port'.exited = port.exited
         /\ port'.exit = port.exit /\ port'.observed = (port.observed \/ port.expected)
BY Zenon DEF Observed, Shape, PortSet

LEMMA OnChunkKeeps == ASSUME RpcInv, OnChunk PROVE RpcInv'
<1>0. Shape /\ RequestInv /\ StreamInv /\ MailInv /\ CloseInv /\ NodeInv
  BY Zenon DEF RpcInv
<1>1. /\ outbox # << >> /\ Head(outbox)[1] = "chunk" /\ outbox' = Tail(outbox)
      /\ UNCHANGED <<host, session, outcome, rpc, asked, answer, worker, engine>>
      /\ port' = Observed
  BY Zenon DEF OnChunk, Event
<1>2. /\ outbox' \in Seq(Messages) /\ Len(outbox') = Len(outbox) - 1 /\ Len(outbox) \in Nat
      /\ 1 \in 1..Len(outbox) /\ Head(outbox) = outbox[1]
  BY <1>0, <1>1, TakeMessage DEF Shape
<1>3. /\ port' \in PortSet /\ port'.expected = port.expected /\ port'.exited = port.exited
      /\ port'.exit = port.exit /\ port'.observed = (port.observed \/ port.expected)
  BY <1>0, <1>1, ObservedFacts, Zenon
<1>4. /\ Head(outbox)[2] = stream.sent /\ stream.sent = Len(stream.seen) + 1
      /\ stream.acking = 0 /\ control.ack = Len(stream.seen) /\ ~control.failed
      /\ worker.pc = "wait" /\ Len(stream.seen) \in Nat
  <2>1. Head(outbox)[2] = stream.sent /\ stream.sent = Len(stream.seen) + 1
    BY <1>0, <1>1, <1>2, Zenon DEF MailInv, Fits
  <2>2. Len(stream.seen) \in Nat
    BY <1>0 DEF Shape, StreamSet
  <2> QED
    BY <1>0, <2>1, <2>2 DEF StreamInv
<1>5. RequestInv'
  BY <1>0, <1>1, <1>3, Zenon DEF RequestInv, Working
<1>6. CloseInv'
  BY <1>0, <1>1, <1>3, Zenon DEF CloseInv, Working
<1>7. Shape' /\ StreamInv' /\ MailInv' /\ NodeInv'
  <2>1. CASE rpc.pending # "stream"
    <3>1. UNCHANGED <<stream, control>>
      BY <2>1, Zenon DEF OnChunk, streamVars
    <3>2. Shape' /\ StreamInv'
      BY <1>0, <1>1, <1>2, <1>3, <3>1, Zenon DEF Shape, StreamInv, Working
    <3>3. MailInv'
      BY <1>0, <1>1, <1>3, <3>1, ReadMail, Zenon DEF Fits, Working
    <3>4. NodeInv'
      <4>1. host = "node" /\ worker.alive => Len(outbox') <= 1 /\ outbox' = << >>
        BY <1>0, <1>2 DEF NodeInv
      <4> QED
        BY <1>0, <1>1, <1>3, <3>1, <4>1, Zenon DEF NodeInv, Working
    <3> QED
      BY <3>2, <3>3, <3>4, Zenon
  <2>2. CASE rpc.pending = "stream"
    <3>1. PICK throws \in BOOLEAN :
            /\ stream' = [stream EXCEPT !.acking = stream.sent,
                            !.threw = stream.threw \/ throws,
                            !.seen = Append(stream.seen, stream.sent)]
            /\ control' = [control EXCEPT !.failed = control.failed \/ throws]
      BY <1>4, <2>2, Zenon DEF OnChunk
    <3>2. /\ stream' \in StreamSet /\ stream'.acking = stream.sent /\ stream'.sent = stream.sent
          /\ stream'.threw = (stream.threw \/ throws) /\ stream'.aborted = stream.aborted
          /\ stream'.seen = Append(stream.seen, stream.sent)
      <4>1. Append(stream.seen, stream.sent) \in Seq(Nat)
        BY <1>0 DEF Shape, StreamSet
      <4> QED
        BY <1>0, <3>1, <4>1, Zenon DEF Shape, StreamSet
    <3>3. /\ control' \in [ack : Nat, failed : BOOLEAN] /\ control'.ack = control.ack
          /\ control'.failed = throws
      BY <1>0, <1>4, <3>1, Zenon DEF Shape
    <3>4. /\ Len(stream'.seen) = stream.sent /\ control'.ack < stream.sent
          /\ \A i \in 1..Len(stream'.seen) : stream'.seen[i] = i
      <4>1. Len(stream'.seen) = stream.sent /\ control'.ack < stream.sent
        BY <1>0, <1>4, <3>2, <3>3 DEF Shape, StreamSet
      <4>2. \A i \in 1..Len(stream.seen) : stream.seen[i] = i
        BY <1>0, Zenon DEF StreamInv
      <4> QED
        BY <1>0, <1>4, <3>2, <4>1, <4>2 DEF Shape, StreamSet
    <3>5. Shape'
      BY <1>0, <1>1, <1>2, <1>3, <3>2, <3>3, Zenon DEF Shape
    <3>6. ~rpc.fatal /\ rpc.pending # "none"
      BY <1>0, <2>2, Zenon DEF RequestInv
    <3>7. answer \notin {"complete", "callbackAborted"}
      BY <1>0, <1>4, Zenon DEF StreamInv, RequestInv, Working
    <3>8. StreamInv'
      <4>1. control'.failed <=> stream'.threw
        BY <1>0, <1>4, <3>2, <3>3, Zenon DEF StreamInv
      <4> QED
        BY <1>1, <1>4, <3>2, <3>4, <3>7, <4>1, Zenon DEF StreamInv
    <3>9. MailInv'
      <4>1. ASSUME NEW m \in Messages, Fits(m), m[1] \in Single => m[1] # Head(outbox)[1]
            PROVE  Fits(m)'
        BY <1>1, <1>3, <1>4, <4>1, Zenon DEF Fits, Working, Single
      <4> QED
        BY <1>0, <1>1, <4>1, ReadMail, Zenon
    <3>10. NodeInv'
      <4>1. host = "node" /\ worker.alive => Len(outbox') <= 1 /\ outbox' = << >>
        BY <1>0, <1>2 DEF NodeInv
      <4> QED
        BY <1>0, <1>1, <1>3, <4>1, Zenon DEF NodeInv, Working
    <3> QED
      BY <3>5, <3>8, <3>9, <3>10, Zenon
  <2> QED
    BY <2>1, <2>2, Zenon
<1> QED
  BY <1>5, <1>6, <1>7, Zenon DEF RpcInv

LEMMA AcknowledgeKeeps == ASSUME RpcInv, Acknowledge PROVE RpcInv'
<1>0. Shape /\ RequestInv /\ StreamInv /\ MailInv /\ CloseInv /\ NodeInv
  BY Zenon DEF RpcInv
<1>1. /\ stream.acking # 0
      /\ UNCHANGED <<host, session, outcome, rpc, port, asked, answer, worker, engine, outbox>>
  BY Zenon DEF Acknowledge, pageVars
<1>2. /\ stream' \in StreamSet /\ stream'.acking = 0 /\ stream'.sent = stream.sent
      /\ stream'.threw = stream.threw /\ stream'.aborted = stream.aborted
      /\ stream'.seen = stream.seen
  BY <1>0, Zenon DEF Acknowledge, Shape, StreamSet
<1>3. /\ control' \in [ack : Nat, failed : BOOLEAN] /\ control'.ack = stream.acking
      /\ control'.failed = control.failed
  BY <1>0, Zenon DEF Acknowledge, Shape, StreamSet
<1>4. /\ stream.sent = Len(stream.seen) /\ stream.acking = stream.sent
      /\ worker.pc = "wait"
  BY <1>0, <1>1, Zenon DEF StreamInv
<1>5. Shape'
  BY <1>0, <1>1, <1>2, <1>3, Zenon DEF Shape
<1>6. RequestInv' /\ CloseInv'
  <2>1. RequestInv'
    BY <1>0, <1>1, Zenon DEF RequestInv, Working
  <2>2. CloseInv'
    BY <1>0, <1>1, Zenon DEF CloseInv, Working
  <2> QED
    BY <2>1, <2>2, Zenon
<1>7. StreamInv'
  BY <1>0, <1>1, <1>2, <1>3, <1>4, Zenon DEF StreamInv, Working
<1>8. MailInv'
  BY <1>0, <1>1, <1>2, SameMail, Zenon DEF Fits, Working
<1>9. NodeInv'
  BY <1>0, <1>1, Zenon DEF NodeInv, Working
<1> QED
  BY <1>5, <1>6, <1>7, <1>8, <1>9, Zenon DEF RpcInv

LEMMA OnReplyKeeps == ASSUME RpcInv, OnReply PROVE RpcInv'
<1>0. Shape /\ RequestInv /\ StreamInv /\ MailInv /\ CloseInv /\ NodeInv
  BY Zenon DEF RpcInv
<1>1. /\ outbox # << >> /\ Head(outbox)[1] = "reply" /\ outbox' = Tail(outbox)
      /\ UNCHANGED <<host, asked, worker, engine, stream, control>>
      /\ port' = Observed
  BY Zenon DEF OnReply, Event, streamVars
<1>2. /\ outbox' \in Seq(Messages) /\ Len(outbox') = Len(outbox) - 1 /\ Len(outbox) \in Nat
      /\ 1 \in 1..Len(outbox) /\ Head(outbox) = outbox[1]
  BY <1>0, <1>1, TakeMessage DEF Shape
<1>3. /\ port' \in PortSet /\ port'.expected = port.expected /\ port'.exited = port.exited
      /\ port'.exit = port.exit /\ port'.observed = (port.observed \/ port.expected)
  BY <1>0, <1>1, ObservedFacts, Zenon
<1>4. ~Working /\ Fits(Head(outbox))
  BY <1>0, <1>1, <1>2, Zenon DEF MailInv, Fits
<1>5. host = "node" /\ worker.alive => Len(outbox') <= 1 /\ outbox' = << >>
  BY <1>0, <1>2 DEF NodeInv
<1>6. CASE rpc.pending = "none"
  <2>1. UNCHANGED <<rpc, session, outcome, answer>>
    BY <1>6, Zenon DEF OnReply
  <2>2. Shape' /\ RequestInv' /\ StreamInv'
    BY <1>0, <1>1, <1>2, <1>3, <2>1, Zenon DEF Shape, RequestInv, StreamInv, Working
  <2>3. MailInv'
    BY <1>0, <1>1, <1>3, <2>1, ReadMail, Zenon DEF Fits, Working
  <2>4. CloseInv' /\ NodeInv'
    BY <1>0, <1>1, <1>3, <1>5, <2>1, Zenon DEF CloseInv, NodeInv, Working
  <2> QED
    BY <2>2, <2>3, <2>4, Zenon DEF RpcInv
<1>7. CASE rpc.pending # "none"
  <2> DEFINE r == [rpc EXCEPT !.pending = "none"]
             result == Head(outbox)[2]
  <2>1. /\ r \in RpcSet /\ r.pending = "none" /\ r.terminal = rpc.terminal
        /\ r.stopped = rpc.stopped /\ r.fatal = rpc.fatal
    BY <1>0, Zenon DEF Shape, RpcSet
  <2>2. Settle(result, r)
    BY <1>7, Zenon DEF OnReply
  <2>3. ~rpc.fatal /\ ~rpc.stopped /\ ~rpc.terminal
    BY <1>0, <1>7, Zenon DEF RequestInv
  <2> HIDE DEF r
  <2>4. /\ rpc' \in RpcSet /\ rpc'.pending = "none" /\ ~rpc'.terminal
        /\ rpc'.stopped = Terminates(result) /\ rpc'.fatal = Terminates(result)
        /\ session = "open" => session' = "open" /\ outcome' = outcome /\ answer' = result
        /\ session = "closing" => session' = "exiting" /\ outcome' = result /\ answer' = answer
        /\ session \in {"opening", "restoring"} =>
             session' \in {"open", "refusing", "stopping"} /\ answer' = answer
        /\ session \in {"opening", "restoring", "open", "closing"}
    <3>1. Terminates(result) \in BOOLEAN
      BY Zenon DEF Terminates
    <3>2. /\ rpc'.stopped = (Terminates(result) \/ r.stopped)
          /\ rpc'.fatal = (Terminates(result) \/ r.fatal)
      BY <1>0, <1>7, <2>1, <2>2, SettleFacts, Zenon
    <3>3. rpc'.stopped = Terminates(result)
      BY <2>1, <2>3, <3>1, <3>2, Zenon
    <3>4. rpc'.fatal = Terminates(result)
      BY <2>1, <2>3, <3>1, <3>2, Zenon
    <3> QED
      BY <1>0, <1>7, <2>1, <2>2, <2>3, <3>3, <3>4, SettleFacts, Zenon
  <2>5. Shape'
    BY <1>0, <1>1, <1>2, <1>3, <2>4, Zenon DEF Shape
  <2>6. RequestInv'
    BY <1>0, <1>1, <1>4, <2>4, Zenon DEF RequestInv, Working
  <2>7. StreamInv'
    <3>1. /\ answer' = "complete" => ~stream.threw
          /\ answer' = "callbackAborted" => stream.threw
      BY <1>0, <1>1, <1>4, <2>4, Zenon DEF StreamInv, Fits
    <3> QED
      BY <1>0, <1>1, <1>4, <3>1, Zenon DEF StreamInv, Working
  <2>8. MailInv'
    <3>1. ASSUME NEW m \in Messages, Fits(m), m[1] \in Single => m[1] # Head(outbox)[1]
          PROVE  Fits(m)'
      BY <1>1, <1>3, <3>1, Zenon DEF Fits, Working, Single
    <3> QED
      BY <1>0, <1>1, <3>1, ReadMail, Zenon
  <2>9. CloseInv'
    <3>1. CASE session = "closing"
      <4>1. outcome' = "ok" => engine = "closed"
        BY <1>1, <1>4, <2>4, <3>1, Zenon DEF Fits
      <4>2. Terminates(result) <=> host = "browser"
        BY <3>1, Zenon DEF Terminates
      <4>3. host = "node" => port.expected
        BY <1>0, <3>1, Zenon DEF CloseInv
      <4>4. host = "node" => host # "browser"
        OBVIOUS
      <4> QED
        BY <1>0, <1>1, <1>3, <1>4, <2>4, <3>1, <4>1, <4>2, <4>3, <4>4, Zenon DEF CloseInv, Working
    <3>2. CASE session # "closing"
      BY <1>0, <1>1, <1>3, <2>4, <3>2, Zenon DEF CloseInv
    <3> QED
      BY <3>1, <3>2, Zenon
  <2>10. NodeInv'
    <3> SUFFICES ASSUME host = "node", worker.alive PROVE NodeInv'
      BY <1>1, Zenon DEF NodeInv
    <3>1. worker.pc = "unwinding" => ~rpc'.stopped
      <4>1. worker.pc = "unwinding" => session = "closing"
        BY <1>0, <1>7, <2>4, Zenon DEF RequestInv
      <4> QED
        BY <2>4, <4>1, Zenon DEF Terminates
    <3> QED
      BY <1>0, <1>1, <1>3, <1>4, <1>5, <3>1, Zenon DEF NodeInv, Working
  <2> QED
    BY <2>5, <2>6, <2>7, <2>8, <2>9, <2>10, Zenon DEF RpcInv
<1> QED
  BY <1>6, <1>7, Zenon

LEMMA FinishKeeps == ASSUME RpcInv, Finish PROVE RpcInv'
<1>0. Shape /\ RequestInv /\ StreamInv /\ MailInv /\ CloseInv /\ NodeInv
  BY Zenon DEF RpcInv
<1>1. UNCHANGED <<host, rpc, port, asked, answer, worker, engine, stream, control, outbox>>
  BY Zenon DEF Finish, streamVars
<1>2. \/ session \in {"refusing", "stopping"} /\ session' \in {"refused", "restored"}
      \/ session = "exiting" /\ session' = "closed" /\ (outcome' = "ok" => outcome = "ok")
  BY Zenon DEF Finish
<1>3. session' = "closed" /\ outcome' = "ok" /\ host = "node" => port.exit = "ok"
  <2>1. port.exit \in {"pending", "ok", "failed"}
    BY <1>0, Zenon DEF Shape, PortSet
  <2> QED
    BY <2>1, Zenon DEF Finish
<1>4. Shape' /\ StreamInv' /\ NodeInv'
  BY <1>0, <1>1, Zenon DEF Shape, StreamInv, NodeInv, Working
<1>5. RequestInv'
  BY <1>0, <1>1, <1>2, Zenon DEF RequestInv, Working
<1>6. MailInv'
  <2>1. ASSUME NEW m \in Messages, Fits(m) PROVE Fits(m)'
    BY <1>1, <1>2, <2>1, Zenon DEF Fits, Working
  <2> QED
    BY <1>0, <1>1, <2>1, SameMail, Zenon
<1>7. CloseInv'
  BY <1>0, <1>1, <1>2, <1>3, Zenon DEF CloseInv, Working
<1> QED
  BY <1>4, <1>5, <1>6, <1>7, Zenon DEF RpcInv

-----------------------------------------------------------------------------
(* The worker *)

\* What respond() queues.
LEMMA PostFacts ==
  ASSUME NEW kind \in {"reply", "chunk"}, NEW v \in Values, Post(<<kind, v>>)
  PROVE  \E m \in Messages : /\ outbox' = Append(outbox, m)
                             /\ m = <<kind, v>> \/ m[1] = "error"
<1>1. <<kind, v>> \in Messages /\ <<"error", 0>> \in Messages /\ <<"error", 0>>[1] = "error"
  BY Zenon DEF Messages, Values
<1> QED
  BY <1>1, Zenon DEF Post

\* A Node worker that has a request at hand says nothing yet.
LEMMA Silence ==
  ASSUME Shape, NodeInv, host = "node", worker.alive, worker.pc \in {"run", "closing"}
  PROVE  outbox = << >>
BY Zenon DEF NodeInv

\* While the worker has a request at hand, and does not wait for the page,
\* nothing but errors is on its way.
LEMMA Quiet ==
  ASSUME Shape, StreamInv, MailInv, worker.alive, worker.pc \in {"run", "closing"}
  PROVE  \A i \in 1..Len(outbox) : outbox[i][1] \notin Single
<1>1. stream.sent # Len(stream.seen) + 1
  BY DEF Shape, StreamSet, StreamInv
<1> QED
  BY <1>1, Zenon DEF MailInv, Fits, Single, Working

LEMMA FirstMail ==
  ASSUME Shape, \A i \in 1..Len(outbox) : outbox[i][1] \notin Single,
         NEW m \in Messages, outbox' = Append(outbox, m), Fits(m)'
  PROVE  MailInv'
<1>1. /\ outbox'[Len(outbox) + 1] = m /\ \A i \in 1..Len(outbox) : outbox'[i] = outbox[i]
      /\ 1..Len(outbox') = 1..Len(outbox) \cup {Len(outbox) + 1}
  BY AddMessage, Zenon
<1>2. ASSUME NEW i \in 1..Len(outbox') PROVE Fits(outbox[i])'
  <2>1. CASE i \in 1..Len(outbox)
    BY <1>1, <2>1, Zenon DEF Fits, Single
  <2>2. CASE i = Len(outbox) + 1
    BY <1>1, <2>2, Zenon DEF Fits, Working
  <2> QED
    BY <1>1, <2>1, <2>2, Zenon
<1>3. ASSUME NEW i \in 1..Len(outbox'), NEW j \in 1..Len(outbox'),
             outbox'[i][1] = outbox'[j][1], outbox'[i][1] \in Single
      PROVE  i = j
  BY <1>1, <1>3, Zenon
<1> QED
  BY <1>2, <1>3, Zenon DEF MailInv

\* A worker that alone says something new says one thing.
LEMMA FirstWord ==
  ASSUME Shape, outbox = << >>, NEW m \in Messages, outbox' = Append(outbox, m)
  PROVE  Len(outbox') <= 1
OBVIOUS

LEMMA AnswerKeeps ==
  ASSUME RpcInv, NEW result \in {"ok", "failed"}, Answer(result)
  PROVE  RpcInv'
<1>0. Shape /\ RequestInv /\ StreamInv /\ MailInv /\ CloseInv /\ NodeInv
  BY Zenon DEF RpcInv
<1>1. /\ worker.alive /\ worker.pc = "run" /\ worker.job \in {"open", "restore", "exec"}
      /\ UNCHANGED <<host, session, outcome, rpc, port, asked, answer, stream, control>>
  BY Zenon DEF Answer, At, pageVars, streamVars
<1>2. /\ worker' \in WorkerSet /\ worker'.pc = "idle" /\ worker'.job = "none"
      /\ worker'.alive = worker.alive
  BY <1>0, Zenon DEF Answer, Shape, WorkerSet
<1>3. PICK m \in Messages : /\ outbox' = Append(outbox, m)
                            /\ m = <<"reply", result>> \/ m[1] = "error"
  <2>1. result \in Values
    BY Zenon DEF Values, Results
  <2> QED
    BY <2>1, PostFacts, Zenon DEF Answer
<1>4. outbox' \in Seq(Messages) /\ outbox' # << >>
  BY <1>0, <1>3, AddMessage, Zenon
<1>5. Shape'
  BY <1>0, <1>1, <1>2, <1>4, Zenon DEF Shape
<1>6. RequestInv'
  <2>1. session # "absent"
    BY <1>0, <1>1, Zenon DEF RequestInv
  <2> QED
    BY <1>0, <1>1, <1>2, <2>1, Zenon DEF RequestInv, Working
<1>7. StreamInv'
  BY <1>0, <1>1, <1>2, Zenon DEF StreamInv, Working
<1>8. rpc.pending \in {"open", "restore", "exec"} \/ rpc.fatal
  BY <1>0, <1>1, Zenon DEF RequestInv, Working
<1>9. session # "closing"
  BY <1>0, <1>8, Zenon DEF RequestInv
<1>10. MailInv'
  <2>1. \A i \in 1..Len(outbox) : outbox[i][1] \notin Single
    BY <1>0, <1>1, Quiet, Zenon
  <2>2. Fits(m)'
    <3>1. m[1] = "error" \/ (m[1] = "reply" /\ m[2] \in {"ok", "failed"})
      BY <1>3
    <3> QED
      BY <1>1, <1>2, <1>8, <1>9, <3>1, Zenon DEF Fits, Working
  <2> QED
    BY <1>0, <1>3, <2>1, <2>2, FirstMail, Zenon
<1>11. CloseInv'
  BY <1>0, <1>1, <1>2, Zenon DEF CloseInv, Working
<1>12. NodeInv'
  <2>1. host = "node" => Len(outbox') <= 1
    BY <1>0, <1>1, <1>3, Silence, FirstWord, Zenon
  <2>2. stream.acking = 0
    BY <1>0, <1>1, Zenon DEF StreamInv
  <2>3. rpc.pending # "close" /\ (~rpc.fatal => rpc.pending # "none")
    BY <1>0, <1>8, Zenon DEF RequestInv
  <2> QED
    BY <1>0, <1>1, <1>2, <1>4, <2>1, <2>2, <2>3, Zenon DEF NodeInv, Working
<1> QED
  BY <1>5, <1>6, <1>7, <1>10, <1>11, <1>12, Zenon DEF RpcInv

LEMMA EndStreamKeeps ==
  ASSUME RpcInv, NEW result \in Results, EndStream(result)
  PROVE  RpcInv'
<1>0. Shape /\ RequestInv /\ StreamInv /\ MailInv /\ CloseInv /\ NodeInv
  BY Zenon DEF RpcInv
<1>1. /\ worker.alive /\ worker.pc = "run" /\ worker.job = "stream"
      /\ UNCHANGED <<host, session, outcome, rpc, port, asked, answer, stream, control, engine>>
      /\ result \in {"failed", IF stream.aborted THEN "callbackAborted" ELSE "complete"}
  BY Zenon DEF EndStream, At, pageVars, streamVars
<1>2. /\ worker' \in WorkerSet /\ worker'.pc = "idle" /\ worker'.job = "none"
      /\ worker'.alive = worker.alive
  BY <1>0, Zenon DEF EndStream, Shape, WorkerSet
<1>3. PICK m \in Messages : /\ outbox' = Append(outbox, m)
                            /\ m = <<"reply", result>> \/ m[1] = "error"
  <2>1. result \in Values
    BY Zenon DEF Values
  <2> QED
    BY <2>1, PostFacts, Zenon DEF EndStream
<1>4. outbox' \in Seq(Messages) /\ outbox' # << >>
  BY <1>0, <1>3, AddMessage, Zenon
<1>5. Shape'
  BY <1>0, <1>1, <1>2, <1>4, Zenon DEF Shape
<1>6. RequestInv'
  <2>1. session # "absent"
    BY <1>0, <1>1, Zenon DEF RequestInv
  <2> QED
    BY <1>0, <1>1, <1>2, <2>1, Zenon DEF RequestInv, Working
<1>7. StreamInv'
  BY <1>0, <1>1, <1>2, Zenon DEF StreamInv, Working
<1>8. rpc.pending = "stream" \/ rpc.fatal
  BY <1>0, <1>1, Zenon DEF RequestInv, Working
<1>9. session # "closing"
  BY <1>0, <1>1, Zenon DEF RequestInv, Working
<1>10. MailInv'
  <2>1. \A i \in 1..Len(outbox) : outbox[i][1] \notin Single
    BY <1>0, <1>1, Quiet, Zenon
  <2>2. stream.aborted <=> stream.threw
    BY <1>0, <1>1, Zenon DEF StreamInv
  <2>3. Fits(m)'
    <3>1. m[1] = "error" \/ (m[1] = "reply" /\ m[2] = result)
      BY <1>3
    <3>2. /\ result = "complete" => ~stream.threw
          /\ result = "callbackAborted" => stream.threw
          /\ result # "ok"
      BY <1>1, <2>2, Zenon
    <3> QED
      BY <1>1, <1>2, <1>8, <3>1, <3>2, Zenon DEF Fits, Working
  <2> QED
    BY <1>0, <1>3, <2>1, <2>3, FirstMail, Zenon
<1>11. CloseInv'
  BY <1>0, <1>1, <1>2, Zenon DEF CloseInv, Working
<1>12. NodeInv'
  <2>1. host = "node" => Len(outbox') <= 1
    BY <1>0, <1>1, <1>3, Silence, FirstWord, Zenon
  <2>2. stream.acking = 0
    BY <1>0, <1>1, Zenon DEF StreamInv
  <2>3. rpc.pending # "close" /\ (~rpc.fatal => rpc.pending # "none")
    BY <1>0, <1>8, Zenon DEF RequestInv
  <2> QED
    BY <1>0, <1>1, <1>2, <1>4, <2>1, <2>2, <2>3, Zenon DEF NodeInv, Working
<1> QED
  BY <1>5, <1>6, <1>7, <1>10, <1>11, <1>12, Zenon DEF RpcInv

LEMMA EndCloseKeeps ==
  ASSUME RpcInv, NEW result \in {"ok", "failed"}, EndClose(result)
  PROVE  RpcInv'
<1>0. Shape /\ RequestInv /\ StreamInv /\ MailInv /\ CloseInv /\ NodeInv
  BY Zenon DEF RpcInv
<1>1. /\ worker.alive /\ worker.pc = "closing" /\ worker.job = "close"
      /\ UNCHANGED <<host, session, outcome, rpc, port, asked, answer, stream, control>>
      /\ engine' = IF result = "ok" THEN "closed" ELSE "broken"
  BY Zenon DEF EndClose, At, pageVars, streamVars
<1>2. /\ worker' \in WorkerSet /\ worker'.job = "close" /\ worker'.alive = worker.alive
      /\ worker'.pc = IF host = "node" THEN "unwinding" ELSE "idle"
  BY <1>0, <1>1, Zenon DEF EndClose, Shape, WorkerSet
<1>3. PICK m \in Messages : /\ outbox' = Append(outbox, m)
                            /\ m = <<"reply", result>> \/ m[1] = "error"
  <2>1. result \in Values
    BY Zenon DEF Values, Results
  <2> QED
    BY <2>1, PostFacts, Zenon DEF EndClose
<1>4. outbox' \in Seq(Messages) /\ outbox' # << >>
  BY <1>0, <1>3, AddMessage, Zenon
<1>5. Shape'
  BY <1>0, <1>1, <1>2, <1>4, Zenon DEF Shape
<1>6. worker'.pc \in {"idle", "unwinding"} /\ ~Working' /\ Working
  BY <1>1, <1>2, Zenon DEF Working
<1>7. RequestInv'
  <2>1. session # "absent"
    BY <1>0, <1>1, Zenon DEF RequestInv
  <2> QED
    BY <1>0, <1>1, <1>2, <1>6, <2>1, Zenon DEF RequestInv
<1>8. StreamInv'
  BY <1>0, <1>1, <1>2, <1>6, Zenon DEF StreamInv
<1>9. rpc.pending = "close" \/ rpc.fatal
  BY <1>0, <1>1, Zenon DEF RequestInv, Working
<1>10. MailInv'
  <2>1. \A i \in 1..Len(outbox) : outbox[i][1] \notin Single
    BY <1>0, <1>1, Quiet, Zenon
  <2>2. Fits(m)'
    <3>1. m[1] = "error" \/ (m[1] = "reply" /\ m[2] = result)
      BY <1>3
    <3> QED
      BY <1>1, <1>2, <1>6, <1>9, <3>1, Zenon DEF Fits
  <2> QED
    BY <1>0, <1>3, <2>1, <2>2, FirstMail, Zenon
<1>11. CloseInv'
  BY <1>0, <1>1, <1>2, <1>6, Zenon DEF CloseInv
<1>12. NodeInv'
  <2>1. host = "node" => Len(outbox') <= 1
    BY <1>0, <1>1, <1>3, Silence, FirstWord, Zenon
  <2>2. stream.acking = 0
    BY <1>0, <1>1, Zenon DEF StreamInv
  <2>3. host = "node" => port.expected /\ ~rpc.stopped
    BY <1>0, <1>1, <1>6, Zenon DEF NodeInv, CloseInv
  <2> QED
    BY <1>0, <1>1, <1>2, <1>6, <1>9, <2>1, <2>2, <2>3, Zenon DEF NodeInv
<1> QED
  BY <1>5, <1>7, <1>8, <1>10, <1>11, <1>12, Zenon DEF RpcInv

LEMMA SendChunkKeeps ==
  ASSUME RpcInv, SendChunk
  PROVE  RpcInv'
<1>0. Shape /\ RequestInv /\ StreamInv /\ MailInv /\ CloseInv /\ NodeInv
  BY Zenon DEF RpcInv
<1>1. /\ worker.alive /\ worker.pc = "run" /\ worker.job = "stream" /\ ~stream.aborted
      /\ UNCHANGED <<host, session, outcome, rpc, port, asked, answer, control, engine>>
  BY Zenon DEF SendChunk, At, pageVars
<1>2. ~control.failed
  BY <1>0, <1>1, Zenon DEF StreamInv
<1>3. /\ worker' \in WorkerSet /\ worker'.pc = "wait" /\ worker'.job = "stream"
      /\ worker'.alive = worker.alive
  BY <1>0, <1>1, <1>2, Zenon DEF SendChunk, Shape, WorkerSet
<1>4. /\ stream' \in StreamSet /\ stream'.sent = stream.sent + 1
      /\ stream'.seen = stream.seen /\ stream'.threw = stream.threw
      /\ stream'.acking = stream.acking /\ stream'.aborted = stream.aborted
  BY <1>0, <1>2 DEF SendChunk, Shape, StreamSet
<1>5. /\ stream.sent = Len(stream.seen) /\ stream.acking = 0 /\ control.ack = stream.sent
  BY <1>0, <1>1, Zenon DEF StreamInv
<1>6. PICK m \in Messages : /\ outbox' = Append(outbox, m)
                            /\ m = <<"chunk", stream.sent + 1>> \/ m[1] = "error"
  <2>1. stream.sent + 1 \in Values
    BY <1>0 DEF Values, Shape, StreamSet
  <2> QED
    BY <1>2, <2>1, PostFacts, Zenon DEF SendChunk
<1>7. outbox' \in Seq(Messages) /\ outbox' # << >>
  BY <1>0, <1>6, AddMessage, Zenon
<1>8. Shape'
  BY <1>0, <1>1, <1>3, <1>4, <1>7, Zenon DEF Shape
<1>9. RequestInv'
  <2>1. session # "absent"
    BY <1>0, <1>1, Zenon DEF RequestInv
  <2> QED
    BY <1>0, <1>1, <1>3, <2>1, Zenon DEF RequestInv, Working
<1>10. StreamInv'
  BY <1>0, <1>1, <1>2, <1>3, <1>4, <1>5, Zenon DEF StreamInv, Working
<1>11. rpc.pending = "stream" \/ rpc.fatal
  BY <1>0, <1>1, Zenon DEF RequestInv, Working
<1>12. MailInv'
  <2>1. \A i \in 1..Len(outbox) : outbox[i][1] \notin Single
    BY <1>0, <1>1, Quiet, Zenon
  <2>2. Fits(m)'
    <3>1. m[1] = "error" \/ (m[1] = "chunk" /\ m[2] = stream'.sent)
      BY <1>4, <1>6
    <3>2. stream'.sent = Len(stream'.seen) + 1
      BY <1>4, <1>5, Zenon
    <3> QED
      BY <3>1, <3>2, Zenon DEF Fits
  <2> QED
    BY <1>0, <1>6, <2>1, <2>2, FirstMail, Zenon
<1>13. CloseInv'
  BY <1>0, <1>1, <1>3, Zenon DEF CloseInv, Working
<1>14. NodeInv'
  <2>1. host = "node" => Len(outbox') <= 1
    BY <1>0, <1>1, <1>6, Silence, FirstWord, Zenon
  <2>2. stream'.acking = 0 /\ control'.ack < stream'.sent
    BY <1>0, <1>1, <1>4, <1>5 DEF Shape, StreamSet
  <2>3. rpc.pending # "close" /\ (~rpc.fatal => rpc.pending # "none")
    BY <1>0, <1>11, Zenon DEF RequestInv
  <2> QED
    BY <1>0, <1>1, <1>3, <1>7, <2>1, <2>2, <2>3, Zenon DEF NodeInv, Working
<1> QED
  BY <1>8, <1>9, <1>10, <1>12, <1>13, <1>14, Zenon DEF RpcInv

LEMMA AcknowledgedKeeps ==
  ASSUME RpcInv, Acknowledged
  PROVE  RpcInv'
<1>0. Shape /\ RequestInv /\ StreamInv /\ MailInv /\ CloseInv /\ NodeInv
  BY Zenon DEF RpcInv
<1>1. /\ worker.alive /\ worker.pc = "wait" /\ worker.job = "stream" /\ control.ack >= stream.sent
      /\ UNCHANGED <<host, session, outcome, rpc, port, asked, answer, control, engine, outbox>>
  BY Zenon DEF Acknowledged, At, pageVars
<1>2. /\ worker' \in WorkerSet /\ worker'.pc = "run" /\ worker'.job = "stream"
      /\ worker'.alive = worker.alive
  BY <1>0, <1>1, Zenon DEF Acknowledged, Shape, WorkerSet
<1>3. /\ stream' \in StreamSet /\ stream'.sent = stream.sent
      /\ stream'.seen = stream.seen /\ stream'.threw = stream.threw
      /\ stream'.acking = stream.acking /\ stream'.aborted = control.failed
  BY <1>0, Zenon DEF Acknowledged, Shape, StreamSet
<1>4. /\ stream.sent = Len(stream.seen) /\ stream.acking = 0 /\ control.ack = stream.sent
  BY <1>0, <1>1 DEF StreamInv, Shape, StreamSet
<1>5. Shape'
  BY <1>0, <1>1, <1>2, <1>3, Zenon DEF Shape
<1>6. RequestInv'
  BY <1>0, <1>1, <1>2, Zenon DEF RequestInv, Working
<1>7. StreamInv'
  BY <1>0, <1>1, <1>2, <1>3, <1>4, Zenon DEF StreamInv, Working
<1>8. MailInv'
  <2>1. \A m \in Messages : Fits(m) => Fits(m)'
    BY <1>1, <1>2, <1>3, Zenon DEF Fits, Working
  <2> QED
    BY <1>0, <1>1, <2>1, SameMail, Zenon
<1>9. CloseInv'
  BY <1>0, <1>1, <1>2, Zenon DEF CloseInv, Working
<1>10. NodeInv'
  <2>1. host = "node" => outbox = << >>
    BY <1>0, <1>1, <1>4 DEF NodeInv
  <2> QED
    BY <1>0, <1>1, <1>2, <2>1, Zenon DEF NodeInv, Working
<1> QED
  BY <1>5, <1>6, <1>7, <1>8, <1>9, <1>10, Zenon DEF RpcInv

LEMMA BeginCloseKeeps ==
  ASSUME RpcInv, BeginClose
  PROVE  RpcInv'
<1>0. Shape /\ RequestInv /\ StreamInv /\ MailInv /\ CloseInv /\ NodeInv
  BY Zenon DEF RpcInv
<1>1. /\ worker.alive /\ worker.pc = "run" /\ worker.job = "close"
      /\ UNCHANGED <<host, session, outcome, rpc, port, asked, answer, stream, control, engine,
                     outbox>>
  BY Zenon DEF BeginClose, At, pageVars, streamVars
<1>2. /\ worker' \in WorkerSet /\ worker'.pc = "closing" /\ worker'.job = "close"
      /\ worker'.alive = worker.alive
  BY <1>0, <1>1, Zenon DEF BeginClose, Shape, WorkerSet
<1>3. Shape'
  BY <1>0, <1>1, <1>2, Zenon DEF Shape
<1>4. RequestInv'
  BY <1>0, <1>1, <1>2, Zenon DEF RequestInv, Working
<1>5. StreamInv'
  BY <1>0, <1>1, <1>2, Zenon DEF StreamInv, Working
<1>6. MailInv'
  <2>1. \A m \in Messages : Fits(m) => Fits(m)'
    BY <1>1, <1>2, Zenon DEF Fits, Working
  <2> QED
    BY <1>0, <1>1, <2>1, SameMail, Zenon
<1>7. CloseInv'
  BY <1>0, <1>1, <1>2, Zenon DEF CloseInv, Working
<1>8. NodeInv'
  BY <1>0, <1>1, <1>2, Zenon DEF NodeInv, Working
<1> QED
  BY <1>3, <1>4, <1>5, <1>6, <1>7, <1>8, Zenon DEF RpcInv

-----------------------------------------------------------------------------
(* The worker ends *)

\* What is on its way after a Node worker has ended: what was posted before,
\* perhaps an error, and the exit last.
Farewell(code) ==
  /\ outbox' \in Seq(Messages) /\ outbox' # << >>
  /\ \A i \in 1..Len(outbox') :
       \/ outbox'[i] = <<"exit", code>> /\ i = Len(outbox')
       \/ outbox'[i][1] = "error"
       \/ i \in 1..Len(outbox) /\ outbox'[i] = outbox[i]

LEMMA LastWord ==
  ASSUME Shape, NEW code \in {0, 1}, NEW kept \in {outbox, << >>},
         outbox' = Append(kept, <<"exit", code>>)
  PROVE  Farewell(code)
<1>1. <<"exit", code>> \in Messages
  BY DEF Messages, Values
<1>2. kept \in Seq(Messages)
  <2>1. << >> \in Seq(Messages) /\ outbox \in Seq(Messages)
    BY DEF Shape
  <2> QED
    BY <2>1, Zenon
<1> QED
  BY <1>1, <1>2 DEF Shape, Farewell

LEMMA OneMore ==
  ASSUME NEW a \in Seq(Messages), NEW x \in Messages
  PROVE  /\ a \o <<x>> \in Seq(Messages) /\ Len(a \o <<x>>) = Len(a) + 1
         /\ (a \o <<x>>)[Len(a) + 1] = x
         /\ \A i \in 1..Len(a) : (a \o <<x>>)[i] = a[i]
OBVIOUS

LEMMA LastWords ==
  ASSUME Shape, NEW kept \in {outbox, << >>}, NEW error \in {<< >>, << <<"error", 0>> >>},
         outbox' = kept \o error \o << <<"exit", 1>> >>
  PROVE  Farewell(1)
<1>1. PICK e \in Messages, x \in Messages : /\ e = <<"error", 0>> /\ e[1] = "error"
                                            /\ x = <<"exit", 1>>
  <2>1. <<"error", 0>> \in Messages /\ <<"exit", 1>> \in Messages
    BY Zenon DEF Messages, Values
  <2>2. <<"error", 0>>[1] = "error"
    OBVIOUS
  <2> QED
    BY <2>1, <2>2, Zenon
<1>0. kept \in Seq(Messages)
  <2>1. << >> \in Seq(Messages) /\ outbox \in Seq(Messages)
    BY DEF Shape
  <2> QED
    BY <2>1, Zenon
<1>2. CASE error = << >>
  <2>1. outbox' = Append(kept, <<"exit", 1>>)
    BY <1>0, <1>1, <1>2
  <2> QED
    BY <2>1, LastWord, Zenon
<1>3. CASE error = << <<"error", 0>> >>
  <2>1. PICK a \in Seq(Messages) : /\ outbox' = a \o <<x>> /\ Len(a) = Len(kept) + 1
                                  /\ a[Len(kept) + 1] = e
                                  /\ \A i \in 1..Len(kept) : a[i] = kept[i]
    <3>1. PICK a : a = kept \o <<e>>
      BY Zenon
    <3>2. /\ a \in Seq(Messages) /\ Len(a) = Len(kept) + 1 /\ a[Len(kept) + 1] = e
          /\ \A i \in 1..Len(kept) : a[i] = kept[i]
      BY <1>0, <3>1, OneMore, Zenon
    <3>3. outbox' = a \o <<x>>
      BY <1>1, <1>3, <3>1, Zenon
    <3> QED
      BY <3>2, <3>3, Zenon
  <2>2. PICK b \in Seq(Messages) : /\ b = a \o <<x>> /\ Len(b) = Len(a) + 1
                                  /\ b[Len(a) + 1] = x
                                  /\ \A i \in 1..Len(a) : b[i] = a[i]
    BY <1>1, OneMore, Zenon
  <2>3. outbox' = b
    BY <2>1, <2>2, Zenon
  <2>4. /\ outbox' \in Seq(Messages) /\ Len(outbox') = Len(kept) + 2
        /\ outbox'[Len(kept) + 2] = x /\ outbox'[Len(kept) + 1] = e
        /\ \A i \in 1..Len(kept) : outbox'[i] = kept[i]
    <3>1. Len(a) + 1 = Len(kept) + 2 /\ Len(kept) + 1 \in 1..Len(a)
          /\ \A i \in 1..Len(kept) : i \in 1..Len(a)
      BY <1>0, <2>1
    <3>2. /\ b \in Seq(Messages) /\ Len(b) = Len(kept) + 2
          /\ b[Len(kept) + 2] = x /\ b[Len(kept) + 1] = e
          /\ \A i \in 1..Len(kept) : b[i] = kept[i]
      BY <2>1, <2>2, <3>1, Zenon
    <3> QED
      BY <2>3, <3>2, Zenon
  <2>5. ASSUME NEW i \in 1..Len(outbox')
        PROVE  i = Len(outbox') \/ i = Len(kept) + 1 \/ i \in 1..Len(kept)
    BY <1>0, <2>4
  <2>6. ASSUME NEW i \in 1..Len(kept) PROVE i \in 1..Len(outbox) /\ kept[i] = outbox[i]
    BY DEF Shape
  <2>7. outbox' # << >> /\ Len(outbox') = Len(kept) + 2
    BY <1>0, <2>4
  <2> QED
    BY <1>1, <2>4, <2>5, <2>6, <2>7, Zenon DEF Farewell
<1> QED
  BY <1>2, <1>3, Zenon

LEMMA GoneKeeps ==
  ASSUME RpcInv, host = "node", worker.alive, worker' = [worker EXCEPT !.alive = FALSE],
         UNCHANGED <<host, pageVars, engine, streamVars>>, NEW code \in {0, 1}, Farewell(code)
  PROVE  RpcInv'
<1>0. Shape /\ RequestInv /\ StreamInv /\ MailInv /\ CloseInv /\ NodeInv
  BY Zenon DEF RpcInv
<1>1. UNCHANGED <<host, session, outcome, rpc, port, asked, answer, stream, control, engine>>
  BY Zenon DEF pageVars, streamVars
<1>2. /\ worker' \in WorkerSet /\ worker'.pc = worker.pc /\ worker'.job = worker.job
      /\ ~worker'.alive
  BY <1>0, Zenon DEF Shape, WorkerSet
<1>3. Shape'
  BY <1>0, <1>1, <1>2, Zenon DEF Shape, Farewell
<1>4. RequestInv'
  <2>1. session # "absent"
    BY <1>0, Zenon DEF RequestInv
  <2> QED
    BY <1>0, <1>1, <1>2, <2>1, Zenon DEF RequestInv, Working
<1>5. StreamInv'
  BY <1>0, <1>1, <1>2, Zenon DEF StreamInv, Working
<1>6. MailInv'
  <2>1. ~port.exited
    BY <1>0, Zenon DEF CloseInv
  <2>2. \A i \in 1..Len(outbox) : outbox[i][1] # "exit"
    BY <1>0, Zenon DEF MailInv, Fits
  <2>3. PICK x \in Messages : x = <<"exit", code>> /\ x[1] = "exit"
    <3>1. <<"exit", code>> \in Messages
      BY DEF Messages, Values
    <3>2. <<"exit", code>>[1] = "exit"
      OBVIOUS
    <3> QED
      BY <3>1, <3>2, Zenon
  <2>4. ASSUME NEW i \in 1..Len(outbox') PROVE Fits(outbox[i])'
    <3>1. CASE outbox'[i][1] \in {"exit", "error"}
      BY <1>1, <1>2, <2>1, <3>1, Zenon DEF Fits
    <3>2. CASE i \in 1..Len(outbox) /\ outbox'[i] = outbox[i]
      <4>1. Fits(outbox[i])
        BY <1>0, <3>2, Zenon DEF MailInv
      <4> QED
        BY <1>1, <1>2, <2>2, <3>2, <4>1, Zenon DEF Fits, Working
    <3> QED
      BY <2>3, <3>1, <3>2, Zenon DEF Farewell
  <2>5. ASSUME NEW i \in 1..Len(outbox'), NEW j \in 1..Len(outbox'),
               outbox'[i][1] = outbox'[j][1], outbox'[i][1] \in Single
        PROVE  i = j
    <3>1. CASE outbox'[i][1] = "exit"
      BY <2>2, <2>3, <2>5, <3>1, Zenon DEF Farewell
    <3>2. CASE outbox'[i][1] # "exit"
      <4>1. /\ i \in 1..Len(outbox) /\ outbox'[i] = outbox[i]
            /\ j \in 1..Len(outbox) /\ outbox'[j] = outbox[j]
        BY <2>3, <2>5, <3>2, Zenon DEF Farewell, Single
      <4> QED
        BY <1>0, <2>5, <4>1, Zenon DEF MailInv
    <3> QED
      BY <3>1, <3>2, Zenon
  <2> QED
    BY <2>4, <2>5, Zenon DEF MailInv
<1>7. CloseInv'
  BY <1>0, <1>1, <1>2, Zenon DEF CloseInv, Working
<1>8. NodeInv'
  BY <1>2, Zenon DEF NodeInv
<1> QED
  BY <1>3, <1>4, <1>5, <1>6, <1>7, <1>8, Zenon DEF RpcInv

LEMMA SelfExitKeeps ==
  ASSUME RpcInv, SelfExit
  PROVE  RpcInv'
<1>0. Shape /\ CloseInv
  BY Zenon DEF RpcInv
<1>1. worker.alive /\ worker.pc = "unwinding" /\ worker' = [worker EXCEPT !.alive = FALSE]
  BY Zenon DEF SelfExit, At
<1>2. host = "node"
  BY <1>0, <1>1, Zenon DEF CloseInv
<1>3. Farewell(0)
  <2>1. PICK kept \in {outbox, << >>} : outbox' = Append(kept, <<"exit", 0>>)
    BY Zenon DEF SelfExit
  <2> QED
    BY <1>0, <2>1, LastWord, Zenon
<1>4. UNCHANGED <<host, pageVars, engine, streamVars>>
  BY Zenon DEF SelfExit
<1> QED
  BY <1>1, <1>2, <1>3, <1>4, GoneKeeps, Zenon

LEMMA TerminatedKeeps ==
  ASSUME RpcInv, Terminated
  PROVE  RpcInv'
<1>0. Shape /\ RequestInv /\ StreamInv /\ MailInv /\ CloseInv /\ NodeInv
  BY Zenon DEF RpcInv
<1>1. worker.alive /\ worker' = [worker EXCEPT !.alive = FALSE]
  BY Zenon DEF Terminated
<1>2. UNCHANGED <<host, pageVars, engine, streamVars>>
  BY Zenon DEF Terminated
<1>3. CASE host = "node"
  <2>1. Farewell(1)
    <3>1. PICK kept \in {outbox, << >>} : outbox' = Append(kept, <<"exit", 1>>)
      BY <1>3, Zenon DEF Terminated
    <3> QED
      BY <1>0, <3>1, LastWord, Zenon
  <2> QED
    BY <1>1, <1>2, <1>3, <2>1, GoneKeeps, Zenon
<1>4. CASE host = "browser"
  <2>1. UNCHANGED <<host, session, outcome, rpc, port, asked, answer, stream, control, engine,
                    outbox>>
    BY <1>2, <1>4, Zenon DEF pageVars, streamVars, Terminated
  <2>2. /\ worker' \in WorkerSet /\ worker'.pc = worker.pc /\ worker'.job = worker.job
        /\ ~worker'.alive
    BY <1>0, <1>1, Zenon DEF Shape, WorkerSet
  <2>3. Shape'
    BY <1>0, <2>1, <2>2, Zenon DEF Shape
  <2>4. RequestInv'
    BY <1>0, <2>1, <2>2, Zenon DEF RequestInv, Working
  <2>5. StreamInv'
    BY <1>0, <2>1, <2>2, Zenon DEF StreamInv, Working
  <2>6. MailInv'
    <3>1. \A m \in Messages : Fits(m) => Fits(m)'
      BY <2>1, <2>2, Zenon DEF Fits, Working
    <3> QED
      BY <1>0, <2>1, <3>1, SameMail, Zenon
  <2>7. CloseInv' /\ NodeInv'
    BY <1>0, <2>1, <2>2, Zenon DEF CloseInv, NodeInv, Working
  <2> QED
    BY <2>3, <2>4, <2>5, <2>6, <2>7, Zenon DEF RpcInv
<1> QED
  BY <1>0, <1>3, <1>4, Zenon DEF CloseInv

LEMMA CrashKeeps ==
  ASSUME RpcInv, Crash
  PROVE  RpcInv'
<1>0. Shape /\ RequestInv /\ StreamInv /\ MailInv /\ CloseInv /\ NodeInv
  BY Zenon DEF RpcInv
<1>1. worker.alive /\ UNCHANGED <<host, pageVars, engine, streamVars>>
  BY Zenon DEF Crash
<1>2. CASE host = "node"
  <2>1. Farewell(1)
    <3>1. PICK kept \in {outbox, << >>}, error \in {<< >>, << <<"error", 0>> >>} :
            outbox' = kept \o error \o << <<"exit", 1>> >>
      BY <1>2, Zenon DEF Crash
    <3> QED
      BY <1>0, <3>1, LastWords, Zenon
  <2>2. worker' = [worker EXCEPT !.alive = FALSE]
    BY <1>2, Zenon DEF Crash
  <2> QED
    BY <1>1, <1>2, <2>1, <2>2, GoneKeeps, Zenon
<1>3. CASE host = "browser"
  <2>1. UNCHANGED <<host, session, outcome, rpc, port, asked, answer, stream, control, engine,
                    worker>>
    BY <1>1, <1>3, Zenon DEF pageVars, streamVars, Crash
  <2>2. PICK e \in Messages : e[1] = "error" /\ outbox' = Append(outbox, e)
    <3>1. <<"error", 0>> \in Messages
      BY Zenon DEF Messages, Values
    <3>2. <<"error", 0>>[1] = "error"
      OBVIOUS
    <3>3. outbox' = Append(outbox, <<"error", 0>>)
      BY <1>3, Zenon DEF Crash
    <3> QED
      BY <3>1, <3>2, <3>3, Zenon
  <2>3. outbox' \in Seq(Messages) /\ outbox' # << >>
    BY <1>0, <2>2, AddMessage, Zenon
  <2>4. Shape'
    BY <1>0, <2>1, <2>3, Zenon DEF Shape
  <2>5. RequestInv'
    BY <1>0, <1>1, <2>1, Zenon DEF RequestInv, Working
  <2>6. StreamInv'
    BY <1>0, <2>1, Zenon DEF StreamInv, Working
  <2>7. MailInv'
    <3>1. \A m \in Messages : Fits(m) => Fits(m)'
      BY <2>1, Zenon DEF Fits, Working
    <3>2. Fits(e)'
      BY <2>2, Zenon DEF Fits
    <3>3. e[1] \notin Single
      BY <2>2, Zenon DEF Single
    <3> QED
      BY <1>0, <2>2, <3>1, <3>2, <3>3, PostMail, Zenon
  <2>8. CloseInv' /\ NodeInv'
    BY <1>0, <1>3, <2>1, Zenon DEF CloseInv, NodeInv, Working
  <2> QED
    BY <2>4, <2>5, <2>6, <2>7, <2>8, Zenon DEF RpcInv
<1> QED
  BY <1>0, <1>2, <1>3, Zenon DEF CloseInv

-----------------------------------------------------------------------------
(* The theorems *)

LEMMA InitRpc == ASSUME Init PROVE RpcInv
<1>1. Shape
  BY DEF Init, Shape, RpcSet, WorkerSet, PortSet, StreamSet, Methods
<1>2. outbox = << >> /\ Len(outbox) = 0
  BY Zenon DEF Init
<1>3. MailInv
  BY <1>2 DEF MailInv
<1>4. RequestInv
  BY <1>2, Zenon DEF Init, RequestInv, Working
<1>5. StreamInv
  BY DEF Init, StreamInv, Working
<1>6. CloseInv /\ NodeInv
  BY RpcAssumption, Zenon DEF Init, CloseInv, NodeInv
<1> QED
  BY <1>1, <1>3, <1>4, <1>5, <1>6, Zenon DEF RpcInv

LEMMA StutterKeeps ==
  ASSUME RpcInv, UNCHANGED vars
  PROVE  RpcInv'
<1>0. Shape /\ RequestInv /\ StreamInv /\ MailInv /\ CloseInv /\ NodeInv
  BY Zenon DEF RpcInv
<1>1. UNCHANGED <<host, session, outcome, rpc, port, asked, answer, stream, control, engine,
                  worker, outbox>>
  BY Zenon DEF vars, pageVars, streamVars
<1>2. Shape' /\ StreamInv'
  BY <1>0, <1>1, Zenon DEF Shape, StreamInv, Working
<1>5. RequestInv'
  BY <1>0, <1>1, Zenon DEF RequestInv, Working
<1>3. MailInv'
  <2>1. \A m \in Messages : Fits(m) => Fits(m)'
    BY <1>1, Zenon DEF Fits, Working
  <2> QED
    BY <1>0, <1>1, <2>1, SameMail, Zenon
<1>4. CloseInv' /\ NodeInv'
  BY <1>0, <1>1, Zenon DEF CloseInv, NodeInv, Working
<1> QED
  BY <1>2, <1>3, <1>4, <1>5, Zenon DEF RpcInv

LEMMA NextRpc == ASSUME RpcInv, [Next]_vars PROVE RpcInv'
<1>1. CASE Open("open") \/ Open("restore") \/ Close
  BY <1>1, OpenInv, CloseKeeps, Zenon
<1>2. CASE \E m \in {"exec", "stream"} : Request(m)
  BY <1>2, RequestKeeps, Zenon
<1>3. CASE PageEvent
  BY <1>3, OnChunkKeeps, AcknowledgeKeeps, OnReplyKeeps, OnErrorKeeps, OnExitKeeps,
     FinishKeeps, Zenon DEF PageEvent
<1>4. CASE DispatchStep
  BY <1>4, AnswerKeeps, EndCloseKeeps, SendChunkKeeps, AcknowledgedKeeps, EndStreamKeeps,
     BeginCloseKeeps, SelfExitKeeps, Zenon DEF DispatchStep
<1>5. CASE Terminated \/ Crash
  BY <1>5, TerminatedKeeps, CrashKeeps, Zenon
<1> QED
  BY <1>1, <1>2, <1>3, <1>4, <1>5, StutterKeeps, Zenon DEF Next

\* RpcInv is an inductive invariant of a session in a worker.
THEOREM RpcInvariant == Spec => []RpcInv
BY InitRpc, NextRpc, PTL DEF Spec

\* WorkerRpc.stream and execStream: a stream that is reported complete was
\* seen whole, chunk by chunk and in order, and its callback never threw.
THEOREM StreamsAreWhole == Spec => []StreamIsWhole
<1>1. RpcInv => StreamIsWhole
  <2> SUFFICES ASSUME RpcInv PROVE StreamIsWhole
    OBVIOUS
  <2>0. Shape /\ RequestInv /\ StreamInv
    BY Zenon DEF RpcInv
  <2>1. stream.seen = [i \in 1..Len(stream.seen) |-> i]
    <3>1. \A i \in 1..Len(stream.seen) : stream.seen[i] = i
      BY <2>0, Zenon DEF StreamInv
    <3>2. stream.seen \in Seq(Nat)
      BY <2>0, Zenon DEF Shape, StreamSet
    <3> QED
      BY <3>1, <3>2
  <2>2. stream.sent <= Len(stream.seen) + 1
    BY <2>0 DEF Shape, StreamSet, StreamInv
  <2>3. ASSUME answer = "complete" PROVE ~stream.threw /\ Len(stream.seen) = stream.sent
    <3>1. ~stream.threw
      BY <2>0, <2>3, Zenon DEF StreamInv
    <3>2. worker.pc # "wait"
      BY <2>0, <2>3, Zenon DEF StreamInv, RequestInv, Working
    <3> QED
      BY <2>0, <3>1, <3>2, Zenon DEF StreamInv
  <2>4. answer = "callbackAborted" => stream.threw
    BY <2>0, Zenon DEF StreamInv
  <2> QED
    BY <2>1, <2>2, <2>3, <2>4, Zenon DEF StreamIsWhole
<1> QED
  BY <1>1, RpcInvariant, PTL

\* WorkerDatabaseSession.close: a close that succeeds has released the
\* database, left no crash behind and, on Node, let the worker end by itself.
THEOREM ClosesAreQuiescent == Spec => []CloseIsQuiescent
<1>1. RpcInv => CloseIsQuiescent
  BY Zenon DEF RpcInv, CloseInv, CloseIsQuiescent
<1> QED
  BY <1>1, RpcInvariant, PTL

\* nodeWorkerPort: a Node worker that is closing its database is not cut off
\* by terminate().
THEOREM CleanupsAreNotCut == Spec => []CleanupIsNotCut
<1>1. RpcInv => CleanupIsNotCut
  BY Zenon DEF RpcInv, RequestInv, NodeInv, Working, CleanupIsNotCut
<1> QED
  BY <1>1, RpcInvariant, PTL
=============================================================================
