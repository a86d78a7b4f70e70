------------------------------ MODULE WorkerRpc ------------------------------
(***************************************************************************)
(* A WASIX database session that lives in a worker: the RPC object and the *)
(* session proxy of the page (workers/worker-rpc.ts), the dispatcher of    *)
(* the worker (workers/worker-dispatch.ts) and the two worker ports        *)
(* (hosts/node-api/node-worker-port.ts, hosts/browser/worker-client.ts).   *)
(*                                                                         *)
(* The page runs its handlers to completion, one event at a time; the      *)
(* worker runs beside it, and the two share the two control words of a     *)
(* stream.  The handle above the session sends one request at a time, so   *)
(* the map of pending requests holds at most one and is modelled by the    *)
(* method that is pending.  A request whose worker is gone is lost; the    *)
(* event that reports the loss settles it.                                 *)
(***************************************************************************)
EXTENDS Naturals, Sequences

CONSTANTS Hosts,        \* "node" (Node, Bun, Deno) and "browser"
          MaxRequests,  \* bound: requests sent to an open session
          MaxChunks     \* bound: chunks of one stream

ASSUME RpcAssumption ==
  /\ Hosts \subseteq {"node", "browser"}
  /\ MaxRequests \in Nat /\ MaxChunks \in Nat

VARIABLES host,
          session,   \* what the page has done with the worker
          outcome,   \* how that open, restore or close is going
          rpc,       \* WorkerRpc: pending request, fatal error, terminal
                     \* state, whether terminate() was called
          port,      \* nodeWorkerPort: its flags and its exit promise
          asked,     \* requests sent to the open session
          answer,    \* how the last of them settled
          worker,    \* the dispatcher: request at hand and where it is
          engine,    \* the database the worker owns
          stream,    \* a stream: chunks sent, chunks the callback saw
          control,   \* its shared words STREAM_ACK and STREAM_FAILED
          outbox     \* messages and events not yet delivered to the page

pageVars   == <<session, outcome, rpc, port, asked, answer>>
streamVars == <<stream, control>>
vars    == <<host, pageVars, worker, engine, streamVars, outbox>>

Methods == {"open", "restore", "exec", "stream", "close"}
Results == {"ok", "failed", "complete", "callbackAborted"}

Init ==
  /\ host \in Hosts
  /\ session = "absent" /\ outcome = "none"
  /\ rpc = [pending |-> "none", fatal |-> FALSE, terminal |-> FALSE,
            stopped |-> FALSE]
  /\ port = [expected |-> FALSE, observed |-> FALSE, exited |-> FALSE,
             exit |-> "pending"]
  /\ asked = 0 /\ answer = "none"
  /\ worker = [alive |-> FALSE, pc |-> "idle", job |-> "none"]
  /\ engine = "none"
  /\ stream = [sent |-> 0, aborted |-> FALSE, seen |-> << >>, threw |-> FALSE,
               acking |-> 0]
  /\ control = [ack |-> 0, failed |-> FALSE]
  /\ outbox = << >>

\* The page executes no other handler while it is between two of the steps
\* of the handler for a chunk.
PageIdle == stream.acking = 0

-----------------------------------------------------------------------------
(* The page: requests *)

\* WorkerRpc.request and WorkerRpc.stream: the request is pending and the
\* worker has it.
Send(method) ==
  /\ rpc' = [rpc EXCEPT !.pending = method]
  /\ worker' = [worker EXCEPT !.job = method, !.pc = "run"]

\* openWorkerDatabase and restoreWasixWithWorker: the worker is created and
\* gets its first request in the same turn.
Open(method) ==
  /\ PageIdle /\ session = "absent"
  /\ session' = IF method = "open" THEN "opening" ELSE "restoring"
  /\ rpc' = [rpc EXCEPT !.pending = method]
  /\ worker' = [alive |-> TRUE, job |-> method, pc |-> "run"]
  /\ UNCHANGED <<host, outcome, port, asked, answer, engine, streamVars, outbox>>

\* A request of the open session; after a fatal error it is rejected at once.
Request(method) ==
  /\ PageIdle /\ session = "open" /\ rpc.pending = "none" /\ asked < MaxRequests
  /\ asked' = asked + 1
  /\ IF rpc.fatal
       THEN answer' = "failed" /\ UNCHANGED <<rpc, worker, streamVars>>
       ELSE /\ answer' = "none"
            /\ Send(method)
            /\ IF method = "stream"
                 THEN /\ stream' = [sent |-> 0, aborted |-> FALSE, seen |-> << >>,
                                    threw |-> FALSE, acking |-> 0]
                      /\ control' = [ack |-> 0, failed |-> FALSE]
                 ELSE UNCHANGED streamVars
  /\ UNCHANGED <<host, session, outcome, port, engine, outbox>>

\* WorkerDatabaseSession.close: on Node the exit promise is taken before the
\* request is sent; after a fatal error both are rejected at once.
Close ==
  /\ PageIdle /\ session = "open" /\ rpc.pending = "none"
  /\ IF rpc.fatal
       THEN /\ session' = "closed" /\ outcome' = "failed"
            /\ UNCHANGED <<rpc, port, worker>>
       ELSE /\ session' = "closing"
            /\ port' = [port EXCEPT !.expected = (host = "node")]
            /\ Send("close")
            /\ UNCHANGED outcome
  /\ UNCHANGED <<host, asked, answer, engine, streamVars, outbox>>

-----------------------------------------------------------------------------
(* The page: how a request settles *)

\* Faulty variant: the failure of a close is taken for permission to
\* terminate on every host.
TerminatesOnFailure(result) ==
  \/ session = "opening" /\ result # "ok"
  \/ session = "restoring"
  \/ session = "closing" /\ (host = "browser" \/ result # "ok")

\* Whether the caller that awaits the request then calls rpc.terminate():
\* a failed open, every restore, and a close where no exit is awaited.
Terminates(result) ==
  \/ session = "opening" /\ result # "ok"
  \/ session = "restoring"
  \/ session = "closing" /\ host = "browser"

\* Faulty variant: the pending request is forgotten, not rejected.
StopSilently(r) == [r EXCEPT !.fatal = TRUE, !.stopped = TRUE]

\* #stop: every pending request is rejected and the worker is terminated.
Stop(r) == [r EXCEPT !.pending = "none", !.fatal = TRUE, !.stopped = TRUE]

\* The pending request settles, leaving the RPC object as r, and its caller
\* goes on.
Settle(result, r) ==
  /\ rpc' = IF Terminates(result) THEN Stop(r) ELSE r
  /\ session' = CASE session = "opening" -> IF result = "ok" THEN "open" ELSE "refusing"
                  [] session = "restoring" -> "stopping"
                  [] session = "closing" -> "exiting"
                  [] OTHER -> session
  /\ outcome' = IF session = "open" THEN outcome ELSE result
  /\ answer' = IF session = "open" THEN result ELSE answer

\* Faulty variant: a failure after terminate() is recorded as a crash.
FailAlways ==
  LET r == [Stop(rpc) EXCEPT !.terminal = TRUE]
  IN  IF rpc.pending # "none" THEN Settle("failed", r)
      ELSE rpc' = r /\ UNCHANGED <<session, outcome, answer>>

\* #fail: a failure nobody asked for is recorded as terminal; then #stop.
Fail ==
  LET r == [Stop(rpc) EXCEPT !.terminal = rpc.terminal \/ ~rpc.stopped]
  IN  IF rpc.pending # "none" THEN Settle("failed", r)
      ELSE rpc' = r /\ UNCHANGED <<session, outcome, answer>>

\* The Node port reports no failure after terminate() was called.
Fatal ==
  IF host = "node" /\ rpc.stopped THEN UNCHANGED <<rpc, session, outcome, answer>>
  ELSE Fail

-----------------------------------------------------------------------------
(* The page: events of the worker *)

Event(kind) == PageIdle /\ outbox # << >> /\ Head(outbox)[1] = kind

\* The Node port takes any message after close() for the shutdown reply.
Observed == [port EXCEPT !.observed = port.observed \/ port.expected]

\* onMessage with a chunk: the callback sees it unless it threw before, and
\* a callback that throws sets STREAM_FAILED.
OnChunk ==
  /\ Event("chunk")
  /\ LET n == Head(outbox)[2]
     IN  IF rpc.pending # "stream" THEN UNCHANGED streamVars
         ELSE \E throws \in (IF control.failed THEN {FALSE} ELSE BOOLEAN) :
                /\ stream' = [stream EXCEPT !.acking = n,
                                !.threw = stream.threw \/ throws,
                                !.seen = IF control.failed THEN @ ELSE Append(@, n)]
                /\ control' = [control EXCEPT !.failed = control.failed \/ throws]
  /\ port' = Observed
  /\ outbox' = Tail(outbox)
  /\ UNCHANGED <<host, session, outcome, rpc, asked, answer, worker, engine>>

\* ... and then STREAM_ACK is stored and the worker notified.
Acknowledge ==
  /\ stream.acking # 0
  /\ control' = [control EXCEPT !.ack = stream.acking]
  /\ stream' = [stream EXCEPT !.acking = 0]
  /\ UNCHANGED <<host, pageVars, worker, engine, outbox>>

\* onMessage with a reply
OnReply ==
  /\ Event("reply")
  /\ IF rpc.pending = "none" THEN UNCHANGED <<rpc, session, outcome, answer>>
     ELSE Settle(Head(outbox)[2], [rpc EXCEPT !.pending = "none"])
  /\ port' = Observed
  /\ outbox' = Tail(outbox)
  /\ UNCHANGED <<host, asked, worker, engine, streamVars>>

\* The events error and messageerror.  Once the shutdown reply has been seen
\* they fail only the exit promise.
OnError ==
  /\ Event("error")
  /\ port' = IF port.expected /\ ~port.exited /\ port.exit = "pending"
               THEN [port EXCEPT !.exit = "failed"] ELSE port
  /\ IF port.expected /\ port.observed
       THEN UNCHANGED <<rpc, session, outcome, answer>>
       ELSE Fatal
  /\ outbox' = Tail(outbox)
  /\ UNCHANGED <<host, asked, worker, engine, streamVars>>

\* The event exit of a Node worker, with its code.
OnExit ==
  /\ Event("exit")
  /\ LET settled == port.expected /\ port.exit = "failed"
         orderly == port.observed /\ Head(outbox)[2] = 0
     IN  /\ port' = [port EXCEPT !.exited = TRUE,
                       !.exit = IF settled THEN @
                                ELSE IF port.expected
                                  THEN IF orderly THEN "ok" ELSE "failed"
                                ELSE IF rpc.stopped THEN "ok" ELSE @]
         /\ IF settled \/ (port.expected /\ port.observed)
              THEN UNCHANGED <<rpc, session, outcome, answer>>
              ELSE Fatal
  /\ outbox' = Tail(outbox)
  /\ UNCHANGED <<host, asked, worker, engine, streamVars>>

\* The end of an open, restore or close.  On Node the termination of the
\* worker, or after a close its own exit, is awaited first.
Finish ==
  /\ PageIdle
  /\ \/ /\ session = "refusing"
        /\ host = "node" => ~worker.alive
        /\ session' = "refused" /\ UNCHANGED outcome
     \/ /\ session = "stopping"
        /\ host = "node" => ~worker.alive
        /\ session' = "restored" /\ UNCHANGED outcome
     \/ /\ session = "exiting"
        /\ host = "node" => port.exit # "pending"
        /\ session' = "closed"
        /\ outcome' = IF host = "node" /\ port.exit = "failed" THEN "failed" ELSE outcome
  /\ UNCHANGED <<host, rpc, port, asked, answer, worker, engine, streamVars, outbox>>

-----------------------------------------------------------------------------
(* The worker *)

\* respond(): the message is queued; the page may be unable to read it.
Post(message) ==
  \E m \in {message, <<"error", 0>>} : outbox' = Append(outbox, m)

At(pc, jobs) == worker.alive /\ worker.pc = pc /\ worker.job \in jobs

\* The methods that await one call of the session and answer with its
\* result; exec stands for sync, backup, pgDump, tool and serve as well.
Answer(result) ==
  /\ At("run", {"open", "restore", "exec"})
  /\ engine' = IF worker.job = "open" /\ result = "ok" THEN "open" ELSE engine
  /\ Post(<<"reply", result>>)
  /\ worker' = [worker EXCEPT !.pc = "idle", !.job = "none"]
  /\ UNCHANGED <<host, pageVars, streamVars>>

\* onChunk of execStream: give up if the consumer failed, else post the chunk
\* and wait for its acknowledgement.
SendChunk ==
  /\ At("run", {"stream"}) /\ ~stream.aborted /\ stream.sent < MaxChunks
  /\ IF control.failed
       THEN stream' = [stream EXCEPT !.aborted = TRUE] /\ UNCHANGED <<worker, outbox>>
       ELSE /\ stream' = [stream EXCEPT !.sent = @ + 1]
            /\ Post(<<"chunk", stream.sent + 1>>)
            /\ worker' = [worker EXCEPT !.pc = "wait"]
  /\ UNCHANGED <<host, pageVars, engine, control>>

\* Faulty variant: the failure word is not read after the wait.
AcknowledgedUnchecked ==
  /\ At("wait", {"stream"}) /\ control.ack >= stream.sent
  /\ worker' = [worker EXCEPT !.pc = "run"]
  /\ UNCHANGED <<host, pageVars, engine, streamVars, outbox>>

\* The wait ends; the consumer may have failed on this chunk.
Acknowledged ==
  /\ At("wait", {"stream"}) /\ control.ack >= stream.sent
  /\ stream' = [stream EXCEPT !.aborted = control.failed]
  /\ worker' = [worker EXCEPT !.pc = "run"]
  /\ UNCHANGED <<host, pageVars, engine, control, outbox>>

\* The stream ends: whole, given up, or with an error of the session.
EndStream(result) ==
  /\ At("run", {"stream"})
  /\ result \in {"failed", IF stream.aborted THEN "callbackAborted" ELSE "complete"}
  /\ Post(<<"reply", result>>)
  /\ worker' = [worker EXCEPT !.pc = "idle", !.job = "none"]
  /\ UNCHANGED <<host, pageVars, engine, streamVars>>

\* close: the dispatcher is retired before the session's teardown begins ...
BeginClose ==
  /\ At("run", {"close"})
  /\ worker' = [worker EXCEPT !.pc = "closing"]
  /\ UNCHANGED <<host, pageVars, engine, streamVars, outbox>>

\* ... and the reply is posted when it has ended, well or not.
EndClose(result) ==
  /\ At("closing", {"close"})
  /\ engine' = IF result = "ok" THEN "closed" ELSE "broken"
  /\ Post(<<"reply", result>>)
  /\ worker' = [worker EXCEPT !.pc = IF host = "node" THEN "unwinding" ELSE "idle"]
  /\ UNCHANGED <<host, pageVars, streamVars>>

\* onQuiescentClose of a Node worker: it exits by itself after the reply.
\* What it posted last may be lost with it.
SelfExit ==
  /\ At("unwinding", {"close"})
  /\ worker' = [worker EXCEPT !.alive = FALSE]
  /\ \E kept \in {outbox, << >>} : outbox' = Append(kept, <<"exit", 0>>)
  /\ UNCHANGED <<host, pageVars, engine, streamVars>>

\* worker.terminate() takes effect.
Terminated ==
  /\ rpc.stopped /\ worker.alive
  /\ worker' = [worker EXCEPT !.alive = FALSE]
  /\ IF host = "browser" THEN UNCHANGED outbox
     ELSE \E kept \in {outbox, << >>} : outbox' = Append(kept, <<"exit", 1>>)
  /\ UNCHANGED <<host, pageVars, engine, streamVars>>

\* The worker fails.  A Node worker exits, with or without an error event,
\* and what it posted last may be lost; a browser reports the error of a
\* worker that may go on running.
Crash ==
  /\ worker.alive /\ ~rpc.stopped
  /\ \A i \in DOMAIN outbox : outbox[i][1] # "error"
  /\ IF host = "browser"
       THEN outbox' = Append(outbox, <<"error", 0>>) /\ UNCHANGED worker
       ELSE /\ \E kept \in {outbox, << >>}, error \in {<< >>, << <<"error", 0>> >>} :
                 outbox' = kept \o error \o << <<"exit", 1>> >>
            /\ worker' = [worker EXCEPT !.alive = FALSE]
  /\ UNCHANGED <<host, pageVars, engine, streamVars>>

-----------------------------------------------------------------------------
\* The steps of the page that its callers do not choose, and of the worker.
PageEvent == OnChunk \/ Acknowledge \/ OnReply \/ OnError \/ OnExit \/ Finish

DispatchStep ==
  \/ \E r \in {"ok", "failed"} : Answer(r) \/ EndClose(r)
  \/ SendChunk \/ Acknowledged
  \/ \E r \in Results : EndStream(r)
  \/ BeginClose \/ SelfExit

Next ==
  \/ Open("open") \/ Open("restore") \/ Close
  \/ \E m \in {"exec", "stream"} : Request(m)
  \/ PageEvent
  \/ DispatchStep
  \/ Terminated
  \/ Crash

\* The page's event loop and the worker run; what was terminated stops.
Fairness == WF_vars(PageEvent) /\ WF_vars(DispatchStep) /\ WF_vars(Terminated)

Spec == Init /\ [][Next]_vars /\ Fairness

-----------------------------------------------------------------------------
(* Properties *)

\* Every variable holds a value of its type; counters and channels stay in
\* their bounds.
TypeOK ==
  /\ host \in Hosts
  /\ session \in {"absent", "opening", "restoring", "open", "refusing", "stopping",
                  "closing", "exiting", "refused", "restored", "closed"}
  /\ outcome \in {"none", "ok", "failed"}
  /\ rpc \in [pending : Methods \cup {"none"}, fatal : BOOLEAN,
              terminal : BOOLEAN, stopped : BOOLEAN]
  /\ port \in [expected : BOOLEAN, observed : BOOLEAN, exited : BOOLEAN,
               exit : {"pending", "ok", "failed"}]
  /\ asked \in 0..MaxRequests
  /\ answer \in Results \cup {"none"}
  /\ worker \in [alive : BOOLEAN, job : Methods \cup {"none"},
                 pc : {"idle", "run", "wait", "closing", "unwinding"}]
  /\ engine \in {"none", "open", "closed", "broken"}
  /\ stream.sent \in 0..MaxChunks /\ stream.acking \in 0..MaxChunks
  /\ control.ack \in 0..MaxChunks

\* A stream that is reported complete was seen whole: the callback was called
\* with every chunk the worker sent, once each and in order, and never threw;
\* one reported as aborted was aborted by the callback.  The worker is never
\* more than one chunk ahead of the callback.
StreamIsWhole ==
  /\ stream.seen = [i \in 1..Len(stream.seen) |-> i]
  /\ answer = "complete" => ~stream.threw /\ Len(stream.seen) = stream.sent
  /\ answer = "callbackAborted" => stream.threw
  /\ stream.sent <= Len(stream.seen) + 1

\* A close that succeeds has released the database in the worker and left no
\* crash behind; on Node the worker has ended by itself, not by terminate().
CloseIsQuiescent ==
  session = "closed" /\ outcome = "ok" =>
    /\ engine = "closed"
    /\ ~rpc.terminal
    /\ host = "node" => ~worker.alive /\ ~rpc.stopped

\* A Node worker that is closing its database, or unwinding after that, is
\* not terminated by the page, unless its shutdown reply was unreadable.
CleanupIsNotCut ==
  host = "node" /\ rpc.stopped /\ worker.alive =>
    /\ worker.pc # "closing"
    /\ worker.pc = "unwinding" => port.exit = "failed"

\* Every request settles, and every open, restore and close comes to an end,
\* whatever the worker does.
EveryRequestSettles ==
  /\ (rpc.pending # "none") ~> (rpc.pending = "none")
  /\ (session \in {"refusing", "stopping", "closing", "exiting"})
       ~> (session \in {"refused", "restored", "closed"})
=============================================================================
