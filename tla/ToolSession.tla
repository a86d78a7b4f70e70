----------------------------- MODULE ToolSession -----------------------------
(***************************************************************************)
(* psql against a browser database that lives in a worker: the tool        *)
(* controller of the page (hosts/browser/internal-common.ts), the tool     *)
(* worker it starts (hosts/browser/tool-worker-common.ts), the handle's    *)
(* queue in which every tool call reserves its place (core/database.ts),   *)
(* and the database worker that serves the tool's connection               *)
(* (protocol/pgwire-connection.ts, #runToolSession of                      *)
(* hosts/browser/direct-client-common.ts).                                 *)
(*                                                                         *)
(* Tool and database exchange bytes over two shared channels (module       *)
(* ByteChannel): here a channel is a bounded queue with the flags CLOSED   *)
(* and FAILED, and the frontend channel also carries PROTOCOL_STATE.  A    *)
(* frame and a reply are two pieces each, so that either can be cut short. *)
(* Requests to the database worker settle as in module WorkerRpc: with the *)
(* worker's answer, or as failed when the worker has died.                 *)
(***************************************************************************)
EXTENDS Naturals, Sequences

CONSTANTS Calls,        \* calls of psql
          MaxWorkers,   \* bound: tool workers; the last one does not crash
          MaxFrames,    \* bound: frames one psql sends, its last not counted
          ChannelSize   \* pieces a channel holds

ASSUME ToolAssumption ==
  /\ MaxFrames \in Nat /\ MaxWorkers \in Nat \ {0}
  /\ ChannelSize \in Nat \ {0}

VARIABLES line,      \* the handle's queue: calls not yet begun, then its close
          handle,    \* the handle: open, closing, closed
          active,    \* the call whose connection the database serves
          ctl,       \* WasixToolController
          conn,      \* each call, its reservation and its two channels
          finish,    \* finishFailedToolChannels of the page, in progress
          tool,      \* the tool workers
          srv,       \* the database worker's serve() and its frame reader
          db         \* the database: its worker runs, its session is unusable

pageVars == <<line, handle, active, ctl, finish>>
vars     == <<pageVars, conn, tool, srv, db>>

Workers == 1..MaxWorkers
None    == "none"

\* A call and its channels, before it is made.
Fresh == [stage |-> "none", result |-> None, failure |-> FALSE,
          reservation |-> None, served |-> None,
          front |-> << >>, frontEnd |-> "open", protocol |-> "idle",
          back |-> 0, backEnd |-> "open",
          ran |-> FALSE, end |-> None, late |-> FALSE]

\* A tool worker that does not exist, yet or any more.
Absent == [running |-> FALSE, pc |-> "idle", call |-> None, piece |-> 0,
           frames |-> 0, out |-> << >>]

Init ==
  /\ line = << >> /\ handle = "open" /\ active = None
  /\ ctl = [queue |-> << >>, current |-> None, pending |-> None, worker |-> 0,
            made |-> 0, prepared |-> FALSE, fatal |-> FALSE, closed |-> FALSE]
  /\ conn = [c \in Calls |-> Fresh]
  /\ finish = [call |-> None, pc |-> "idle"]
  /\ tool = [w \in Workers |-> Absent]
  /\ srv = [call |-> None, pc |-> "idle", held |-> 0, ok |-> TRUE, fault |-> FALSE]
  /\ db = [alive |-> TRUE, poisoned |-> FALSE]

\* The page executes one handler at a time.
PageFree == finish.call = None

-----------------------------------------------------------------------------
(* Channels *)

\* closeWasixByteChannel, failWasixByteChannel: FAILED is never cleared.
Closed(end) == IF end = "failed" THEN "failed" ELSE "closed"

CloseFront(r) == [r EXCEPT !.frontEnd = Closed(@)]
CloseBack(r)  == [r EXCEPT !.backEnd = Closed(@)]
FailBoth(r)   == [r EXCEPT !.frontEnd = "failed", !.backEnd = "failed"]

-----------------------------------------------------------------------------
(* The handle *)


\* A reservation that was not started is given up.
Cancel(r) == IF r.reservation = "pending" THEN [r EXCEPT !.reservation = "canceled"] ELSE r

\* What is left of a call whose result was delivered: its place in the queue
\* is given up if it was not used, and its channels are closed.
Ended(r) == [Fresh EXCEPT !.stage = "done", !.reservation = Cancel(r).reservation,
               !.frontEnd = "closed", !.backEnd = "closed"]

\* close(): reservations not yet started are canceled, and the session's
\* close is queued behind what was accepted before.
Close ==
  /\ PageFree /\ handle = "open"
  /\ handle' = "closing"
  /\ conn' = [c \in Calls |-> Cancel(conn[c])]
  /\ line' = Append(line, "close")
  /\ UNCHANGED <<active, ctl, finish, tool, srv, db>>

\* The oldest queued operation begins when the one before it has settled.  A
\* reservation waits here until it is started or canceled.
Dispatch ==
  /\ PageFree /\ line # << >> /\ active = None
  /\ LET head == Head(line)
     IN  \/ /\ head = "close"
            /\ handle' = "closed"
            /\ db' = [db EXCEPT !.alive = FALSE]
            /\ UNCHANGED <<active, srv>>
         \/ /\ head \in Calls /\ conn[head].reservation = "canceled"
            /\ UNCHANGED <<handle, active, srv, db>>
         \/ /\ head \in Calls /\ conn[head].reservation = "started"
            /\ active' = head
            /\ srv' = [call |-> head, pc |-> "reset", held |-> 0, ok |-> TRUE, fault |-> FALSE]
            /\ UNCHANGED <<handle, db>>
  /\ line' = Tail(line)
  /\ UNCHANGED <<ctl, conn, finish, tool>>

\* serve() has settled, or its worker died; if it failed, the controller fails
\* both channels.
ServeSettles ==
  /\ PageFree /\ active \in Calls
  /\ srv.pc = "done" \/ ~db.alive
  /\ conn' = [conn EXCEPT ![active] =
                IF srv.pc = "done" /\ srv.ok THEN [@ EXCEPT !.served = "ok"]
                ELSE [FailBoth(@) EXCEPT !.served = "failed", !.failure = TRUE]]
  /\ active' = None
  /\ srv' = [call |-> None, pc |-> "idle", held |-> 0, ok |-> TRUE, fault |-> FALSE]
  /\ UNCHANGED <<line, handle, ctl, finish, tool, db>>

-----------------------------------------------------------------------------
(* The tool controller of the page *)

\* The calls are interchangeable: it does not matter which is made next.
Unmade   == {c \in Calls : conn[c].stage = "none"}
NextCall == CHOOSE c \in Unmade : TRUE

\* run(): the place in the handle's queue is reserved during the call.
RunTool(c) ==
  /\ PageFree /\ handle = "open" /\ c \in Unmade /\ c = NextCall
  /\ \/ /\ ctl.fatal \/ ~db.alive
        /\ conn' = [conn EXCEPT ![c] = Ended(@)]
        /\ UNCHANGED <<line, ctl>>
     \/ /\ ~ctl.fatal
        /\ conn' = [conn EXCEPT ![c].stage = "queued", ![c].reservation = "pending"]
        /\ line' = Append(line, c)
        /\ ctl' = [ctl EXCEPT !.queue = Append(@, c)]
  /\ UNCHANGED <<handle, active, finish, tool, srv, db>>

Fails(r) == [r EXCEPT !.stage = "finally", !.result = "failed"]

\* #runOne once the tool is prepared: start() throws if the reservation was
\* canceled; else the connection is started and the worker told to run.
\* k and t are the controller and the tool workers at that point.
StartTool(c, k, t) ==
  IF k.fatal \/ conn[c].failure \/ conn[c].reservation = "canceled"
    THEN /\ conn' = [conn EXCEPT ![c] = Fails(@)]
         /\ ctl' = [k EXCEPT !.pending = None]
         /\ tool' = t
    ELSE /\ conn' = [conn EXCEPT ![c].stage = "run", ![c].reservation = "started"]
         /\ ctl' = [k EXCEPT !.pending = "run"]
         /\ tool' = [t EXCEPT ![k.worker] =
                       [@ EXCEPT !.pc = "start", !.call = c]]

\* #runOne begins: the calls run in their order, one at a time; the first
\* needs a worker and its preparation.
BeginOne ==
  /\ PageFree /\ ctl.current = None /\ ctl.queue # << >>
  /\ LET c == Head(ctl.queue)
         k == [ctl EXCEPT !.current = c, !.queue = Tail(@)]
         w == IF ctl.worker = 0 THEN ctl.made + 1 ELSE ctl.worker
     IN  \/ /\ ctl.fatal \/ conn[c].failure
            /\ conn' = [conn EXCEPT ![c] = Fails(@)]
            /\ ctl' = k
            /\ UNCHANGED tool
         \/ /\ ~ctl.fatal /\ ~conn[c].failure /\ ctl.prepared
            /\ StartTool(c, k, tool)
         \/ /\ ~ctl.fatal /\ ~conn[c].failure /\ ~ctl.prepared
            /\ ctl' = [k EXCEPT !.worker = w, !.made = IF ctl.worker = 0 THEN w ELSE @,
                                !.pending = "prepare"]
            /\ conn' = [conn EXCEPT ![c].stage = "prepare"]
            /\ tool' = [tool EXCEPT ![w].running = TRUE, ![w].pc = "prepare"]
  /\ UNCHANGED <<line, handle, active, finish, srv, db>>

\* The event at the head of a tool worker's queue; a worker that is no
\* longer the controller's is not listened to.
ToolEvent(w, kind) ==
  /\ PageFree /\ tool[w].out # << >> /\ Head(tool[w].out) = kind

Deliver(w) == [tool EXCEPT ![w].out = Tail(@)]

RetiredEvent(w) ==
  /\ PageFree /\ tool[w].out # << >> /\ w # ctl.worker
  /\ tool' = Deliver(w)
  /\ UNCHANGED <<pageVars, conn, srv, db>>

\* The reply to prepare
OnPrepared(w) ==
  /\ ctl.pending = "prepare" /\ w = ctl.worker
  /\ \/ /\ ToolEvent(w, "prepared")
        /\ StartTool(ctl.current, [ctl EXCEPT !.prepared = TRUE], Deliver(w))
     \/ /\ ToolEvent(w, "failed")
        /\ conn' = [conn EXCEPT ![ctl.current] = Fails(@)]
        /\ ctl' = [ctl EXCEPT !.pending = None]
        /\ tool' = Deliver(w)
  /\ UNCHANGED <<line, handle, active, finish, srv, db>>

\* The reply to run: a tool that completed has its frontend closed and waits
\* for the database; one that failed has its channels finished first.
OnCompleted(w) ==
  /\ ctl.pending = "run" /\ w = ctl.worker
  /\ LET c == ctl.current
     IN  \/ /\ ToolEvent(w, "completed")
            /\ conn' = [conn EXCEPT ![c] = [CloseFront(@) EXCEPT !.stage = "await"]]
         \/ /\ ToolEvent(w, "failed")
            /\ conn' = [conn EXCEPT ![c].stage = "failing"]
  /\ ctl' = [ctl EXCEPT !.pending = None]
  /\ tool' = Deliver(w)
  /\ UNCHANGED <<line, handle, active, finish, srv, db>>

\* #failConnections, with the rejection of the pending request: calls that
\* wait are canceled and their frontends closed, the current one is told, and
\* its channels are finished next.
FailConnections ==
  /\ conn' = [c \in Calls |->
       IF c = ctl.current
         THEN [Cancel(conn[c]) EXCEPT !.failure = TRUE,
                 !.result = IF ctl.pending = "prepare" THEN "failed" ELSE @,
                 !.stage = CASE ctl.pending = "prepare" -> "finally"
                             [] ctl.pending = "run" -> "failing"
                             [] OTHER -> @]
       ELSE IF conn[c].stage = "queued"
         THEN CloseFront(Cancel([conn[c] EXCEPT !.failure = TRUE]))
       ELSE conn[c]]
  /\ finish' = IF ctl.current = None THEN finish
               ELSE [call |-> ctl.current, pc |-> "judge"]

\* #handleFatal: the worker is dropped; if the tool's protocol outcome is
\* unknown, no other tool will run.
OnToolFatal(w) ==
  /\ w = ctl.worker /\ ToolEvent(w, "error")
  /\ FailConnections
  /\ ctl' = [ctl EXCEPT !.pending = None, !.worker = 0, !.prepared = FALSE,
               !.fatal = @ \/ (ctl.current # None /\ conn[ctl.current].protocol = "active")]
  /\ tool' = Deliver(w)
  /\ UNCHANGED <<line, handle, active, srv, db>>

\* close() of the controller, once the session's close has settled.
CloseResources ==
  /\ PageFree /\ handle = "closed" /\ ~ctl.closed
  /\ FailConnections
  /\ ctl' = [ctl EXCEPT !.pending = None, !.worker = 0, !.prepared = FALSE,
                        !.fatal = TRUE, !.closed = TRUE]
  /\ UNCHANGED <<line, handle, active, tool, srv, db>>

\* finishFailedToolChannels of the page: PROTOCOL_STATE is read, and then the
\* channels are failed or the frontend closed, while the tool may still run.
Judge ==
  /\ finish.pc = "judge"
  /\ finish' = [finish EXCEPT !.pc =
                  IF conn[finish.call].protocol = "active" THEN "fail" ELSE "close"]
  /\ UNCHANGED <<line, handle, active, ctl, conn, tool, srv, db>>

FinishChannels ==
  /\ finish.pc \in {"fail", "close"}
  /\ conn' = [conn EXCEPT ![finish.call] =
                IF finish.pc = "fail" THEN FailBoth(@)
                ELSE [CloseFront(@) EXCEPT !.late = @ \/ conn[finish.call].protocol = "active"]]
  /\ finish' = [call |-> None, pc |-> "idle"]
  /\ UNCHANGED <<line, handle, active, ctl, tool, srv, db>>

\* The catch clause of #runOne
FailRun(c) ==
  /\ PageFree /\ conn[c].stage = "failing"
  /\ conn' = [conn EXCEPT ![c] = Fails(@)]
  /\ finish' = [call |-> c, pc |-> "judge"]
  /\ UNCHANGED <<line, handle, active, ctl, tool, srv, db>>


\* The tool has completed and so has the database.
Served(c) ==
  /\ PageFree /\ conn[c].stage = "await" /\ conn[c].served # None
  /\ conn' = [conn EXCEPT ![c].stage = "finally", ![c].result = conn[c].served]
  /\ UNCHANGED <<line, handle, active, ctl, finish, tool, srv, db>>

\* The finally clause of #runOne: a started connection is awaited, unless the
\* controller is closing; then the next call may begin.
EndOne(c) ==
  /\ PageFree /\ conn[c].stage = "finally"
  /\ conn[c].reservation = "started" /\ ~ctl.closed => conn[c].served # None
  /\ conn' = [conn EXCEPT ![c] = Ended(@)]
  /\ ctl' = [ctl EXCEPT !.current = None]
  /\ UNCHANGED <<line, handle, active, finish, tool, srv, db>>

-----------------------------------------------------------------------------
(* The tool worker *)

\* A worker that was dropped may run on, but once its call has ended nobody
\* else holds the channels it works on, and its steps are left out.
ToolAt(w, pcs) ==
  /\ tool[w].running /\ tool[w].pc \in pcs
  /\ tool[w].call \in Calls => conn[tool[w].call].stage # "done"

Reply(t, kind) == [t EXCEPT !.pc = "idle", !.call = None, !.piece = 0, !.frames = 0,
                            !.out = Append(@, kind)]

\* prepare: the worker's module is fetched, verified and compiled, or not.
Prepare(w) ==
  /\ ToolAt(w, {"prepare"})
  /\ \E kind \in {"prepared", "failed"} : tool' = [tool EXCEPT ![w] = Reply(@, kind)]
  /\ UNCHANGED <<pageVars, conn, srv, db>>

\* The first protocol callback marks the protocol started before its I/O.
MarkStarted(w) ==
  /\ ToolAt(w, {"start"})
  /\ conn' = [conn EXCEPT ![tool[w].call].protocol = "active"]
  /\ tool' = [tool EXCEPT ![w].pc = "talk"]
  /\ UNCHANGED <<line, handle, active, ctl, finish, srv, db>>

\* The tool writes a frame, or the one that ends the connection, piece by
\* piece; a closed or failed channel makes the call throw.
ToolWrite(w) ==
  /\ ToolAt(w, {"talk"}) /\ tool[w].piece < 2
  /\ LET c == tool[w].call
     IN  IF conn[c].frontEnd # "open"
           THEN tool' = [tool EXCEPT ![w].pc = "catch"] /\ UNCHANGED conn
           ELSE /\ Len(conn[c].front) < ChannelSize
                /\ \/ /\ tool[w].piece = 1 \/ tool[w].frames < MaxFrames
                      /\ conn' = [conn EXCEPT ![c].front = Append(@, "piece")]
                      /\ tool' = [tool EXCEPT ![w].piece = @ + 1]
                   \/ /\ tool[w].piece = 0
                      /\ conn' = [conn EXCEPT ![c].front = Append(@, "terminate")]
                      /\ tool' = [tool EXCEPT ![w].pc = "exit"]
  /\ UNCHANGED <<line, handle, active, ctl, finish, srv, db>>

\* It reads the reply; end of file makes it exit.
ToolRead(w) ==
  /\ ToolAt(w, {"talk"}) /\ tool[w].piece >= 2
  /\ LET c == tool[w].call
     IN  \/ /\ conn[c].backEnd = "failed"
            /\ tool' = [tool EXCEPT ![w].pc = "catch"]
            /\ UNCHANGED conn
         \/ /\ conn[c].backEnd # "failed" /\ conn[c].back > 0
            /\ conn' = [conn EXCEPT ![c].back = @ - 1]
            /\ tool' = [tool EXCEPT ![w].piece = (@ + 1) % 4,
                                    ![w].frames = IF tool[w].piece = 3 THEN @ + 1 ELSE @]
         \/ /\ conn[c].backEnd = "closed" /\ conn[c].back = 0
            /\ tool' = [tool EXCEPT ![w].pc = "exit"]
            /\ UNCHANGED conn
  /\ UNCHANGED <<line, handle, active, ctl, finish, srv, db>>

\* The process exits between two exchanges, or traps anywhere, or could not
\* be started with its mounts.
ToolExits(w) ==
  /\ ToolAt(w, {"start", "talk"})
  /\ \/ tool[w].piece = 0 /\ tool' = [tool EXCEPT ![w].pc = "exit"]
     \/ tool' = [tool EXCEPT ![w].pc = "catch"]
  /\ UNCHANGED <<pageVars, conn, srv, db>>

\* markWasixByteChannelProtocolComplete, before the frontend is closed
MarkComplete(w) ==
  /\ ToolAt(w, {"exit"})
  /\ conn' = [conn EXCEPT ![tool[w].call].protocol = IF @ = "active" THEN "complete" ELSE @]
  /\ tool' = [tool EXCEPT ![w].pc = "eof"]
  /\ UNCHANGED <<line, handle, active, ctl, finish, srv, db>>

\* The frontend is closed and the mounts released, which may fail.
Complete(w) ==
  /\ ToolAt(w, {"eof"})
  /\ conn' = [conn EXCEPT ![tool[w].call] = CloseFront(@)]
  /\ \/ tool' = [tool EXCEPT ![w] = Reply(@, "completed")]
     \/ tool' = [tool EXCEPT ![w].pc = "catch"]
  /\ UNCHANGED <<line, handle, active, ctl, finish, srv, db>>


CatchFails(w) ==
  /\ ToolAt(w, {"catch"})
  /\ conn' = [conn EXCEPT ![tool[w].call] = FailBoth(@)]
  /\ tool' = [tool EXCEPT ![w].pc = "failed"]
  /\ UNCHANGED <<line, handle, active, ctl, finish, srv, db>>

\* finishFailedToolChannels of the worker: the channels are failed if the
\* outcome is unknown, before the frontend is closed.
Catch(w) ==
  /\ ToolAt(w, {"catch"})
  /\ conn' = [conn EXCEPT ![tool[w].call] =
                IF conn[tool[w].call].protocol = "active" THEN FailBoth(@) ELSE @]
  /\ tool' = [tool EXCEPT ![w].pc = "failed"]
  /\ UNCHANGED <<line, handle, active, ctl, finish, srv, db>>

ReplyFailed(w) ==
  /\ ToolAt(w, {"failed"})
  /\ conn' = [conn EXCEPT ![tool[w].call] = CloseFront(@)]
  /\ tool' = [tool EXCEPT ![w] = Reply(@, "failed")]
  /\ UNCHANGED <<line, handle, active, ctl, finish, srv, db>>

\* The tool worker fails: its event reaches the page, and it may go on.
ToolCrashes(w) ==
  /\ tool[w].running /\ w < MaxWorkers /\ w = ctl.worker
  /\ \A i \in DOMAIN tool[w].out : tool[w].out[i] # "error"
  /\ tool' = [tool EXCEPT ![w].out = Append(@, "error")]
  /\ UNCHANGED <<pageVars, conn, srv, db>>

\* A worker the controller has dropped is terminated.
ToolTerminated(w) ==
  /\ tool[w].running /\ w # ctl.worker /\ finish.call = None
  /\ tool' = [tool EXCEPT ![w] = Absent]
  /\ UNCHANGED <<pageVars, conn, srv, db>>

-----------------------------------------------------------------------------
(* The database worker *)

ServeAt(pcs) == db.alive /\ srv.pc \in pcs

\* #runToolSession first resets the session.
ServeResets ==
  /\ ServeAt({"reset"})
  /\ \/ /\ ~db.poisoned
        /\ srv' = [srv EXCEPT !.pc = "read"]
        /\ UNCHANGED db
     \/ /\ srv' = [srv EXCEPT !.pc = "done", !.ok = FALSE, !.fault = TRUE]
        /\ db' = [db EXCEPT !.poisoned = TRUE]
  /\ UNCHANGED <<pageVars, conn, tool>>

\* The frame reader takes the next piece.  A whole frame is executed, which
\* may fail; end of file inside a frame is an error.
ServeReads ==
  /\ ServeAt({"read"})
  /\ LET c == srv.call
         r == conn[c]
     IN  \/ /\ r.frontEnd = "failed"
            /\ srv' = [srv EXCEPT !.pc = "end", !.held = 0, !.ok = FALSE]
            /\ UNCHANGED conn
         \/ /\ r.frontEnd # "failed" /\ r.front # << >> /\ Head(r.front) = "terminate"
            /\ srv' = [srv EXCEPT !.pc = "end"]
            /\ conn' = [conn EXCEPT ![c].front = Tail(@), ![c].end = "terminate"]
         \/ /\ r.frontEnd # "failed" /\ r.front # << >> /\ Head(r.front) = "piece"
            /\ conn' = [conn EXCEPT ![c].front = Tail(@), ![c].ran = @ \/ srv.held = 1]
            /\ \/ srv.held = 0 /\ srv' = [srv EXCEPT !.held = 1]
               \/ srv.held = 1 /\ srv' = [srv EXCEPT !.held = 0, !.pc = "reply"]
               \/ /\ srv.held = 1
                  /\ srv' = [srv EXCEPT !.held = 0, !.pc = "end", !.ok = FALSE, !.fault = TRUE]
         \/ /\ r.frontEnd = "closed" /\ r.front = << >>
            /\ srv' = [srv EXCEPT !.pc = "end", !.held = 0, !.ok = srv.held = 0]
            /\ conn' = [conn EXCEPT ![c].end = "eof"]
  /\ UNCHANGED <<pageVars, tool, db>>

\* The reply is written, waiting for room in the backend channel.
ServeWrites ==
  /\ ServeAt({"reply", "rest"})
  /\ LET c == srv.call
     IN  IF conn[c].backEnd # "open"
           THEN srv' = [srv EXCEPT !.pc = "end", !.ok = FALSE] /\ UNCHANGED conn
           ELSE /\ conn[c].back < ChannelSize
                /\ conn' = [conn EXCEPT ![c].back = @ + 1]
                /\ srv' = [srv EXCEPT !.pc = IF srv.pc = "reply" THEN "rest" ELSE "read"]
  /\ UNCHANGED <<line, handle, active, ctl, finish, tool, db>>

\* The backend is closed, whatever ended the connection.
ServeCloses ==
  /\ ServeAt({"end"})
  /\ conn' = [conn EXCEPT ![srv.call] = CloseBack(@)]
  /\ srv' = [srv EXCEPT !.pc = "cleanup"]
  /\ UNCHANGED <<pageVars, tool, db>>

\* Faulty variant: a failed connection leaves the session usable.
ServeEndsHealthy ==
  /\ ServeAt({"cleanup"})
  /\ \E broken \in BOOLEAN :
       /\ srv' = [srv EXCEPT !.pc = "done", !.ok = srv.ok /\ ~broken, !.fault = @ \/ broken]
       /\ db' = [db EXCEPT !.poisoned = broken]
  /\ UNCHANGED <<pageVars, conn, tool>>

\* An open transaction is rolled back, the session reset and its files
\* published; a failure of that or of the connection leaves it unusable.
ServeEnds ==
  /\ ServeAt({"cleanup"})
  /\ \E broken \in BOOLEAN :
       /\ srv' = [srv EXCEPT !.pc = "done", !.ok = srv.ok /\ ~broken, !.fault = @ \/ broken]
       /\ db' = [db EXCEPT !.poisoned = ~srv.ok \/ broken]
  /\ UNCHANGED <<pageVars, conn, tool>>

\* The database worker dies, at any time.
DatabaseDies ==
  /\ db.alive
  /\ db' = [db EXCEPT !.alive = FALSE]
  /\ UNCHANGED <<pageVars, conn, tool, srv>>

-----------------------------------------------------------------------------
Page ==
  \/ Dispatch \/ ServeSettles
  \/ BeginOne \/ Judge \/ FinishChannels \/ CloseResources
  \/ \E w \in Workers : RetiredEvent(w) \/ OnPrepared(w) \/ OnCompleted(w) \/ OnToolFatal(w)
  \/ \E c \in Calls : FailRun(c) \/ Served(c) \/ EndOne(c)

ToolStep(w) ==
  \/ Prepare(w) \/ MarkStarted(w) \/ ToolWrite(w) \/ ToolRead(w)
  \/ ToolExits(w) \/ MarkComplete(w) \/ Complete(w) \/ Catch(w) \/ ReplyFailed(w)

ServeStep == ServeResets \/ ServeReads \/ ServeWrites \/ ServeCloses \/ ServeEnds

Next ==
  \/ Close
  \/ \E c \in Calls : RunTool(c)
  \/ Page
  \/ ServeStep
  \/ DatabaseDies
  \/ \E w \in Workers : ToolStep(w) \/ ToolCrashes(w) \/ ToolTerminated(w)

\* The page's event loop, the database worker and every tool worker run;
\* nobody need call, and nothing need crash.
Fairness ==
  /\ WF_vars(Page) /\ WF_vars(ServeStep)
  /\ \A w \in Workers : WF_vars(ToolStep(w))

Spec == Init /\ [][Next]_vars /\ Fairness

-----------------------------------------------------------------------------
(* Properties *)

\* Every variable holds a value of its type; counters and channels stay in
\* their bounds.
TypeOK ==
  /\ line \in Seq(Calls \cup {"close"})
  /\ handle \in {"open", "closing", "closed"}
  /\ active \in Calls \cup {None}
  /\ ctl.worker \in 0..MaxWorkers /\ ctl.made \in Workers \cup {0}
  /\ \A c \in Calls :
       /\ conn[c].stage \in {"none", "queued", "prepare", "run", "failing", "await",
                             "finally", "done"}
       /\ conn[c].reservation \in {None, "pending", "started", "canceled"}
       /\ conn[c].protocol \in {"idle", "active", "complete"}
       /\ Len(conn[c].front) <= ChannelSize /\ conn[c].back \in 0..ChannelSize
  /\ \A w \in Workers : tool[w].piece \in 0..3 /\ tool[w].frames \in 0..MaxFrames
  /\ srv.held \in 0..1


\* A connection that failed leaves no usable database behind ...
FailedServePoisons ==
  \A c \in Calls : conn[c].served = "failed" => db.poisoned \/ ~db.alive

\* ... and the database is made unusable only by its own failure or by a tool
\* that had begun its protocol: one that fails before that is harmless.
HarmlessFailureSpares ==
  [][db'.poisoned /\ ~db.poisoned /\ active \in Calls /\ ~srv'.fault
       => conn[active].protocol # "idle"]_vars


=============================================================================
