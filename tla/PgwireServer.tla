---------------------------- MODULE PgwireServer ----------------------------
(***************************************************************************)
(* The WASIX PostgreSQL socket server: its asynchronous handle and owner   *)
(* thread (pgwire-server/src/async_server.rs), start and stop (server.rs), *)
(* the listener thread that serves one connection at a time with a backend *)
(* of its own (proxy.rs), and the ownership of the database files          *)
(* (sdks/rust/src/session.rs).                                             *)
(*                                                                         *)
(* A step is what a thread does from one lock, atomic access, system call  *)
(* or backend call to the next.  Messages are numbered by their place in   *)
(* their connection and have two halves, so that a read can stop inside    *)
(* one.  Clients keep to the protocol: a startup packet, possibly after an *)
(* SSL request, or a cancel request; then messages, waiting after a COPY   *)
(* FROM for the answer to it; then Terminate.                              *)
(***************************************************************************)
EXTENDS Naturals, Sequences, FiniteSets

CONSTANTS Clients,      \* connections
          Callers,      \* clones of the handle
          Endpoints,    \* "tcp" and "unix"
          MaxMessages   \* bound: messages of all connections

ASSUME ServerAssumption ==
  /\ Endpoints \subseteq {"tcp", "unix"} /\ MaxMessages \in Nat
  /\ IsFiniteSet(Clients) /\ IsFiniteSet(Callers)

VARIABLES endpoint,
          start,      \* the start future: pending, dropped, failed, done
          handles,    \* the clones that are alive
          caller,     \* each clone: idle, or in close(); the close results
          state,      \* Open, Closing, Closed with waiters and result
          control,    \* Close messages to the owner
          owner,      \* the owner thread: where it is, the result so far
          root,       \* the prepared database: free or locked
          path,       \* the Unix socket file
          shutdown,   \* the flag of the listener
          active,     \* ActiveConnection
          backlog,    \* connections not yet accepted
          client,     \* each connection: its socket and what it has sent
          listener,   \* the listener thread
          serving,    \* handle_stream: what it has read and passed on
          sessions,   \* the connections whose backend was not shut down
          latch       \* backend_teardown_failure

handleVars == <<start, handles, caller, state, control>>
ownerVars  == <<owner, root, path, shutdown>>
serveVars  == <<listener, serving, sessions, latch>>
vars == <<endpoint, handleVars, ownerVars, active, backlog, client, serveVars>>

None == "none"
Wakeup == "wakeup"   \* the connection of wake_listener

\* handle_stream at its start
Fresh == [read |-> 0,         \* halves the frame reader got
          taken |-> 0,        \* halves taken from the socket, by anyone
          handled |-> 0,      \* messages the loop is past
          batch |-> << >>,    \* protocol_batch: numbers of messages
          ending |-> FALSE,   \* close_after_flush
          backend |-> FALSE,  \* a WireBackend is open
          flush |-> "boundary", reply |-> None,  \* why it flushes, what it writes
          panicked |-> FALSE,
          got |-> << >>]      \* the halves the backend got

Init ==
  /\ endpoint \in Endpoints
  /\ start = "pending" /\ handles = {}
  /\ caller = [c \in Callers |-> [at |-> "idle", result |-> None]]
  /\ state = [phase |-> "Open", waiters |-> {}, result |-> None]
  /\ control = 0
  /\ owner = [at |-> "prepare", result |-> "ok"]
  /\ root = "free" /\ path = "absent" /\ shutdown = FALSE
  /\ active = None /\ backlog = << >>
  /\ client = [c \in Clients |-> [socket |-> "new", sent |-> << >>]]
  /\ listener = [at |-> "absent", conn |-> None, result |-> None]
  /\ serving = Fresh /\ sessions = {} /\ latch = FALSE

-----------------------------------------------------------------------------
(* The asynchronous handle *)

\* Dropping the start future drops the handle it is about to get.
DropStart ==
  /\ start = "pending" /\ start' = "dropped"
  /\ UNCHANGED <<endpoint, handles, caller, state, control, ownerVars, active,
                 backlog, client, serveVars>>

\* close_with_completion: the first caller starts the shutdown, others join it,
\* and once it is over its result is replayed.
Close(c) ==
  /\ c \in handles /\ caller[c] = [at |-> "idle", result |-> None]
  /\ CASE state.phase = "Open" ->
            /\ state' = [state EXCEPT !.phase = "Closing", !.waiters = {c}]
            /\ control' = control + 1
            /\ caller' = [caller EXCEPT ![c].at = "waiting"]
       [] state.phase = "Closing" ->
            /\ state' = [state EXCEPT !.waiters = @ \cup {c}]
            /\ caller' = [caller EXCEPT ![c].at = "waiting"]
            /\ UNCHANGED control
       [] state.phase = "Closed" ->
            /\ caller' = [caller EXCEPT ![c].result = state.result]
            /\ UNCHANGED <<state, control>>
  /\ UNCHANGED <<endpoint, start, handles, ownerVars, active, backlog, client, serveVars>>

\* The future of close is dropped; its completion stays registered.
DropClose(c) ==
  /\ caller[c].at = "waiting"
  /\ caller' = [caller EXCEPT ![c].at = "idle"]
  /\ UNCHANGED <<endpoint, start, handles, state, control, ownerVars, active,
                 backlog, client, serveVars>>

\* The last clone sends Close when it is dropped.
DropHandle(c) ==
  /\ c \in handles /\ caller[c].at = "idle"
  /\ handles' = handles \ {c}
  /\ control' = IF handles' = {} THEN control + 1 ELSE control
  /\ UNCHANGED <<endpoint, start, caller, state, ownerVars, active, backlog,
                 client, serveVars>>

-----------------------------------------------------------------------------
(* The owner thread: start *)

\* start_inner fails before anything needs to be released; or the database is
\* prepared and its root locked.
Prepare ==
  /\ owner.at = "prepare"
  /\ \/ owner' = [owner EXCEPT !.at = "bind"] /\ root' = "locked" /\ UNCHANGED start
     \/ owner' = [owner EXCEPT !.at = "stopped"] /\ start' = "failed" /\ UNCHANGED root
  /\ UNCHANGED <<endpoint, handles, caller, state, control, path, shutdown,
                 active, backlog, client, serveVars>>

\* start_tcp, start_unix: the listener is bound and its thread serves.  When
\* that fails the proxy is gone and the root is released.
Bind ==
  /\ owner.at = "bind"
  /\ \/ /\ owner' = [owner EXCEPT !.at = "callback"]
        /\ path' = IF endpoint = "unix" THEN "ours" ELSE path
        /\ listener' = [listener EXCEPT !.at = "loop"]
        /\ UNCHANGED <<start, root>>
     \/ /\ owner' = [owner EXCEPT !.at = "stopped"] /\ start' = "failed"
        /\ root' = "free"
        /\ UNCHANGED <<path, listener>>
  /\ UNCHANGED <<endpoint, handles, caller, state, control, shutdown, active,
                 backlog, client, serving, sessions, latch>>

\* The completion of start gets the handle; a dropped future drops it.
Callback ==
  /\ owner.at = "callback"
  /\ owner' = [owner EXCEPT !.at = "receive"]
  /\ start' = "done"
  /\ IF start = "pending" THEN handles' = Callers /\ UNCHANGED control
     ELSE control' = control + 1 /\ UNCHANGED handles
  /\ UNCHANGED <<endpoint, caller, state, root, path, shutdown, active, backlog,
                 client, serveVars>>

-----------------------------------------------------------------------------
(* The owner thread: stop *)

OwnerStep(from, to) == owner.at = from /\ owner' = [owner EXCEPT !.at = to]

\* The first Close message; stop begins with the flag.
Receive ==
  /\ OwnerStep("receive", "cut") /\ control > 0
  /\ shutdown' = TRUE
  /\ UNCHANGED <<endpoint, handleVars, root, path, active, backlog, client, serveVars>>

\* ActiveConnection.shutdown
Shut(c) == IF c \in Clients /\ client[c].socket = "open"
           THEN [client EXCEPT ![c].socket = "shut"] ELSE client

\* Mutant: the active connection is left alone.
CutNothing ==
  /\ OwnerStep("cut", "wake")
  /\ UNCHANGED <<endpoint, handleVars, root, path, shutdown, active, backlog,
                 client, serveVars>>

Cut ==
  /\ OwnerStep("cut", "wake")
  /\ client' = Shut(active)
  /\ UNCHANGED <<endpoint, handleVars, root, path, shutdown, active, backlog, serveVars>>

\* wake_listener connects to the endpoint; a failure to do so is ignored.
Wake ==
  /\ OwnerStep("wake", "join")
  /\ backlog' = IF listener.at # "exited" /\ (endpoint = "tcp" \/ path = "ours")
                THEN Append(backlog, Wakeup) ELSE backlog
  /\ UNCHANGED <<endpoint, handleVars, root, path, shutdown, active, client, serveVars>>

\* handle.join()
Join ==
  /\ owner.at = "join" /\ listener.at = "exited"
  /\ owner' = [at |-> "socket", result |-> listener.result]
  /\ UNCHANGED <<endpoint, handleVars, root, path, shutdown, active, backlog,
                 client, serveVars>>

\* OwnedUnixSocket.cleanup: a replaced file is not removed, a missing one is no
\* error.  After a failure the destructor tries again and reports nothing.
CleanSocket ==
  /\ owner.at = "socket"
  /\ \/ /\ path = "ours" /\ path' = "absent"
        /\ owner' = [owner EXCEPT !.at = "release"]
     \/ /\ path = "absent" /\ UNCHANGED path
        /\ owner' = [owner EXCEPT !.at = "release"]
     \/ /\ path # "absent"
        /\ path' \in IF path = "ours" THEN {"ours", "absent"} ELSE {path}
        /\ owner' = [at |-> "release", result |-> "failed"]
  /\ UNCHANGED <<endpoint, handleVars, root, shutdown, active, backlog, client, serveVars>>

\* Mutant: the root is released whatever the worker reported.
ReleaseAlways ==
  /\ owner.at = "release"
  /\ owner' = [at |-> "drop", result |-> "ok"] /\ root' = "free"
  /\ UNCHANGED <<endpoint, handleVars, path, shutdown, active, backlog, client, serveVars>>

\* PreparedDatabase.release: the proxy's runtime is gone with its thread, and no
\* session holds the lifetime count.
Releasable == sessions = {} /\ listener.at = "exited"

\* stop ends with the release, after success; otherwise the root stays locked.
Release ==
  /\ owner.at = "release"
  /\ IF owner.result = "ok" /\ Releasable
       THEN root' = "free" /\ owner' = [owner EXCEPT !.at = "drop"]
       ELSE owner' = [at |-> "drop", result |-> "failed"] /\ UNCHANGED root
  /\ UNCHANGED <<endpoint, handleVars, path, shutdown, active, backlog, client, serveVars>>

\* complete(): the server is dropped, then the result is published.  A panic
\* of a destructor leaves it to the guard OwnerStopped.
Complete ==
  /\ owner.at = "drop"
  /\ \E r \in {owner.result, "stopped"} :
       /\ state' = [state EXCEPT !.phase = "Closed", !.result = r]
       /\ owner' = [at |-> "dispatch", result |-> r]
  /\ UNCHANGED <<endpoint, start, handles, caller, control, root, path, shutdown,
                 active, backlog, client, serveVars>>

\* dispatch: one completion after the other, outside the lock.
Dispatch ==
  /\ owner.at = "dispatch"
  /\ IF state.waiters = {}
       THEN owner' = [owner EXCEPT !.at = "stopped"] /\ UNCHANGED <<state, caller>>
       ELSE \E c \in state.waiters :
              /\ state' = [state EXCEPT !.waiters = @ \ {c}]
              /\ caller' = IF caller[c].at = "waiting"
                           THEN [caller EXCEPT ![c] = [at |-> "idle", result |-> state.result]]
                           ELSE caller
              /\ UNCHANGED owner
  /\ UNCHANGED <<endpoint, start, handles, control, root, path, shutdown, active,
                 backlog, client, serveVars>>

-----------------------------------------------------------------------------
(* The listener thread: serve_tcp_listener_until_ready and its Unix twin *)

environment == <<endpoint, handleVars, ownerVars>>

Gone == [socket |-> "gone", sent |-> << >>]

\* The thread returns: the listening socket and what waits on it are gone.
Exit(r) ==
  /\ listener' = [at |-> "exited", conn |-> None, result |-> r]
  /\ backlog' = << >>
  /\ client' = [c \in Clients |->
                 IF client[c].socket = "new" THEN client[c] ELSE Gone]

Go(to) == listener' = [listener EXCEPT !.at = to]

Loop ==
  /\ listener.at = "loop"
  /\ IF shutdown THEN Exit("ok") ELSE Go("accept") /\ UNCHANGED <<backlog, client>>
  /\ UNCHANGED <<environment, active, serving, sessions, latch>>

Accept ==
  /\ listener.at = "accept"
  /\ \/ /\ backlog # << >>
        /\ listener' = [listener EXCEPT !.at = "recheck", !.conn = Head(backlog)]
        /\ backlog' = Tail(backlog)
        /\ UNCHANGED client
     \/ backlog # << >> /\ Exit("failed")
  /\ UNCHANGED <<environment, active, serving, sessions, latch>>

Recheck ==
  /\ listener.at = "recheck"
  /\ IF shutdown THEN Exit("ok") ELSE Go("register") /\ UNCHANGED <<backlog, client>>
  /\ UNCHANGED <<environment, active, serving, sessions, latch>>

Dropped(c) == IF c \in Clients THEN [client EXCEPT ![c] = Gone] ELSE client

\* ActiveConnection.register, after the socket options; either may fail.
Register ==
  /\ listener.at = "register"
  /\ \/ /\ active = None /\ active' = listener.conn
        /\ Go("registered") /\ UNCHANGED client
     \/ /\ listener' = [listener EXCEPT !.at = "latch", !.conn = None]
        /\ client' = Dropped(listener.conn) /\ UNCHANGED active
  /\ UNCHANGED <<environment, backlog, serving, sessions, latch>>

Registered ==
  /\ listener.at = "registered"
  /\ serving' = Fresh
  /\ IF shutdown THEN client' = Shut(active) /\ Go("leave")
     ELSE Go("read") /\ UNCHANGED client
  /\ UNCHANGED <<environment, active, backlog, sessions, latch>>

\* The guard of the registration and the stream are dropped.
Leave ==
  /\ listener.at = "leave"
  /\ active' = None
  /\ IF serving.panicked THEN Exit("failed")
     ELSE /\ listener' = [listener EXCEPT !.at = "latch", !.conn = None]
          /\ client' = Dropped(listener.conn) /\ UNCHANGED backlog
  /\ serving' = Fresh
  /\ UNCHANGED <<environment, sessions, latch>>

\* Mutant: a failed teardown is only logged.
LatchIgnored ==
  /\ listener.at = "latch" /\ Go("loop")
  /\ UNCHANGED <<environment, active, backlog, client, serving, sessions, latch>>

\* connection_teardown_failure: after a backend that could not be shut down
\* no other connection is served.
Latch ==
  /\ listener.at = "latch"
  /\ IF latch THEN Exit("failed") ELSE Go("loop") /\ UNCHANGED <<backlog, client>>
  /\ UNCHANGED <<environment, active, serving, sessions, latch>>

-----------------------------------------------------------------------------
(* handle_stream: the frontend loop *)

Conn == client[listener.conn]
Halves(from, to) == [i \in 1..(to - from) |-> from + i]   \* the halves after from, up to to
Unread == 2 * Len(Conn.sent) - serving.taken

Serve(at, next) ==
  /\ Go(at) /\ serving' = next
  /\ UNCHANGED <<environment, active, backlog, client, sessions, latch>>

\* handle_stream returns, or unwinds: what was sent no longer matters, and what
\* is left to do is to close the backend.
Finishing(s) ==
  /\ Go("finish")
  /\ serving' = [Fresh EXCEPT !.backend = s.backend, !.panicked = s.panicked]
  /\ client' = [client EXCEPT ![listener.conn].sent = << >>]
  /\ UNCHANGED <<environment, active, backlog, sessions, latch>>

\* read_frontend: the flag, the read, and on TCP the read timeout.
ReadCheck ==
  /\ listener.at = "read"
  /\ Serve(IF shutdown THEN "eof" ELSE "reading", serving)

ReadData ==
  /\ listener.at = "reading"
  /\ \E n \in 1..Unread :
       Serve("handle", [serving EXCEPT !.read = @ + n, !.taken = @ + n])

ReadEnds ==
  /\ listener.at = "reading" /\ Conn.socket \in {"closed", "shut"}
  /\ (Unread = 0 /\ Serve("eof", serving)) \/ Finishing(serving)

ReadTimedOut ==
  /\ listener.at = "reading" /\ endpoint = "tcp" /\ Unread = 0
  /\ Serve("read", serving)

\* read == 0: what was collected is still sent to the backend.
Eof ==
  /\ listener.at = "eof"
  /\ IF serving.batch = << >> THEN Finishing(serving)
     ELSE Serve("flush", [serving EXCEPT !.flush = "eof"])

Framed == serving.read \div 2          \* the messages the frame reader has completed
Upcoming == serving.handled + 1
At(kinds) == /\ listener.at = "handle" /\ Upcoming <= Framed
             /\ Conn.sent[Upcoming] \in kinds
Past == [serving EXCEPT !.handled = @ + 1]
Control == {"ssl", "cancel", "terminate", "startup"}

MessagesDone ==
  /\ listener.at = "handle" /\ serving.handled = Framed
  /\ IF serving.ending THEN Finishing(serving) ELSE Serve("read", serving)

\* flush_protocol_batch_if_started, ahead of every control packet
HandleControl ==
  /\ At(Control) /\ serving.batch # << >>
  /\ Serve("flush", [serving EXCEPT !.flush = "control"])

HandleSsl ==
  /\ At({"ssl"}) /\ serving.batch = << >>
  /\ Serve("write", [Past EXCEPT !.reply = "ssl"])

HandleEnding ==
  /\ At({"cancel", "terminate"}) /\ serving.batch = << >>
  /\ Serve("handle", [Past EXCEPT !.ending = TRUE])

HandleStartup ==
  /\ At({"startup"}) /\ serving.batch = << >>
  /\ Serve("open", Past)

\* should_flush_protocol_batch
ShouldFlush(kind, last) == kind \in {"query", "in"} \/ (kind = "sync" /\ last)

HandleProtocol ==
  /\ At({"part", "sync", "query", "in"})
  /\ LET batched == [Past EXCEPT !.batch = Append(@, Upcoming), !.flush = "boundary"]
     IN Serve(IF ShouldFlush(Conn.sent[Upcoming], Upcoming = Framed)
              THEN "flush" ELSE "handle", batched)

\* A backend call that panics unwinds the thread: the backend is closed by its
\* destructor on the way.
Panic == Finishing([serving EXCEPT !.panicked = TRUE])

Open ==
  /\ listener.at = "open"
  /\ \/ /\ Go("startup") /\ serving' = [serving EXCEPT !.backend = TRUE]
        /\ sessions' = sessions \cup {listener.conn}
        /\ UNCHANGED <<environment, active, backlog, client, latch>>
     \/ Serve("write", [serving EXCEPT !.reply = "final"])
     \/ Panic

\* WireBackend.startup and set_role: accepted, refused, or an error.
Startup ==
  /\ listener.at = "startup"
  /\ \/ \E r \in {"startup", "final"} : Serve("write", [serving EXCEPT !.reply = r])
     \/ Finishing(serving)
     \/ Panic

\* write_frontend and write_backend_response; after the startup response the
\* stream is attached to the backend, which may fail.
Written == [serving EXCEPT !.reply = None, !.flush = "boundary"]

Wrote ==
  /\ listener.at = "write"
  /\ CASE serving.reply = "final" -> Finishing(serving)
       [] serving.reply = "startup" -> Serve("handle", Written) \/ Finishing(serving)
       [] serving.reply = "ssl" -> Serve("handle", Written)
       [] serving.reply = "response" ->
            Serve(IF serving.flush = "eof" THEN "eof" ELSE "handle", Written)

WriteFails ==
  /\ listener.at = "write" /\ Conn.socket # "open"
  /\ IF serving.reply = "ssl" THEN Serve("handle", [Written EXCEPT !.ending = TRUE])
     ELSE Finishing(serving)

-----------------------------------------------------------------------------
(* handle_stream: the backend's turn *)

Kinds(batch) == {Conn.sent[m] : m \in {batch[i] : i \in DOMAIN batch}}

\* The batch as the halves of its messages.  Messages of a batch are consecutive.
BatchHalves(batch) ==
  IF batch = << >> THEN << >>
  ELSE Halves(2 * (batch[1] - 1), 2 * batch[Len(batch)])

\* Mutant: the bytes of an incomplete message are forgotten.
ContinuationWithoutPending ==
  IF serving.flush = "boundary" THEN Halves(2 * serving.handled, 2 * Framed)
  ELSE << >>

\* ContinuationPrefix: the messages not handled yet and the incomplete one.
Continuation ==
  IF serving.flush = "boundary" THEN Halves(2 * serving.handled, serving.read) ELSE << >>

\* send_protocol_pump: the answer is buffered; or the batch started a COPY, and
\* from then on the backend reads and writes the socket.  A COPY FROM reads
\* before the call returns and the continuation is handed over.
Exchange ==
  /\ listener.at = "flush"
  /\ LET sent == [serving EXCEPT !.batch = << >>, !.got = @ \o BatchHalves(serving.batch)]
     IN \/ Serve("write", [sent EXCEPT !.reply = "response"])
        \/ "in" \in Kinds(serving.batch) /\ Serve("copy", sent)
        \/ /\ Kinds(serving.batch) \cap {"part", "query"} # {}
           /\ Serve("pump", [sent EXCEPT !.got = @ \o Continuation])
        \/ Finishing(sent)
        \/ Finishing([sent EXCEPT !.panicked = TRUE])

\* The backend reads the socket, through read_frontend; after the end of the
\* input, or the flag, was seen once there is nothing more to read.
BackendReads ==
  /\ listener.at \in {"copy", "pump"} /\ Unread > 0 /\ serving.flush # "eof"
  /\ Serve(listener.at, [serving EXCEPT !.taken = @ + 1, !.got = Append(@, serving.taken + 1)])

CopyEnds ==
  /\ listener.at = "copy"
  /\ Serve("pump", [serving EXCEPT !.got = @ \o Continuation])

\* serve_protocol_stream_inner returns at Terminate or on an error ...
PumpEnds == listener.at \in {"copy", "pump"} /\ Finishing(serving)

\* ... and must when its socket ends.
PumpCut == PumpEnds /\ Conn.socket # "open"

\* ProtocolSession.shutdown: a session whose shutdown fails is kept, with its
\* share of the lifetime count.
ShutdownSession(ok) == sessions' = IF ok THEN sessions \ {listener.conn} ELSE sessions

\* WireBackend.close: reset, whatever comes of it, then shut down.
Finish ==
  /\ listener.at = "finish"
  /\ Go("leave")
  /\ IF serving.backend
       THEN \E ok \in BOOLEAN : ShutdownSession(ok) /\ latch' = (latch \/ ~ok)
       ELSE UNCHANGED <<sessions, latch>>
  /\ UNCHANGED <<environment, active, backlog, client, serving>>

-----------------------------------------------------------------------------
(* Clients, and whoever else may touch the socket file.  They act when the *)
(* server is about to see it: until it looks, it cannot tell whether bytes,*)
(* a hang-up or a changed file came earlier.                               *)

outside == <<environment, active, serveVars>>

\* Connections are interchangeable: any one that was not made is the next.
Connect(c) ==
  /\ client[c].socket = "new" /\ c = CHOOSE d \in Clients : client[d].socket = "new"
  /\ listener.at \notin {"absent", "exited"}
  /\ endpoint = "tcp" \/ path = "ours"
  /\ client' = [client EXCEPT ![c].socket = "open"]
  /\ backlog' = Append(backlog, c)
  /\ UNCHANGED outside

SentByAll == Cardinality({m \in Clients \X (1..MaxMessages) : m[2] <= Len(client[m[1]].sent)})

\* What a conforming client may send after what it has sent.
MaySend(sent) ==
  CASE sent = << >> -> {"ssl", "cancel", "startup"}
    [] sent # << >> ->
         CASE sent[Len(sent)] = "ssl" -> {"startup"}
           [] sent[Len(sent)] \in {"cancel", "terminate"} -> {}
           [] OTHER -> {"part", "sync", "query", "in", "terminate"}

\* The answer to a COPY FROM has not come.
AwaitsCopy(c) ==
  LET sent == client[c].sent
  IN /\ sent # << >> /\ sent[Len(sent)] = "in"
     /\ ~ (listener.conn = c /\ (listener.at \in {"copy", "pump"} \/
            (serving.handled = Len(sent) /\ listener.at # "flush")))

Send(c) ==
  /\ listener.conn = c /\ listener.at \in {"reading", "copy", "pump"}
  /\ client[c].socket = "open" /\ SentByAll < MaxMessages /\ ~AwaitsCopy(c)
  /\ \E k \in MaySend(client[c].sent) :
       client' = [client EXCEPT ![c].sent = Append(@, k)]
  /\ UNCHANGED <<outside, backlog>>

Hangup(c) ==
  /\ listener.conn = c /\ listener.at \in {"reading", "write", "copy", "pump"}
  /\ client[c].socket = "open"
  /\ client' = [client EXCEPT ![c].socket = "closed"]
  /\ UNCHANGED <<outside, backlog>>

\* Another process removes or replaces the socket file.
Tamper ==
  /\ owner.at \in {"wake", "socket"}
  /\ path = "ours" /\ path' \in {"absent", "replaced"}
  /\ UNCHANGED <<endpoint, handleVars, owner, root, shutdown, active, backlog,
                 client, serveVars>>

-----------------------------------------------------------------------------
Owner == \/ Prepare \/ Bind \/ Callback \/ Receive \/ Cut \/ Wake \/ Join
         \/ CleanSocket \/ Release \/ Complete \/ Dispatch

\* What the listener does without waiting for its client, or when the socket ends.
Listener == \/ Loop \/ Accept \/ Recheck \/ Register \/ Registered \/ Leave \/ Latch
            \/ ReadCheck \/ ReadData \/ ReadEnds \/ ReadTimedOut \/ Eof
            \/ MessagesDone \/ HandleControl \/ HandleSsl \/ HandleEnding
            \/ HandleStartup \/ HandleProtocol \/ Open \/ Startup \/ WriteFails
            \/ Exchange \/ PumpCut \/ Finish

Environment == \/ DropStart \/ Tamper \/ Wrote \/ BackendReads \/ CopyEnds \/ PumpEnds
               \/ \E c \in Callers : Close(c) \/ DropClose(c) \/ DropHandle(c)
               \/ \E c \in Clients : Connect(c) \/ Send(c) \/ Hangup(c)

Next == Owner \/ Listener \/ Environment

\* The two threads run; backend calls return.  Clients owe nothing.
Spec == Init /\ [][Next]_vars /\ WF_vars(Owner) /\ WF_vars(Listener)

-----------------------------------------------------------------------------
Sockets == {"new", "open", "closed", "shut", "gone"}
Results == {None, "ok", "failed", "stopped"}

\* The variables keep their shape.
TypeOK ==
  /\ endpoint \in Endpoints /\ handles \subseteq Callers /\ control \in 0..2
  /\ start \in {"pending", "dropped", "failed", "done"}
  /\ caller \in [Callers -> [at : {"idle", "waiting"}, result : Results]]
  /\ state \in [phase : {"Open", "Closing", "Closed"}, waiters : SUBSET Callers, result : Results]
  /\ root \in {"free", "locked"} /\ path \in {"absent", "ours", "replaced"}
  /\ shutdown \in BOOLEAN /\ latch \in BOOLEAN
  /\ active \in Clients \cup {None} /\ listener.conn \in Clients \cup {None, Wakeup}
  /\ \A c \in Clients : client[c].socket \in Sockets
  /\ sessions \subseteq Clients
  /\ serving.read <= serving.taken /\ 2 * serving.handled <= serving.read

\* Never two backends on one database, counting the ones whose shutdown failed
\* (WireBackend.close, the latch read after every connection), and while one
\* may be alive the root stays locked (PreparedDatabase.release).
OneBackend == /\ \A c, d \in sessions : c = d
              /\ sessions # {} => root = "locked"

\* Every close reports the result of the one teardown (close_with_completion,
\* complete).  Success means all of it happened: the listener thread is gone and
\* so are its connections, its backends and its socket file, and the root is free.
CloseIsTrue ==
  \A c \in Callers : caller[c].result # None =>
    /\ state.phase = "Closed" /\ caller[c].result = state.result
    /\ caller[c].result = "ok" =>
         /\ root = "free" /\ sessions = {} /\ path # "ours"
         /\ listener.at = "exited" /\ active = None
         /\ \A d \in Clients : client[d].socket \in {"new", "gone"}

\* The backend gets what the client sent after its startup packet, each byte once
\* and in order: in batches, straight from the socket during COPY, and across
\* the hand-over of bytes the frame reader had already taken (ContinuationPrefix).
BytesInOrder ==
  serving.got # << >> =>
    LET startup == CHOOSE i \in DOMAIN Conn.sent : Conn.sent[i] = "startup"
    IN serving.got = Halves(2 * startup, 2 * startup + Len(serving.got))

\* stop connects to the path of the socket file to wake the listener; it cannot
\* when another process removed or replaced the file.
WakeLost == endpoint = "unix" /\ owner.at = "join" /\ path # "ours"

\* A close, the drop of the last handle or the drop of the start future ends the
\* server whatever its client is doing, and every close that is awaited is
\* answered, unless the socket file was taken away (stop, wake_listener,
\* ActiveConnection.shutdown, complete).
ShutdownEnds ==
  control > 0 \/ start = "dropped" ~>
    \/ owner.at = "stopped" /\ \A c \in Callers : caller[c].at = "idle"
    \/ WakeLost
=============================================================================
