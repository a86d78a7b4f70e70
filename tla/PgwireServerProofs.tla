-------------------------- MODULE PgwireServerProofs --------------------------
(***************************************************************************)
(* Theorems about the socket server, for any number of connections, of     *)
(* callers and of messages.                                                *)
(*                                                                         *)
(* PgInv says, for each place of the listener thread, which backend may be *)
(* alive and who holds the root; for each place of the owner thread, what  *)
(* its result vouches for; and for the connection that is served, where in *)
(* its byte stream the frame reader, the batch and the backend are.        *)
(***************************************************************************)
EXTENDS PgwireServer, TLAPS

Protocol == {"part", "sync", "query", "in"}
Sendable == Control \cup Protocol

Framing == {"read", "reading", "eof", "handle", "flush", "write", "open", "startup"}
Pumping == {"copy", "pump"}
Serving == Framing \cup Pumping
Engaged == Serving \cup {"finish", "leave"}

OwnerAts == {"prepare", "bind", "callback", "receive", "cut", "wake", "join", "socket",
             "release", "drop", "dispatch", "stopped"}
ListenerAts == Engaged \cup {"absent", "loop", "accept", "recheck", "register", "registered",
                             "latch", "exited"}

ServingSet == [read : Nat, taken : Nat, handled : Nat, batch : Seq(Nat), ending : BOOLEAN,
               backend : BOOLEAN, flush : {"boundary", "control", "eof"},
               reply : {None, "ssl", "startup", "final", "response"}, panicked : BOOLEAN,
               got : Seq(Nat)]

(* What the variables hold. *)
Shape ==
  /\ owner \in [at : OwnerAts, result : Results]
  /\ listener \in [at : ListenerAts, conn : Clients \cup {None, Wakeup}, result : Results]
  /\ state \in [phase : {"Open", "Closing", "Closed"}, waiters : SUBSET Callers,
                result : Results]
  /\ caller \in [Callers -> [at : {"idle", "waiting"}, result : Results]]
  /\ client \in [Clients -> [socket : Sockets, sent : Seq(Sendable)]]
  /\ serving \in ServingSet /\ latch \in BOOLEAN /\ shutdown \in BOOLEAN
  /\ backlog \in Seq(Clients \cup {Wakeup})
  /\ listener.at = "write" => serving.reply # None

(* A connection is served while it is registered; the wake-up comes after  *)
(* the flag; a listener that has ended has left no connection behind.      *)
ConnInv ==
  /\ \A i \in 1..Len(backlog) : backlog[i] \in Clients \/ shutdown
  /\ listener.at = "recheck" => listener.conn \in Clients \/ shutdown
  /\ listener.at \in Engaged \cup {"register", "registered"} => listener.conn \in Clients
  /\ active # None => listener.at \in Engaged \cup {"registered"}
  /\ \A c \in Clients : client[c].sent # << >> => c = listener.conn /\ listener.at \in Serving
  /\ listener.at = "exited" => \A c \in Clients : client[c].socket \in {"new", "gone"}

(* The backend that may be alive is that of the connection being served,   *)
(* or it is the one whose shutdown failed, and then no other is opened.    *)
BackendInv ==
  /\ listener.at \in Serving \cup {"finish"} =>
       ~latch /\ sessions = IF serving.backend THEN {listener.conn} ELSE {}
  /\ listener.at \notin Serving \cup {"finish"} =>
       /\ ~latch => sessions = {}
       /\ latch => /\ \E c \in Clients : sessions = {c}
                   /\ listener.at \in {"leave", "latch", "exited"}
                   /\ listener.at = "exited" => listener.result = "failed"
  /\ listener.at \notin {"absent", "exited"} \/ sessions # {} \/ owner.at = "bind" =>
       root = "locked"
  /\ owner.at \in {"prepare", "bind"} => listener.at = "absent"

(* What the owner's result, and the one it has published, vouch for. *)
OwnerInv ==
  /\ owner.at \in {"cut", "wake"} => shutdown
  /\ owner.at \in {"socket", "release", "drop", "dispatch"} \/ state.phase = "Closed" =>
       listener.at = "exited"
  /\ owner.at \in {"socket", "release", "drop"} /\ owner.result = "ok" => listener.result = "ok"
  /\ owner.at \in {"release", "drop"} /\ owner.result = "ok" => path # "ours"
  /\ owner.at = "drop" /\ owner.result = "ok" => root = "free"
  /\ owner.at = "dispatch" => state.phase = "Closed"
  /\ state.phase = "Closed" =>
       /\ owner.at \in {"dispatch", "stopped"}
       /\ state.result = "ok" => root = "free" /\ path # "ours" /\ listener.result = "ok"
       /\ \A c \in Callers : caller[c].result \in {None, state.result}
  /\ state.phase # "Closed" => \A c \in Callers : caller[c].result = None

(* The place of the startup packet in what a client has sent. *)
Begin(sent) == IF sent # << >> /\ sent[1] = "ssl" THEN 2 ELSE 1

(* What a conforming client has sent. *)
Conforms(sent) ==
  \A i \in 1..Len(sent) :
    /\ i < Begin(sent) => sent[i] = "ssl"
    /\ i = Begin(sent) => sent[i] = "startup" \/ (sent[i] = "cancel" /\ i = 1)
    /\ i > Begin(sent) => sent[i] \in Protocol \cup {"terminate"}
    /\ sent[i] \in {"cancel", "terminate"} => i = Len(sent)

(* The startup packet has been handled. *)
Passed(s, sent) == s.handled >= Begin(sent) /\ sent[Begin(sent)] = "startup"

Ended(s, sent) == s.taken = 2 * Len(sent) /\ sent[Len(sent)] = "terminate"

(* Where the frame reader is, and the batch, which ends with the message   *)
(* handled last; a COPY FROM is the last thing its client has sent until   *)
(* the backend has it.                                                     *)
Frames(at, s, sent) ==
  /\ s.read <= s.taken /\ s.taken <= 2 * Len(sent) /\ 2 * s.handled <= s.read
  /\ at \notin Pumping => s.read = s.taken
  /\ Len(s.batch) <= s.handled
  /\ \A i \in 1..Len(s.batch) : /\ s.batch[i] = s.handled - Len(s.batch) + i
                                /\ sent[s.batch[i]] \in Protocol
                                /\ at # "flush" => sent[s.batch[i]] # "in"
  /\ at = "flush" => s.batch # << >>
  /\ at \in Pumping => s.batch = << >>
  /\ at = "flush" /\ s.flush = "control" => Ended(s, sent)
  /\ at \notin Pumping =>
       \A i \in 1..Len(sent) : sent[i] = "in" /\ i > s.handled - Len(s.batch) => i = Len(sent)
  /\ at = "copy" /\ s.flush = "boundary" => s.read = 2 * s.handled

(* What the backend has got: all that came after the startup packet, up to *)
(* the batch or, during COPY, up to where the socket has been read.        *)
Bytes(at, s, sent) ==
  /\ s.got # << >> \/ s.batch # << >> => Passed(s, sent)
  /\ \A i \in 1..Len(s.got) : s.got[i] = 2 * Begin(sent) + i
  /\ Passed(s, sent) /\ at \notin Pumping /\ sent[s.handled] # "terminate" =>
       Len(s.got) = 2 * (s.handled - Len(s.batch)) - 2 * Begin(sent)
  /\ at \in Pumping =>
       /\ Passed(s, sent)
       /\ \/ 2 * Begin(sent) + Len(s.got) = s.taken
          \/ s.flush = "eof"
          \/ Ended(s, sent)

Data(at, s, sent) == Frames(at, s, sent) /\ Bytes(at, s, sent)

StreamInv ==
  /\ \A c \in Clients : Conforms(client[c].sent)
  /\ listener.at \in Serving => Data(listener.at, serving, Conn.sent)
  /\ listener.at \notin Serving => serving.got = << >>

PgInv == Shape /\ ConnInv /\ BackendInv /\ OwnerInv /\ StreamInv

-----------------------------------------------------------------------------
(* The byte stream of one connection *)

LEMMA Joined ==
  ASSUME NEW a \in Seq(Nat), NEW b \in Seq(Nat)
  PROVE  /\ a \o b \in Seq(Nat) /\ Len(a \o b) = Len(a) + Len(b)
         /\ \A i \in 1..Len(a) : (a \o b)[i] = a[i]
         /\ \A i \in Len(a)+1..Len(a)+Len(b) : (a \o b)[i] = b[i - Len(a)]
OBVIOUS

LEMMA Ahead ==
  ASSUME NEW base \in Nat, NEW n \in Nat, NEW i \in Nat
  PROVE  (base + n) + (i - n) = base + i
OBVIOUS

LEMMA Reached ==
  ASSUME NEW base \in Nat, NEW n \in Nat, NEW to \in Nat, NEW from \in Nat, base + n = from
  PROVE  base + (n + (to - from)) = to
OBVIOUS

LEMMA Balance ==
  ASSUME NEW h \in Nat, NEW b \in Nat, NEW g \in Nat, NEW begin \in Nat,
         g = 2 * (h - b) - 2 * begin
  PROVE  2 * begin + g = 2 * (h - b) /\ begin + b <= h
OBVIOUS

LEMMA Doubled ==
  ASSUME NEW h \in Nat, NEW b \in Nat, NEW begin \in Nat, begin + b <= h
  PROVE  /\ 2 * (h - b) \in Nat /\ 2 * h \in Nat /\ 2 * begin \in Nat
         /\ 2 * (h - b) <= 2 * h
OBVIOUS

LEMMA OneFurther ==
  ASSUME NEW g \in Nat, NEW n \in Nat, NEW begin \in Nat, 2 * begin + g = n
  PROVE  2 * begin + (g + 1) = n + 1
OBVIOUS

LEMMA InBatch ==
  ASSUME NEW h \in Nat, NEW b \in Nat, NEW n \in Nat, NEW i \in 1..b, b <= h, h <= n
  PROVE  h - b + i \in 1..n
OBVIOUS

\* The halves from base on, up to to.
UpTo(got, base, to) ==
  /\ got \in Seq(Nat) /\ base + Len(got) = to
  /\ \A i \in 1..Len(got) : got[i] = base + i

\* Adding bytes to what the backend got.
LEMMA Extend ==
  ASSUME NEW from \in Nat, NEW to \in Nat, from <= to, NEW base \in Nat,
         NEW got, UpTo(got, base, from)
  PROVE  UpTo(got \o Halves(from, to), base, to)
<1>0. /\ got \in Seq(Nat) /\ base + Len(got) = from
      /\ \A i \in 1..Len(got) : got[i] = base + i
  BY Zenon DEF UpTo
<1>1. PICK h : h = Halves(from, to)
  BY Zenon
<1>2. h \in Seq(Nat) /\ Len(h) = to - from /\ \A i \in 1..Len(h) : h[i] = from + i
  BY <1>1 DEF Halves
<1>3. got \o h \in Seq(Nat) /\ Len(got \o h) = Len(got) + (to - from)
  <2>1. got \o h \in Seq(Nat) /\ Len(got \o h) = Len(got) + Len(h)
    BY <1>0, <1>2, Joined, Zenon
  <2> QED
    BY <1>2, <2>1, Zenon
<1>4. ASSUME NEW i \in 1..Len(got \o h) PROVE (got \o h)[i] = base + i
  <2>1. CASE i <= Len(got)
    BY <1>0, <1>2, <2>1
  <2>2. CASE i > Len(got)
    <3>1. (got \o h)[i] = h[i - Len(got)] /\ i - Len(got) \in 1..Len(h)
      BY <1>0, <1>2, <1>3, <2>2
    <3>2. h[i - Len(got)] = from + (i - Len(got))
      BY <1>2, <3>1, Zenon
    <3>3. i \in Nat /\ Len(got) \in Nat
      BY <1>0
    <3> QED
      BY <1>0, <3>1, <3>2, <3>3, Ahead, Zenon
  <2> QED
    BY <1>0, <1>3, <2>1, <2>2
<1>5. base + Len(got \o h) = to
  <2>1. Len(got) \in Nat /\ base + Len(got) = from
    BY <1>0
  <2>2. base + (Len(got) + (to - from)) = to
    BY <2>1, Reached
  <2> QED
    BY <1>3, <2>2, Zenon
<1> QED
  BY <1>1, <1>3, <1>4, <1>5, Zenon DEF UpTo

LEMMA BeginFacts ==
  ASSUME NEW sent
  PROVE  Begin(sent) \in {1, 2} /\ Begin(sent) \in Nat
BY Zenon DEF Begin

\* A conforming client sends no startup packet but the first.
LEMMA StartupPlace ==
  ASSUME NEW sent \in Seq(Sendable), Conforms(sent), NEW i \in 1..Len(sent)
  PROVE  /\ sent[i] = "startup" => i = Begin(sent)
         /\ sent[i] = "ssl" => i = 1 /\ Begin(sent) = 2
         /\ sent[i] = "cancel" => i = 1 /\ Begin(sent) = 1 /\ Len(sent) = 1
         /\ sent[i] \in Protocol \cup {"terminate"} =>
              /\ i > Begin(sent) /\ sent[Begin(sent)] = "startup"
              /\ Begin(sent) \in 1..Len(sent)
<1>1. /\ i < Begin(sent) => sent[i] = "ssl"
      /\ i = Begin(sent) => sent[i] = "startup" \/ (sent[i] = "cancel" /\ i = 1)
      /\ i > Begin(sent) => sent[i] \in Protocol \cup {"terminate"}
      /\ sent[i] \in {"cancel", "terminate"} => i = Len(sent)
  BY Zenon DEF Conforms
<1>2. Begin(sent) \in {1, 2} /\ Len(sent) \in Nat
  BY BeginFacts
<1>3. i < Begin(sent) \/ i = Begin(sent) \/ i > Begin(sent)
  BY <1>2
<1>4. sent[i] = "startup" => i = Begin(sent)
  BY <1>1, <1>3, Zenon DEF Protocol
<1>5. sent[i] = "ssl" => i = 1 /\ Begin(sent) = 2
  BY <1>1, <1>2, <1>3 DEF Protocol
<1>6. sent[i] = "cancel" => i = 1 /\ Begin(sent) = 1 /\ Len(sent) = 1
  BY <1>1, <1>2, <1>3, Zenon DEF Protocol
<1>7. ASSUME sent[i] \in Protocol \cup {"terminate"}
      PROVE  i > Begin(sent) /\ sent[Begin(sent)] = "startup" /\ Begin(sent) \in 1..Len(sent)
  <2>1. i > Begin(sent)
    BY <1>1, <1>3, <1>7, Zenon DEF Protocol
  <2>2. Begin(sent) \in 1..Len(sent) /\ Begin(sent) # Len(sent)
    BY <1>2, <2>1
  <2> QED
    BY <2>1, <2>2, Zenon DEF Conforms
<1> QED
  BY <1>4, <1>5, <1>6, <1>7, Zenon

\* Nothing was read, handled or passed on.
Alike(s, t) == /\ t.read = s.read /\ t.taken = s.taken /\ t.handled = s.handled
               /\ t.batch = s.batch /\ t.got = s.got

LEMMA DataSame ==
  ASSUME NEW at \in Framing \ {"flush"}, NEW to \in Framing \ {"flush"},
         NEW s \in ServingSet, NEW t \in ServingSet, Alike(s, t),
         NEW sent \in Seq(Sendable), Data(at, s, sent)
  PROVE  Data(to, t, sent)
<1>1. at \notin Pumping /\ to \notin Pumping /\ to # "flush" /\ to # "copy" /\ at # "flush"
  BY Zenon DEF Framing, Pumping
<1>2. Frames(to, t, sent)
  BY <1>1, Zenon DEF Data, Frames, Alike
<1>3. Bytes(to, t, sent)
  BY <1>1, Zenon DEF Data, Bytes, Passed, Alike
<1> QED
  BY <1>2, <1>3, Zenon DEF Data

LEMMA DataFlush ==
  ASSUME NEW at \in Framing \ {"flush"}, NEW s \in ServingSet, NEW t \in ServingSet, Alike(s, t),
         NEW sent \in Seq(Sendable), Data(at, s, sent), s.batch # << >>,
         t.flush = "control" => Ended(t, sent)
  PROVE  Data("flush", t, sent)
<1>1. at \notin Pumping /\ "flush" \notin Pumping
  BY Zenon DEF Framing, Pumping
<1>2. Frames("flush", t, sent)
  BY <1>1, Zenon DEF Data, Frames, Alike
<1>3. Bytes("flush", t, sent)
  BY <1>1, Zenon DEF Data, Bytes, Passed, Alike
<1> QED
  BY <1>2, <1>3, Zenon DEF Data

\* read_frontend delivers n halves.
LEMMA DataRead ==
  ASSUME NEW s \in ServingSet, NEW sent \in Seq(Sendable), Data("reading", s, sent),
         NEW n \in 1..(2 * Len(sent) - s.taken)
  PROVE  Data("handle", [s EXCEPT !.read = @ + n, !.taken = @ + n], sent)
<1> DEFINE t == [s EXCEPT !.read = @ + n, !.taken = @ + n]
<1>1. /\ t.handled = s.handled /\ t.batch = s.batch /\ t.got = s.got
      /\ t.read = s.read + n /\ t.taken = s.taken + n /\ n \in Nat
      /\ s.read \in Nat /\ s.taken \in Nat /\ s.handled \in Nat /\ Len(sent) \in Nat
  BY DEF ServingSet
<1>2. "reading" \notin Pumping /\ "handle" \notin Pumping
  BY Zenon DEF Pumping
<1> HIDE DEF t
<1>3. t.read <= t.taken /\ t.taken <= 2 * Len(sent) /\ 2 * t.handled <= t.read /\ t.read = t.taken
  BY <1>1, <1>2 DEF Data, Frames
<1>4. Frames("handle", t, sent)
  BY <1>1, <1>2, <1>3, Zenon DEF Data, Frames
<1>5. Bytes("handle", t, sent)
  BY <1>1, <1>2, Zenon DEF Data, Bytes, Passed
<1> QED
  BY <1>4, <1>5, Zenon DEF Data, t

\* The next message is one that the frame reader has completed.
LEMMA NextMessage ==
  ASSUME NEW s \in ServingSet, NEW sent \in Seq(Sendable), Data("handle", s, sent),
         s.handled + 1 <= s.read \div 2
  PROVE  /\ s.handled + 1 \in 1..Len(sent) /\ 2 * (s.handled + 1) <= s.read
         /\ s.read = s.taken /\ s.taken <= 2 * Len(sent)
<1>1. s.handled \in Nat /\ s.read \in Nat /\ s.taken \in Nat /\ Len(sent) \in Nat
  BY DEF ServingSet
<1>2. 2 * (s.handled + 1) <= s.read
  BY <1>1
<1>3. s.read = s.taken /\ s.taken <= 2 * Len(sent)
  BY Zenon DEF Data, Frames, Pumping
<1>4. s.handled + 1 \in 1..Len(sent)
  BY <1>1, <1>2, <1>3
<1> QED
  BY <1>2, <1>3, <1>4, Zenon

\* A control packet that comes while a batch is open is Terminate.
LEMMA ControlEnds ==
  ASSUME NEW s \in ServingSet, NEW sent \in Seq(Sendable), Conforms(sent),
         Data("handle", s, sent), s.handled + 1 <= s.read \div 2,
         sent[s.handled + 1] \in Control, s.batch # << >>
  PROVE  Ended(s, sent)
<1>1. /\ s.handled + 1 \in 1..Len(sent) /\ 2 * (s.handled + 1) <= s.read
      /\ s.read = s.taken /\ s.taken <= 2 * Len(sent)
  BY NextMessage, Zenon
<1>2. s.handled >= Begin(sent)
  BY Zenon DEF Data, Bytes, Passed
<1>3. s.handled + 1 > Begin(sent)
  BY <1>2, BeginFacts DEF ServingSet
<1>4. sent[s.handled + 1] = "terminate"
  BY <1>1, <1>3, Zenon DEF Conforms, Control, Protocol
<1>5. s.handled + 1 = Len(sent)
  BY <1>1, <1>4, Zenon DEF Conforms
<1>6. s.taken = 2 * Len(sent)
  <2>1. s.taken \in Nat /\ Len(sent) \in Nat
    BY DEF ServingSet
  <2>2. 2 * Len(sent) <= s.taken
    BY <1>1, <1>5, Zenon
  <2> QED
    BY <1>1, <2>1, <2>2
<1> QED
  BY <1>4, <1>5, <1>6, Zenon DEF Ended

\* A control packet is handled: no batch is open.
LEMMA DataControl ==
  ASSUME NEW s \in ServingSet, NEW t \in ServingSet, NEW sent \in Seq(Sendable), Conforms(sent),
         Data("handle", s, sent), s.handled + 1 <= s.read \div 2,
         sent[s.handled + 1] \in Control, s.batch = << >>,
         t.handled = s.handled + 1, t.read = s.read, t.taken = s.taken,
         t.batch = s.batch, t.got = s.got, NEW to \in {"handle", "open", "write"}
  PROVE  Data(to, t, sent)
<1>1. /\ s.handled + 1 \in 1..Len(sent) /\ 2 * (s.handled + 1) <= s.read
      /\ s.read = s.taken /\ s.taken <= 2 * Len(sent)
  BY NextMessage, Zenon
<1>2. to \notin Pumping /\ "handle" \notin Pumping /\ to # "flush" /\ to # "copy"
  BY Zenon DEF Pumping
<1>3. s.handled \in Nat /\ s.read \in Nat /\ Len(sent) \in Nat /\ Begin(sent) \in {1, 2}
  BY BeginFacts DEF ServingSet
<1>4. Len(s.batch) = 0
  OBVIOUS
<1>5. Frames(to, t, sent)
  <2>1. t.read <= t.taken /\ t.taken <= 2 * Len(sent) /\ 2 * t.handled <= t.read
    BY <1>1, <1>3
  <2>2. Len(t.batch) <= t.handled /\ ~ \E i \in 1..Len(t.batch) : TRUE
    BY <1>3, <1>4
  <2>3. ASSUME NEW i \in 1..Len(sent), sent[i] = "in", i > t.handled - Len(t.batch)
        PROVE  i = Len(sent)
    <3>1. i > s.handled - Len(s.batch)
      BY <1>3, <1>4, <2>3
    <3> QED
      BY <1>2, <2>3, <3>1, Zenon DEF Data, Frames
  <2> QED
    BY <1>1, <1>2, <2>1, <2>2, <2>3, Zenon DEF Frames
<1>6. Bytes(to, t, sent)
  <2>1. CASE sent[t.handled] = "terminate"
    <3>1. t.handled >= Begin(sent) /\ sent[Begin(sent)] = "startup"
      BY <1>1, <1>3, <2>1, StartupPlace
    <3> QED
      BY <1>2, <2>1, <3>1, Zenon DEF Data, Bytes, Passed
  <2>2. CASE sent[t.handled] # "terminate"
    <3>1. ~Passed(s, sent)
      <4>1. sent[t.handled] \in {"ssl", "cancel", "startup"}
        BY <2>2, Zenon DEF Control
      <4>2. t.handled <= Begin(sent)
        BY <1>1, <1>3, <4>1, StartupPlace
      <4> QED
        BY <1>3, <4>2 DEF Passed
    <3>2. s.got = << >>
      BY <3>1, Zenon DEF Data, Bytes
    <3>3. Passed(t, sent) => t.handled = Begin(sent)
      BY <1>3, <3>1 DEF Passed
    <3>4. Passed(t, sent) => Len(t.got) = 2 * (t.handled - Len(t.batch)) - 2 * Begin(sent)
      BY <1>3, <1>4, <3>2, <3>3
    <3>5. ~ \E i \in 1..Len(t.got) : TRUE
      BY <3>2
    <3> QED
      BY <1>2, <3>2, <3>4, <3>5, Zenon DEF Bytes
  <2> QED
    BY <2>1, <2>2, Zenon
<1> QED
  BY <1>5, <1>6, Zenon DEF Data

LEMMA Added ==
  ASSUME NEW a \in Seq(Nat), NEW n \in Nat
  PROVE  /\ Append(a, n) \in Seq(Nat) /\ Len(Append(a, n)) = Len(a) + 1
         /\ Append(a, n) # << >> /\ Append(a, n)[Len(a) + 1] = n
         /\ \A i \in 1..Len(a) : Append(a, n)[i] = a[i]
         /\ 1..Len(Append(a, n)) = 1..Len(a) \cup {Len(a) + 1}
OBVIOUS

LEMMA Shift ==
  ASSUME NEW x \in Nat, NEW y \in Nat
  PROVE  (x + 1) - (y + 1) = x - y
OBVIOUS

\* A protocol message joins the batch.
LEMMA DataProtocol ==
  ASSUME NEW s \in ServingSet, NEW t \in ServingSet, NEW sent \in Seq(Sendable), Conforms(sent),
         Data("handle", s, sent), s.handled + 1 <= s.read \div 2,
         sent[s.handled + 1] \in Protocol, NEW to \in {"handle", "flush"},
         to = "handle" => sent[s.handled + 1] # "in",
         t.handled = s.handled + 1, t.read = s.read, t.taken = s.taken,
         t.batch = Append(s.batch, s.handled + 1), t.got = s.got, t.flush = "boundary"
  PROVE  Data(to, t, sent)
<1>1. /\ s.handled + 1 \in 1..Len(sent) /\ 2 * (s.handled + 1) <= s.read
      /\ s.read = s.taken /\ s.taken <= 2 * Len(sent)
  BY NextMessage, Zenon
<1>2. to \notin Pumping /\ "handle" \notin Pumping /\ to # "copy" /\ "handle" # "flush"
  BY Zenon DEF Pumping
<1>3. /\ s.handled \in Nat /\ s.read \in Nat /\ Len(sent) \in Nat /\ Begin(sent) \in {1, 2}
      /\ s.batch \in Seq(Nat) /\ Len(s.batch) \in Nat
  BY BeginFacts DEF ServingSet
<1>4. /\ Len(t.batch) = Len(s.batch) + 1 /\ t.batch # << >>
      /\ t.batch[Len(s.batch) + 1] = s.handled + 1
      /\ \A i \in 1..Len(s.batch) : t.batch[i] = s.batch[i]
      /\ 1..Len(t.batch) = 1..Len(s.batch) \cup {Len(s.batch) + 1}
  <2>1. s.handled + 1 \in Nat
    BY <1>3
  <2>2. /\ Len(Append(s.batch, s.handled + 1)) = Len(s.batch) + 1
        /\ Append(s.batch, s.handled + 1) # << >>
        /\ Append(s.batch, s.handled + 1)[Len(s.batch) + 1] = s.handled + 1
        /\ \A i \in 1..Len(s.batch) : Append(s.batch, s.handled + 1)[i] = s.batch[i]
        /\ 1..Len(Append(s.batch, s.handled + 1)) = 1..Len(s.batch) \cup {Len(s.batch) + 1}
    BY <1>3, <2>1, Added, Zenon
  <2> QED
    BY <2>2, Zenon
<1>5. t.handled - Len(t.batch) = s.handled - Len(s.batch)
  <2>1. Len(t.batch) = Len(s.batch) + 1
    BY <1>4, Zenon
  <2>2. (s.handled + 1) - (Len(s.batch) + 1) = s.handled - Len(s.batch)
    BY <1>3, Shift, Zenon
  <2> QED
    BY <2>1, <2>2, Zenon
<1>6. Frames(to, t, sent)
  <2>1. t.read <= t.taken /\ t.taken <= 2 * Len(sent) /\ 2 * t.handled <= t.read
    BY <1>1, <1>3
  <2>2. Len(s.batch) <= s.handled
    BY Zenon DEF Data, Frames
  <2>3. Len(t.batch) <= t.handled
    BY <1>3, <1>4, <2>2
  <2>4. ASSUME NEW i \in 1..Len(t.batch)
        PROVE  /\ t.batch[i] = t.handled - Len(t.batch) + i
               /\ sent[t.batch[i]] \in Protocol
               /\ to # "flush" => sent[t.batch[i]] # "in"
    <3>1. CASE i \in 1..Len(s.batch)
      BY <1>2, <1>4, <1>5, <3>1, Zenon DEF Data, Frames
    <3>2. CASE i = Len(s.batch) + 1
      <4>1. t.batch[i] = t.handled - Len(t.batch) + i
        BY <1>3, <1>4, <3>2
      <4> QED
        BY <1>4, <3>2, <4>1, Zenon
    <3> QED
      BY <1>4, <3>1, <3>2, Zenon
  <2>5. ASSUME NEW i \in 1..Len(sent), sent[i] = "in", i > t.handled - Len(t.batch)
        PROVE  i = Len(sent)
    BY <1>2, <1>5, <2>5, Zenon DEF Data, Frames
  <2> QED
    BY <1>1, <1>2, <1>4, <2>1, <2>3, <2>4, <2>5, Zenon DEF Frames
<1>7. Bytes(to, t, sent)
  <2>1. s.handled + 1 > Begin(sent) /\ sent[Begin(sent)] = "startup"
    BY <1>1, StartupPlace, Zenon
  <2>2. Passed(s, sent) /\ Passed(t, sent)
    BY <1>3, <2>1 DEF Passed
  <2>3. sent[s.handled] # "terminate"
    <3>1. s.handled \in 1..Len(sent) /\ s.handled # Len(sent)
      BY <1>1, <1>3, <2>1
    <3> QED
      BY <3>1, Zenon DEF Conforms
  <2>4. Len(s.got) = 2 * (s.handled - Len(s.batch)) - 2 * Begin(sent)
    BY <1>2, <2>2, <2>3, Zenon DEF Data, Bytes
  <2>5. Len(t.got) = 2 * (t.handled - Len(t.batch)) - 2 * Begin(sent)
    BY <1>5, <2>4, Zenon
  <2> QED
    BY <1>2, <2>2, <2>5, Zenon DEF Data, Bytes
<1> QED
  BY <1>6, <1>7, Zenon DEF Data

\* What was batched is what comes next.
LEMMA Batched ==
  ASSUME NEW s \in ServingSet, NEW sent \in Seq(Sendable), Conforms(sent), Data("flush", s, sent)
  PROVE  /\ Passed(s, sent) /\ Begin(sent) + Len(s.batch) <= s.handled
         /\ BatchHalves(s.batch) = Halves(2 * (s.handled - Len(s.batch)), 2 * s.handled)
         /\ 2 * Begin(sent) + Len(s.got) = 2 * (s.handled - Len(s.batch))
         /\ sent[s.handled] \in Protocol /\ s.handled \in 1..Len(sent)
<1>1. /\ s.handled \in Nat /\ Begin(sent) \in {1, 2} /\ s.batch \in Seq(Nat)
      /\ Len(s.batch) \in Nat /\ s.read \in Nat /\ s.taken \in Nat /\ Len(sent) \in Nat
      /\ s.got \in Seq(Nat) /\ Len(s.got) \in Nat
  BY BeginFacts DEF ServingSet
<1>2. s.batch # << >> /\ Passed(s, sent)
  BY Zenon DEF Data, Frames, Bytes
<1>3. 1 \in 1..Len(s.batch) /\ Len(s.batch) \in 1..Len(s.batch)
  BY <1>1, <1>2
<1>4. /\ s.batch[1] = s.handled - Len(s.batch) + 1
      /\ s.batch[Len(s.batch)] = s.handled - Len(s.batch) + Len(s.batch)
      /\ sent[s.batch[Len(s.batch)]] \in Protocol
  BY <1>3, Zenon DEF Data, Frames
<1>5. s.batch[1] - 1 = s.handled - Len(s.batch) /\ s.batch[Len(s.batch)] = s.handled
  BY <1>1, <1>4
<1>6. BatchHalves(s.batch) = Halves(2 * (s.handled - Len(s.batch)), 2 * s.handled)
  BY <1>2, <1>5, Zenon DEF BatchHalves
<1>7. sent[s.handled] \in Protocol /\ sent[s.handled] # "terminate"
  BY <1>4, <1>5, Zenon DEF Protocol
<1>8. Len(s.got) = 2 * (s.handled - Len(s.batch)) - 2 * Begin(sent)
  BY <1>2, <1>7, Zenon DEF Data, Bytes, Pumping
<1>9. s.handled \in 1..Len(sent)
  <2>1. 2 * s.handled <= s.read /\ s.read <= s.taken /\ s.taken <= 2 * Len(sent)
    BY Zenon DEF Data, Frames
  <2>2. s.handled >= Begin(sent)
    BY <1>2, Zenon DEF Passed
  <2> QED
    BY <1>1, <2>1, <2>2
<1>10. /\ 2 * Begin(sent) + Len(s.got) = 2 * (s.handled - Len(s.batch))
       /\ Begin(sent) + Len(s.batch) <= s.handled
  <2>1. s.handled \in Nat /\ Len(s.batch) \in Nat /\ Len(s.got) \in Nat /\ Begin(sent) \in Nat
    BY BeginFacts DEF ServingSet
  <2> QED
    BY <1>8, <2>1, Balance, Zenon
<1> QED
  BY <1>2, <1>6, <1>7, <1>9, <1>10, Zenon

\* The backend gets the batch.
LEMMA Passing ==
  ASSUME NEW s \in ServingSet, NEW sent \in Seq(Sendable), Conforms(sent), Data("flush", s, sent)
  PROVE  UpTo(s.got \o BatchHalves(s.batch), 2 * Begin(sent), 2 * s.handled)
<1>1. /\ s.handled \in Nat /\ Begin(sent) \in {1, 2} /\ Len(s.batch) \in Nat
      /\ s.got \in Seq(Nat) /\ Len(s.got) \in Nat
  BY BeginFacts DEF ServingSet
<1>2. /\ BatchHalves(s.batch) = Halves(2 * (s.handled - Len(s.batch)), 2 * s.handled)
      /\ 2 * Begin(sent) + Len(s.got) = 2 * (s.handled - Len(s.batch))
      /\ Begin(sent) + Len(s.batch) <= s.handled
  BY Batched, Zenon
<1>3. PICK from \in Nat, to \in Nat, base \in Nat :
        /\ from = 2 * (s.handled - Len(s.batch)) /\ to = 2 * s.handled /\ base = 2 * Begin(sent)
        /\ from <= to
  <2>1. /\ 2 * (s.handled - Len(s.batch)) \in Nat /\ 2 * s.handled \in Nat
        /\ 2 * Begin(sent) \in Nat /\ 2 * (s.handled - Len(s.batch)) <= 2 * s.handled
    BY <1>1, <1>2, BeginFacts, Doubled, Zenon
  <2> QED
    BY <2>1, Zenon
<1>4. UpTo(s.got, base, from) /\ BatchHalves(s.batch) = Halves(from, to)
  BY <1>1, <1>2, <1>3, Zenon DEF Data, Bytes, UpTo
<1>5. UpTo(s.got \o Halves(from, to), base, to)
  BY <1>3, <1>4, Extend, Zenon
<1> QED
  BY <1>3, <1>4, <1>5, Zenon

\* t is s after the exchange of the batch.
Passes(s, t) ==
  /\ t.handled = s.handled /\ t.read = s.read /\ t.taken = s.taken
  /\ t.batch = << >> /\ t.got = s.got \o BatchHalves(s.batch)

LEMMA PassedOn ==
  ASSUME NEW s \in ServingSet, NEW t \in ServingSet, NEW sent \in Seq(Sendable), Conforms(sent),
         Data("flush", s, sent), Passes(s, t)
  PROVE  /\ 2 * Begin(sent) + Len(t.got) = 2 * t.handled
         /\ \A i \in 1..Len(t.got) : t.got[i] = 2 * Begin(sent) + i
         /\ Passed(t, sent) /\ Len(t.batch) = 0 /\ t.batch = << >>
         /\ t.handled = s.handled /\ t.read = s.read /\ t.taken = s.taken
         /\ Len(t.batch) <= t.handled /\ ~ \E i \in 1..Len(t.batch) : TRUE
<1>1. /\ t.handled = s.handled /\ t.read = s.read /\ t.taken = s.taken
      /\ t.got = s.got \o BatchHalves(s.batch) /\ t.batch = << >>
  BY Zenon DEF Passes
<1>2. /\ 2 * Begin(sent) + Len(t.got) = 2 * t.handled
      /\ \A i \in 1..Len(t.got) : t.got[i] = 2 * Begin(sent) + i
  BY <1>1, Passing, Zenon DEF UpTo
<1>3. Passed(t, sent)
  BY <1>1, Batched, Zenon DEF Passed
<1>4. t.batch = << >> /\ t.handled \in Nat
  BY <1>1, Zenon DEF ServingSet
<1>5. Len(t.batch) = 0 /\ Len(t.batch) <= t.handled /\ ~ \E i \in 1..Len(t.batch) : TRUE
  BY <1>4
<1> QED
  BY <1>1, <1>2, <1>3, <1>5, Zenon

\* What was in the batch is past it.
LEMMA DataAnswered ==
  ASSUME NEW s \in ServingSet, NEW t \in ServingSet, NEW sent \in Seq(Sendable), Conforms(sent),
         Data("flush", s, sent), Passes(s, t)
  PROVE  Data("write", t, sent)
<1>1. /\ s.handled \in Nat /\ Begin(sent) \in {1, 2} /\ Len(s.batch) \in Nat /\ Len(t.got) \in Nat
  BY BeginFacts DEF ServingSet
<1>2. /\ 2 * Begin(sent) + Len(t.got) = 2 * t.handled
      /\ \A i \in 1..Len(t.got) : t.got[i] = 2 * Begin(sent) + i
      /\ Passed(t, sent) /\ Len(t.batch) = 0 /\ t.batch = << >>
      /\ t.handled = s.handled /\ t.read = s.read /\ t.taken = s.taken
      /\ Len(t.batch) <= t.handled /\ ~ \E i \in 1..Len(t.batch) : TRUE
  BY PassedOn, Zenon
<1>4. Len(t.got) = 2 * (t.handled - Len(t.batch)) - 2 * Begin(sent)
  BY <1>1, <1>2
<1>5. "write" \notin Pumping /\ "flush" \notin Pumping /\ "write" # "flush" /\ "write" # "copy"
  BY Zenon DEF Pumping
<1>6. Bytes("write", t, sent)
  BY <1>2, <1>4, <1>5, Zenon DEF Bytes
<1>7. ASSUME NEW i \in 1..Len(sent), sent[i] = "in", i > t.handled - Len(t.batch)
      PROVE  i = Len(sent)
  <2>1. i > s.handled - Len(s.batch)
    BY <1>1, <1>2, <1>7
  <2> QED
    BY <1>5, <1>7, <2>1, Zenon DEF Data, Frames
<1>9. Frames("write", t, sent)
  BY <1>2, <1>5, <1>7, Zenon DEF Data, Frames
<1> QED
  BY <1>6, <1>9, Zenon DEF Data

LEMMA CopyPlace ==
  ASSUME NEW handled \in Nat, NEW batch \in Nat, NEW length \in Nat, NEW read \in Nat,
         NEW k \in 1..batch, batch <= handled, read <= 2 * length, 2 * handled <= read
  PROVE  /\ handled - batch + k \in 1..length /\ handled - batch + k > handled - batch
         /\ handled - batch + k = length => read = 2 * handled
OBVIOUS

\* The batch holds a COPY FROM.
Copies(s, sent) == \E k \in 1..Len(s.batch) : sent[s.batch[k]] = "in"

\* A COPY FROM starts: its client has sent nothing after it.
LEMMA DataCopy ==
  ASSUME NEW s \in ServingSet, NEW t \in ServingSet, NEW sent \in Seq(Sendable), Conforms(sent),
         Data("flush", s, sent), Passes(s, t), Copies(s, sent)
  PROVE  Data("copy", t, sent)
<1>1. /\ s.handled \in Nat /\ Len(s.batch) \in Nat /\ Len(sent) \in Nat
      /\ s.read \in Nat /\ s.taken \in Nat
  BY DEF ServingSet
<1>2. /\ 2 * Begin(sent) + Len(t.got) = 2 * t.handled
      /\ \A i \in 1..Len(t.got) : t.got[i] = 2 * Begin(sent) + i
      /\ Passed(t, sent) /\ Len(t.batch) = 0 /\ t.batch = << >>
      /\ t.handled = s.handled /\ t.read = s.read /\ t.taken = s.taken
      /\ Len(t.batch) <= t.handled /\ ~ \E i \in 1..Len(t.batch) : TRUE
  BY PassedOn, Zenon
<1>4. "flush" \notin Pumping /\ "copy" \in Pumping /\ "copy" # "flush"
  BY Zenon DEF Pumping
<1>3. PICK k \in 1..Len(s.batch) : sent[s.batch[k]] = "in"
  BY Zenon DEF Copies
<1>5. PICK m : m = s.batch[k] /\ sent[m] = "in" /\ k \in 1..Len(s.batch)
  BY <1>3, Zenon
<1>6. /\ m = s.handled - Len(s.batch) + k /\ s.read = s.taken /\ Len(s.batch) <= s.handled
      /\ s.read <= 2 * Len(sent) /\ 2 * s.handled <= s.read
  BY <1>4, <1>5, Zenon DEF Data, Frames
<1>7. m \in 1..Len(sent) /\ m > s.handled - Len(s.batch) /\ (m = Len(sent) => s.read = 2 * s.handled)
  <2>1. k \in 1..Len(s.batch)
    BY <1>5, Zenon
  <2> QED
    BY <1>1, <1>6, <2>1, CopyPlace, Zenon
<1>8. m = Len(sent)
  BY <1>4, <1>5, <1>7, Zenon DEF Data, Frames
<1>9. t.read = 2 * t.handled /\ t.taken = 2 * t.handled
  BY <1>2, <1>6, <1>7, <1>8, Zenon
<1>10. Frames("copy", t, sent)
  BY <1>2, <1>4, <1>9, Zenon DEF Data, Frames
<1>11. Bytes("copy", t, sent)
  BY <1>2, <1>4, <1>9, Zenon DEF Bytes
<1> QED
  BY <1>10, <1>11, Zenon DEF Data

\* t is s after the continuation was handed over.
Continues(s, t) ==
  /\ t.handled = s.handled /\ t.read = s.read /\ t.taken = s.taken
  /\ t.batch = s.batch /\ t.flush = s.flush
  /\ t.got = s.got \o (IF s.flush = "boundary" THEN Halves(2 * s.handled, s.read) ELSE << >>)

LEMMA NoneAdded ==
  ASSUME NEW got \in Seq(Nat), NEW n \in Nat
  PROVE  got \o << >> = got /\ Halves(n, n) = << >>
BY DEF Halves

\* The backend gets the batch, and then what the frame reader had taken.
LEMMA DataPump ==
  ASSUME NEW s \in ServingSet, NEW u \in ServingSet, NEW t \in ServingSet,
         NEW sent \in Seq(Sendable), Conforms(sent), Data("flush", s, sent),
         Passes(s, u), u.flush = s.flush, Continues(u, t)
  PROVE  Data("pump", t, sent)
<1>1. /\ u.handled \in Nat /\ u.read \in Nat /\ u.got \in Seq(Nat) /\ Begin(sent) \in {1, 2}
  BY BeginFacts, Zenon DEF ServingSet
<1>2. /\ 2 * Begin(sent) + Len(u.got) = 2 * u.handled
      /\ \A i \in 1..Len(u.got) : u.got[i] = 2 * Begin(sent) + i
      /\ Passed(u, sent) /\ u.batch = << >>
      /\ u.handled = s.handled /\ u.read = s.read /\ u.taken = s.taken
      /\ Len(u.batch) <= u.handled /\ ~ \E i \in 1..Len(u.batch) : TRUE
  BY PassedOn, Zenon
<1>3. /\ t.handled = u.handled /\ t.read = u.read /\ t.taken = u.taken
      /\ t.batch = u.batch /\ t.flush = u.flush
  BY Zenon DEF Continues
<1>4. "pump" \in Pumping /\ "flush" \notin Pumping /\ "pump" # "flush" /\ "pump" # "copy"
  BY Zenon DEF Pumping
<1>5. s.read = s.taken /\ 2 * s.handled <= s.read /\ (s.flush = "control" => Ended(s, sent))
  BY <1>4, Zenon DEF Data, Frames
<1>6. Frames("pump", t, sent)
  BY <1>2, <1>3, <1>4, Zenon DEF Data, Frames
<1>7. Passed(t, sent)
  BY <1>2, <1>3, Zenon DEF Passed
<1>8. CASE s.flush = "boundary"
  <2>1. PICK base \in Nat, from \in Nat : base = 2 * Begin(sent) /\ from = 2 * u.handled
    <3>1. 2 * Begin(sent) \in Nat /\ 2 * u.handled \in Nat
      BY <1>1
    <3> QED
      BY <3>1, Zenon
  <2>2. UpTo(u.got, base, from) /\ from <= u.read
    BY <1>1, <1>2, <1>5, <2>1, Zenon DEF UpTo
  <2>3. UpTo(u.got \o Halves(from, u.read), base, u.read)
    BY <1>1, <2>1, <2>2, Extend, Zenon
  <2>4. t.got = u.got \o Halves(from, u.read)
    BY <1>8, <2>1, Zenon DEF Continues
  <2>5. UpTo(t.got, 2 * Begin(sent), t.taken)
    BY <1>2, <1>3, <1>5, <2>1, <2>3, <2>4, Zenon
  <2> QED
    BY <1>4, <1>6, <1>7, <2>5, Zenon DEF Data, Bytes, UpTo
<1>9. CASE s.flush # "boundary"
  <2>1. t.got = u.got
    BY <1>1, <1>9, NoneAdded, Zenon DEF Continues
  <2>2. t.flush = "eof" \/ Ended(t, sent)
    <3>1. s.flush \in {"boundary", "control", "eof"}
      BY Zenon DEF ServingSet
    <3> QED
      BY <1>2, <1>3, <1>5, <1>9, <3>1, Zenon DEF Ended
  <2> QED
    BY <1>2, <1>4, <1>6, <1>7, <2>1, <2>2, Zenon DEF Data, Bytes
<1> QED
  BY <1>8, <1>9, Zenon

\* A COPY FROM ends: there is no continuation.
LEMMA DataCopyEnds ==
  ASSUME NEW s \in ServingSet, NEW t \in ServingSet, NEW sent \in Seq(Sendable),
         Data("copy", s, sent), Continues(s, t)
  PROVE  Data("pump", t, sent)
<1>1. s.handled \in Nat /\ s.got \in Seq(Nat)
  BY Zenon DEF ServingSet
<1>2. /\ t.handled = s.handled /\ t.read = s.read /\ t.taken = s.taken
      /\ t.batch = s.batch /\ t.flush = s.flush
  BY Zenon DEF Continues
<1>3. "pump" \in Pumping /\ "copy" \in Pumping /\ "pump" # "flush" /\ "pump" # "copy"
  BY Zenon DEF Pumping
<1>4. t.got = s.got
  <2>1. CASE s.flush = "boundary"
    <3>1. s.read = 2 * s.handled /\ 2 * s.handled \in Nat
      BY <1>1, <2>1 DEF Data, Frames
    <3> QED
      BY <1>1, <2>1, <3>1, NoneAdded, Zenon DEF Continues
  <2>2. CASE s.flush # "boundary"
    BY <1>1, <2>2, NoneAdded, Zenon DEF Continues
  <2> QED
    BY <2>1, <2>2, Zenon
<1>5. Frames("pump", t, sent)
  BY <1>2, <1>3, Zenon DEF Data, Frames
<1>6. Bytes("pump", t, sent)
  BY <1>2, <1>3, <1>4, Zenon DEF Data, Bytes, Passed, Ended
<1> QED
  BY <1>5, <1>6, Zenon DEF Data

\* The backend takes half a message from the socket.
Takes(s, t) ==
  /\ t.handled = s.handled /\ t.read = s.read /\ t.batch = s.batch /\ t.flush = s.flush
  /\ t.taken = s.taken + 1 /\ t.got = Append(s.got, s.taken + 1)

LEMMA DataTaken ==
  ASSUME NEW s \in ServingSet, NEW t \in ServingSet, NEW sent \in Seq(Sendable),
         NEW at \in Pumping, Data(at, s, sent), Takes(s, t),
         2 * Len(sent) - s.taken > 0, s.flush # "eof"
  PROVE  Data(at, t, sent)
<1>1. /\ s.taken \in Nat /\ s.read \in Nat /\ s.got \in Seq(Nat) /\ Len(s.got) \in Nat
      /\ Begin(sent) \in {1, 2} /\ Len(sent) \in Nat
  BY BeginFacts DEF ServingSet
<1>2. /\ t.handled = s.handled /\ t.read = s.read /\ t.batch = s.batch /\ t.flush = s.flush
      /\ t.taken = s.taken + 1
  BY Zenon DEF Takes
<1>3. at # "flush"
  BY Zenon DEF Pumping
<1>4. s.read <= s.taken /\ s.taken <= 2 * Len(sent)
  BY Zenon DEF Data, Frames
<1>5. t.read <= t.taken /\ t.taken <= 2 * Len(sent)
  BY <1>1, <1>2, <1>4
<1>6. Frames(at, t, sent)
  BY <1>2, <1>3, <1>5, Zenon DEF Data, Frames
<1>7. ~Ended(s, sent)
  BY <1>1 DEF Ended
<1>8. Passed(s, sent) /\ 2 * Begin(sent) + Len(s.got) = s.taken
  BY <1>7, Zenon DEF Data, Bytes
<1>9. /\ Len(t.got) = Len(s.got) + 1 /\ t.got[Len(s.got) + 1] = s.taken + 1
      /\ \A i \in 1..Len(s.got) : t.got[i] = s.got[i]
      /\ 1..Len(t.got) = 1..Len(s.got) \cup {Len(s.got) + 1}
  <2>1. s.taken + 1 \in Nat
    BY <1>1
  <2>2. t.got = Append(s.got, s.taken + 1)
    BY Zenon DEF Takes
  <2> QED
    BY <1>1, <2>1, <2>2, Added
<1>10. /\ 2 * Begin(sent) + Len(t.got) = t.taken
       /\ s.taken + 1 = 2 * Begin(sent) + (Len(s.got) + 1)
  <2>1. Len(s.got) \in Nat /\ s.taken \in Nat /\ Begin(sent) \in Nat
    BY BeginFacts DEF ServingSet
  <2>2. 2 * Begin(sent) + (Len(s.got) + 1) = s.taken + 1
    BY <1>8, <2>1, OneFurther, Zenon
  <2> QED
    BY <1>2, <1>9, <2>2, Zenon
<1>11. \A i \in 1..Len(t.got) : t.got[i] = 2 * Begin(sent) + i
  BY <1>9, <1>10, Zenon DEF Data, Bytes
<1>12. Bytes(at, t, sent)
  BY <1>2, <1>8, <1>10, <1>11, Zenon DEF Bytes, Passed
<1> QED
  BY <1>6, <1>12, Zenon DEF Data

LEMMA OneMore ==
  ASSUME NEW a \in Seq(Sendable), NEW k \in Sendable
  PROVE  /\ Len(Append(a, k)) = Len(a) + 1 /\ Append(a, k) # << >>
         /\ Append(a, k)[Len(a) + 1] = k /\ \A i \in 1..Len(a) : Append(a, k)[i] = a[i]
OBVIOUS

\* A client goes on as the protocol says.
LEMMA ConformsMore ==
  ASSUME NEW sent \in Seq(Sendable), Conforms(sent), NEW k \in MaySend(sent)
  PROVE  /\ k \in Sendable /\ Conforms(Append(sent, k))
         /\ sent # << >> => /\ Begin(Append(sent, k)) = Begin(sent)
                            /\ sent[Len(sent)] \notin {"cancel", "terminate"}
<1>1. CASE sent = << >>
  <2>1. k \in {"ssl", "cancel", "startup"}
    BY <1>1, Zenon DEF MaySend
  <2>2. PICK new : new = Append(sent, k)
    BY Zenon
  <2>3. Len(new) = 1 /\ new[1] = k /\ new # << >>
    BY <1>1, <2>2
  <2>4. Begin(new) = IF k = "ssl" THEN 2 ELSE 1
    BY <2>3, Zenon DEF Begin
  <2>5. Conforms(new)
    BY <2>1, <2>3, <2>4 DEF Conforms
  <2> QED
    BY <1>1, <2>1, <2>2, <2>5, Zenon DEF Sendable, Control
<1>2. CASE sent # << >>
  <2>1. Len(sent) \in Nat /\ Len(sent) \in 1..Len(sent) /\ 1 \in 1..Len(sent)
    BY <1>2
  <2>2. PICK last : last = sent[Len(sent)] /\ last \in Sendable
    BY <2>1
  <2>3. /\ last = "ssl" => k = "startup"
        /\ last \notin {"cancel", "terminate"}
        /\ last # "ssl" => k \in Protocol \cup {"terminate"}
    BY <1>2, <2>2, Zenon DEF MaySend, Protocol
  <2>4. k \in Sendable
    BY <2>3, Zenon DEF Sendable, Control, Protocol
  <2>5. PICK new : /\ new = Append(sent, k) /\ Len(new) = Len(sent) + 1 /\ new # << >>
                   /\ new[Len(sent) + 1] = k /\ \A i \in 1..Len(sent) : new[i] = sent[i]
    <3>1. /\ Len(Append(sent, k)) = Len(sent) + 1 /\ Append(sent, k) # << >>
          /\ Append(sent, k)[Len(sent) + 1] = k
          /\ \A i \in 1..Len(sent) : Append(sent, k)[i] = sent[i]
      BY <2>4, OneMore, Zenon
    <3> QED
      BY <3>1, Zenon
  <2>6. Begin(new) = Begin(sent)
    BY <1>2, <2>1, <2>5, Zenon DEF Begin
  <2>7. Begin(sent) \in {1, 2}
    BY BeginFacts, Zenon
  <2>8. /\ last = "ssl" => Len(sent) = 1 /\ Begin(sent) = 2
        /\ last # "ssl" => Len(sent) >= Begin(sent)
    <3>1. last = "ssl" => Len(sent) = 1 /\ Begin(sent) = 2
      BY <2>1, <2>2, StartupPlace, Zenon
    <3>2. last = "startup" \/ last \in Protocol => Len(sent) = Begin(sent) \/ Len(sent) > Begin(sent)
      BY <2>1, <2>2, StartupPlace, Zenon
    <3>3. last # "ssl" => last = "startup" \/ last \in Protocol
      BY <2>2, <2>3, Zenon DEF Sendable, Control
    <3>4. Len(sent) = Begin(sent) \/ Len(sent) > Begin(sent) => Len(sent) >= Begin(sent)
      BY <2>1, <2>7
    <3> QED
      BY <3>1, <3>2, <3>3, <3>4, Zenon
  <2>9. ASSUME NEW i \in 1..Len(new)
        PROVE  /\ i < Begin(new) => new[i] = "ssl"
               /\ i = Begin(new) => new[i] = "startup" \/ (new[i] = "cancel" /\ i = 1)
               /\ i > Begin(new) => new[i] \in Protocol \cup {"terminate"}
               /\ new[i] \in {"cancel", "terminate"} => i = Len(new)
    <3>1. i \in 1..Len(sent) \/ i = Len(sent) + 1
      BY <2>1, <2>5
    <3>2. CASE i \in 1..Len(sent)
      <4>1. new[i] \notin {"cancel", "terminate"}
        BY <2>2, <2>3, <2>5, <3>2, Zenon DEF Conforms
      <4> QED
        BY <2>5, <2>6, <3>2, <4>1, Zenon DEF Conforms
    <3>3. CASE i = Len(sent) + 1
      <4>1. new[i] = k /\ i = Len(new)
        BY <2>5, <3>3, Zenon
      <4>2. CASE last = "ssl"
        <5>1. i = Begin(new) /\ k = "startup" /\ ~(i < Begin(new)) /\ ~(i > Begin(new))
          <6>1. i = 2 /\ Begin(new) = 2 /\ k = "startup"
            <7>1. Len(sent) = 1 /\ Begin(new) = 2 /\ k = "startup"
              BY <2>3, <2>6, <2>8, <4>2, Zenon
            <7> QED
              BY <3>3, <7>1
          <6> QED
            BY <6>1
        <5> QED
          BY <4>1, <5>1, Zenon
      <4>3. CASE last # "ssl"
        <5>1. i # Begin(new) /\ ~(i < Begin(new))
          BY <2>1, <2>6, <2>7, <2>8, <3>3, <4>3
        <5> QED
          BY <2>3, <4>1, <4>3, <5>1, Zenon
      <4> QED
        BY <4>2, <4>3, Zenon
    <3> QED
      BY <3>1, <3>2, <3>3, Zenon
  <2>10. Conforms(new)
    BY <2>9, Zenon DEF Conforms
  <2> QED
    BY <2>2, <2>3, <2>4, <2>5, <2>6, <2>10, Zenon
<1> QED
  BY <1>1, <1>2, Zenon

\* A client sends while the server waits for it.
LEMMA DataSend ==
  ASSUME NEW s \in ServingSet, NEW sent \in Seq(Sendable), Conforms(sent), NEW k \in MaySend(sent),
         NEW at \in {"reading", "copy", "pump"}, Data(at, s, sent),
         at = "reading" /\ sent # << >> /\ sent[Len(sent)] = "in" => s.handled = Len(sent)
  PROVE  Data(at, s, Append(sent, k))
<1>0. /\ s.handled \in Nat /\ s.taken \in Nat /\ s.read \in Nat /\ Len(s.batch) \in Nat
      /\ Len(s.got) \in Nat /\ s.batch \in Seq(Nat) /\ Len(sent) \in Nat
  BY DEF ServingSet
<1>1. PICK new : /\ new = Append(sent, k) /\ Len(new) = Len(sent) + 1
                 /\ new[Len(sent) + 1] = k /\ \A i \in 1..Len(sent) : new[i] = sent[i]
  <2>1. k \in Sendable
    BY ConformsMore, Zenon
  <2>2. /\ Len(Append(sent, k)) = Len(sent) + 1 /\ Append(sent, k)[Len(sent) + 1] = k
        /\ \A i \in 1..Len(sent) : Append(sent, k)[i] = sent[i]
    BY <2>1, OneMore, Zenon
  <2> QED
    BY <2>2, Zenon
<1>2. at # "flush" /\ (at = "reading" <=> at \notin Pumping)
  BY Zenon DEF Pumping
<1>3. /\ s.read <= s.taken /\ s.taken <= 2 * Len(sent) /\ 2 * s.handled <= s.read
      /\ Len(s.batch) <= s.handled
  BY Zenon DEF Data, Frames
<1>4. s.handled <= Len(sent) /\ s.taken <= 2 * Len(new)
  BY <1>0, <1>1, <1>3
<1>5. ASSUME NEW i \in 1..Len(s.batch)
      PROVE  s.batch[i] \in 1..Len(sent)
  <2>1. s.batch[i] = s.handled - Len(s.batch) + i
    BY Zenon DEF Data, Frames
  <2>2. s.handled \in Nat /\ Len(s.batch) \in Nat /\ Len(sent) \in Nat
    BY <1>0
  <2>3. s.handled - Len(s.batch) + i \in 1..Len(sent)
    BY <1>3, <1>4, <2>2, InBatch, Zenon
  <2> QED
    BY <2>1, <2>3, Zenon
<1>6. ASSUME at = "reading", NEW i \in 1..Len(new), new[i] = "in", i > s.handled - Len(s.batch)
      PROVE  i = Len(new)
  <2> SUFFICES ASSUME i \in 1..Len(sent) PROVE FALSE
    BY <1>0, <1>1
  <2>1. i = Len(sent) /\ sent[i] = "in"
    BY <1>1, <1>2, <1>6, Zenon DEF Data, Frames
  <2>2. s.handled = Len(sent)
    <3>1. sent # << >>
      OBVIOUS
    <3> QED
      BY <1>6, <2>1, <3>1, Zenon
  <2>3. Len(s.batch) \in 1..Len(s.batch)
    BY <1>0, <1>6, <2>1, <2>2
  <2>4. s.batch[Len(s.batch)] = s.handled - Len(s.batch) + Len(s.batch)
        /\ sent[s.batch[Len(s.batch)]] # "in"
    BY <1>2, <2>3, Zenon DEF Data, Frames
  <2>5. s.handled - Len(s.batch) + Len(s.batch) = s.handled
    BY <1>0
  <2> QED
    BY <2>1, <2>2, <2>4, <2>5, Zenon
<1>7. Frames(at, s, new)
  BY <1>1, <1>2, <1>4, <1>5, <1>6, Zenon DEF Data, Frames
<1>8. Bytes(at, s, new)
  <2>1. CASE sent = << >>
    <3>1. s.handled = 0 /\ Begin(sent) \in {1, 2} /\ Begin(new) \in {1, 2}
      <4>1. Begin(sent) \in {1, 2} /\ Begin(new) \in {1, 2}
        BY BeginFacts, Zenon
      <4>2. Len(sent) = 0
        BY <2>1, Zenon
      <4> QED
        BY <1>0, <1>3, <4>1, <4>2
    <3>2. ~Passed(s, sent) /\ ~Passed(s, new)
      BY <3>1 DEF Passed
    <3>3. s.got = << >> /\ s.batch = << >> /\ at \notin Pumping
      BY <3>2, Zenon DEF Data, Bytes
    <3>4. ~ \E i \in 1..Len(s.got) : TRUE
      BY <3>3
    <3> QED
      BY <3>2, <3>3, <3>4, Zenon DEF Bytes
  <2>2. CASE sent # << >>
    <3>1. Begin(new) = Begin(sent) /\ ~Ended(s, sent)
      BY <1>1, <2>2, ConformsMore, Zenon DEF Ended
    <3>2. s.handled >= Begin(sent) => Begin(sent) \in 1..Len(sent) /\ s.handled \in 1..Len(sent)
      <4>1. Begin(sent) \in {1, 2}
        BY BeginFacts, Zenon
      <4> QED
        BY <1>0, <1>4, <4>1
    <3>3. Passed(s, new) <=> Passed(s, sent)
      BY <1>1, <3>1, <3>2, Zenon DEF Passed
    <3>4. Passed(s, sent) => new[s.handled] = sent[s.handled]
      BY <1>1, <3>2, Zenon DEF Passed
    <3> QED
      BY <3>1, <3>3, <3>4, Zenon DEF Data, Bytes
  <2> QED
    BY <2>1, <2>2, Zenon
<1> QED
  BY <1>1, <1>7, <1>8, Zenon DEF Data

-----------------------------------------------------------------------------
(* The listener thread, while it serves a connection *)

LEMMA Connected ==
  ASSUME PgInv, listener.at \in Serving
  PROVE  /\ listener.conn \in Clients /\ client[listener.conn] = Conn
         /\ Conn \in [socket : Sockets, sent : Seq(Sendable)] /\ Conn.sent \in Seq(Sendable)
         /\ Conforms(Conn.sent) /\ Data(listener.at, serving, Conn.sent) /\ serving \in ServingSet
<1>1. listener.conn \in Clients
  BY Zenon DEF PgInv, ConnInv, Engaged
<1>2. Conn \in [socket : Sockets, sent : Seq(Sendable)]
  BY <1>1, Zenon DEF PgInv, Shape, Conn
<1>3. Conn.sent \in Seq(Sendable)
  BY <1>2, Zenon
<1>4. Conforms(Conn.sent)
  BY <1>1, Zenon DEF PgInv, StreamInv, Conn
<1> QED
  BY <1>1, <1>2, <1>3, <1>4, Zenon DEF PgInv, StreamInv, Conn, Shape

LEMMA ServeKeeps ==
  ASSUME PgInv, listener.at \in Serving, NEW at \in Serving, NEW next \in ServingSet,
         next.backend = serving.backend, Serve(at, next), Data(at, next, Conn.sent),
         at = "write" => next.reply # None
  PROVE  PgInv'
<1>0. Shape /\ ConnInv /\ BackendInv /\ OwnerInv /\ StreamInv
  BY Zenon DEF PgInv
<1>1. /\ UNCHANGED <<endpoint, start, handles, caller, state, control, owner, root, path, shutdown,
                     active, backlog, client, sessions, latch>>
      /\ serving' = next
  BY Zenon DEF Serve, environment, handleVars, ownerVars
<1>2. /\ listener' \in [at : ListenerAts, conn : Clients \cup {None, Wakeup}, result : Results]
      /\ listener'.at = at /\ listener'.conn = listener.conn /\ listener'.result = listener.result
  <2>1. at \in ListenerAts
    BY Zenon DEF ListenerAts, Engaged
  <2> QED
    BY <1>0, <2>1, Zenon DEF Serve, Go, Shape
<1>3. /\ at \notin {"recheck", "exited", "absent", "finish"} /\ at \in Engaged
      /\ listener.at \notin {"recheck", "exited", "absent"} /\ listener.at \in Engaged
  BY Zenon DEF Serving, Framing, Pumping, Engaged
<1>4. Shape'
  BY <1>0, <1>1, <1>2, Zenon DEF Shape
<1>5. ConnInv'
  BY <1>0, <1>1, <1>2, <1>3, Zenon DEF ConnInv
<1>6. BackendInv'
  BY <1>0, <1>1, <1>2, <1>3, Zenon DEF BackendInv
<1>7. OwnerInv'
  BY <1>0, <1>1, <1>2, <1>3, Zenon DEF OwnerInv
<1>8. StreamInv'
  BY <1>0, <1>1, <1>2, Zenon DEF StreamInv, Conn
<1> QED
  BY <1>4, <1>5, <1>6, <1>7, <1>8, Zenon DEF PgInv

LEMMA FreshFacts ==
  /\ Fresh \in ServingSet /\ Fresh.got = << >>
  /\ \A b, p \in BOOLEAN : /\ [Fresh EXCEPT !.backend = b, !.panicked = p] \in ServingSet
                           /\ [Fresh EXCEPT !.backend = b, !.panicked = p].backend = b
                           /\ [Fresh EXCEPT !.backend = b, !.panicked = p].got = << >>
<1>1. << >> \in Seq(Nat)
  OBVIOUS
<1> QED
  BY <1>1, Zenon DEF Fresh, ServingSet, None

LEMMA NothingConforms == Conforms(<< >>) /\ << >> \in Seq(Sendable)
BY DEF Conforms

\* A connection that sends no more, whether it is shut, dropped or ended.
LEMMA ClientChanged ==
  ASSUME NEW f, f \in [Clients -> [socket : Sockets, sent : Seq(Sendable)]], NEW c \in Clients,
         NEW s \in Sockets, NEW q \in Seq(Sendable)
  PROVE  /\ [f EXCEPT ![c].socket = s] \in [Clients -> [socket : Sockets, sent : Seq(Sendable)]]
         /\ [f EXCEPT ![c].sent = q] \in [Clients -> [socket : Sockets, sent : Seq(Sendable)]]
         /\ [f EXCEPT ![c].socket = s][c] = [f[c] EXCEPT !.socket = s]
         /\ [f EXCEPT ![c].sent = q][c] = [f[c] EXCEPT !.sent = q]
         /\ [f EXCEPT ![c].socket = s][c].sent = f[c].sent
         /\ [f EXCEPT ![c].sent = q][c].sent = q
         /\ [f EXCEPT ![c].sent = q][c].socket = f[c].socket
         /\ [f EXCEPT ![c].socket = s][c].socket = s
         /\ \A d \in Clients \ {c} : /\ [f EXCEPT ![c].socket = s][d] = f[d]
                                     /\ [f EXCEPT ![c].sent = q][d] = f[d]
OBVIOUS

\* handle_stream returns, or unwinds.
LEMMA FinishingKeeps ==
  ASSUME PgInv, listener.at \in Serving, NEW s \in ServingSet, s.backend = serving.backend,
         Finishing(s)
  PROVE  PgInv'
<1>0. Shape /\ ConnInv /\ BackendInv /\ OwnerInv /\ StreamInv
  BY Zenon DEF PgInv
<1>1. /\ UNCHANGED <<endpoint, start, handles, caller, state, control, owner, root, path, shutdown,
                     active, backlog, sessions, latch>>
      /\ serving' \in ServingSet /\ serving'.backend = serving.backend
      /\ serving'.got = << >>
  <2>1. s.backend \in BOOLEAN /\ s.panicked \in BOOLEAN
    BY Zenon DEF ServingSet
  <2> QED
    BY <2>1, FreshFacts, Zenon DEF Finishing, environment, handleVars, ownerVars
<1>2. /\ listener' \in [at : ListenerAts, conn : Clients \cup {None, Wakeup}, result : Results]
      /\ listener'.at = "finish" /\ listener'.conn = listener.conn
      /\ listener'.result = listener.result
  <2>1. "finish" \in ListenerAts
    BY Zenon DEF ListenerAts, Engaged
  <2> QED
    BY <1>0, <2>1, Zenon DEF Finishing, Go, Shape
<1>3. /\ "finish" \notin Serving /\ "finish" \in Engaged
      /\ listener.at \notin {"recheck", "exited", "absent", "finish"} /\ listener.at \in Engaged
  BY Zenon DEF Serving, Framing, Pumping, Engaged
<1>4. /\ client' \in [Clients -> [socket : Sockets, sent : Seq(Sendable)]]
      /\ \A c \in Clients : client'[c].sent = << >>
  <2>1. listener.conn \in Clients
    BY <1>0, <1>3, Zenon DEF ConnInv
  <2>2. client' = [client EXCEPT ![listener.conn].sent = << >>]
    BY Zenon DEF Finishing
  <2>3. client \in [Clients -> [socket : Sockets, sent : Seq(Sendable)]] /\ "open" \in Sockets
    BY <1>0, Zenon DEF Shape, Sockets
  <2>4. /\ client' \in [Clients -> [socket : Sockets, sent : Seq(Sendable)]]
        /\ client'[listener.conn].sent = << >>
        /\ \A d \in Clients \ {listener.conn} : client'[d] = client[d]
    BY <2>1, <2>2, <2>3, NothingConforms, Zenon
  <2>5. \A d \in Clients \ {listener.conn} : client[d].sent = << >>
    BY <1>0, Zenon DEF ConnInv
  <2> QED
    BY <2>4, <2>5, Zenon
<1>5. Shape'
  BY <1>0, <1>1, <1>2, <1>4, Zenon DEF Shape
<1>6. ConnInv'
  BY <1>0, <1>1, <1>2, <1>3, <1>4, Zenon DEF ConnInv
<1>7. BackendInv'
  BY <1>0, <1>1, <1>2, <1>3, Zenon DEF BackendInv
<1>8. OwnerInv'
  BY <1>0, <1>1, <1>2, <1>3, Zenon DEF OwnerInv
<1>9. StreamInv'
  BY <1>1, <1>2, <1>3, <1>4, NothingConforms, Zenon DEF StreamInv
<1> QED
  BY <1>5, <1>6, <1>7, <1>8, <1>9, Zenon DEF PgInv

\* What the listener thread leaves alone.
LEMMA Untouched ==
  ASSUME UNCHANGED environment
  PROVE  UNCHANGED <<endpoint, start, handles, caller, state, control, owner, root, path, shutdown>>
BY Zenon DEF environment, handleVars, ownerVars

\* No client has said anything between two connections.
LEMMA Silent ==
  ASSUME PgInv, listener.at \notin Serving
  PROVE  \A c \in Clients : client[c].sent = << >>
BY Zenon DEF PgInv, ConnInv

\* The listener thread returns.
LEMMA ExitKeeps ==
  ASSUME PgInv, listener.at \in {"loop", "accept", "recheck", "leave", "latch"},
         NEW r \in {"ok", "failed"}, latch => r = "failed", Exit(r), active' = None,
         UNCHANGED <<environment, sessions, latch>>, serving' \in ServingSet,
         serving'.got = << >>
  PROVE  PgInv'
<1>0. Shape /\ ConnInv /\ BackendInv /\ OwnerInv /\ StreamInv
  BY Zenon DEF PgInv
<1>1. UNCHANGED <<endpoint, start, handles, caller, state, control, owner, root, path, shutdown,
                  sessions, latch>>
  BY Untouched, Zenon
<1>2. /\ listener' \in [at : ListenerAts, conn : Clients \cup {None, Wakeup}, result : Results]
      /\ listener'.at = "exited" /\ listener'.conn = None /\ listener'.result = r
  BY Zenon DEF Exit, ListenerAts, Results
<1>3. /\ "exited" \notin Engaged /\ "exited" \notin Serving
      /\ listener.at \notin Serving \cup {"finish", "absent", "exited"}
  BY Zenon DEF Serving, Framing, Pumping, Engaged
<1>4. /\ client' \in [Clients -> [socket : Sockets, sent : Seq(Sendable)]]
      /\ \A c \in Clients : client'[c].sent = << >> /\ client'[c].socket \in {"new", "gone"}
  <2>1. Gone \in [socket : Sockets, sent : Seq(Sendable)] /\ Gone.sent = << >> /\ Gone.socket = "gone"
    BY NothingConforms, Zenon DEF Gone, Sockets
  <2>2. client' = [c \in Clients |-> IF client[c].socket = "new" THEN client[c] ELSE Gone]
    BY Zenon DEF Exit
  <2> QED
    BY <1>0, <1>3, <2>1, <2>2, Silent, Zenon DEF Shape
<1>5. backlog' = << >> /\ backlog' \in Seq(Clients \cup {Wakeup}) /\ Len(backlog') = 0
  BY DEF Exit
<1>6. Shape'
  BY <1>0, <1>1, <1>2, <1>4, <1>5, Zenon DEF Shape
<1>7. ConnInv'
  <2>1. ~ \E i \in 1..Len(backlog') : TRUE
    BY <1>5
  <2> QED
    BY <1>2, <1>3, <1>4, <2>1, Zenon DEF ConnInv
<1>8. BackendInv'
  <2>1. /\ sessions # {} \/ owner.at = "bind" => root = "locked"
        /\ owner.at \notin {"prepare", "bind"}
    BY <1>0, <1>3, Zenon DEF BackendInv
  <2>2. /\ ~latch => sessions = {}
        /\ latch => \E c \in Clients : sessions = {c}
    BY <1>0, <1>3, Zenon DEF BackendInv
  <2>3. "exited" \notin Serving \cup {"finish"}
    BY <1>3, Zenon
  <2> QED
    BY <1>1, <1>2, <2>1, <2>2, <2>3 DEF BackendInv
<1>9. OwnerInv'
  BY <1>0, <1>1, <1>2, <1>3, Zenon DEF OwnerInv
<1>10. StreamInv'
  BY <1>2, <1>3, <1>4, NothingConforms, Zenon DEF StreamInv
<1> QED
  BY <1>6, <1>7, <1>8, <1>9, <1>10, Zenon DEF PgInv

\* A step of the listener thread between two connections.
LEMMA BetweenKeeps ==
  ASSUME PgInv, listener.at \notin Serving \cup {"finish", "absent", "exited"},
         UNCHANGED <<environment, sessions, latch>>, serving' \in ServingSet,
         serving'.got = << >>,
         listener' \in [at : ListenerAts, conn : Clients \cup {None, Wakeup}, result : Results],
         listener'.at \notin Serving \cup {"finish", "absent", "exited"},
         latch => listener'.at \in {"leave", "latch"},
         client' \in [Clients -> [socket : Sockets, sent : Seq(Sendable)]],
         \A c \in Clients : client'[c].sent = << >>,
         backlog' \in Seq(Clients \cup {Wakeup}), ConnInv'
  PROVE  PgInv'
<1>0. Shape /\ ConnInv /\ BackendInv /\ OwnerInv /\ StreamInv
  BY Zenon DEF PgInv
<1>1. UNCHANGED <<endpoint, start, handles, caller, state, control, owner, root, path, shutdown,
                  sessions, latch>>
  BY Untouched, Zenon
<1>2. Shape'
  <2>1. "write" \in Serving
    BY Zenon DEF Serving, Framing
  <2> QED
    BY <1>0, <1>1, <2>1, Zenon DEF Shape
<1>3. BackendInv'
  <2>1. root = "locked" /\ owner.at \notin {"prepare", "bind"}
    BY <1>0, Zenon DEF BackendInv
  <2>2. /\ ~latch => sessions = {}
        /\ latch => \E c \in Clients : sessions = {c}
    BY <1>0, Zenon DEF BackendInv
  <2> QED
    BY <1>1, <2>1, <2>2 DEF BackendInv
<1>4. OwnerInv'
  BY <1>0, <1>1, Zenon DEF OwnerInv
<1>5. StreamInv'
  BY NothingConforms, Zenon DEF StreamInv
<1> QED
  BY <1>2, <1>3, <1>4, <1>5, Zenon DEF PgInv

LEMMA Places ==
  /\ \A at \in {"loop", "accept", "recheck", "register", "registered", "latch"} :
       /\ at \in ListenerAts /\ at \notin Engaged
       /\ at \notin Serving \cup {"finish", "absent", "exited"}
  /\ "leave" \in ListenerAts /\ "leave" \in Engaged
  /\ "leave" \notin Serving \cup {"finish", "absent", "exited"}
BY Zenon DEF ListenerAts, Engaged, Serving, Framing, Pumping

\* The thread goes on without the connections being touched.
LEMMA GoKeeps ==
  ASSUME PgInv, NEW from \in {"loop", "recheck", "latch"}, listener.at = from,
         NEW to \in {"accept", "register", "loop"}, Go(to), ~latch,
         to = "register" => listener.conn \in Clients,
         UNCHANGED <<environment, active, backlog, client, serving, sessions, latch>>
  PROVE  PgInv'
<1>0. Shape /\ ConnInv
  BY Zenon DEF PgInv
<1>1. UNCHANGED <<endpoint, start, handles, caller, state, control, owner, root, path, shutdown>>
  BY Untouched, Zenon
<1>2. /\ listener.at \notin Serving \cup {"finish", "absent", "exited"} /\ listener.at \notin Engaged
      /\ to \notin Serving \cup {"finish", "absent", "exited"} /\ to \notin Engaged
      /\ to \in ListenerAts
  BY Places, Zenon
<1>3. /\ listener' \in [at : ListenerAts, conn : Clients \cup {None, Wakeup}, result : Results]
      /\ listener'.at = to /\ listener'.conn = listener.conn
  BY <1>0, <1>2, Zenon DEF Go, Shape
<1>4. active = None /\ serving.got = << >> /\ \A c \in Clients : client[c].sent = << >>
  BY <1>0, <1>2, Silent, Zenon DEF ConnInv, PgInv, StreamInv
<1>5. ConnInv'
  <2>1. to \notin {"recheck", "registered", "exited"}
    OBVIOUS
  <2> QED
    BY <1>0, <1>1, <1>2, <1>3, <1>4, <2>1, Zenon DEF ConnInv
<1> QED
  BY <1>0, <1>2, <1>3, <1>4, <1>5, BetweenKeeps, Zenon DEF Shape

\* A failed teardown is seen before the next connection is.
LEMMA NotLatched ==
  ASSUME PgInv, listener.at \in {"loop", "accept", "recheck", "register", "registered"}
  PROVE  ~latch /\ sessions = {} /\ (active # None => listener.at = "registered")
BY Places, Zenon DEF PgInv, BackendInv, ConnInv

LEMMA LoopKeeps == ASSUME PgInv, Loop PROVE PgInv'
<1>1. ~latch /\ active = None /\ serving \in ServingSet /\ serving.got = << >>
  BY NotLatched, Places, Zenon DEF Loop, PgInv, Shape, ConnInv, StreamInv
<1>2. CASE shutdown
  BY <1>1, <1>2, ExitKeeps, Zenon DEF Loop
<1>3. CASE ~shutdown
  BY <1>1, <1>3, GoKeeps, Zenon DEF Loop
<1> QED
  BY <1>2, <1>3, Zenon

LEMMA RecheckKeeps == ASSUME PgInv, Recheck PROVE PgInv'
<1>1. ~latch /\ active = None /\ serving \in ServingSet /\ serving.got = << >>
  BY NotLatched, Places, Zenon DEF Recheck, PgInv, Shape, ConnInv, StreamInv
<1>2. CASE shutdown
  BY <1>1, <1>2, ExitKeeps, Zenon DEF Recheck
<1>3. CASE ~shutdown
  <2>1. listener.conn \in Clients
    BY <1>3, Zenon DEF Recheck, PgInv, ConnInv
  <2> QED
    BY <1>1, <1>3, <2>1, GoKeeps, Zenon DEF Recheck
<1> QED
  BY <1>2, <1>3, Zenon

LEMMA LatchKeeps == ASSUME PgInv, Latch PROVE PgInv'
<1>1. active = None /\ serving.got = << >> /\ serving \in ServingSet /\ latch \in BOOLEAN
  BY Places, Zenon DEF Latch, PgInv, Shape, ConnInv, StreamInv
<1>2. CASE latch
  BY <1>1, <1>2, ExitKeeps, Zenon DEF Latch
<1>3. CASE ~latch
  BY <1>1, <1>3, GoKeeps, Zenon DEF Latch
<1> QED
  BY <1>2, <1>3, Zenon

LEMMA TakenFromBacklog ==
  ASSUME NEW b \in Seq(Clients \cup {Wakeup}), b # << >>
  PROVE  /\ Head(b) \in Clients \cup {Wakeup} /\ Tail(b) \in Seq(Clients \cup {Wakeup})
         /\ Head(b) = b[1] /\ 1 \in 1..Len(b)
         /\ \A i \in 1..Len(Tail(b)) : Tail(b)[i] = b[i + 1] /\ i + 1 \in 1..Len(b)
OBVIOUS

LEMMA AcceptKeeps == ASSUME PgInv, Accept PROVE PgInv'
<1>0. Shape /\ ConnInv
  BY Zenon DEF PgInv
<1>1. ~latch /\ active = None /\ serving \in ServingSet /\ serving.got = << >>
  BY NotLatched, Places, Zenon DEF Accept, PgInv, Shape, ConnInv, StreamInv
<1>2. CASE Exit("failed")
  BY <1>1, <1>2, ExitKeeps, Zenon DEF Accept
<1>3. ASSUME backlog # << >>, backlog' = Tail(backlog), UNCHANGED client,
             listener' = [listener EXCEPT !.at = "recheck", !.conn = Head(backlog)]
      PROVE  PgInv'
  <2>1. UNCHANGED <<endpoint, start, handles, caller, state, control, owner, root, path, shutdown>>
    BY Untouched, Zenon DEF Accept
  <2>2. /\ listener.at \notin Serving \cup {"finish", "absent", "exited"}
        /\ "recheck" \notin Serving \cup {"finish", "absent", "exited"}
        /\ "recheck" \in ListenerAts /\ "recheck" \notin Engaged
    BY Places, Zenon DEF Accept
  <2>3. backlog \in Seq(Clients \cup {Wakeup})
    BY <1>0, Zenon DEF Shape
  <2>4. /\ listener' \in [at : ListenerAts, conn : Clients \cup {None, Wakeup}, result : Results]
        /\ listener'.at = "recheck" /\ listener'.conn = Head(backlog)
    <3>1. Head(backlog) \in Clients \cup {None, Wakeup}
      BY <1>3, <2>3, TakenFromBacklog, Zenon
    <3> QED
      BY <1>0, <1>3, <2>2, <3>1, Zenon DEF Shape
  <2>5. \A c \in Clients : client[c].sent = << >>
    BY <2>2, Silent, Zenon
  <2>6. /\ Head(backlog) \in Clients \/ shutdown
        /\ \A i \in 1..Len(Tail(backlog)) : Tail(backlog)[i] \in Clients \/ shutdown
    BY <1>0, <1>3, <2>3, TakenFromBacklog, Zenon DEF ConnInv
  <2>7. ConnInv'
    BY <1>1, <1>3, <2>1, <2>2, <2>4, <2>5, <2>6, Zenon DEF ConnInv, Accept
  <2> QED
    BY <1>0, <1>1, <1>3, <2>2, <2>3, <2>4, <2>5, <2>7, TakenFromBacklog, BetweenKeeps, Zenon
       DEF Shape, Accept
<1> QED
  BY <1>2, <1>3, Zenon DEF Accept

\* The socket of a connection is shut or dropped while it says nothing.
LEMMA ClientQuiet ==
  ASSUME PgInv, listener.at \notin Serving, NEW c
  PROVE  /\ Shut(c) \in [Clients -> [socket : Sockets, sent : Seq(Sendable)]]
         /\ Dropped(c) \in [Clients -> [socket : Sockets, sent : Seq(Sendable)]]
         /\ \A d \in Clients : Shut(c)[d].sent = << >> /\ Dropped(c)[d].sent = << >>
<1>1. /\ client \in [Clients -> [socket : Sockets, sent : Seq(Sendable)]]
      /\ \A d \in Clients : client[d].sent = << >>
  BY Silent, Zenon DEF PgInv, Shape
<1>2. "shut" \in Sockets /\ Gone \in [socket : Sockets, sent : Seq(Sendable)] /\ Gone.sent = << >>
  BY NothingConforms, Zenon DEF Sockets, Gone
<1>3. CASE c \in Clients
  <2>1. /\ [client EXCEPT ![c] = Gone] \in [Clients -> [socket : Sockets, sent : Seq(Sendable)]]
        /\ \A d \in Clients : [client EXCEPT ![c] = Gone][d].sent = << >>
    BY <1>1, <1>2, <1>3, Zenon
  <2>2. /\ [client EXCEPT ![c].socket = "shut"] \in
             [Clients -> [socket : Sockets, sent : Seq(Sendable)]]
        /\ \A d \in Clients : [client EXCEPT ![c].socket = "shut"][d].sent = << >>
    BY <1>1, <1>2, <1>3, Zenon
  <2> QED
    BY <1>1, <1>3, <2>1, <2>2, Zenon DEF Shut, Dropped
<1> QED
  BY <1>1, <1>3, Zenon DEF Shut, Dropped

LEMMA RegisterKeeps == ASSUME PgInv, Register PROVE PgInv'
<1>0. Shape /\ ConnInv
  BY Zenon DEF PgInv
<1>1. /\ ~latch /\ active = None /\ serving \in ServingSet /\ serving' = serving
      /\ serving.got = << >>
      /\ listener.at \notin Serving \cup {"finish", "absent", "exited"}
      /\ listener.conn \in Clients /\ backlog' = backlog
      /\ backlog \in Seq(Clients \cup {Wakeup}) /\ UNCHANGED <<environment, sessions, latch>>
  BY NotLatched, Places, Zenon DEF Register, PgInv, Shape, ConnInv, StreamInv
<1>2. UNCHANGED <<endpoint, start, handles, caller, state, control, owner, root, path, shutdown>>
  BY <1>1, Untouched, Zenon
<1>3. CASE active' = listener.conn /\ Go("registered") /\ UNCHANGED client
  <2>1. /\ listener' \in [at : ListenerAts, conn : Clients \cup {None, Wakeup}, result : Results]
        /\ listener'.at = "registered" /\ listener'.conn = listener.conn
    BY <1>0, <1>3, Places, Zenon DEF Go, Shape
  <2>2. \A c \in Clients : client[c].sent = << >>
    BY <1>1, Silent, Zenon
  <2>3. ConnInv'
    BY <1>0, <1>1, <1>2, <1>3, <2>1, <2>2, Places, Zenon DEF ConnInv
  <2> QED
    BY <1>0, <1>1, <1>3, <2>1, <2>2, <2>3, Places, BetweenKeeps, Zenon DEF Shape
<1>4. CASE /\ listener' = [listener EXCEPT !.at = "latch", !.conn = None]
           /\ client' = Dropped(listener.conn) /\ UNCHANGED active
  <2>1. /\ listener' \in [at : ListenerAts, conn : Clients \cup {None, Wakeup}, result : Results]
        /\ listener'.at = "latch"
    BY <1>0, <1>4, Places, Zenon DEF Shape
  <2>2. /\ client' \in [Clients -> [socket : Sockets, sent : Seq(Sendable)]]
        /\ \A c \in Clients : client'[c].sent = << >>
    BY <1>1, <1>4, ClientQuiet, Zenon
  <2>3. ConnInv'
    BY <1>0, <1>1, <1>2, <1>4, <2>1, <2>2, Places, Zenon DEF ConnInv
  <2> QED
    BY <1>1, <2>1, <2>2, <2>3, Places, BetweenKeeps, Zenon
<1> QED
  BY <1>3, <1>4, Zenon DEF Register

\* handle_stream begins with nothing read.
LEMMA DataFresh == Data("read", Fresh, << >>)
<1>1. /\ Fresh.read = 0 /\ Fresh.taken = 0 /\ Fresh.handled = 0 /\ Fresh.batch = << >>
      /\ Fresh.got = << >>
  BY Zenon DEF Fresh
<1>2. Len(<< >>) = 0 /\ 1..0 = {} /\ Begin(<< >>) = 1 /\ "read" \notin Pumping
  BY DEF Begin, Pumping
<1>3. Frames("read", Fresh, << >>)
  BY <1>1, <1>2 DEF Frames
<1>4. Bytes("read", Fresh, << >>)
  BY <1>1, <1>2 DEF Bytes, Passed
<1> QED
  BY <1>3, <1>4, Zenon DEF Data

LEMMA RegisteredKeeps == ASSUME PgInv, Registered PROVE PgInv'
<1>0. Shape /\ ConnInv /\ BackendInv /\ OwnerInv /\ StreamInv
  BY Zenon DEF PgInv
<1>1. /\ ~latch /\ sessions = {} /\ serving' \in ServingSet /\ serving' = Fresh
      /\ serving'.got = << >>
      /\ listener.at \notin Serving \cup {"finish", "absent", "exited"} /\ active' = active
      /\ listener.conn \in Clients /\ backlog' = backlog
      /\ backlog \in Seq(Clients \cup {Wakeup}) /\ UNCHANGED <<environment, sessions, latch>>
  BY NotLatched, Places, FreshFacts, Zenon DEF Registered, PgInv, Shape, ConnInv
<1>2. UNCHANGED <<endpoint, start, handles, caller, state, control, owner, root, path, shutdown,
                  sessions, latch>>
  BY <1>1, Untouched, Zenon
<1>3. CASE client' = Shut(active) /\ Go("leave")
  <2>1. /\ listener' \in [at : ListenerAts, conn : Clients \cup {None, Wakeup}, result : Results]
        /\ listener'.at = "leave" /\ listener'.conn = listener.conn
    BY <1>0, <1>3, Places, Zenon DEF Go, Shape
  <2>2. /\ client' \in [Clients -> [socket : Sockets, sent : Seq(Sendable)]]
        /\ \A c \in Clients : client'[c].sent = << >>
    BY <1>1, <1>3, ClientQuiet, Zenon
  <2>3. ConnInv'
    BY <1>0, <1>1, <1>2, <1>3, <2>1, <2>2, Places, Zenon DEF ConnInv
  <2> QED
    BY <1>1, <2>1, <2>2, <2>3, Places, BetweenKeeps, Zenon
<1>4. CASE Go("read") /\ UNCHANGED client
  <2>1. /\ "read" \in ListenerAts /\ "read" \in Engaged /\ "read" \in Serving
        /\ "read" \notin {"recheck", "exited", "absent"}
    BY Zenon DEF ListenerAts, Engaged, Serving, Framing
  <2>2. /\ listener' \in [at : ListenerAts, conn : Clients \cup {None, Wakeup}, result : Results]
        /\ listener'.at = "read" /\ listener'.conn = listener.conn
        /\ listener'.result = listener.result
    BY <1>0, <1>4, <2>1, Zenon DEF Go, Shape
  <2>3. \A c \in Clients : client[c].sent = << >>
    BY <1>1, Silent, Zenon
  <2>4. Shape'
    BY <1>0, <1>1, <1>2, <1>4, <2>2, Zenon DEF Shape
  <2>5. ConnInv'
    BY <1>0, <1>1, <1>2, <1>4, <2>1, <2>2, <2>3, Zenon DEF ConnInv
  <2>6. BackendInv'
    <3>1. root = "locked" /\ owner.at \notin {"prepare", "bind"} /\ ~serving'.backend
      BY <1>0, <1>1, Zenon DEF BackendInv, Fresh
    <3>2. sessions' = IF serving'.backend THEN {listener'.conn} ELSE {}
      BY <1>1, <1>2, <3>1, Zenon
    <3> QED
      BY <1>1, <1>2, <2>1, <2>2, <3>1, <3>2 DEF BackendInv
  <2>7. OwnerInv'
    BY <1>0, <1>1, <1>2, <2>2, Zenon DEF OwnerInv
  <2>8. StreamInv'
    BY <1>1, <1>4, <2>2, <2>3, NothingConforms, DataFresh, Zenon DEF StreamInv, Conn
  <2> QED
    BY <2>4, <2>5, <2>6, <2>7, <2>8, Zenon DEF PgInv
<1> QED
  BY <1>3, <1>4, Zenon DEF Registered

LEMMA LeaveKeeps == ASSUME PgInv, Leave PROVE PgInv'
<1>0. Shape /\ ConnInv /\ BackendInv
  BY Zenon DEF PgInv
<1>1. /\ serving' \in ServingSet /\ active' = None /\ serving'.got = << >>
      /\ listener.at \notin Serving \cup {"finish", "absent", "exited"}
      /\ backlog \in Seq(Clients \cup {Wakeup}) /\ UNCHANGED <<environment, sessions, latch>>
  BY Places, FreshFacts, Zenon DEF Leave, PgInv, Shape
<1>2. CASE Exit("failed")
  BY <1>1, <1>2, ExitKeeps, Zenon DEF Leave
<1>3. CASE /\ listener' = [listener EXCEPT !.at = "latch", !.conn = None]
           /\ client' = Dropped(listener.conn) /\ UNCHANGED backlog
  <2>0. UNCHANGED <<endpoint, start, handles, caller, state, control, owner, root, path, shutdown>>
    BY <1>1, Untouched, Zenon
  <2>1. /\ listener' \in [at : ListenerAts, conn : Clients \cup {None, Wakeup}, result : Results]
        /\ listener'.at = "latch"
    BY <1>0, <1>3, Places, Zenon DEF Shape
  <2>2. /\ client' \in [Clients -> [socket : Sockets, sent : Seq(Sendable)]]
        /\ \A c \in Clients : client'[c].sent = << >>
    BY <1>1, <1>3, ClientQuiet, Zenon
  <2>3. ConnInv'
    BY <1>0, <1>1, <1>3, <2>0, <2>1, <2>2, Places, Zenon DEF ConnInv
  <2> QED
    BY <1>1, <1>3, <2>1, <2>2, <2>3, Places, BetweenKeeps, Zenon
<1> QED
  BY <1>2, <1>3, Zenon DEF Leave

LEMMA FinishKeeps == ASSUME PgInv, Finish PROVE PgInv'
<1>0. Shape /\ ConnInv /\ BackendInv /\ OwnerInv /\ StreamInv
  BY Zenon DEF PgInv
<1>1. /\ UNCHANGED <<endpoint, start, handles, caller, state, control, owner, root, path, shutdown,
                     active, backlog, client, serving>>
      /\ listener.at = "finish" /\ Go("leave")
  BY Untouched, Zenon DEF Finish
<1>2. /\ listener' \in [at : ListenerAts, conn : Clients \cup {None, Wakeup}, result : Results]
      /\ listener'.at = "leave" /\ listener'.conn = listener.conn
      /\ listener'.result = listener.result
  BY <1>0, <1>1, Places, Zenon DEF Go, Shape
<1>3. /\ "finish" \notin Serving /\ "finish" \in Engaged /\ listener.conn \in Clients
      /\ "leave" \notin {"recheck", "register", "registered"}
  BY <1>0, <1>1, Zenon DEF Serving, Framing, Pumping, Engaged, ConnInv
<1>4. serving.got = << >> /\ \A c \in Clients : client[c].sent = << >>
  BY <1>0, <1>1, <1>3, Silent, Zenon DEF StreamInv
<1>5. latch' \in BOOLEAN /\ (~latch' => sessions' = {}) /\ (latch' => sessions' = {listener.conn})
  <2>1. ~latch /\ sessions = IF serving.backend THEN {listener.conn} ELSE {}
    BY <1>0, <1>1, Zenon DEF BackendInv
  <2>2. CASE serving.backend
    <3>1. PICK ok \in BOOLEAN : ShutdownSession(ok) /\ latch' = (latch \/ ~ok)
      BY <2>2, Zenon DEF Finish
    <3>2. CASE ok
      BY <2>1, <2>2, <3>1, <3>2, Zenon DEF ShutdownSession
    <3>3. CASE ~ok
      BY <2>1, <2>2, <3>1, <3>3, Zenon DEF ShutdownSession
    <3> QED
      BY <3>2, <3>3, Zenon
  <2>3. CASE ~serving.backend
    <3>1. UNCHANGED <<sessions, latch>> /\ sessions = {}
      BY <2>1, <2>3, Zenon DEF Finish
    <3>2. latch \in BOOLEAN
      BY <1>0, Zenon DEF Shape
    <3> QED
      BY <2>1, <3>1, <3>2, Zenon
  <2> QED
    BY <2>2, <2>3, Zenon
<1>6. Shape'
  BY <1>0, <1>1, <1>2, <1>5, Zenon DEF Shape
<1>7. ConnInv'
  BY <1>0, <1>1, <1>2, <1>3, <1>4, Places, Zenon DEF ConnInv
<1>8. BackendInv'
  <2>1. root = "locked" /\ owner.at \notin {"prepare", "bind"}
    BY <1>0, <1>1, Zenon DEF BackendInv
  <2> QED
    BY <1>1, <1>2, <1>3, <1>5, <2>1, Places, Zenon DEF BackendInv
<1>9. OwnerInv'
  BY <1>0, <1>1, <1>2, Zenon DEF OwnerInv
<1>10. StreamInv'
  BY <1>1, <1>2, <1>4, Places, NothingConforms, Zenon DEF StreamInv
<1> QED
  BY <1>6, <1>7, <1>8, <1>9, <1>10, Zenon DEF PgInv

-----------------------------------------------------------------------------
(* The steps of handle_stream *)

LEMMA FramingServes == /\ \A at \in Framing : at \in Serving
                       /\ \A at \in Pumping : at \in Serving
                       /\ {"read", "reading", "eof", "handle", "write", "open", "startup"} =
                            Framing \ {"flush"}
                       /\ "flush" \in Framing
BY Zenon DEF Framing, Serving, Pumping

\* A step that reads nothing and passes nothing on.
LEMMA SameKeeps ==
  ASSUME PgInv, listener.at \in Framing \ {"flush"}, NEW to \in Framing \ {"flush"},
         NEW next \in ServingSet, next.backend = serving.backend, Alike(serving, next),
         Serve(to, next), to = "write" => next.reply # None
  PROVE  PgInv'
<1>1. listener.at \in Serving /\ to \in Serving
  BY FramingServes, Zenon
<1>2. Data(to, next, Conn.sent)
  BY <1>1, Connected, DataSame, Zenon
<1> QED
  BY <1>1, <1>2, ServeKeeps, Zenon

LEMMA StaysAlike == \A s \in ServingSet : Alike(s, s)
BY Zenon DEF Alike

LEMMA ReadCheckKeeps == ASSUME PgInv, ReadCheck PROVE PgInv'
<1>1. serving \in ServingSet /\ listener.at \in Framing \ {"flush"}
  BY FramingServes, Zenon DEF ReadCheck, PgInv, Shape
<1>2. PICK to \in {"eof", "reading"} : Serve(to, serving)
  BY Zenon DEF ReadCheck
<1>3. to \in Framing \ {"flush"}
  BY FramingServes, Zenon
<1> QED
  BY <1>1, <1>2, <1>3, StaysAlike, SameKeeps, Zenon

LEMMA ReadMore ==
  ASSUME NEW s \in ServingSet, NEW n \in Nat
  PROVE  /\ [s EXCEPT !.read = @ + n, !.taken = @ + n] \in ServingSet
         /\ [s EXCEPT !.read = @ + n, !.taken = @ + n].backend = s.backend
<1>1. s.read + n \in Nat /\ s.taken + n \in Nat
  BY DEF ServingSet
<1> QED
  BY <1>1, Zenon DEF ServingSet

LEMMA ReadDataKeeps == ASSUME PgInv, ReadData PROVE PgInv'
<1>1. listener.at = "reading" /\ "reading" \in Serving /\ "handle" \in Serving
  BY FramingServes, Zenon DEF ReadData
<1>2. PICK n \in 1..Unread :
        Serve("handle", [serving EXCEPT !.read = @ + n, !.taken = @ + n])
  BY Zenon DEF ReadData
<1> DEFINE next == [serving EXCEPT !.read = @ + n, !.taken = @ + n]
<1>3. /\ serving \in ServingSet /\ Conn.sent \in Seq(Sendable)
      /\ Data("reading", serving, Conn.sent)
  BY <1>1, Connected, Zenon
<1>4. n \in 1..(2 * Len(Conn.sent) - serving.taken)
  BY <1>2, Zenon DEF Unread
<1>5. Data("handle", next, Conn.sent)
  BY <1>3, <1>4, DataRead, Zenon
<1>6. next \in ServingSet /\ next.backend = serving.backend
  <2>1. serving.taken \in Nat /\ Len(Conn.sent) \in Nat
    BY <1>3 DEF ServingSet
  <2>2. n \in Nat
    BY <1>4, <2>1
  <2> QED
    BY <1>3, <2>2, ReadMore, Zenon
<1> QED
  BY <1>1, <1>2, <1>5, <1>6, ServeKeeps, Zenon

LEMMA ReadEndsKeeps == ASSUME PgInv, ReadEnds PROVE PgInv'
<1>1. serving \in ServingSet /\ listener.at \in Framing \ {"flush"} /\ listener.at \in Serving
  BY FramingServes, Zenon DEF ReadEnds, PgInv, Shape
<1>2. CASE Serve("eof", serving)
  BY <1>1, <1>2, FramingServes, StaysAlike, SameKeeps, Zenon
<1>3. CASE Finishing(serving)
  BY <1>1, <1>3, FinishingKeeps, Zenon
<1> QED
  BY <1>2, <1>3, Zenon DEF ReadEnds

LEMMA ReadTimedOutKeeps == ASSUME PgInv, ReadTimedOut PROVE PgInv'
<1>1. serving \in ServingSet /\ listener.at \in Framing \ {"flush"}
  BY FramingServes, Zenon DEF ReadTimedOut, PgInv, Shape
<1> QED
  BY <1>1, FramingServes, StaysAlike, SameKeeps, Zenon DEF ReadTimedOut

LEMMA EofKeeps == ASSUME PgInv, Eof PROVE PgInv'
<1>1. /\ listener.at = "eof" /\ "eof" \in Serving /\ "flush" \in Serving
      /\ "eof" \in Framing \ {"flush"}
  BY FramingServes, Zenon DEF Eof
<1>2. /\ serving \in ServingSet /\ Conn.sent \in Seq(Sendable)
      /\ Data("eof", serving, Conn.sent)
  BY <1>1, Connected, Zenon
<1>3. CASE serving.batch = << >>
  BY <1>1, <1>2, <1>3, FinishingKeeps, Zenon DEF Eof
<1>4. CASE serving.batch # << >>
  <2> DEFINE next == [serving EXCEPT !.flush = "eof"]
  <2>1. /\ next \in ServingSet /\ next.backend = serving.backend /\ Alike(serving, next)
        /\ next.flush # "control"
    BY <1>2, Zenon DEF ServingSet, Alike
  <2>2. Serve("flush", next)
    BY <1>4, Zenon DEF Eof
  <2> HIDE DEF next
  <2>3. Data("flush", next, Conn.sent)
    BY <1>1, <1>2, <1>4, <2>1, DataFlush, Zenon
  <2> QED
    BY <1>1, <2>1, <2>2, <2>3, ServeKeeps, Zenon
<1> QED
  BY <1>3, <1>4, Zenon

LEMMA MessagesDoneKeeps == ASSUME PgInv, MessagesDone PROVE PgInv'
<1>1. serving \in ServingSet /\ listener.at \in Framing \ {"flush"} /\ listener.at \in Serving
  BY FramingServes, Zenon DEF MessagesDone, PgInv, Shape
<1>2. CASE serving.ending
  BY <1>1, <1>2, FinishingKeeps, Zenon DEF MessagesDone
<1>3. CASE ~serving.ending
  BY <1>1, <1>3, FramingServes, StaysAlike, SameKeeps, Zenon DEF MessagesDone
<1> QED
  BY <1>2, <1>3, Zenon

LEMMA PastFacts ==
  ASSUME serving \in ServingSet
  PROVE  /\ Past \in ServingSet /\ Past.backend = serving.backend
         /\ Past.handled = serving.handled + 1 /\ Past.read = serving.read
         /\ Past.taken = serving.taken /\ Past.batch = serving.batch /\ Past.got = serving.got
<1>1. serving.handled + 1 \in Nat
  BY DEF ServingSet
<1>2. ASSUME NEW s \in ServingSet, NEW n \in Nat
      PROVE  /\ [s EXCEPT !.handled = n] \in ServingSet
             /\ [s EXCEPT !.handled = n].backend = s.backend
             /\ [s EXCEPT !.handled = n].handled = n /\ [s EXCEPT !.handled = n].read = s.read
             /\ [s EXCEPT !.handled = n].taken = s.taken /\ [s EXCEPT !.handled = n].batch = s.batch
             /\ [s EXCEPT !.handled = n].got = s.got
  BY Zenon DEF ServingSet
<1> QED
  BY <1>1, <1>2, Zenon DEF Past

\* The message that is handled next.
LEMMA Handling ==
  ASSUME PgInv, NEW kinds, At(kinds)
  PROVE  /\ listener.at = "handle" /\ listener.at \in Serving /\ listener.at \in Framing \ {"flush"}
         /\ serving \in ServingSet /\ Conn.sent \in Seq(Sendable) /\ Conforms(Conn.sent)
         /\ Data("handle", serving, Conn.sent)
         /\ serving.handled + 1 <= serving.read \div 2
         /\ Conn.sent[serving.handled + 1] \in kinds
         /\ Past \in ServingSet /\ Past.backend = serving.backend
         /\ Past.handled = serving.handled + 1 /\ Past.read = serving.read
         /\ Past.taken = serving.taken /\ Past.batch = serving.batch /\ Past.got = serving.got
<1>1. /\ listener.at = "handle" /\ listener.at \in Serving /\ listener.at \in Framing \ {"flush"}
      /\ serving.handled + 1 <= serving.read \div 2
      /\ Conn.sent[serving.handled + 1] \in kinds
  BY FramingServes, Zenon DEF At, Upcoming, Framed
<1>2. /\ serving \in ServingSet /\ Conn.sent \in Seq(Sendable) /\ Conforms(Conn.sent)
      /\ Data("handle", serving, Conn.sent)
  BY <1>1, Connected, Zenon
<1>3. /\ Past \in ServingSet /\ Past.backend = serving.backend
      /\ Past.handled = serving.handled + 1 /\ Past.read = serving.read
      /\ Past.taken = serving.taken /\ Past.batch = serving.batch /\ Past.got = serving.got
  BY <1>2, PastFacts, Zenon
<1> QED
  BY <1>1, <1>2, <1>3, Zenon

LEMMA HandleControlKeeps == ASSUME PgInv, HandleControl PROVE PgInv'
<1>1. At(Control) /\ serving.batch # << >>
  BY Zenon DEF HandleControl
<1> DEFINE next == [serving EXCEPT !.flush = "control"]
<1>2. Serve("flush", next)
  BY Zenon DEF HandleControl
<1>3. serving \in ServingSet
  BY <1>1, Handling, Zenon
<1>4. next \in ServingSet /\ next.backend = serving.backend /\ Alike(serving, next)
  BY <1>3, Zenon DEF ServingSet, Alike
<1> HIDE DEF next
<1>5. Ended(serving, Conn.sent)
  BY <1>1, Handling, ControlEnds, Zenon
<1>6. Ended(next, Conn.sent)
  BY <1>4, <1>5, Zenon DEF Ended, Alike
<1>7. Data("flush", next, Conn.sent)
  <2>1. "handle" \in Framing \ {"flush"} /\ Data("handle", serving, Conn.sent)
        /\ Conn.sent \in Seq(Sendable)
    BY <1>1, Handling, FramingServes, Zenon
  <2> QED
    BY <1>1, <1>3, <1>4, <1>6, <2>1, DataFlush, Zenon
<1> QED
  BY <1>1, <1>2, <1>4, <1>7, Handling, FramingServes, ServeKeeps, Zenon

\* A control packet with no batch open.
LEMMA ControlKeeps ==
  ASSUME PgInv, NEW kinds, At(kinds), kinds \subseteq Control, serving.batch = << >>,
         NEW to \in {"handle", "open", "write"}, NEW next \in ServingSet, Serve(to, next),
         next.backend = serving.backend, next.handled = serving.handled + 1,
         next.read = serving.read, next.taken = serving.taken, next.batch = serving.batch,
         next.got = serving.got, to = "write" => next.reply # None
  PROVE  PgInv'
<1>1. /\ listener.at \in Serving /\ serving \in ServingSet /\ Conn.sent \in Seq(Sendable)
      /\ Conforms(Conn.sent) /\ Data("handle", serving, Conn.sent)
      /\ serving.handled + 1 <= serving.read \div 2
      /\ Conn.sent[serving.handled + 1] \in Control
  BY Handling, Zenon
<1>2. Data(to, next, Conn.sent)
  BY <1>1, DataControl, Zenon
<1>3. to \in Serving
  BY FramingServes, Zenon
<1> QED
  BY <1>1, <1>2, <1>3, ServeKeeps, Zenon

LEMMA HandleSslKeeps == ASSUME PgInv, HandleSsl PROVE PgInv'
<1>1. At({"ssl"}) /\ {"ssl"} \subseteq Control /\ serving.batch = << >>
  BY Zenon DEF HandleSsl, Control
<1> DEFINE next == [Past EXCEPT !.reply = "ssl"]
<1>2. Serve("write", next)
  BY Zenon DEF HandleSsl
<1>3. /\ Past \in ServingSet /\ Past.backend = serving.backend
      /\ Past.handled = serving.handled + 1 /\ Past.read = serving.read
      /\ Past.taken = serving.taken /\ Past.batch = serving.batch /\ Past.got = serving.got
  BY <1>1, Handling, Zenon
<1>4. /\ next \in ServingSet /\ next.backend = Past.backend /\ next.handled = Past.handled
      /\ next.read = Past.read /\ next.taken = Past.taken /\ next.batch = Past.batch
      /\ next.got = Past.got /\ next.reply # None
  BY <1>3, Zenon DEF ServingSet, None
<1> HIDE DEF next
<1> QED
  BY <1>1, <1>2, <1>3, <1>4, ControlKeeps, Zenon

LEMMA HandleEndingKeeps == ASSUME PgInv, HandleEnding PROVE PgInv'
<1>1. /\ At({"cancel", "terminate"}) /\ {"cancel", "terminate"} \subseteq Control
      /\ serving.batch = << >>
  BY Zenon DEF HandleEnding, Control
<1> DEFINE next == [Past EXCEPT !.ending = TRUE]
<1>2. Serve("handle", next)
  BY Zenon DEF HandleEnding
<1>3. /\ Past \in ServingSet /\ Past.backend = serving.backend
      /\ Past.handled = serving.handled + 1 /\ Past.read = serving.read
      /\ Past.taken = serving.taken /\ Past.batch = serving.batch /\ Past.got = serving.got
  BY <1>1, Handling, Zenon
<1>4. /\ next \in ServingSet /\ next.backend = Past.backend /\ next.handled = Past.handled
      /\ next.read = Past.read /\ next.taken = Past.taken /\ next.batch = Past.batch
      /\ next.got = Past.got
  BY <1>3, Zenon DEF ServingSet
<1> HIDE DEF next
<1> QED
  BY <1>1, <1>2, <1>3, <1>4, ControlKeeps, Zenon

LEMMA HandleStartupKeeps == ASSUME PgInv, HandleStartup PROVE PgInv'
<1>1. At({"startup"}) /\ {"startup"} \subseteq Control /\ serving.batch = << >>
  BY Zenon DEF HandleStartup, Control
<1>2. Serve("open", Past)
  BY Zenon DEF HandleStartup
<1>3. /\ Past \in ServingSet /\ Past.backend = serving.backend
      /\ Past.handled = serving.handled + 1 /\ Past.read = serving.read
      /\ Past.taken = serving.taken /\ Past.batch = serving.batch /\ Past.got = serving.got
  BY <1>1, Handling, Zenon
<1> QED
  BY <1>1, <1>2, <1>3, ControlKeeps, Zenon

LEMMA HandleProtocolKeeps == ASSUME PgInv, HandleProtocol PROVE PgInv'
<1>1. At(Protocol)
  BY Zenon DEF HandleProtocol, Protocol
<1> DEFINE next == [Past EXCEPT !.batch = Append(@, Upcoming), !.flush = "boundary"]
<1>2. PICK to \in {"handle", "flush"} :
        /\ Serve(to, next)
        /\ to = "handle" => Conn.sent[serving.handled + 1] # "in"
  BY Zenon DEF HandleProtocol, ShouldFlush, Upcoming
<1>3. /\ Past \in ServingSet /\ Past.backend = serving.backend
      /\ Past.handled = serving.handled + 1 /\ Past.read = serving.read
      /\ Past.taken = serving.taken /\ Past.batch = serving.batch /\ Past.got = serving.got
      /\ serving \in ServingSet
  BY <1>1, Handling, Zenon
<1>4. /\ next \in ServingSet /\ next.backend = Past.backend /\ next.handled = Past.handled
      /\ next.read = Past.read /\ next.taken = Past.taken
      /\ next.batch = Append(Past.batch, serving.handled + 1)
      /\ next.got = Past.got /\ next.flush = "boundary"
  <2>1. Past.batch \in Seq(Nat) /\ Upcoming \in Nat /\ Upcoming = serving.handled + 1
    BY <1>3, Zenon DEF ServingSet, Upcoming
  <2>2. Append(Past.batch, Upcoming) \in Seq(Nat)
    BY <2>1
  <2> QED
    BY <1>3, <2>1, <2>2, Zenon DEF ServingSet
<1> HIDE DEF next
<1>5. Data(to, next, Conn.sent)
  <2>1. /\ Conn.sent \in Seq(Sendable) /\ Conforms(Conn.sent) /\ Data("handle", serving, Conn.sent)
        /\ serving.handled + 1 <= serving.read \div 2
        /\ Conn.sent[serving.handled + 1] \in Protocol
    BY <1>1, Handling, Zenon
  <2> QED
    BY <1>2, <1>3, <1>4, <2>1, DataProtocol, Zenon
<1>6. to \in Serving /\ listener.at \in Serving
  BY <1>1, <1>2, Handling, FramingServes, Zenon
<1> QED
  BY <1>2, <1>3, <1>4, <1>5, <1>6, ServeKeeps, Zenon

LEMMA PanicKeeps ==
  ASSUME PgInv, listener.at \in Serving, Panic
  PROVE  PgInv'
<1> DEFINE s == [serving EXCEPT !.panicked = TRUE]
<1>1. serving \in ServingSet
  BY Connected, Zenon
<1>2. s \in ServingSet /\ s.backend = serving.backend
  BY <1>1, Zenon DEF ServingSet
<1>3. Finishing(s)
  BY Zenon DEF Panic
<1> HIDE DEF s
<1> QED
  BY <1>2, <1>3, FinishingKeeps, Zenon

LEMMA ReplyFacts ==
  ASSUME NEW s \in ServingSet, NEW r \in {"ssl", "startup", "final", "response"}
  PROVE  /\ [s EXCEPT !.reply = r] \in ServingSet
         /\ [s EXCEPT !.reply = r].backend = s.backend /\ Alike(s, [s EXCEPT !.reply = r])
         /\ [s EXCEPT !.reply = r].reply # None
BY Zenon DEF ServingSet, Alike, None

\* open_backend: the only backend there is.
LEMMA OpenKeeps == ASSUME PgInv, Open PROVE PgInv'
<1>0. Shape /\ ConnInv /\ BackendInv /\ OwnerInv /\ StreamInv
  BY Zenon DEF PgInv
<1>1. /\ listener.at = "open" /\ "open" \in Serving /\ "open" \in Framing \ {"flush"}
      /\ "startup" \in Serving /\ "startup" \in Framing \ {"flush"}
  BY FramingServes, Zenon DEF Open
<1>2. /\ serving \in ServingSet /\ Conn.sent \in Seq(Sendable) /\ listener.conn \in Clients
      /\ Data("open", serving, Conn.sent)
  BY <1>1, Connected, Zenon
<1>3. CASE Serve("write", [serving EXCEPT !.reply = "final"])
  BY <1>1, <1>2, <1>3, ReplyFacts, FramingServes, SameKeeps, Zenon
<1>4. CASE Panic
  BY <1>1, <1>4, PanicKeeps, Zenon
<1>5. ASSUME Go("startup"), serving' = [serving EXCEPT !.backend = TRUE],
             sessions' = sessions \cup {listener.conn},
             UNCHANGED <<environment, active, backlog, client, latch>>
      PROVE  PgInv'
  <2>1. UNCHANGED <<endpoint, start, handles, caller, state, control, owner, root, path, shutdown,
                    active, backlog, client, latch>>
    BY <1>5, Untouched, Zenon
  <2>2. "startup" \in ListenerAts /\ "startup" \in Engaged /\ "open" \in Engaged
    BY <1>1, Zenon DEF ListenerAts, Engaged
  <2>3. /\ listener' \in [at : ListenerAts, conn : Clients \cup {None, Wakeup}, result : Results]
        /\ listener'.at = "startup" /\ listener'.conn = listener.conn
        /\ listener'.result = listener.result
    BY <1>0, <1>5, <2>2, Zenon DEF Go, Shape
  <2>4. serving' \in ServingSet /\ serving'.backend /\ Alike(serving, serving')
    BY <1>2, <1>5, Zenon DEF ServingSet, Alike
  <2>5. Data("startup", serving', Conn.sent)
    BY <1>1, <1>2, <2>4, DataSame, Zenon
  <2>6. ~latch /\ root = "locked" /\ owner.at \notin {"prepare", "bind"}
        /\ sessions \subseteq {listener.conn}
    BY <1>0, <1>1, Zenon DEF BackendInv
  <2>7. Shape'
    BY <1>0, <2>1, <2>3, <2>4, Zenon DEF Shape
  <2>8. ConnInv'
    BY <1>0, <1>1, <2>1, <2>2, <2>3, Zenon DEF ConnInv
  <2>9. BackendInv'
    <3>1. sessions' = {listener.conn}
      BY <1>5, <2>6, Zenon
    <3>2. sessions' = IF serving'.backend THEN {listener'.conn} ELSE {}
      BY <2>3, <2>4, <3>1, Zenon
    <3> QED
      BY <1>1, <2>1, <2>3, <2>6, <3>2, Zenon DEF BackendInv
  <2>10. OwnerInv'
    BY <1>0, <1>1, <2>1, <2>3, Zenon DEF OwnerInv
  <2>11. StreamInv'
    BY <1>0, <1>1, <2>1, <2>3, <2>5, Zenon DEF StreamInv, Conn
  <2> QED
    BY <2>7, <2>8, <2>9, <2>10, <2>11, Zenon DEF PgInv
<1> QED
  BY <1>3, <1>4, <1>5, Zenon DEF Open

LEMMA StartupKeeps == ASSUME PgInv, Startup PROVE PgInv'
<1>1. /\ listener.at \in Serving /\ listener.at \in Framing \ {"flush"} /\ serving \in ServingSet
      /\ "write" \in Framing \ {"flush"}
  BY FramingServes, Zenon DEF Startup, PgInv, Shape
<1>2. CASE \E r \in {"startup", "final"} : Serve("write", [serving EXCEPT !.reply = r])
  <2>1. PICK r \in {"startup", "final"} : Serve("write", [serving EXCEPT !.reply = r])
    BY <1>2, Zenon
  <2>2. r \in {"ssl", "startup", "final", "response"}
    BY <2>1, Zenon
  <2> QED
    BY <1>1, <2>1, <2>2, ReplyFacts, SameKeeps, Zenon
<1>3. CASE Finishing(serving)
  BY <1>1, <1>3, FinishingKeeps, Zenon
<1>4. CASE Panic
  BY <1>1, <1>4, PanicKeeps, Zenon
<1> QED
  BY <1>2, <1>3, <1>4, Zenon DEF Startup

LEMMA WrittenFacts ==
  ASSUME serving \in ServingSet
  PROVE  /\ Written \in ServingSet /\ Written.backend = serving.backend /\ Alike(serving, Written)
         /\ [Written EXCEPT !.ending = TRUE] \in ServingSet
         /\ [Written EXCEPT !.ending = TRUE].backend = serving.backend
         /\ Alike(serving, [Written EXCEPT !.ending = TRUE])
<1>1. Written \in ServingSet /\ Written.backend = serving.backend /\ Alike(serving, Written)
  BY Zenon DEF Written, ServingSet, Alike, None
<1> QED
  BY <1>1, Zenon DEF ServingSet, Alike

LEMMA WroteKeeps == ASSUME PgInv, Wrote PROVE PgInv'
<1>1. /\ listener.at \in Serving /\ listener.at \in Framing \ {"flush"} /\ serving \in ServingSet
      /\ "handle" \in Framing \ {"flush"} /\ "eof" \in Framing \ {"flush"}
  BY FramingServes, Zenon DEF Wrote, PgInv, Shape
<1>2. \/ Finishing(serving)
      \/ \E to \in {"handle", "eof"} : Serve(to, Written)
      \/ serving.reply = None
  <2>1. serving.reply \in {None, "ssl", "startup", "final", "response"}
    BY <1>1, Zenon DEF ServingSet
  <2> QED
    BY <2>1, Zenon DEF Wrote
<1>3. CASE Finishing(serving)
  BY <1>1, <1>3, FinishingKeeps, Zenon
<1>4. ASSUME NEW to \in {"handle", "eof"}, Serve(to, Written) PROVE PgInv'
  BY <1>1, <1>4, WrittenFacts, SameKeeps, Zenon
<1> QED
  BY <1>2, <1>3, <1>4, Zenon DEF PgInv, Shape, Wrote

LEMMA WriteFailsKeeps == ASSUME PgInv, WriteFails PROVE PgInv'
<1>1. /\ listener.at \in Serving /\ listener.at \in Framing \ {"flush"} /\ serving \in ServingSet
      /\ "handle" \in Framing \ {"flush"}
  BY FramingServes, Zenon DEF WriteFails, PgInv, Shape
<1>2. CASE serving.reply = "ssl"
  BY <1>1, <1>2, WrittenFacts, SameKeeps, Zenon DEF WriteFails
<1>3. CASE serving.reply # "ssl"
  BY <1>1, <1>3, FinishingKeeps, Zenon DEF WriteFails
<1> QED
  BY <1>2, <1>3, Zenon

-----------------------------------------------------------------------------
(* The backend's turn *)

\* The batch has been passed to the backend.
LEMMA SentFacts ==
  ASSUME NEW s \in ServingSet, NEW sent \in Seq(Sendable), Conforms(sent), Data("flush", s, sent),
         NEW t, t = [s EXCEPT !.batch = << >>, !.got = @ \o BatchHalves(s.batch)]
  PROVE  t \in ServingSet /\ t.backend = s.backend /\ t.flush = s.flush /\ Passes(s, t)
<1>1. s.got \o BatchHalves(s.batch) \in Seq(Nat)
  BY Passing, Zenon DEF UpTo
<1>2. PICK g \in Seq(Nat) : g = s.got \o BatchHalves(s.batch)
  BY <1>1, Zenon
<1>3. t = [s EXCEPT !.batch = << >>, !.got = g]
  BY <1>2, Zenon
<1>4. /\ t \in ServingSet /\ t.backend = s.backend /\ t.flush = s.flush
      /\ t.handled = s.handled /\ t.read = s.read /\ t.taken = s.taken
      /\ t.batch = << >> /\ t.got = g
  <2>1. << >> \in Seq(Nat)
    OBVIOUS
  <2> QED
    BY <1>2, <1>3, <2>1, Zenon DEF ServingSet
<1> QED
  BY <1>2, <1>4, Zenon DEF Passes

\* The continuation, given to the pump when COPY starts or once the batch's call returns.
LEMMA ContinuationFacts ==
  ASSUME NEW s \in ServingSet, s.handled = serving.handled, s.read = serving.read,
         s.flush = serving.flush, NEW t, t = [s EXCEPT !.got = @ \o Continuation]
  PROVE  t \in ServingSet /\ t.backend = s.backend /\ Continues(s, t)
<1>1. Continuation = IF s.flush = "boundary" THEN Halves(2 * s.handled, s.read) ELSE << >>
  BY Zenon DEF Continuation
<1>2. Halves(2 * s.handled, s.read) \in Seq(Nat)
  <2>1. 2 * s.handled \in Nat /\ s.read \in Nat
    BY DEF ServingSet
  <2>2. ASSUME NEW a \in Nat, NEW b \in Nat PROVE Halves(a, b) \in Seq(Nat)
    <3>1. CASE a <= b
      BY <3>1 DEF Halves
    <3>2. CASE a > b
      <4>1. 1..(b - a) = {}
        BY <3>2
      <4>2. Halves(a, b) = << >>
        BY <4>1 DEF Halves
      <4> QED
        BY <4>2
    <3> QED
      BY <3>1, <3>2
  <2> QED
    BY <2>1, <2>2, Zenon
<1>3. Continuation \in Seq(Nat) /\ s.got \in Seq(Nat)
  BY <1>1, <1>2 DEF ServingSet
<1>4. PICK g \in Seq(Nat) : g = s.got \o Continuation
  BY <1>3, Joined, Zenon
<1>5. t = [s EXCEPT !.got = g]
  BY <1>4, Zenon
<1>6. /\ t \in ServingSet /\ t.backend = s.backend /\ t.flush = s.flush
      /\ t.handled = s.handled /\ t.read = s.read /\ t.taken = s.taken
      /\ t.batch = s.batch /\ t.got = g
  BY <1>4, <1>5, Zenon DEF ServingSet
<1> QED
  BY <1>1, <1>4, <1>6, Zenon DEF Continues

LEMMA ExchangeKeeps == ASSUME PgInv, Exchange PROVE PgInv'
<1>1. /\ listener.at = "flush" /\ listener.at \in Serving /\ "write" \in Serving
      /\ "copy" \in Serving /\ "pump" \in Serving
  BY FramingServes, Zenon DEF Exchange, Pumping
<1>2. /\ serving \in ServingSet /\ Conn.sent \in Seq(Sendable) /\ Conforms(Conn.sent)
      /\ Data("flush", serving, Conn.sent)
  BY <1>1, Connected, Zenon
<1> DEFINE sent == [serving EXCEPT !.batch = << >>, !.got = @ \o BatchHalves(serving.batch)]
<1>3. PICK u : u = sent
  BY Zenon
<1>4. /\ u \in ServingSet /\ u.backend = serving.backend /\ u.flush = serving.flush
      /\ Passes(serving, u)
  BY <1>2, <1>3, SentFacts, Zenon
<1>5. \/ Serve("write", [u EXCEPT !.reply = "response"])
      \/ "in" \in Kinds(serving.batch) /\ Serve("copy", u)
      \/ Serve("pump", [u EXCEPT !.got = @ \o Continuation])
      \/ Finishing(u)
      \/ Finishing([u EXCEPT !.panicked = TRUE])
  BY <1>3, Zenon DEF Exchange
<1> HIDE DEF sent
<1>6. CASE Serve("write", [u EXCEPT !.reply = "response"])
  <2> DEFINE t == [u EXCEPT !.reply = "response"]
  <2>1. t \in ServingSet /\ t.backend = u.backend /\ t.reply # None /\ Alike(u, t)
    BY <1>4, ReplyFacts, Zenon
  <2> HIDE DEF t
  <2>2. Passes(serving, t)
    BY <1>4, <2>1, Zenon DEF Passes, Alike
  <2>3. Data("write", t, Conn.sent)
    BY <1>2, <2>1, <2>2, DataAnswered, Zenon
  <2> QED
    BY <1>1, <1>4, <1>6, <2>1, <2>3, ServeKeeps, Zenon DEF t
<1>7. CASE "in" \in Kinds(serving.batch) /\ Serve("copy", u)
  <2>1. DOMAIN serving.batch = 1..Len(serving.batch)
    BY <1>2 DEF ServingSet
  <2>2. Copies(serving, Conn.sent)
    BY <1>7, <2>1, Zenon DEF Kinds, Copies
  <2>3. Data("copy", u, Conn.sent)
    BY <1>2, <1>4, <2>2, DataCopy, Zenon
  <2> QED
    BY <1>1, <1>4, <1>7, <2>3, ServeKeeps, Zenon
<1>8. CASE Serve("pump", [u EXCEPT !.got = @ \o Continuation])
  <2>1. PICK t : t = [u EXCEPT !.got = @ \o Continuation]
    BY Zenon
  <2>2. t \in ServingSet /\ t.backend = u.backend /\ Continues(u, t)
    BY <1>4, <2>1, ContinuationFacts, Zenon DEF Passes
  <2>3. Data("pump", t, Conn.sent)
    BY <1>2, <1>4, <2>2, DataPump, Zenon
  <2>4. Serve("pump", t)
    BY <1>8, <2>1, Zenon
  <2> QED
    BY <1>1, <1>4, <2>2, <2>3, <2>4, ServeKeeps, Zenon
<1>9. CASE Finishing(u)
  BY <1>1, <1>4, <1>9, FinishingKeeps, Zenon
<1>10. CASE Finishing([u EXCEPT !.panicked = TRUE])
  <2>1. PICK t : t = [u EXCEPT !.panicked = TRUE]
    BY Zenon
  <2>2. t \in ServingSet /\ t.backend = u.backend
    BY <1>4, <2>1, Zenon DEF ServingSet
  <2> QED
    BY <1>1, <1>4, <1>10, <2>1, <2>2, FinishingKeeps, Zenon
<1> QED
  BY <1>5, <1>6, <1>7, <1>8, <1>9, <1>10, Zenon

\* The backend's own read.
LEMMA TakenFacts ==
  ASSUME NEW s \in ServingSet, NEW t,
         t = [s EXCEPT !.taken = @ + 1, !.got = Append(@, s.taken + 1)]
  PROVE  t \in ServingSet /\ t.backend = s.backend /\ Takes(s, t)
<1>1. s.taken + 1 \in Nat /\ s.got \in Seq(Nat)
  BY DEF ServingSet
<1>2. PICK g \in Seq(Nat) : g = Append(s.got, s.taken + 1)
  BY <1>1, Added, Zenon
<1>3. PICK n \in Nat : n = s.taken + 1
  BY <1>1, Zenon
<1>4. t = [s EXCEPT !.taken = n, !.got = g]
  BY <1>2, <1>3, Zenon
<1>5. g \in Seq(Nat) /\ n \in Nat
  BY <1>2, <1>3, Zenon
<1>6. /\ t \in ServingSet /\ t.backend = s.backend /\ t.flush = s.flush
      /\ t.handled = s.handled /\ t.read = s.read /\ t.taken = n
      /\ t.batch = s.batch /\ t.got = g
  BY <1>4, <1>5, Zenon DEF ServingSet
<1> QED
  BY <1>2, <1>3, <1>6, Zenon DEF Takes

LEMMA BackendReadsKeeps == ASSUME PgInv, BackendReads PROVE PgInv'
<1>1. listener.at \in Pumping /\ listener.at \in Serving /\ listener.at # "write"
  BY FramingServes, Zenon DEF BackendReads, Pumping
<1>2. /\ serving \in ServingSet /\ Conn.sent \in Seq(Sendable)
      /\ Data(listener.at, serving, Conn.sent)
  BY <1>1, Connected, Zenon
<1>3. PICK t : t = [serving EXCEPT !.taken = @ + 1, !.got = Append(@, serving.taken + 1)]
  BY Zenon
<1>4. t \in ServingSet /\ t.backend = serving.backend /\ Takes(serving, t)
  BY <1>2, <1>3, TakenFacts, Zenon
<1>5. Data(listener.at, t, Conn.sent)
  BY <1>1, <1>2, <1>4, DataTaken, Zenon DEF BackendReads, Unread
<1>6. Serve(listener.at, t)
  BY <1>3, Zenon DEF BackendReads
<1> QED
  BY <1>1, <1>4, <1>5, <1>6, ServeKeeps, Zenon

LEMMA CopyEndsKeeps == ASSUME PgInv, CopyEnds PROVE PgInv'
<1>1. listener.at = "copy" /\ listener.at \in Serving /\ "pump" \in Serving
  BY FramingServes, Zenon DEF CopyEnds, Pumping
<1>2. serving \in ServingSet /\ Conn.sent \in Seq(Sendable) /\ Data("copy", serving, Conn.sent)
  BY <1>1, Connected, Zenon
<1>3. PICK t : t = [serving EXCEPT !.got = @ \o Continuation]
  BY Zenon
<1>4. t \in ServingSet /\ t.backend = serving.backend /\ Continues(serving, t)
  BY <1>2, <1>3, ContinuationFacts, Zenon
<1>5. Data("pump", t, Conn.sent)
  BY <1>2, <1>4, DataCopyEnds, Zenon
<1>6. Serve("pump", t)
  BY <1>3, Zenon DEF CopyEnds
<1> QED
  BY <1>1, <1>4, <1>5, <1>6, ServeKeeps, Zenon

LEMMA PumpEndsKeeps == ASSUME PgInv, PumpEnds PROVE PgInv'
<1>1. listener.at \in Serving
  BY FramingServes, Zenon DEF PumpEnds, Pumping
<1>2. serving \in ServingSet
  BY Zenon DEF PgInv, Shape
<1> QED
  BY <1>1, <1>2, FinishingKeeps, Zenon DEF PumpEnds

LEMMA ListenerKeeps == ASSUME PgInv, Listener PROVE PgInv'
BY LoopKeeps, AcceptKeeps, RecheckKeeps, RegisterKeeps, RegisteredKeeps, LeaveKeeps, LatchKeeps,
   ReadCheckKeeps, ReadDataKeeps, ReadEndsKeeps, ReadTimedOutKeeps, EofKeeps, MessagesDoneKeeps,
   HandleControlKeeps, HandleSslKeeps, HandleEndingKeeps, HandleStartupKeeps,
   HandleProtocolKeeps, OpenKeeps, StartupKeeps, WriteFailsKeeps, ExchangeKeeps, PumpEndsKeeps,
   FinishKeeps, Zenon DEF Listener, PumpCut

-----------------------------------------------------------------------------
(* The handle, the owner thread and the clients *)

\* A step that leaves the listener thread alone, and what its clients have sent.
LEMMA FrameKeeps ==
  ASSUME PgInv, UNCHANGED <<active, listener, serving, sessions, latch>>,
         shutdown => shutdown', shutdown' \in BOOLEAN,
         backlog' \in Seq(Clients \cup {Wakeup}),
         \A i \in 1..Len(backlog') : backlog'[i] \in Clients \/ shutdown',
         client' \in [Clients -> [socket : Sockets, sent : Seq(Sendable)]],
         \A c \in Clients : client'[c].sent = client[c].sent,
         listener.at = "exited" => client' = client,
         owner' \in [at : OwnerAts, result : Results],
         state' \in [phase : {"Open", "Closing", "Closed"}, waiters : SUBSET Callers,
                     result : Results],
         caller' \in [Callers -> [at : {"idle", "waiting"}, result : Results]],
         BackendInv', OwnerInv'
  PROVE  PgInv'
<1>0. Shape /\ ConnInv /\ StreamInv
  BY Zenon DEF PgInv
<1>1. Shape'
  BY <1>0, Zenon DEF Shape
<1>2. ConnInv'
  BY <1>0, Zenon DEF ConnInv
<1>3. StreamInv'
  <2>1. listener.at \in Serving => Conn'.sent = Conn.sent
    BY Connected, Zenon DEF Conn
  <2> QED
    BY <1>0, <2>1, Zenon DEF StreamInv
<1> QED
  BY <1>1, <1>2, <1>3, Zenon DEF PgInv

\* What the other variables are.
LEMMA ShapeFacts ==
  ASSUME PgInv
  PROVE  /\ owner \in [at : OwnerAts, result : Results]
         /\ state \in [phase : {"Open", "Closing", "Closed"}, waiters : SUBSET Callers,
                       result : Results]
         /\ caller \in [Callers -> [at : {"idle", "waiting"}, result : Results]]
         /\ client \in [Clients -> [socket : Sockets, sent : Seq(Sendable)]]
         /\ shutdown \in BOOLEAN /\ backlog \in Seq(Clients \cup {Wakeup})
         /\ \A i \in 1..Len(backlog) : backlog[i] \in Clients \/ shutdown
         /\ BackendInv /\ OwnerInv
BY Zenon DEF PgInv, Shape, ConnInv

\* A step of the handle.
LEMMA HandleKeeps ==
  ASSUME PgInv, UNCHANGED <<ownerVars, active, backlog, client, serveVars>>,
         state' \in [phase : {"Open", "Closing", "Closed"}, waiters : SUBSET Callers,
                     result : Results],
         caller' \in [Callers -> [at : {"idle", "waiting"}, result : Results]],
         state'.phase = "Closed" <=> state.phase = "Closed", state'.result = state.result,
         \A c \in Callers : \/ caller'[c].result = caller[c].result
                            \/ state.phase = "Closed" /\ caller'[c].result = state.result
  PROVE  PgInv'
<1>1. UNCHANGED <<owner, root, path, shutdown, active, backlog, client, listener, serving, sessions,
                  latch>>
  BY Zenon DEF ownerVars, serveVars
<1>2. BackendInv'
  BY <1>1, ShapeFacts, Zenon DEF BackendInv
<1>3. OwnerInv'
  <2>1. OwnerInv
    BY ShapeFacts, Zenon
  <2>2. ASSUME NEW c \in Callers
        PROVE  /\ state'.phase = "Closed" => caller'[c].result \in {None, state'.result}
               /\ state'.phase # "Closed" => caller'[c].result = None
    BY <2>1, Zenon DEF OwnerInv
  <2> QED
    BY <1>1, <2>1, <2>2, Zenon DEF OwnerInv
<1> QED
  BY <1>1, <1>2, <1>3, ShapeFacts, FrameKeeps, Zenon

LEMMA CallerAt ==
  ASSUME NEW f \in [Callers -> [at : {"idle", "waiting"}, result : Results]], NEW c \in Callers,
         NEW a \in {"idle", "waiting"}
  PROVE  /\ [f EXCEPT ![c].at = a] \in [Callers -> [at : {"idle", "waiting"}, result : Results]]
         /\ \A d \in Callers : [f EXCEPT ![c].at = a][d].result = f[d].result
OBVIOUS

LEMMA CallerResult ==
  ASSUME NEW f \in [Callers -> [at : {"idle", "waiting"}, result : Results]], NEW c \in Callers,
         NEW r \in Results
  PROVE  /\ [f EXCEPT ![c].result = r] \in [Callers -> [at : {"idle", "waiting"}, result : Results]]
         /\ \A d \in Callers : [f EXCEPT ![c].result = r][d].result \in {f[d].result, r}
         /\ [f EXCEPT ![c] = [at |-> "idle", result |-> r]] \in
              [Callers -> [at : {"idle", "waiting"}, result : Results]]
         /\ \A d \in Callers :
              [f EXCEPT ![c] = [at |-> "idle", result |-> r]][d].result \in {f[d].result, r}
OBVIOUS

LEMMA CloseKeeps == ASSUME PgInv, NEW c \in Callers, Close(c) PROVE PgInv'
<1>1. /\ state \in [phase : {"Open", "Closing", "Closed"}, waiters : SUBSET Callers,
                    result : Results]
      /\ caller \in [Callers -> [at : {"idle", "waiting"}, result : Results]]
      /\ state.result \in Results
  BY ShapeFacts, Zenon
<1>2. UNCHANGED <<ownerVars, active, backlog, client, serveVars>>
  BY Zenon DEF Close
<1>3. CASE state.phase # "Closed"
  <2>1. /\ state' \in [phase : {"Open", "Closing", "Closed"}, waiters : SUBSET Callers,
                       result : Results]
        /\ state'.phase # "Closed" /\ state'.result = state.result
        /\ caller' = [caller EXCEPT ![c].at = "waiting"]
    <3>1. CASE state.phase = "Open"
      <4>1. {c} \in SUBSET Callers
        OBVIOUS
      <4>2. /\ state' = [state EXCEPT !.phase = "Closing", !.waiters = {c}]
            /\ caller' = [caller EXCEPT ![c].at = "waiting"]
        BY <3>1, Zenon DEF Close
      <4> QED
        BY <1>1, <4>1, <4>2, Zenon
    <3>2. CASE state.phase = "Closing"
      BY <1>1, <3>2 DEF Close
    <3> QED
      BY <1>1, <1>3, <3>1, <3>2, Zenon
  <2>2. /\ caller' \in [Callers -> [at : {"idle", "waiting"}, result : Results]]
        /\ \A d \in Callers : caller'[d].result = caller[d].result
    BY <1>1, <2>1, CallerAt, ZenonT(30)
  <2> QED
    BY <1>1, <1>2, <1>3, <2>1, <2>2, HandleKeeps, Zenon
<1>4. CASE state.phase = "Closed"
  <2>1. state' = state /\ caller' = [caller EXCEPT ![c].result = state.result]
    BY <1>4, Zenon DEF Close
  <2>2. /\ caller' \in [Callers -> [at : {"idle", "waiting"}, result : Results]]
        /\ \A d \in Callers : caller'[d].result \in {caller[d].result, state.result}
    BY <1>1, <2>1, CallerResult, ZenonT(30)
  <2> QED
    BY <1>1, <1>2, <1>4, <2>1, <2>2, HandleKeeps, Zenon
<1> QED
  BY <1>3, <1>4, Zenon

LEMMA DropsKeep ==
  ASSUME PgInv, DropStart \/ \E c \in Callers : DropClose(c) \/ DropHandle(c)
  PROVE  PgInv'
<1>1. /\ state \in [phase : {"Open", "Closing", "Closed"}, waiters : SUBSET Callers,
                    result : Results]
      /\ caller \in [Callers -> [at : {"idle", "waiting"}, result : Results]]
  BY ShapeFacts, Zenon
<1>2. /\ UNCHANGED <<ownerVars, active, backlog, client, serveVars>> /\ state' = state
      /\ \/ caller' = caller
         \/ \E c \in Callers : caller' = [caller EXCEPT ![c].at = "idle"]
  BY Zenon DEF DropStart, DropClose, DropHandle
<1>3. /\ caller' \in [Callers -> [at : {"idle", "waiting"}, result : Results]]
      /\ \A d \in Callers : caller'[d].result = caller[d].result
  <2>1. CASE caller' = caller
    BY <1>1, <2>1, Zenon
  <2>2. ASSUME NEW c \in Callers, caller' = [caller EXCEPT ![c].at = "idle"]
        PROVE  /\ caller' \in [Callers -> [at : {"idle", "waiting"}, result : Results]]
               /\ \A d \in Callers : caller'[d].result = caller[d].result
    BY <1>1, <2>2, CallerAt, ZenonT(30)
  <2> QED
    BY <1>2, <2>1, <2>2, Zenon
<1> QED
  BY <1>1, <1>2, <1>3, HandleKeeps, Zenon

\* A step of the owner thread that touches no connection.
LEMMA OwnerKeeps ==
  ASSUME PgInv, UNCHANGED <<active, backlog, client, serveVars>>,
         shutdown => shutdown', shutdown' \in BOOLEAN,
         owner' \in [at : OwnerAts, result : Results],
         state' \in [phase : {"Open", "Closing", "Closed"}, waiters : SUBSET Callers,
                     result : Results],
         caller' \in [Callers -> [at : {"idle", "waiting"}, result : Results]],
         BackendInv', OwnerInv'
  PROVE  PgInv'
<1>1. UNCHANGED <<active, backlog, client, listener, serving, sessions, latch>>
  BY Zenon DEF serveVars
<1>2. \A i \in 1..Len(backlog') : backlog'[i] \in Clients \/ shutdown'
  BY <1>1, ShapeFacts, Zenon
<1> QED
  BY <1>1, <1>2, ShapeFacts, FrameKeeps, Zenon

\* Nothing is alive before the listener thread is.
LEMMA BeforeListener ==
  ASSUME PgInv, owner.at \in {"prepare", "bind"}
  PROVE  /\ listener.at = "absent" /\ sessions = {} /\ ~latch
         /\ listener.at \notin Serving \cup {"finish"} /\ state.phase # "Closed"
<1>1. BackendInv /\ OwnerInv
  BY ShapeFacts, Zenon
<1>2. listener.at = "absent" /\ "absent" \notin Serving \cup {"finish"}
  BY <1>1, Zenon DEF BackendInv, Serving, Framing, Pumping
<1>3. ~latch /\ sessions = {}
  BY <1>1, <1>2, Zenon DEF BackendInv
<1>4. state.phase # "Closed"
  BY <1>1, Zenon DEF OwnerInv
<1> QED
  BY <1>2, <1>3, <1>4, Zenon

LEMMA PrepareKeeps == ASSUME PgInv, Prepare PROVE PgInv'
<1>1. /\ owner.at = "prepare" /\ listener.at = "absent" /\ sessions = {} /\ ~latch
      /\ listener.at \notin Serving \cup {"finish"} /\ state.phase # "Closed"
  BY BeforeListener, Zenon DEF Prepare
<1>2. UNCHANGED <<caller, state, path, shutdown, active, backlog, client, listener, serving, sessions,
                  latch, serveVars>>
  BY Zenon DEF Prepare, serveVars
<1>3. /\ owner \in [at : OwnerAts, result : Results] /\ BackendInv /\ OwnerInv
      /\ \A c \in Callers : caller[c].result = None
  BY <1>1, ShapeFacts, Zenon DEF OwnerInv
<1>4. /\ owner' \in [at : OwnerAts, result : Results]
      /\ \/ owner'.at = "bind" /\ root' = "locked"
         \/ owner'.at = "stopped"
  BY <1>3, Zenon DEF Prepare, OwnerAts
<1>5. BackendInv'
  BY <1>1, <1>2, <1>4, Zenon DEF BackendInv
<1>6. OwnerInv'
  BY <1>1, <1>2, <1>3, <1>4, Zenon DEF OwnerInv
<1> QED
  BY <1>2, <1>4, <1>5, <1>6, ShapeFacts, OwnerKeeps, Zenon

LEMMA BindKeeps == ASSUME PgInv, Bind PROVE PgInv'
<1>0. Shape /\ ConnInv /\ BackendInv /\ OwnerInv /\ StreamInv
  BY Zenon DEF PgInv
<1>1. /\ owner.at = "bind" /\ listener.at = "absent" /\ sessions = {} /\ ~latch
      /\ listener.at \notin Serving \cup {"finish"} /\ state.phase # "Closed" /\ root = "locked"
      /\ \A c \in Callers : caller[c].result = None
  BY <1>0, BeforeListener, Zenon DEF Bind, BackendInv, OwnerInv
<1>2. UNCHANGED <<caller, state, shutdown, active, backlog, client, serving, sessions, latch>>
  BY Zenon DEF Bind
<1>3. CASE owner' = [owner EXCEPT !.at = "stopped"] /\ root' = "free" /\ UNCHANGED <<path, listener>>
  <2>1. owner' \in [at : OwnerAts, result : Results] /\ owner'.at = "stopped"
    BY <1>0, <1>3, Zenon DEF Shape, OwnerAts
  <2>2. BackendInv'
    BY <1>1, <1>2, <1>3, <2>1, Zenon DEF BackendInv
  <2>3. OwnerInv'
    BY <1>1, <1>2, <1>3, <2>1, Zenon DEF OwnerInv
  <2>4. UNCHANGED <<active, backlog, client, serveVars>>
    BY <1>2, <1>3, Zenon DEF serveVars
  <2> QED
    BY <1>2, <2>1, <2>2, <2>3, <2>4, ShapeFacts, OwnerKeeps, Zenon
<1>4. CASE /\ owner' = [owner EXCEPT !.at = "callback"]
           /\ listener' = [listener EXCEPT !.at = "loop"] /\ root' = root
  <2>1. owner' \in [at : OwnerAts, result : Results] /\ owner'.at = "callback"
    BY <1>0, <1>4, Zenon DEF Shape, OwnerAts
  <2>2. /\ listener' \in [at : ListenerAts, conn : Clients \cup {None, Wakeup}, result : Results]
        /\ listener'.at = "loop"
    BY <1>0, <1>4, Places, Zenon DEF Shape
  <2>3. \A c \in Clients : client[c].sent = << >>
    BY <1>1, Silent, Zenon
  <2>4. "absent" \notin Engaged /\ "loop" \notin Serving \cup {"finish"} /\ "loop" \notin Engaged
    BY Zenon DEF Engaged, Serving, Framing, Pumping
  <2>5. Shape'
    BY <1>0, <1>2, <2>1, <2>2, Zenon DEF Shape
  <2>6. ConnInv'
    BY <1>0, <1>1, <1>2, <2>2, <2>3, <2>4, Zenon DEF ConnInv
  <2>7. BackendInv'
    BY <1>1, <1>2, <1>4, <2>1, <2>2, <2>4, Zenon DEF BackendInv
  <2>8. OwnerInv'
    BY <1>1, <1>2, <2>1, Zenon DEF OwnerInv
  <2>9. StreamInv'
    BY <1>0, <1>1, <1>2, <2>2, <2>4, Zenon DEF StreamInv
  <2> QED
    BY <2>5, <2>6, <2>7, <2>8, <2>9, Zenon DEF PgInv
<1> QED
  BY <1>3, <1>4, Zenon DEF Bind

\* Where the owner thread is, once the listener thread was started.
LEMMA OwnerFacts ==
  ASSUME PgInv, NEW from \in OwnerAts \ {"prepare", "bind"}, owner.at = from,
         NEW to \in OwnerAts \ {"prepare", "bind"}, NEW r \in Results,
         owner' = [at |-> to, result |-> r], root' = root,
         UNCHANGED <<listener, serving, sessions, latch>>
  PROVE  /\ owner' \in [at : OwnerAts, result : Results] /\ owner'.at = to /\ owner'.result = r
         /\ BackendInv'
<1>1. owner' \in [at : OwnerAts, result : Results] /\ owner'.at = to /\ owner'.result = r
  OBVIOUS
<1>2. BackendInv
  BY ShapeFacts, Zenon
<1> QED
  BY <1>1, <1>2, Zenon DEF BackendInv

LEMMA OwnerMoves ==
  ASSUME PgInv, NEW to
  PROVE  /\ owner.result \in Results
         /\ [owner EXCEPT !.at = to] = [at |-> to, result |-> owner.result]
BY ShapeFacts

LEMMA CallbackKeeps == ASSUME PgInv, Callback PROVE PgInv'
<1>1. /\ owner.at = "callback" /\ owner' = [at |-> "receive", result |-> owner.result]
      /\ owner.result \in Results
  BY OwnerMoves, Zenon DEF Callback
<1>2. /\ UNCHANGED <<caller, state, root, path, shutdown, active, backlog, client, listener, serving,
                     sessions, latch, serveVars>>
  BY Zenon DEF Callback, serveVars
<1>3. owner' \in [at : OwnerAts, result : Results] /\ owner'.at = "receive" /\ BackendInv'
  BY <1>1, <1>2, OwnerFacts, Zenon DEF OwnerAts
<1>4. OwnerInv'
  <2>1. OwnerInv
    BY ShapeFacts, Zenon
  <2> QED
    BY <1>1, <1>2, <1>3, <2>1, Zenon DEF OwnerInv
<1> QED
  BY <1>2, <1>3, <1>4, ShapeFacts, OwnerKeeps, Zenon

LEMMA ReceiveKeeps == ASSUME PgInv, Receive PROVE PgInv'
<1>1. /\ owner.at = "receive" /\ owner' = [at |-> "cut", result |-> owner.result]
      /\ owner.result \in Results /\ shutdown'
  BY OwnerMoves, Zenon DEF Receive, OwnerStep
<1>2. shutdown' \in BOOLEAN
  BY Zenon DEF Receive
<1>3. /\ UNCHANGED <<caller, state, root, path, active, backlog, client, listener, serving,
                     sessions, latch, serveVars>>
  BY Zenon DEF Receive, serveVars, handleVars
<1>4. owner' \in [at : OwnerAts, result : Results] /\ owner'.at = "cut" /\ BackendInv'
  BY <1>1, <1>3, OwnerFacts, Zenon DEF OwnerAts
<1>5. OwnerInv'
  <2>1. OwnerInv
    BY ShapeFacts, Zenon
  <2> QED
    BY <1>1, <1>3, <1>4, <2>1, Zenon DEF OwnerInv
<1> QED
  BY <1>1, <1>2, <1>3, <1>4, <1>5, ShapeFacts, OwnerKeeps, Zenon

LEMMA ShutFacts ==
  ASSUME PgInv, NEW c
  PROVE  /\ Shut(c) \in [Clients -> [socket : Sockets, sent : Seq(Sendable)]]
         /\ \A d \in Clients : Shut(c)[d].sent = client[d].sent
         /\ listener.at = "exited" => Shut(c) = client
<1>1. /\ client \in [Clients -> [socket : Sockets, sent : Seq(Sendable)]] /\ "shut" \in Sockets
  BY ShapeFacts, Zenon DEF Sockets
<1>2. listener.at = "exited" => \A d \in Clients : client[d].socket # "open"
  BY Zenon DEF PgInv, ConnInv
<1>3. CASE c \in Clients /\ client[c].socket = "open"
  <2>1. /\ [client EXCEPT ![c].socket = "shut"] \in
             [Clients -> [socket : Sockets, sent : Seq(Sendable)]]
        /\ \A d \in Clients : [client EXCEPT ![c].socket = "shut"][d].sent = client[d].sent
    BY <1>1, <1>3, Zenon
  <2> QED
    BY <1>2, <1>3, <2>1, Zenon DEF Shut
<1>4. CASE ~(c \in Clients /\ client[c].socket = "open")
  BY <1>1, <1>4, Zenon DEF Shut
<1> QED
  BY <1>3, <1>4, Zenon

LEMMA CutKeeps == ASSUME PgInv, Cut PROVE PgInv'
<1>1. /\ owner.at = "cut" /\ owner' = [at |-> "wake", result |-> owner.result]
      /\ owner.result \in Results
  BY OwnerMoves, Zenon DEF Cut, OwnerStep
<1>2. /\ UNCHANGED <<caller, state, root, path, shutdown, active, backlog, listener, serving,
                     sessions, latch>>
      /\ client' = Shut(active)
  BY Zenon DEF Cut, serveVars, handleVars
<1>3. owner' \in [at : OwnerAts, result : Results] /\ owner'.at = "wake" /\ BackendInv'
  BY <1>1, <1>2, OwnerFacts, Zenon DEF OwnerAts
<1>4. OwnerInv'
  <2>1. OwnerInv
    BY ShapeFacts, Zenon
  <2> QED
    BY <1>1, <1>2, <1>3, <2>1, Zenon DEF OwnerInv
<1>5. \A i \in 1..Len(backlog') : backlog'[i] \in Clients \/ shutdown'
  BY <1>2, ShapeFacts, Zenon
<1> QED
  BY <1>2, <1>3, <1>4, <1>5, ShapeFacts, ShutFacts, FrameKeeps, Zenon

LEMMA Queued ==
  ASSUME NEW b \in Seq(Clients \cup {Wakeup}), NEW x \in Clients \cup {Wakeup}
  PROVE  /\ Append(b, x) \in Seq(Clients \cup {Wakeup})
         /\ \A i \in 1..Len(Append(b, x)) :
              (i \in 1..Len(b) /\ Append(b, x)[i] = b[i]) \/ Append(b, x)[i] = x
OBVIOUS

LEMMA WakeKeeps == ASSUME PgInv, Wake PROVE PgInv'
<1>1. /\ owner.at = "wake" /\ owner' = [at |-> "join", result |-> owner.result]
      /\ owner.result \in Results
  BY OwnerMoves, Zenon DEF Wake, OwnerStep
<1>2. /\ UNCHANGED <<caller, state, root, path, shutdown, active, client, listener, serving,
                     sessions, latch>>
      /\ backlog' = Append(backlog, Wakeup) \/ backlog' = backlog
  BY Zenon DEF Wake, serveVars, handleVars
<1>3. owner' \in [at : OwnerAts, result : Results] /\ owner'.at = "join" /\ BackendInv'
  BY <1>1, <1>2, OwnerFacts, Zenon DEF OwnerAts
<1>4. OwnerInv /\ shutdown
  BY <1>1, ShapeFacts, Zenon DEF OwnerInv
<1>5. OwnerInv'
  BY <1>1, <1>2, <1>3, <1>4, Zenon DEF OwnerInv
<1>6. backlog' \in Seq(Clients \cup {Wakeup})
  <2>1. backlog \in Seq(Clients \cup {Wakeup}) /\ Wakeup \in Clients \cup {Wakeup}
    BY ShapeFacts, Zenon
  <2>2. Append(backlog, Wakeup) \in Seq(Clients \cup {Wakeup})
    BY <2>1, Queued, Zenon
  <2> QED
    BY <1>2, <2>1, <2>2, Zenon
<1> QED
  BY <1>2, <1>3, <1>4, <1>5, <1>6, ShapeFacts, FrameKeeps, Zenon

\* The listener thread has ended once the owner has joined it.
LEMMA JoinKeeps == ASSUME PgInv, Join PROVE PgInv'
<1>1. /\ owner.at = "join" /\ owner' = [at |-> "socket", result |-> listener.result]
      /\ listener.result \in Results /\ listener.at = "exited"
  BY Zenon DEF PgInv, Shape, Join
<1>2. UNCHANGED <<caller, state, root, path, shutdown, active, backlog, client, listener, serving,
                  sessions, latch, serveVars>>
  BY Zenon DEF Join, serveVars, handleVars
<1>3. /\ owner' \in [at : OwnerAts, result : Results] /\ owner'.at = "socket"
      /\ owner'.result = listener.result /\ BackendInv'
  BY <1>1, <1>2, OwnerFacts, Zenon DEF OwnerAts
<1>4. OwnerInv'
  <2>1. OwnerInv
    BY ShapeFacts, Zenon
  <2> QED
    BY <1>1, <1>2, <1>3, <2>1, Zenon DEF OwnerInv
<1> QED
  BY <1>2, <1>3, <1>4, ShapeFacts, OwnerKeeps, Zenon

LEMMA CleanSocketKeeps == ASSUME PgInv, CleanSocket PROVE PgInv'
<1>1. PICK r \in Results : /\ owner' = [at |-> "release", result |-> r]
                           /\ r = "ok" => owner.result = "ok" /\ path' # "ours"
  <2>1. owner.result \in Results /\ "failed" \in Results
    BY OwnerMoves, Zenon DEF Results
  <2>2. CASE path' = "absent" /\ owner' = [owner EXCEPT !.at = "release"]
    BY <2>1, <2>2, OwnerMoves, Zenon
  <2>3. CASE owner' = [at |-> "release", result |-> "failed"]
    BY <2>1, <2>3, Zenon
  <2> QED
    BY <2>2, <2>3, Zenon DEF CleanSocket
<1>2. /\ UNCHANGED <<caller, state, root, shutdown, active, backlog, client, listener, serving,
                     sessions, latch, serveVars>>
      /\ owner.at = "socket"
  BY Zenon DEF CleanSocket, serveVars, handleVars
<1>3. /\ owner' \in [at : OwnerAts, result : Results] /\ owner'.at = "release"
      /\ owner'.result = r /\ BackendInv'
  BY <1>1, <1>2, OwnerFacts, Zenon DEF OwnerAts
<1>4. OwnerInv'
  <2>1. OwnerInv
    BY ShapeFacts, Zenon
  <2> QED
    BY <1>1, <1>2, <1>3, <2>1, Zenon DEF OwnerInv
<1> QED
  BY <1>2, <1>3, <1>4, ShapeFacts, OwnerKeeps, Zenon

LEMMA ReleaseKeeps == ASSUME PgInv, Release PROVE PgInv'
<1>1. /\ UNCHANGED <<caller, state, path, shutdown, active, backlog, client, listener, serving,
                     sessions, latch, serveVars>>
      /\ owner.at = "release"
  BY Zenon DEF Release, serveVars, handleVars
<1>2. BackendInv /\ OwnerInv
  BY ShapeFacts, Zenon
<1>3. CASE owner.result = "ok" /\ Releasable
  <2>1. owner' = [owner EXCEPT !.at = "drop"] /\ root' = "free" /\ sessions = {}
        /\ listener.at = "exited"
    BY <1>3, Zenon DEF Release, Releasable
  <2>2. /\ owner' \in [at : OwnerAts, result : Results] /\ owner'.at = "drop"
        /\ owner'.result = owner.result
    BY <2>1, ShapeFacts, Zenon DEF OwnerAts
  <2>3. BackendInv'
    BY <1>1, <1>2, <2>1, <2>2, Zenon DEF BackendInv
  <2>4. OwnerInv'
    BY <1>1, <1>2, <2>1, <2>2, Zenon DEF OwnerInv
  <2> QED
    BY <1>1, <2>2, <2>3, <2>4, ShapeFacts, OwnerKeeps, Zenon
<1>4. CASE ~(owner.result = "ok" /\ Releasable)
  <2>1. owner' = [at |-> "drop", result |-> "failed"] /\ root' = root
    BY <1>4, Zenon DEF Release
  <2>2. /\ owner' \in [at : OwnerAts, result : Results] /\ owner'.at = "drop"
        /\ owner'.result = "failed" /\ BackendInv'
    BY <1>1, <2>1, OwnerFacts, Zenon DEF OwnerAts, Results
  <2>3. OwnerInv'
    BY <1>1, <1>2, <2>1, <2>2, Zenon DEF OwnerInv
  <2> QED
    BY <1>1, <2>2, <2>3, ShapeFacts, OwnerKeeps, Zenon
<1> QED
  BY <1>3, <1>4, Zenon

LEMMA CompleteKeeps == ASSUME PgInv, Complete PROVE PgInv'
<1>1. /\ UNCHANGED <<caller, root, path, shutdown, active, backlog, client, listener, serving,
                     sessions, latch, serveVars>>
      /\ owner.at = "drop"
  BY Zenon DEF Complete, serveVars
<1>2. PICK r \in {owner.result, "stopped"} :
        /\ state' = [state EXCEPT !.phase = "Closed", !.result = r]
        /\ owner' = [at |-> "dispatch", result |-> r]
  BY Zenon DEF Complete
<1>3. r \in Results /\ (r = "ok" => owner.result = "ok")
  BY <1>2, OwnerMoves, Zenon DEF Results
<1>4. /\ owner' \in [at : OwnerAts, result : Results] /\ owner'.at = "dispatch"
      /\ owner'.result = r /\ BackendInv'
  BY <1>1, <1>2, <1>3, OwnerFacts, Zenon DEF OwnerAts
<1>5. /\ state' \in [phase : {"Open", "Closing", "Closed"}, waiters : SUBSET Callers,
                     result : Results]
      /\ state'.phase = "Closed" /\ state'.result = r
  BY <1>2, <1>3, ShapeFacts, Zenon
<1>6. OwnerInv'
  <2>1. OwnerInv
    BY ShapeFacts, Zenon
  <2>2. /\ listener.at = "exited" /\ \A c \in Callers : caller[c].result = None
        /\ r = "ok" => root = "free" /\ path # "ours" /\ listener.result = "ok"
    BY <1>1, <1>3, <2>1, Zenon DEF OwnerInv
  <2> QED
    BY <1>1, <1>4, <1>5, <2>2, Zenon DEF OwnerInv
<1> QED
  BY <1>1, <1>4, <1>5, <1>6, ShapeFacts, OwnerKeeps, Zenon

LEMMA DispatchKeeps == ASSUME PgInv, Dispatch PROVE PgInv'
<1>1. /\ UNCHANGED <<root, path, shutdown, active, backlog, client, listener, serving,
                     sessions, latch, serveVars>>
      /\ owner.at = "dispatch"
  BY Zenon DEF Dispatch, serveVars
<1>2. BackendInv /\ OwnerInv /\ state.phase = "Closed" /\ state.result \in Results
  BY <1>1, ShapeFacts, Zenon DEF OwnerInv
<1>3. CASE state.waiters = {}
  <2>1. /\ owner' = [at |-> "stopped", result |-> owner.result] /\ UNCHANGED <<state, caller>>
        /\ owner.result \in Results
    BY <1>3, OwnerMoves, Zenon DEF Dispatch
  <2>2. owner' \in [at : OwnerAts, result : Results] /\ owner'.at = "stopped" /\ BackendInv'
    BY <1>1, <2>1, OwnerFacts, Zenon DEF OwnerAts
  <2>3. OwnerInv'
    BY <1>1, <1>2, <2>1, <2>2, Zenon DEF OwnerInv
  <2> QED
    BY <1>1, <2>1, <2>2, <2>3, ShapeFacts, OwnerKeeps, Zenon
<1>4. CASE state.waiters # {}
  <2>1. PICK c \in state.waiters :
          /\ state' = [state EXCEPT !.waiters = @ \ {c}]
          /\ caller' = IF caller[c].at = "waiting"
                       THEN [caller EXCEPT ![c] = [at |-> "idle", result |-> state.result]]
                       ELSE caller
          /\ UNCHANGED owner
    BY <1>4, Zenon DEF Dispatch
  <2>2. c \in Callers
    BY <2>1, ShapeFacts, Zenon
  <2>3. /\ state' \in [phase : {"Open", "Closing", "Closed"}, waiters : SUBSET Callers,
                       result : Results]
        /\ state'.phase = "Closed" /\ state'.result = state.result
    BY <1>2, <2>1, ShapeFacts, Zenon
  <2>4. /\ caller' \in [Callers -> [at : {"idle", "waiting"}, result : Results]]
        /\ \A d \in Callers : caller'[d].result \in {caller[d].result, state.result}
    BY <1>2, <2>1, <2>2, ShapeFacts, CallerResult, Zenon
  <2>5. \A d \in Callers : \/ caller'[d].result = caller[d].result
                           \/ state.phase = "Closed" /\ caller'[d].result = state.result
    BY <1>2, <2>4, Zenon
  <2>6. UNCHANGED <<ownerVars, active, backlog, client, serveVars>>
    BY <1>1, <2>1, Zenon DEF ownerVars
  <2> QED
    BY <1>2, <2>3, <2>4, <2>5, <2>6, HandleKeeps, Zenon
<1> QED
  BY <1>3, <1>4, Zenon

LEMMA TamperKeeps == ASSUME PgInv, Tamper PROVE PgInv'
<1>1. /\ UNCHANGED <<caller, state, owner, root, shutdown, active, backlog, client, listener, serving,
                     sessions, latch, serveVars>>
      /\ path' # "ours"
  BY Zenon DEF Tamper, serveVars, handleVars
<1>2. BackendInv'
  BY <1>1, ShapeFacts, Zenon DEF BackendInv
<1>3. OwnerInv'
  BY <1>1, ShapeFacts, Zenon DEF OwnerInv
<1> QED
  BY <1>1, <1>2, <1>3, ShapeFacts, OwnerKeeps, Zenon

\* A client connects or hangs up.
LEMMA SocketKeeps ==
  ASSUME PgInv, UNCHANGED outside, listener.at # "exited",
         NEW c \in Clients, NEW s \in Sockets, client' = [client EXCEPT ![c].socket = s],
         backlog' = backlog \/ backlog' = Append(backlog, c)
  PROVE  PgInv'
<1>1. UNCHANGED <<caller, state, owner, root, path, shutdown, active, listener, serving, sessions,
                  latch>>
  BY Zenon DEF outside, environment, handleVars, ownerVars, serveVars
<1>2. BackendInv'
  BY <1>1, ShapeFacts, Zenon DEF BackendInv
<1>3. OwnerInv'
  BY <1>1, ShapeFacts, Zenon DEF OwnerInv
<1>4. /\ client' \in [Clients -> [socket : Sockets, sent : Seq(Sendable)]]
      /\ \A d \in Clients : client'[d].sent = client[d].sent
  BY ShapeFacts, Zenon
<1>5. /\ backlog' \in Seq(Clients \cup {Wakeup})
      /\ \A i \in 1..Len(backlog') : backlog'[i] \in Clients \/ shutdown'
  <2>1. /\ backlog \in Seq(Clients \cup {Wakeup}) /\ c \in Clients \cup {Wakeup}
        /\ \A i \in 1..Len(backlog) : backlog[i] \in Clients \/ shutdown
    BY ShapeFacts, Zenon
  <2>2. CASE backlog' = backlog
    BY <1>1, <2>1, <2>2, Zenon
  <2>3. CASE backlog' = Append(backlog, c)
    BY <1>1, <2>1, <2>3, Queued, Zenon
  <2> QED
    BY <2>2, <2>3, Zenon
<1> QED
  BY <1>1, <1>2, <1>3, <1>4, <1>5, ShapeFacts, FrameKeeps, Zenon

LEMMA ConnectKeeps == ASSUME PgInv, NEW c \in Clients, Connect(c) PROVE PgInv'
<1>1. UNCHANGED outside /\ listener.at # "exited" /\ "open" \in Sockets
  BY Zenon DEF Connect, Sockets
<1> QED
  BY <1>1, SocketKeeps, Zenon DEF Connect

LEMMA HangupKeeps == ASSUME PgInv, NEW c \in Clients, Hangup(c) PROVE PgInv'
<1>1. UNCHANGED outside /\ listener.at # "exited" /\ "closed" \in Sockets /\ backlog' = backlog
  BY Zenon DEF Hangup, Sockets
<1> QED
  BY <1>1, SocketKeeps, Zenon DEF Hangup

\* A client sends one more message.
LEMMA SendKeeps == ASSUME PgInv, NEW c \in Clients, Send(c) PROVE PgInv'
<1>0. Shape /\ ConnInv /\ BackendInv /\ OwnerInv /\ StreamInv
  BY Zenon DEF PgInv
<1>1. UNCHANGED <<caller, state, owner, root, path, shutdown, active, listener, serving, sessions,
                  latch, backlog>>
  BY Zenon DEF Send, outside, environment, handleVars, ownerVars, serveVars
<1>2. /\ listener.conn = c /\ listener.at \in {"reading", "copy", "pump"}
      /\ listener.at \in Serving /\ listener.at # "exited"
  BY FramingServes, Zenon DEF Send, Pumping
<1>3. /\ serving \in ServingSet /\ Conn.sent \in Seq(Sendable) /\ Conforms(Conn.sent)
      /\ Data(listener.at, serving, Conn.sent) /\ client[c] = Conn
  BY <1>2, Connected, Zenon
<1>4. PICK k \in MaySend(Conn.sent) : client' = [client EXCEPT ![c].sent = Append(@, k)]
  BY <1>3, Zenon DEF Send
<1>5. PICK q : q = Append(Conn.sent, k)
  BY Zenon
<1>6. k \in Sendable /\ Conforms(q)
  BY <1>3, <1>4, <1>5, ConformsMore, Zenon
<1>7. q \in Seq(Sendable)
  BY <1>3, <1>5, <1>6
<1>8. Data(listener.at, serving, q)
  <2>1. listener.at = "reading" /\ Conn.sent # << >> /\ Conn.sent[Len(Conn.sent)] = "in" =>
          serving.handled = Len(Conn.sent)
    BY <1>2, <1>3, Zenon DEF Send, AwaitsCopy
  <2> QED
    BY <1>2, <1>3, <1>4, <1>5, <2>1, DataSend, Zenon
<1>9. /\ client' \in [Clients -> [socket : Sockets, sent : Seq(Sendable)]]
      /\ client'[c].sent = q /\ \A d \in Clients \ {c} : client'[d] = client[d]
  <2>1. client' = [client EXCEPT ![c].sent = q]
    BY <1>3, <1>4, <1>5, Zenon
  <2>2. client \in [Clients -> [socket : Sockets, sent : Seq(Sendable)]]
    BY <1>0, Zenon DEF Shape
  <2> QED
    BY <1>7, <2>1, <2>2, Zenon
<1>10. Shape'
  BY <1>0, <1>1, <1>9, Zenon DEF Shape
<1>11. ConnInv'
  <2>1. ASSUME NEW d \in Clients, client'[d].sent # << >>
        PROVE  d = listener.conn /\ listener.at \in Serving
    BY <1>0, <1>2, <1>9, <2>1, Zenon DEF ConnInv
  <2> QED
    BY <1>0, <1>1, <1>2, <2>1, Zenon DEF ConnInv
<1>12. BackendInv'
  BY <1>0, <1>1, Zenon DEF BackendInv
<1>13. OwnerInv'
  BY <1>0, <1>1, Zenon DEF OwnerInv
<1>14. StreamInv'
  <2>1. Conn'.sent = q
    BY <1>1, <1>2, <1>9, Zenon DEF Conn
  <2>2. \A d \in Clients : Conforms(client'[d].sent)
    BY <1>0, <1>6, <1>9, Zenon DEF StreamInv
  <2> QED
    BY <1>1, <1>2, <1>8, <2>1, <2>2, Zenon DEF StreamInv
<1> QED
  BY <1>10, <1>11, <1>12, <1>13, <1>14, Zenon DEF PgInv

LEMMA InitPg == Init => PgInv
<1> SUFFICES ASSUME Init PROVE PgInv
  OBVIOUS
<1>1. /\ listener.at = "absent" /\ owner.at = "prepare" /\ state.phase = "Open" /\ sessions = {}
      /\ ~latch /\ active = None /\ backlog = << >> /\ Len(backlog) = 0
      /\ \A c \in Callers : caller[c].result = None
      /\ \A c \in Clients : client[c].sent = << >>
  BY Zenon DEF Init
<1>2. "absent" \notin Serving \cup {"finish"} /\ "absent" \notin Engaged /\ "absent" \in ListenerAts
  BY Zenon DEF Serving, Framing, Pumping, Engaged, ListenerAts
<1>3. Shape
  <2>1. owner \in [at : OwnerAts, result : Results]
    BY Zenon DEF Init, OwnerAts, Results
  <2>2. listener \in [at : ListenerAts, conn : Clients \cup {None, Wakeup}, result : Results]
    BY <1>2, Zenon DEF Init, Results
  <2>3. /\ state \in [phase : {"Open", "Closing", "Closed"}, waiters : SUBSET Callers,
                      result : Results]
        /\ caller \in [Callers -> [at : {"idle", "waiting"}, result : Results]]
    BY Zenon DEF Init, Results
  <2>4. client \in [Clients -> [socket : Sockets, sent : Seq(Sendable)]]
    BY NothingConforms, Zenon DEF Init, Sockets
  <2>5. serving \in ServingSet /\ latch \in BOOLEAN /\ shutdown \in BOOLEAN
    BY FreshFacts, Zenon DEF Init
  <2>6. backlog \in Seq(Clients \cup {Wakeup})
    BY <1>1
  <2> QED
    BY <1>1, <2>1, <2>2, <2>3, <2>4, <2>5, <2>6, Zenon DEF Shape
<1>4. ConnInv
  BY <1>1, <1>2 DEF ConnInv
<1>5. BackendInv
  BY <1>1, <1>2, Zenon DEF BackendInv
<1>6. OwnerInv
  BY <1>1, Zenon DEF OwnerInv
<1>7. StreamInv
  BY <1>1, <1>2, NothingConforms, FreshFacts, Zenon DEF StreamInv, Init
<1> QED
  BY <1>3, <1>4, <1>5, <1>6, <1>7, Zenon DEF PgInv

LEMMA NextPg == PgInv /\ [Next]_vars => PgInv'
<1> SUFFICES ASSUME PgInv, [Next]_vars PROVE PgInv'
  OBVIOUS
<1>1. CASE Owner
  BY <1>1, PrepareKeeps, BindKeeps, CallbackKeeps, ReceiveKeeps, CutKeeps, WakeKeeps, JoinKeeps,
     CleanSocketKeeps, ReleaseKeeps, CompleteKeeps, DispatchKeeps, Zenon DEF Owner
<1>2. CASE Listener
  BY <1>2, ListenerKeeps, Zenon
<1>3. CASE Environment
  BY <1>3, DropsKeep, TamperKeeps, WroteKeeps, BackendReadsKeeps, CopyEndsKeeps, PumpEndsKeeps,
     CloseKeeps, ConnectKeeps, SendKeeps, HangupKeeps, Zenon DEF Environment
<1>4. CASE UNCHANGED vars
  <2>1. UNCHANGED <<ownerVars, active, backlog, client, serveVars, state, caller>>
    BY <1>4, Zenon DEF vars, handleVars
  <2> QED
    BY <2>1, ShapeFacts, HandleKeeps, Zenon
<1> QED
  BY <1>1, <1>2, <1>3, <1>4, Zenon DEF Next

\* PgInv holds throughout every run of the server, for any number of connections,
\* callers and messages.
THEOREM PgInvariant == Spec => []PgInv
BY InitPg, NextPg, PTL DEF Spec

-----------------------------------------------------------------------------
(* What the invariant gives *)

LEMMA BackendIsOne == PgInv => OneBackend
<1> SUFFICES ASSUME PgInv PROVE OneBackend
  OBVIOUS
<1>1. sessions = {} \/ \E c : sessions = {c}
  BY Zenon DEF PgInv, BackendInv
<1>2. \A c, d \in sessions : c = d
  BY <1>1, Zenon
<1>3. sessions # {} => root = "locked"
  BY Zenon DEF PgInv, BackendInv
<1> QED
  BY <1>2, <1>3, Zenon DEF OneBackend

\* There are never two backends on one database, counting the ones whose shutdown
\* failed (WireBackend.close and the latch read after every connection), and while
\* one may be alive the root stays locked (PreparedDatabase.release).
THEOREM BackendsAreOne == Spec => []OneBackend
BY PgInvariant, BackendIsOne, PTL

LEMMA ClosedIsTrue == PgInv => CloseIsTrue
<1> SUFFICES ASSUME PgInv, NEW c \in Callers, caller[c].result # None
             PROVE  /\ state.phase = "Closed" /\ caller[c].result = state.result
                    /\ caller[c].result = "ok" =>
                         /\ root = "free" /\ sessions = {} /\ path # "ours"
                         /\ listener.at = "exited" /\ active = None
                         /\ \A d \in Clients : client[d].socket \in {"new", "gone"}
  BY Zenon DEF CloseIsTrue
<1>1. state.phase = "Closed" /\ caller[c].result = state.result
  BY Zenon DEF PgInv, OwnerInv
<1>2. ASSUME caller[c].result = "ok"
      PROVE  /\ root = "free" /\ sessions = {} /\ path # "ours"
             /\ listener.at = "exited" /\ active = None
             /\ \A d \in Clients : client[d].socket \in {"new", "gone"}
  <2>1. root = "free" /\ path # "ours" /\ listener.result = "ok" /\ listener.at = "exited"
    BY <1>1, <1>2, Zenon DEF PgInv, OwnerInv
  <2>2. sessions = {}
    BY <2>1, Zenon DEF PgInv, BackendInv
  <2>3. "exited" \notin Engaged \cup {"registered"}
    BY Zenon DEF Engaged, Serving, Framing, Pumping
  <2> QED
    BY <2>1, <2>2, <2>3, Zenon DEF PgInv, ConnInv
<1> QED
  BY <1>1, <1>2, Zenon

\* Every close reports the result of the one teardown (close_with_completion,
\* complete), and success means that all of it happened: no listener thread, no
\* connection, no backend, no socket file of the server's, and the root is free.
THEOREM ClosesAreTrue == Spec => []CloseIsTrue
BY PgInvariant, ClosedIsTrue, PTL

LEMMA HalvesOf ==
  ASSUME NEW got \in Seq(Nat), NEW b \in Nat, \A i \in 1..Len(got) : got[i] = 2 * b + i
  PROVE  got = Halves(2 * b, 2 * b + Len(got))
<1>1. (2 * b + Len(got)) - 2 * b = Len(got)
  OBVIOUS
<1>2. Halves(2 * b, 2 * b + Len(got)) = [i \in 1..Len(got) |-> 2 * b + i]
  BY <1>1, Zenon DEF Halves
<1>3. DOMAIN got = 1..Len(got) /\ got = [i \in DOMAIN got |-> got[i]]
  OBVIOUS
<1> QED
  BY <1>2, <1>3, Zenon

LEMMA BytesAreInOrder == PgInv => BytesInOrder
<1> SUFFICES ASSUME PgInv, serving.got # << >>
             PROVE  LET startup == CHOOSE i \in DOMAIN Conn.sent : Conn.sent[i] = "startup"
                    IN  serving.got = Halves(2 * startup, 2 * startup + Len(serving.got))
  BY Zenon DEF BytesInOrder
<1>1. listener.at \in Serving
  BY Zenon DEF PgInv, StreamInv
<1>2. /\ serving \in ServingSet /\ Conn.sent \in Seq(Sendable) /\ Conforms(Conn.sent)
      /\ Data(listener.at, serving, Conn.sent)
  BY <1>1, Connected, Zenon
<1>3. PICK b : b = Begin(Conn.sent)
  BY Zenon
<1>4. /\ serving.handled >= b /\ Conn.sent[b] = "startup"
      /\ \A i \in 1..Len(serving.got) : serving.got[i] = 2 * b + i
      /\ serving.read <= serving.taken /\ serving.taken <= 2 * Len(Conn.sent)
      /\ 2 * serving.handled <= serving.read
  BY <1>2, <1>3, Zenon DEF Data, Bytes, Frames, Passed
<1>5. b \in Nat /\ b \in {1, 2}
  BY <1>3, BeginFacts, Zenon
<1>6. b \in DOMAIN Conn.sent /\ DOMAIN Conn.sent = 1..Len(Conn.sent)
  <2>1. /\ serving.handled \in Nat /\ serving.read \in Nat /\ serving.taken \in Nat
        /\ Len(Conn.sent) \in Nat /\ DOMAIN Conn.sent = 1..Len(Conn.sent)
    BY <1>2 DEF ServingSet
  <2>2. b <= Len(Conn.sent)
    BY <1>4, <1>5, <2>1
  <2> QED
    BY <1>5, <2>1, <2>2
<1>7. \A i \in DOMAIN Conn.sent : Conn.sent[i] = "startup" => i = b
  BY <1>2, <1>3, <1>6, StartupPlace, Zenon
<1>8. (CHOOSE i \in DOMAIN Conn.sent : Conn.sent[i] = "startup") = b
  BY <1>4, <1>6, <1>7, Zenon
<1>9. serving.got = Halves(2 * b, 2 * b + Len(serving.got))
  <2>1. serving.got \in Seq(Nat)
    BY <1>2, Zenon DEF ServingSet
  <2> QED
    BY <1>4, <1>5, <2>1, HalvesOf, Zenon
<1> QED
  BY <1>8, <1>9, Zenon

\* The backend gets what its client sent after the startup packet, each byte once and
\* in order, however the reads cut it and however the batches, the backend's own reads
\* during COPY and the hand-over of the frame reader's bytes (ContinuationPrefix)
\* divide it between them.
THEOREM BytesStayInOrder == Spec => []BytesInOrder
BY PgInvariant, BytesAreInOrder, PTL
=============================================================================
