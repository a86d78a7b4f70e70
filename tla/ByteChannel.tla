----------------------------- MODULE ByteChannel ----------------------------
(***************************************************************************)
(* The bounded single-producer/single-consumer byte channel that connects  *)
(* a tool worker with the database worker (protocol/byte-channel.ts): a    *)
(* SharedArrayBuffer ring with two cursors and two flags, on which one     *)
(* thread reads, one writes, and any thread may close or fail it.          *)
(*                                                                         *)
(* Every step performs at most one access to a word another thread may     *)
(* change.  The reader alone stores READ_OFFSET and the writer alone       *)
(* stores WRITE_OFFSET, so the copies that the functions keep of their own *)
(* cursor (`read' in the reader, `write' in the writer) always equal the   *)
(* cursor and are not separate variables.  The n-th byte the producer      *)
(* writes is the number n.                                                 *)
(***************************************************************************)
EXTENDS Integers, Sequences, FiniteSetsExt

CONSTANTS Capacity,   \* bytes in the data buffer (WASIX_CHANNEL_BYTES)
          ChunkBytes, \* most bytes one produce() copies
          Total,      \* bound: how many bytes the producer ever writes
          ReadSizes,  \* the maximumBytes that reads ask for
          Closers,    \* the threads that may close or fail the channel
          CloseOps,   \* which of "close", "fail" they may call
          Producer,   \* the producer's own thread, when it is a closer
          WaitModes   \* how a thread may wait: "asleep" until notified,
                      \* "polling" with a 1 ms timer (no Atomics.waitAsync)

ASSUME CapacityAssumption == Capacity \in Nat /\ Capacity >= 2
ASSUME ChunkAssumption == ChunkBytes \in Nat \ {0}
ASSUME TotalAssumption == Total \in Nat
ASSUME ReadSizesAssumption == ReadSizes \subseteq Nat \ {0}
ASSUME CloseAssumption ==
  /\ CloseOps \subseteq {"close", "fail"}
  /\ WaitModes \subseteq {"asleep", "polling"} /\ WaitModes # {}

VARIABLES readOffset, writeOffset, closed, failed, \* the control words
          data,       \* the data buffer
          rpc,        \* where the reading thread is
          rWrite,     \* its copy of WRITE_OFFSET
          rMax,       \* the maximumBytes of the read in progress
          rOutput,    \* the bytes sliced out of the buffer
          wpc,        \* where the writing thread is
          wRead,      \* its copy of READ_OFFSET
          wLeft,      \* bytes of the current input not yet written
          wCount,     \* bytes copied by the produce() in progress
          cpc,        \* where each closing thread is
          sent,       \* how many bytes have been published
          received    \* the bytes returned by the reads so far

readerVars == <<rWrite, rMax, rOutput>>
writerVars == <<wRead, wLeft, wCount>>
vars == <<readOffset, writeOffset, closed, failed, data, rpc, rWrite, rMax,
          rOutput, wpc, wRead, wLeft, wCount, cpc, sent, received>>

Index == 0..(Capacity - 1)

\* How many bytes the writer may copy without a second contiguous run and
\* without making the cursors meet (the cursors meet only when empty).
writableBytes(read, write) ==
  IF write < read THEN read - write - 1
  ELSE IF read = 0 THEN Capacity - write - 1
  ELSE Capacity - write

\* How many bytes consume() finds in the first contiguous unread run.
readableBytes(read, write) ==
  IF write >= read THEN write - read ELSE Capacity - read

\* Atomics.notify on WRITE_OFFSET wakes the reader, on READ_OFFSET the writer;
\* a thread that polls sleeps on a timer and is not woken.
NotifyReader == rpc' = IF rpc = "asleep" THEN "healthy" ELSE rpc
NotifyWriter == wpc' = IF wpc = "asleep" THEN "healthy" ELSE wpc

Init ==
  /\ readOffset = 0 /\ writeOffset = 0
  /\ closed = FALSE /\ failed = FALSE
  /\ data = [i \in Index |-> 0]
  /\ rpc = "idle" /\ rWrite = 0 /\ rMax = 1 /\ rOutput = << >>
  /\ wpc = "idle" /\ wRead = 0 /\ wLeft = 0 /\ wCount = 0
  /\ cpc = [c \in Closers |-> "ready"]
  /\ sent = 0 /\ received = << >>

-----------------------------------------------------------------------------
(* readWasixByteChannelSync and readWasixByteChannel *)

ReadCall ==
  /\ rpc = "idle"
  /\ \E max \in ReadSizes : rMax' = max
  /\ rpc' = "healthy"
  /\ UNCHANGED <<readOffset, writeOffset, closed, failed, data, rWrite,
                 rOutput, wpc, writerVars, cpc, sent, received>>

\* assertChannelHealthy
ReadHealthy ==
  /\ rpc = "healthy"
  /\ rpc' = IF failed THEN "error" ELSE "load"
  /\ UNCHANGED <<readOffset, writeOffset, closed, failed, data, readerVars,
                 wpc, writerVars, cpc, sent, received>>

ReadLoad ==
  /\ rpc = "load"
  /\ rWrite' = writeOffset
  /\ rpc' = IF readOffset # writeOffset THEN "consume" ELSE "closed"
  /\ UNCHANGED <<readOffset, writeOffset, closed, failed, data, rMax, rOutput,
                 wpc, writerVars, cpc, sent, received>>

\* consume(): slice the bytes out, then store the cursor, then notify.
ReadSlice ==
  /\ rpc = "consume"
  /\ LET count == Min({readableBytes(readOffset, rWrite), rMax})
     IN  rOutput' = [i \in 1..count |-> data[readOffset + i - 1]]
  /\ rpc' = "advance"
  /\ UNCHANGED <<readOffset, writeOffset, closed, failed, data, rWrite, rMax,
                 wpc, writerVars, cpc, sent, received>>

ReadAdvance ==
  /\ rpc = "advance"
  /\ readOffset' = (readOffset + Len(rOutput)) % Capacity
  /\ received' = received \o rOutput
  /\ rpc' = "notify"
  /\ UNCHANGED <<writeOffset, closed, failed, data, readerVars,
                 wpc, writerVars, cpc, sent>>

ReadNotify ==
  /\ rpc = "notify"
  /\ NotifyWriter
  /\ rpc' = "idle"
  /\ UNCHANGED <<readOffset, writeOffset, closed, failed, data, readerVars,
                 writerVars, cpc, sent, received>>

\* Faulty variant: only a failure ends the wait.
ReadClosedIfFailed ==
  /\ rpc = "closed"
  /\ rpc' = IF failed THEN "eof" ELSE "wait"
  /\ UNCHANGED <<readOffset, writeOffset, closed, failed, data, readerVars,
                 wpc, writerVars, cpc, sent, received>>

ReadClosed ==
  /\ rpc = "closed"
  /\ rpc' = IF closed THEN "eof" ELSE "wait"
  /\ UNCHANGED <<readOffset, writeOffset, closed, failed, data, readerVars,
                 wpc, writerVars, cpc, sent, received>>

\* Atomics.wait compares and falls asleep in one step; polling never compares.
ReadWait ==
  /\ rpc = "wait"
  /\ \E mode \in WaitModes :
       rpc' = IF mode = "polling" \/ writeOffset = rWrite THEN mode ELSE "healthy"
  /\ UNCHANGED <<readOffset, writeOffset, closed, failed, data, readerVars,
                 wpc, writerVars, cpc, sent, received>>

\* waitForChange without waitAsync: the timer ends the wait.
ReadTimer ==
  /\ rpc = "polling"
  /\ rpc' = "healthy"
  /\ UNCHANGED <<readOffset, writeOffset, closed, failed, data, readerVars,
                 wpc, writerVars, cpc, sent, received>>

-----------------------------------------------------------------------------
(* writeWasixByteChannelSync and writeWasixByteChannel *)

WriteCall ==
  /\ wpc = "idle"
  /\ \E n \in 1..(Total - sent) : wLeft' = n
  /\ wpc' = "healthy"
  /\ UNCHANGED <<readOffset, writeOffset, closed, failed, data, rpc,
                 readerVars, wRead, wCount, cpc, sent, received>>

\* assertChannelWritable: first FAILED, then CLOSED.
WriteHealthy ==
  /\ wpc = "healthy"
  /\ wpc' = IF failed THEN "error" ELSE "writable"
  /\ UNCHANGED <<readOffset, writeOffset, closed, failed, data, rpc,
                 readerVars, writerVars, cpc, sent, received>>

WriteWritable ==
  /\ wpc = "writable"
  /\ wpc' = IF closed THEN "error" ELSE "load"
  /\ UNCHANGED <<readOffset, writeOffset, closed, failed, data, rpc,
                 readerVars, writerVars, cpc, sent, received>>

WriteLoad ==
  /\ wpc = "load"
  /\ wRead' = readOffset
  /\ wpc' = IF writableBytes(readOffset, writeOffset) = 0 THEN "wait" ELSE "copy"
  /\ UNCHANGED <<readOffset, writeOffset, closed, failed, data, rpc,
                 readerVars, wLeft, wCount, cpc, sent, received>>

\* Faulty variant: the last byte of the run is not copied.
WriteCopyShort ==
  /\ wpc = "copy"
  /\ wCount' = Min({writableBytes(wRead, writeOffset), wLeft, ChunkBytes})
  /\ data' = [i \in Index |->
                IF i \in writeOffset..(writeOffset + wCount' - 2)
                THEN sent + 1 + i - writeOffset ELSE data[i]]
  /\ wpc' = "advance"
  /\ UNCHANGED <<readOffset, writeOffset, closed, failed, rpc, readerVars,
                 wRead, wLeft, cpc, sent, received>>

\* produce(): copy the bytes in, then store the cursor, then notify.
WriteCopy ==
  /\ wpc = "copy"
  /\ wCount' = Min({writableBytes(wRead, writeOffset), wLeft, ChunkBytes})
  /\ data' = [i \in Index |->
                IF i \in writeOffset..(writeOffset + wCount' - 1)
                THEN sent + 1 + i - writeOffset ELSE data[i]]
  /\ wpc' = "advance"
  /\ UNCHANGED <<readOffset, writeOffset, closed, failed, rpc, readerVars,
                 wRead, wLeft, cpc, sent, received>>

WriteAdvance ==
  /\ wpc = "advance"
  /\ writeOffset' = (writeOffset + wCount) % Capacity
  /\ sent' = sent + wCount
  /\ wLeft' = wLeft - wCount
  /\ wpc' = "notify"
  /\ UNCHANGED <<readOffset, closed, failed, data, rpc, readerVars,
                 wRead, wCount, cpc, received>>

\* Faulty variant: the reader is not notified.
WriteNotifySilent ==
  /\ wpc = "notify"
  /\ wpc' = IF wLeft = 0 THEN "idle" ELSE "healthy"
  /\ UNCHANGED <<readOffset, writeOffset, closed, failed, data, rpc,
                 readerVars, writerVars, cpc, sent, received>>

WriteNotify ==
  /\ wpc = "notify"
  /\ NotifyReader
  /\ wpc' = IF wLeft = 0 THEN "idle" ELSE "healthy"
  /\ UNCHANGED <<readOffset, writeOffset, closed, failed, data, readerVars,
                 writerVars, cpc, sent, received>>

WriteWait ==
  /\ wpc = "wait"
  /\ \E mode \in WaitModes :
       wpc' = IF mode = "polling" \/ readOffset = wRead THEN mode ELSE "healthy"
  /\ UNCHANGED <<readOffset, writeOffset, closed, failed, data, rpc,
                 readerVars, writerVars, cpc, sent, received>>

WriteTimer ==
  /\ wpc = "polling"
  /\ wpc' = "healthy"
  /\ UNCHANGED <<readOffset, writeOffset, closed, failed, data, rpc,
                 readerVars, writerVars, cpc, sent, received>>

-----------------------------------------------------------------------------
(* closeWasixByteChannel and failWasixByteChannel.  The producer closes    *)
(* between its writes and writes no more; any other thread at any time.    *)

CloseCall(c) ==
  /\ cpc[c] = "ready"
  /\ \E op \in CloseOps :
       cpc' = [cpc EXCEPT ![c] = IF op = "fail" THEN "storeFailed"
                                 ELSE "storeClosed"]
  /\ IF c = Producer THEN wpc = "idle" /\ wpc' = "finished" ELSE UNCHANGED wpc
  /\ UNCHANGED <<readOffset, writeOffset, closed, failed, data, rpc,
                 readerVars, writerVars, sent, received>>

StoreFailed(c) ==
  /\ cpc[c] = "storeFailed"
  /\ failed' = TRUE
  /\ cpc' = [cpc EXCEPT ![c] = "storeClosed"]
  /\ UNCHANGED <<readOffset, writeOffset, closed, data, rpc, readerVars,
                 wpc, writerVars, sent, received>>

StoreClosed(c) ==
  /\ cpc[c] = "storeClosed"
  /\ closed' = TRUE
  /\ cpc' = [cpc EXCEPT ![c] = "notifyRead"]
  /\ UNCHANGED <<readOffset, writeOffset, failed, data, rpc, readerVars,
                 wpc, writerVars, sent, received>>

CloseNotifyRead(c) ==
  /\ cpc[c] = "notifyRead"
  /\ NotifyWriter
  /\ cpc' = [cpc EXCEPT ![c] = "notifyWrite"]
  /\ UNCHANGED <<readOffset, writeOffset, closed, failed, data, rpc,
                 readerVars, writerVars, sent, received>>

CloseNotifyWrite(c) ==
  /\ cpc[c] = "notifyWrite"
  /\ NotifyReader
  /\ cpc' = [cpc EXCEPT ![c] = "done"]
  /\ UNCHANGED <<readOffset, writeOffset, closed, failed, data, readerVars,
                 wpc, writerVars, sent, received>>

-----------------------------------------------------------------------------
Reader ==
  \/ ReadCall \/ ReadHealthy \/ ReadLoad \/ ReadSlice \/ ReadAdvance
  \/ ReadNotify \/ ReadClosed \/ ReadWait \/ ReadTimer

\* The steps of a write that has been called.
WriteStep ==
  \/ WriteHealthy \/ WriteWritable \/ WriteLoad \/ WriteCopy \/ WriteAdvance
  \/ WriteNotify \/ WriteWait \/ WriteTimer

\* The steps of a close or fail that has been called.
CloseStep(c) ==
  StoreFailed(c) \/ StoreClosed(c) \/ CloseNotifyRead(c) \/ CloseNotifyWrite(c)

Next ==
  \/ Reader
  \/ WriteCall
  \/ WriteStep
  \/ \E c \in Closers : CloseCall(c)
  \/ \E c \in Closers : CloseStep(c)

Spec == Init /\ [][Next]_vars

(* Threads keep running: the consumer reads until EOF or an error, and a   *)
(* call that was made proceeds.  Nobody is obliged to write or to close.   *)
Fairness ==
  /\ WF_vars(Reader)
  /\ WF_vars(WriteStep)
  /\ \A c \in Closers : WF_vars(CloseStep(c))

FairSpec == Spec /\ Fairness

-----------------------------------------------------------------------------
\* Every variable of the channel, its reader and its writer holds a value of its
\* type; in particular the offsets stay inside the ring.
TypeOK ==
  /\ readOffset \in Index /\ writeOffset \in Index
  /\ closed \in BOOLEAN /\ failed \in BOOLEAN
  /\ data \in [Index -> Nat]
  /\ rpc \in {"idle", "healthy", "load", "consume", "advance", "notify",
              "closed", "wait", "asleep", "polling", "eof", "error"}
  /\ rWrite \in Index /\ rMax \in Nat \ {0} /\ rOutput \in Seq(Nat)
  /\ wpc \in {"idle", "healthy", "writable", "load", "copy", "advance",
              "notify", "wait", "asleep", "polling", "finished", "error"}
  /\ wRead \in Index /\ wLeft \in Nat /\ wCount \in Nat
  /\ cpc \in [Closers -> {"ready", "storeFailed", "storeClosed",
                          "notifyRead", "notifyWrite", "done"}]
  /\ sent \in Nat /\ received \in Seq(Nat)

\* The k-th position after a cursor, and how many bytes are unread.
Position(offset, k) ==
  IF offset + k < Capacity THEN offset + k ELSE offset + k - Capacity
Unread ==
  IF writeOffset >= readOffset THEN writeOffset - readOffset
  ELSE Capacity - readOffset + writeOffset
UnreadIndex == {Position(readOffset, k) : k \in 0..(Unread - 1)}

\* The consumer receives exactly the published bytes in their order: the reads
\* return 1, 2, 3, ... with no byte lost, repeated, torn or reordered, and the
\* cursors account for every byte published and not yet returned.
DeliveredInOrder ==
  /\ \A i \in 1..Len(received) : received[i] = i
  /\ Len(received) + Unread = sent

\* produce() copies only over bytes that the consumer has already taken: the
\* run it writes never meets the unread bytes, which the reader may be slicing.
NoOverwrite ==
  wpc = "copy" =>
    \A i \in writeOffset..(writeOffset + writableBytes(wRead, writeOffset) - 1) :
      i \in Index /\ i \notin UnreadIndex

\* The ring implements the abstract bounded stream: one slot stays free.
Stream == INSTANCE ByteStream WITH Bound <- Capacity - 1
ImplementsStream == Stream!Spec

\* A read reports EOF only when every byte published before the close has been
\* returned (the producer is the thread that closes).
EofAfterAllBytes == rpc = "eof" => Len(received) = sent

\* Every published byte is eventually returned by a read, unless the channel is
\* closed or failed under the reader: no wakeup for data is lost.
PublishedIsDelivered ==
  \A n \in 1..Total :
    (sent >= n) ~> (Len(received) >= n \/ rpc \in {"eof", "error"})

\* Once a close or fail call has finished, the reader eventually returns with
\* EOF or an error instead of blocking in Atomics.wait.
CloseReleasesReader ==
  \A c \in Closers : (cpc[c] = "done") ~> (rpc \in {"eof", "error"})

\* A thread that waits with the timer needs no notification: once the channel is
\* closed the read returns with the bytes that are left, EOF or an error, and
\* the write returns or throws.
CloseReleasesPolling ==
  /\ (rpc = "polling" /\ closed) ~> (rpc \in {"idle", "eof", "error"})
  /\ (wpc = "polling" /\ closed) ~> (wpc \in {"idle", "finished", "error"})
=============================================================================
