-------------------------- MODULE ByteChannelProofs -------------------------
(***************************************************************************)
(* For every capacity, chunk size, read size, number of bytes and set of   *)
(* closing threads: the ring of ByteChannel keeps its type, delivers the   *)
(* published bytes in order, never overwrites an unread byte, and          *)
(* implements ByteStream.                                                  *)
(*                                                                         *)
(* The argument: each thread works on a stale copy of the other's cursor,  *)
(* and staleness is harmless because the other thread can only enlarge     *)
(* what the copy promised.  RingInv says so with numbers: the run that the *)
(* reader saw is at most the unread bytes, the run that the writer saw is  *)
(* at most the free bytes, and the buffer holds the unread bytes in order. *)
(***************************************************************************)
EXTENDS ByteChannel, SequenceTheorems, TLAPS

Contents ==
  /\ \A i \in 1..Len(received) : received[i] = i
  /\ Len(received) + Unread = sent
  /\ \A k \in 0..(Unread - 1) :
       data[Position(readOffset, k)] = Len(received) + k + 1

ReaderInv ==
  /\ rpc = "consume" =>
       /\ rWrite # readOffset
       /\ readableBytes(readOffset, rWrite) <= Unread
  /\ rpc = "advance" =>
       /\ Len(rOutput) \in 1..Unread
       /\ readOffset + Len(rOutput) <= Capacity
       /\ \A i \in 1..Len(rOutput) : rOutput[i] = Len(received) + i

WriterInv ==
  /\ wpc \in {"healthy", "writable", "load", "copy", "advance",
              "wait", "asleep", "polling"} => wLeft >= 1
  /\ wpc = "copy" =>
       /\ writableBytes(wRead, writeOffset) >= 1
       /\ writableBytes(wRead, writeOffset) <= Capacity - 1 - Unread
  /\ wpc = "advance" =>
       /\ wCount >= 1 /\ wCount <= wLeft
       /\ wCount <= Capacity - 1 - Unread
       /\ writeOffset + wCount <= Capacity
       /\ \A i \in 0..(wCount - 1) : data[writeOffset + i] = sent + 1 + i

RingInv == TypeOK /\ Contents /\ ReaderInv /\ WriterInv

\* What Math.min returns: one of its arguments, and no more than any.
LEMMA MinTwo ==
  ASSUME NEW a \in Nat, NEW b \in Nat
  PROVE  /\ Min({a, b}) \in {a, b}
         /\ Min({a, b}) <= a /\ Min({a, b}) <= b
<1>1. \E x \in {a, b} : \A y \in {a, b} : x =< y
  OBVIOUS
<1> QED
  BY <1>1, Zenon DEF Min

\* The same for the three arguments of produce().
LEMMA MinThree ==
  ASSUME NEW a \in Nat, NEW b \in Nat, NEW c \in Nat
  PROVE  /\ Min({a, b, c}) \in {a, b, c}
         /\ Min({a, b, c}) <= a /\ Min({a, b, c}) <= b /\ Min({a, b, c}) <= c
<1>1. \E x \in {a, b, c} : \A y \in {a, b, c} : x =< y
  OBVIOUS
<1> QED
  BY <1>1, Zenon DEF Min

\* A cursor advanced by at most the rest of the buffer wraps only at its end.
LEMMA Wrap ==
  ASSUME NEW x \in 0..Capacity
  PROVE  x % Capacity = IF x = Capacity THEN 0 ELSE x
BY CapacityAssumption

\* What fits in the free bytes still fits when fewer bytes are unread.
LEMMA MoreFree ==
  ASSUME NEW c \in Int, NEW u \in Int, NEW v \in Int, v <= u,
         NEW x \in Int, x <= c - 1 - u
  PROVE  x <= c - 1 - v
OBVIOUS

\* A fresh channel, with zeroed control words, satisfies the invariant.
LEMMA InitRing == Init => RingInv
<1> SUFFICES ASSUME Init PROVE RingInv
  OBVIOUS
<1> USE CapacityAssumption DEF Init
<1>1. TypeOK
  BY DEF TypeOK, Index
<1>2. Contents
  BY DEF Contents, Unread, Position
<1> QED
  BY <1>1, <1>2, Zenon DEF RingInv, ReaderInv, WriterInv

-----------------------------------------------------------------------------
\* Every step of the reading thread keeps the ring's invariant.
LEMMA ReaderRing == ASSUME RingInv, Reader PROVE RingInv'
<1> USE CapacityAssumption, ReadSizesAssumption DEF RingInv
<1>1. CASE ReadCall
  BY <1>1 DEF ReadCall, writerVars, TypeOK, Contents, ReaderInv, WriterInv,
              Unread, Position, Index
<1>2. CASE ReadHealthy
  BY <1>2, Zenon DEF ReadHealthy, readerVars, writerVars, TypeOK, Contents, ReaderInv,
     WriterInv, Unread, Position, Index
<1>3. CASE ReadLoad
  BY <1>3 DEF ReadLoad, writerVars, TypeOK, Contents, ReaderInv, WriterInv,
              Unread, Position, Index, readableBytes
<1>4. CASE ReadSlice
  <2> DEFINE count == Min({readableBytes(readOffset, rWrite), rMax})
  <2>1. /\ readableBytes(readOffset, rWrite) \in Nat \ {0}
        /\ readOffset + readableBytes(readOffset, rWrite) <= Capacity
    BY <1>4 DEF ReadSlice, TypeOK, ReaderInv, readableBytes, Index
  <2>2. /\ count \in 1..Unread
        /\ readOffset + count <= Capacity
    <3> HIDE DEF count
    <3>1. /\ count \in {readableBytes(readOffset, rWrite), rMax}
          /\ count <= readableBytes(readOffset, rWrite)
      BY <2>1, MinTwo, Zenon DEF TypeOK, count
    <3>2. /\ rMax \in Nat \ {0}
          /\ readOffset \in Nat /\ Unread \in Nat
      BY <1>4 DEF ReadSlice, TypeOK, Unread, Index
    <3>3. readableBytes(readOffset, rWrite) <= Unread
      BY <1>4, Zenon DEF ReadSlice, ReaderInv
    <3> HIDE DEF RingInv
    <3> QED
      BY <2>1, <3>1, <3>2, <3>3
  <2> HIDE DEF count
  <2>3. rOutput' = [i \in 1..count |-> data[readOffset + i - 1]]
    BY <1>4, Zenon DEF ReadSlice, count
  <2>4. \A i \in 1..count : /\ readOffset + i - 1 \in Index
                            /\ data[readOffset + i - 1] = Len(received) + i
    <3> SUFFICES ASSUME NEW i \in 1..count
                 PROVE  /\ readOffset + i - 1 \in Index
                        /\ data[readOffset + i - 1] = Len(received) + i
      OBVIOUS
    <3>1. i - 1 \in 0..(Unread - 1) /\ Position(readOffset, i - 1) = readOffset + i - 1
      BY <2>2 DEF TypeOK, Position, Unread, Index
    <3>2. Len(received) \in Nat
      BY DEF TypeOK
    <3>3. data[Position(readOffset, i - 1)] = Len(received) + (i - 1) + 1
      BY <3>1, Zenon DEF Contents
    <3>4. readOffset + i - 1 \in Index
      BY <2>2 DEF TypeOK, Index
    <3> QED
      BY <3>1, <3>2, <3>3, <3>4
  <2>5. rOutput' \in Seq(Nat) /\ Len(rOutput') = count
    <3>1. count \in Nat
      BY <2>2
    <3>2. \A i \in 1..count : data[readOffset + i - 1] \in Nat
      BY <2>4, Zenon DEF TypeOK
    <3> QED
      BY <2>3, <3>1, <3>2, IsASeq
  <2>6. TypeOK'
    BY <1>4, <2>5, Zenon DEF ReadSlice, TypeOK, writerVars, Index
  <2>7. ReaderInv'
    BY <1>4, <2>2, <2>3, <2>4, <2>5, Zenon
    DEF ReadSlice, ReaderInv, Unread
  <2> QED
    BY <1>4, <2>6, <2>7, Zenon
    DEF ReadSlice, writerVars, Contents, WriterInv, Unread, Position
<1>5. CASE ReadAdvance
  <2> DEFINE n == Len(rOutput)
  <2>1. /\ n \in 1..Unread /\ readOffset + n <= Capacity
        /\ \A i \in 1..n : rOutput[i] = Len(received) + i
    BY <1>5, Zenon DEF ReadAdvance, ReaderInv
  <2>2. /\ readOffset \in 0..(Capacity - 1) /\ writeOffset \in 0..(Capacity - 1)
        /\ n \in Nat /\ Len(received) \in Nat /\ sent \in Nat
        /\ Unread \in 0..(Capacity - 1)
    BY DEF TypeOK, Index, Unread
  <2>3. writeOffset' = writeOffset /\ data' = data /\ sent' = sent
    BY <1>5, Zenon DEF ReadAdvance
  <2>4. received' \in Seq(Nat) /\ Len(received') = Len(received) + n
    BY <1>5, ConcatProperties DEF ReadAdvance, TypeOK
  <2>5. \A i \in 1..Len(received') : received'[i] = i
    BY <1>5, <2>1, <2>4, ConcatProperties DEF ReadAdvance, TypeOK, Contents
  <2> HIDE DEF n
  <2>6. readOffset' = IF readOffset + n = Capacity THEN 0 ELSE readOffset + n
    <3>1. readOffset + n \in 0..Capacity
      BY <2>1, <2>2
    <3> QED
      BY <1>5, <3>1, Wrap, Zenon DEF ReadAdvance, n
  <2>7. Unread' = Unread - n
    BY <2>1, <2>2, <2>3, <2>6 DEF Unread
  <2>8. TypeOK'
    <3>1. readOffset' \in Index
      BY <2>1, <2>2, <2>6 DEF Index
    <3> QED
      BY <1>5, <2>4, <3>1, Zenon
      DEF ReadAdvance, TypeOK, readerVars, writerVars, Index
  <2>9. \A k \in 0..(Unread' - 1) :
          data'[Position(readOffset', k)] = Len(received') + k + 1
    <3> SUFFICES ASSUME NEW k \in 0..(Unread' - 1)
                 PROVE  data'[Position(readOffset', k)] = Len(received') + k + 1
      OBVIOUS
    <3>1. n + k \in 0..(Unread - 1)
      BY <2>1, <2>2, <2>7
    <3>2. Position(readOffset', k) = Position(readOffset, n + k)
      BY <2>1, <2>2, <2>6, <2>7, <3>1 DEF Position
    <3>3. data[Position(readOffset, n + k)] = Len(received) + (n + k) + 1
      BY <3>1, Zenon DEF Contents
    <3> QED
      BY <2>2, <2>3, <2>4, <2>7, <3>2, <3>3
  <2>10. Contents'
    <3>1. Len(received) + Unread = sent
      BY Zenon DEF Contents
    <3>2. Len(received') + Unread' = sent'
      BY <2>1, <2>2, <2>3, <2>4, <2>7, <3>1
    <3> QED
      BY <2>5, <2>9, <3>2, Zenon DEF Contents, Position
  <2>11. WriterInv'
    <3>1. Unread \in Int /\ Unread' \in Int /\ Unread' <= Unread /\ Capacity \in Int
      BY <2>1, <2>2, <2>7
    <3>2. /\ wpc' = wpc /\ wRead' = wRead /\ wLeft' = wLeft /\ wCount' = wCount
          /\ writableBytes(wRead, writeOffset)' = writableBytes(wRead, writeOffset)
      BY <1>5, <2>3, Zenon DEF ReadAdvance, writerVars, writableBytes
    <3>3. writableBytes(wRead, writeOffset) \in Int /\ wCount \in Nat
      BY <2>2 DEF TypeOK, Index, writableBytes
    <3>4. \A x \in Int : x <= Capacity - 1 - Unread => x <= Capacity - 1 - Unread'
      BY <3>1, MoreFree, Zenon
    <3> QED
      BY <2>3, <3>2, <3>3, <3>4 DEF WriterInv
  <2> QED
    BY <1>5, <2>8, <2>10, <2>11, Zenon DEF ReadAdvance, ReaderInv
<1>6. CASE ReadNotify
  BY <1>6, Zenon DEF ReadNotify, NotifyWriter, readerVars, writerVars, TypeOK, Contents,
     ReaderInv, WriterInv, Unread, Position, Index
<1>7. CASE ReadClosed
  BY <1>7, Zenon DEF ReadClosed, readerVars, writerVars, TypeOK, Contents, ReaderInv,
     WriterInv, Unread, Position, Index
<1>8. CASE ReadWait
  BY <1>8, CloseAssumption DEF ReadWait, readerVars, writerVars, TypeOK, Contents,
              ReaderInv, WriterInv, Unread, Position, Index
<1>9. CASE ReadTimer
  BY <1>9, Zenon DEF ReadTimer, readerVars, writerVars, TypeOK, Contents, ReaderInv,
     WriterInv, Unread, Position, Index
<1> QED
  BY <1>1, <1>2, <1>3, <1>4, <1>5, <1>6, <1>7, <1>8, <1>9, Zenon DEF Reader

-----------------------------------------------------------------------------
\* Every step of the writing thread keeps the ring's invariant.
LEMMA WriterRing == ASSUME RingInv, WriteCall \/ WriteStep PROVE RingInv'
<1> USE CapacityAssumption, ChunkAssumption, TotalAssumption DEF RingInv
<1>1. CASE WriteCall
  BY <1>1 DEF WriteCall, readerVars, TypeOK, Contents, ReaderInv, WriterInv,
              Unread, Position, Index
<1>2. CASE WriteHealthy
  BY <1>2 DEF WriteHealthy, readerVars, writerVars, TypeOK, Contents,
              ReaderInv, WriterInv, Unread, Position, Index
<1>3. CASE WriteWritable
  BY <1>3, Zenon DEF WriteWritable, readerVars, writerVars, TypeOK, Contents, ReaderInv,
     WriterInv, Unread, Position, Index
<1>4. CASE WriteLoad
  <2>1. /\ readOffset \in 0..(Capacity - 1) /\ writeOffset \in 0..(Capacity - 1)
    BY Zenon DEF TypeOK, Index
  <2>2. /\ writableBytes(readOffset, writeOffset) \in Nat
        /\ writableBytes(readOffset, writeOffset) <= Capacity - 1 - Unread
    BY <2>1 DEF writableBytes, Unread
  <2>3. TypeOK' /\ Contents' /\ ReaderInv' /\ Unread' = Unread
    BY <1>4, Zenon DEF WriteLoad, readerVars, TypeOK, Contents, ReaderInv, Unread,
       Position, Index
  <2>4. writableBytes(wRead, writeOffset)' = writableBytes(readOffset, writeOffset)
    BY <1>4, Zenon DEF WriteLoad, writableBytes
  <2>5. WriterInv'
    BY <1>4, <2>2, <2>3, <2>4 DEF WriteLoad, WriterInv
  <2> QED
    BY <2>3, <2>5, Zenon
<1>5. CASE WriteCopy
  <2> DEFINE space == writableBytes(wRead, writeOffset)
  <2>1. /\ readOffset \in 0..(Capacity - 1) /\ writeOffset \in 0..(Capacity - 1)
        /\ wRead \in 0..(Capacity - 1) /\ sent \in Nat
        /\ wLeft \in Nat /\ wLeft >= 1 /\ Unread \in 0..(Capacity - 1)
    BY <1>5 DEF WriteCopy, TypeOK, Index, Unread, WriterInv
  <2>2. /\ space \in Nat /\ space >= 1 /\ space <= Capacity - 1 - Unread
        /\ writeOffset + space <= Capacity
    BY <1>5, <2>1 DEF WriteCopy, WriterInv, writableBytes
  <2> HIDE DEF space
  <2>3. PICK n \in Nat : n = wCount' /\ n >= 1 /\ n <= wLeft /\ n <= space
    <3> DEFINE m == Min({space, wLeft, ChunkBytes})
    <3>1. m \in {space, wLeft, ChunkBytes} /\ m <= space /\ m <= wLeft
      BY <2>1, <2>2, MinThree, Zenon
    <3>2. m = wCount'
      BY <1>5, Zenon DEF WriteCopy, space
    <3> HIDE DEF m
    <3>3. m \in Nat /\ m >= 1
      BY <2>1, <2>2, <3>1
    <3> QED
      BY <3>1, <3>2, <3>3, Zenon
  <2>4. n \in Nat /\ n >= 1 /\ n <= wLeft /\ n <= space
    BY <2>3, Zenon
  <2>5. n <= Capacity - 1 - Unread /\ writeOffset + n <= Capacity
    BY <2>1, <2>2, <2>4
  <2>6. data' = [i \in Index |->
                  IF i \in writeOffset..(writeOffset + n - 1)
                  THEN sent + 1 + i - writeOffset ELSE data[i]]
    BY <1>5, <2>3, Zenon DEF WriteCopy
  <2>7. \A i \in 0..(n - 1) : data'[writeOffset + i] = sent + 1 + i
    <3> SUFFICES ASSUME NEW i \in 0..(n - 1)
                 PROVE  data'[writeOffset + i] = sent + 1 + i
      OBVIOUS
    <3>1. /\ writeOffset + i \in Index
          /\ writeOffset + i \in writeOffset..(writeOffset + n - 1)
      BY <2>1, <2>4, <2>5 DEF Index
    <3>2. data'[writeOffset + i] = sent + 1 + (writeOffset + i) - writeOffset
      BY <2>6, <3>1, Zenon
    <3> QED
      BY <2>1, <3>2
  <2>8. \A k \in 0..(Unread - 1) :
          data'[Position(readOffset, k)] = data[Position(readOffset, k)]
    <3> SUFFICES ASSUME NEW k \in 0..(Unread - 1)
                 PROVE  data'[Position(readOffset, k)] = data[Position(readOffset, k)]
      OBVIOUS
    <3>1. /\ Position(readOffset, k) \in Index
          /\ Position(readOffset, k) \notin writeOffset..(writeOffset + n - 1)
      BY <2>1, <2>4, <2>5 DEF Position, Index, Unread
    <3> QED
      BY <2>6, <3>1, Zenon
  <2>9. Contents'
    BY <1>5, <2>8, ZenonT(30) DEF WriteCopy, Contents, Unread, Position
  <2>10. TypeOK'
    <3>1. data' \in [Index -> Nat]
      <4> SUFFICES ASSUME NEW i \in Index
                   PROVE  (IF i \in writeOffset..(writeOffset + n - 1)
                           THEN sent + 1 + i - writeOffset ELSE data[i]) \in Nat
        BY <2>6, Zenon
      <4>1. i \in Int /\ data[i] \in Nat
        BY DEF TypeOK, Index
      <4> QED
        BY <2>1, <2>4, <4>1
    <3>2. wCount' \in Nat
      BY <2>3, Zenon
    <3> QED
      BY <1>5, <3>1, <3>2, Zenon DEF WriteCopy, TypeOK, readerVars, Index
  <2>11. ReaderInv'
    BY <1>5, Zenon DEF WriteCopy, ReaderInv, readerVars, readableBytes, Unread
  <2>12. WriterInv'
    <3>1. Unread' = Unread /\ writeOffset' = writeOffset /\ wLeft' = wLeft
          /\ sent' = sent /\ wpc' = "advance"
      BY <1>5, Zenon DEF WriteCopy, Unread
    <3>2. /\ wLeft' >= 1 /\ wCount' >= 1 /\ wCount' <= wLeft'
          /\ wCount' <= Capacity - 1 - Unread'
          /\ writeOffset' + wCount' <= Capacity
          /\ \A i \in 0..(wCount' - 1) : data'[writeOffset' + i] = sent' + 1 + i
      BY <2>1, <2>3, <2>4, <2>5, <2>7, <3>1, Zenon
    <3> QED
      BY <3>1, <3>2, Zenon DEF WriterInv
  <2> QED
    BY <2>9, <2>10, <2>11, <2>12, Zenon
<1>6. CASE WriteAdvance
  <2>1. /\ readOffset \in 0..(Capacity - 1) /\ writeOffset \in 0..(Capacity - 1)
        /\ wCount \in Nat /\ wLeft \in Nat /\ sent \in Nat /\ Len(received) \in Nat
        /\ Unread \in 0..(Capacity - 1)
    BY DEF TypeOK, Index, Unread
  <2>2. /\ wCount >= 1 /\ wCount <= wLeft /\ wCount <= Capacity - 1 - Unread
        /\ writeOffset + wCount <= Capacity
        /\ \A i \in 0..(wCount - 1) : data[writeOffset + i] = sent + 1 + i
    BY <1>6, Zenon DEF WriteAdvance, WriterInv
  <2>3. /\ readOffset' = readOffset /\ data' = data /\ received' = received
        /\ sent' = sent + wCount /\ wLeft' = wLeft - wCount
    BY <1>6, Zenon DEF WriteAdvance
  <2>4. writeOffset' = IF writeOffset + wCount = Capacity THEN 0
                       ELSE writeOffset + wCount
    <3>1. writeOffset + wCount \in 0..Capacity
      BY <2>1, <2>2
    <3> QED
      BY <1>6, <3>1, Wrap, Zenon DEF WriteAdvance
  <2>5. Unread' = Unread + wCount
    BY <2>1, <2>2, <2>3, <2>4 DEF Unread
  <2>6. TypeOK'
    <3>1. writeOffset' \in Index /\ sent' \in Nat /\ wLeft' \in Nat
      BY <2>1, <2>2, <2>3, <2>4 DEF Index
    <3> QED
      BY <1>6, <3>1, Zenon DEF WriteAdvance, TypeOK, readerVars, Index
  <2>7. Contents'
    <3>0. Len(received) + Unread = sent
      BY Zenon DEF Contents
    <3>1. Len(received') + Unread' = sent'
      BY <2>1, <2>3, <2>5, <3>0
    <3>2. ASSUME NEW k \in 0..(Unread' - 1)
          PROVE  data[Position(readOffset, k)] = Len(received) + k + 1
      <4>1. CASE k < Unread
        <5>1. k \in 0..(Unread - 1)
          BY <2>1, <4>1
        <5> QED
          BY <5>1, Zenon DEF Contents
      <4>2. CASE k >= Unread
        <5>1. k - Unread \in 0..(wCount - 1)
          BY <2>1, <2>5, <4>2
        <5>2. Position(readOffset, k) = writeOffset + (k - Unread)
          BY <2>1, <2>2, <4>2, <5>1 DEF Position, Unread
        <5>3. data[writeOffset + (k - Unread)] = sent + 1 + (k - Unread)
          BY <2>2, <5>1, Zenon
        <5> QED
          BY <2>1, <3>0, <5>2, <5>3
      <4> QED
        BY <2>1, <2>5, <4>1, <4>2
    <3> QED
      BY <2>3, <3>1, <3>2, Zenon DEF Contents, Position
  <2>8. ReaderInv'
    <3>1. /\ rpc' = rpc /\ rWrite' = rWrite /\ rOutput' = rOutput
      BY <1>6, Zenon DEF WriteAdvance, readerVars
    <3>2. /\ Unread \in Int /\ Unread' \in Int /\ Unread <= Unread'
          /\ readableBytes(readOffset, rWrite) \in Int
          /\ Len(rOutput) \in Int
      BY <2>1, <2>5 DEF TypeOK, Index, readableBytes
    <3>3. readableBytes(readOffset, rWrite) <= Unread
            => readableBytes(readOffset, rWrite) <= Unread'
      BY <3>2
    <3>4. Len(rOutput) \in 1..Unread => Len(rOutput) \in 1..Unread'
      BY <3>2
    <3> QED
      BY <2>3, <3>1, <3>3, <3>4, Zenon DEF ReaderInv, readableBytes
  <2> QED
    BY <1>6, <2>6, <2>7, <2>8, Zenon DEF WriteAdvance, WriterInv
<1>7. CASE WriteNotify
  BY <1>7 DEF WriteNotify, NotifyReader, readerVars, writerVars, TypeOK,
              Contents, ReaderInv, WriterInv, Unread, Position, Index
<1>8. CASE WriteWait
  BY <1>8, CloseAssumption, Zenon DEF WriteWait, readerVars, writerVars, TypeOK, Contents,
     ReaderInv, WriterInv, Unread, Position, Index
<1>9. CASE WriteTimer
  BY <1>9, Zenon DEF WriteTimer, readerVars, writerVars, TypeOK, Contents, ReaderInv,
     WriterInv, Unread, Position, Index
<1> QED
  BY <1>1, <1>2, <1>3, <1>4, <1>5, <1>6, <1>7, <1>8, <1>9, Zenon DEF WriteStep

-----------------------------------------------------------------------------
\* Closing and failing touch neither the cursors nor the buffer.
LEMMA CloserRing ==
  ASSUME RingInv, NEW c \in Closers, CloseCall(c) \/ CloseStep(c)
  PROVE  RingInv'
<1> USE DEF RingInv
<1>1. UNCHANGED <<readOffset, writeOffset, data, rWrite, rMax, rOutput,
                  wRead, wLeft, wCount, sent, received>>
  BY Zenon DEF CloseCall, CloseStep, StoreFailed, StoreClosed, CloseNotifyRead,
     CloseNotifyWrite, readerVars, writerVars
<1>2. /\ rpc' = rpc \/ (rpc = "asleep" /\ rpc' = "healthy")
      /\ \/ wpc' = wpc
         \/ wpc = "asleep" /\ wpc' = "healthy"
         \/ wpc = "idle" /\ wpc' = "finished"
  BY Zenon DEF CloseCall, CloseStep, StoreFailed, StoreClosed, CloseNotifyRead,
     CloseNotifyWrite, NotifyReader, NotifyWriter
<1>3. /\ closed' \in BOOLEAN /\ failed' \in BOOLEAN
      /\ cpc' \in [Closers -> {"ready", "storeFailed", "storeClosed",
                               "notifyRead", "notifyWrite", "done"}]
  BY Zenon DEF TypeOK, CloseCall, CloseStep, StoreFailed, StoreClosed, CloseNotifyRead,
     CloseNotifyWrite
<1>4. TypeOK'
  BY <1>1, <1>2, <1>3, Zenon DEF TypeOK, Index
<1>5. Contents' /\ Unread' = Unread
  BY <1>1, Zenon DEF Contents, Unread, Position
<1> QED
  BY <1>1, <1>2, <1>4, <1>5, Zenon
  DEF ReaderInv, WriterInv, readableBytes, writableBytes

\* A step of another part of the program leaves the invariant alone.
LEMMA StutterRing == ASSUME RingInv, UNCHANGED vars PROVE RingInv'
BY DEF RingInv, vars, TypeOK, Contents, ReaderInv, WriterInv, Unread, Position,
       Index, readableBytes, writableBytes

\* The strengthening of the channel's invariants is inductive.
THEOREM RingInvariant == Spec => []RingInv
<1>1. RingInv /\ [Next]_vars => RingInv'
  BY ReaderRing, WriterRing, CloserRing, StutterRing, Zenon DEF Next
<1> QED
  BY <1>1, InitRing, PTL DEF Spec

\* Every variable of the channel keeps its type: in particular both cursors
\* stay indices of the buffer when they wrap.
THEOREM ChannelTypes == Spec => []TypeOK
<1>1. RingInv => TypeOK
  BY Zenon DEF RingInv
<1> QED
  BY <1>1, RingInvariant, PTL

\* Reads return the published bytes in order, none lost, repeated or torn.
THEOREM ChannelDelivers == Spec => []DeliveredInOrder
<1>1. RingInv => DeliveredInOrder
  BY Zenon DEF RingInv, Contents, DeliveredInOrder
<1> QED
  BY <1>1, RingInvariant, PTL

\* produce() never copies over a byte that the consumer has not taken.
THEOREM ChannelNeverOverwrites == Spec => []NoOverwrite
<1>1. ASSUME RingInv PROVE NoOverwrite
  <2> USE CapacityAssumption, <1>1 DEF RingInv
  <2> DEFINE space == writableBytes(wRead, writeOffset)
  <2> SUFFICES ASSUME wpc = "copy",
                      NEW i \in writeOffset..(writeOffset + space - 1)
               PROVE  i \in Index /\ i \notin UnreadIndex
    BY Zenon DEF NoOverwrite
  <2>1. /\ readOffset \in 0..(Capacity - 1) /\ writeOffset \in 0..(Capacity - 1)
        /\ wRead \in 0..(Capacity - 1) /\ Unread \in 0..(Capacity - 1)
    BY DEF TypeOK, Index, Unread
  <2>2. /\ space \in Nat /\ space <= Capacity - 1 - Unread
        /\ writeOffset + space <= Capacity
    BY <2>1 DEF WriterInv, writableBytes
  <2> HIDE DEF space
  <2>3. i \in Index
    BY <2>1, <2>2 DEF Index
  <2>4. \A k \in 0..(Unread - 1) : i # Position(readOffset, k)
    BY <2>1, <2>2 DEF Position, Unread
  <2> QED
    BY <2>3, <2>4, Zenon DEF UnreadIndex
<1> QED
  BY <1>1, RingInvariant, PTL

\* The ring of cursors, flags and buffer implements the bounded byte stream.
THEOREM ChannelImplementsStream == Spec => ImplementsStream
<1>1. Init => Stream!Init
  BY Zenon DEF Init, Stream!Init
<1>2. ASSUME RingInv, RingInv', [Next]_vars
      PROVE  [Stream!Next]_(Stream!streamVars)
  <2>0. TypeOK /\ Contents /\ ReaderInv /\ WriterInv
    BY <1>2, Zenon DEF RingInv
  <2>1. CASE ReadAdvance
    <3> DEFINE n == Len(rOutput)
    <3>1. /\ n \in 1..Unread /\ Len(received) + Unread = sent
          /\ \A i \in 1..n : rOutput[i] = Len(received) + i
      BY <2>0, <2>1, Zenon DEF ReadAdvance, ReaderInv, Contents
    <3>2. /\ n \in Nat /\ Len(received) \in Nat /\ Unread \in Nat /\ sent \in Nat
      BY <2>0, CapacityAssumption DEF TypeOK, Unread, Index
    <3>3. rOutput = [i \in 1..n |-> Len(received) + i]
      <4>1. rOutput \in [1..n -> Nat]
        BY <2>0, LenProperties, Zenon DEF TypeOK
      <4> QED
        BY <3>1, <4>1, Zenon
    <3> HIDE DEF n
    <3>4. n \in 1..(sent - Len(received))
      BY <3>1, <3>2
    <3>5. received' = received \o rOutput /\ UNCHANGED sent
      BY <2>1, Zenon DEF ReadAdvance
    <3>6. Stream!Deliver
      BY <3>3, <3>4, <3>5, Zenon DEF Stream!Deliver
    <3> QED
      BY <3>6, Zenon DEF Stream!Next
  <2>2. CASE WriteAdvance
    <3>1. /\ wCount \in Nat /\ wCount >= 1 /\ wCount <= Capacity - 1 - Unread
          /\ Unread \in Int /\ sent \in Nat /\ Len(received) \in Nat
          /\ Len(received) + Unread = sent
      BY <2>0, <2>2, CapacityAssumption
      DEF WriteAdvance, WriterInv, TypeOK, Index, Unread, Contents
    <3>2. sent' = sent + wCount /\ received' = received
      BY <2>2, Zenon DEF WriteAdvance
    <3>3. wCount \in 1..(Capacity - 1 - (sent - Len(received)))
      BY <3>1, CapacityAssumption
    <3>4. Stream!Publish
      BY <3>2, <3>3, Zenon DEF Stream!Publish
    <3> QED
      BY <3>4, Zenon DEF Stream!Next
  <2>3. CASE ~ReadAdvance /\ ~WriteAdvance
    <3>1. UNCHANGED <<sent, received>>
      BY <1>2, <2>3, Zenon
      DEF Next, Reader, WriteStep, CloseStep, vars, ReadCall, ReadHealthy,
          ReadLoad, ReadSlice, ReadNotify, ReadClosed, ReadWait, ReadTimer,
          WriteCall, WriteHealthy, WriteWritable, WriteLoad, WriteCopy,
          WriteNotify, WriteWait, WriteTimer, CloseCall, StoreFailed,
          StoreClosed, CloseNotifyRead, CloseNotifyWrite
    <3> QED
      BY <3>1, Zenon DEF Stream!streamVars
  <2> QED
    BY <2>1, <2>2, <2>3, Zenon
<1> QED
  BY <1>1, <1>2, RingInvariant, PTL DEF Spec, ImplementsStream, Stream!Spec
=============================================================================
