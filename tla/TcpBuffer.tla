----------------------------- MODULE TcpBuffer -----------------------------
(***************************************************************************)
(* TcpBuffer (net/tcp/tcp_buffer.cc): a vector of bytes with a read and a  *)
(* write index.  Bytes between the two are unread.  The buffer grows when  *)
(* a write does not fit, and moves its unread bytes to the front whenever  *)
(* the read index has passed a third of it.                                *)
(*                                                                         *)
(* A buffer is a record: data is m_buffer (its length is the capacity), r  *)
(* m_read_index, w m_write_index.  One thread uses a buffer, so each       *)
(* method is one step.                                                     *)
(***************************************************************************)
EXTENDS Integers, Sequences

CONSTANTS
  Byte,       \* the values of a byte
  Zero,       \* the one a vector is filled with
  Chunks,     \* the runs of bytes that are written or arrive
  InitSize,   \* the capacity a connection gives its buffers
  MaxUnread   \* bound: nothing is put in beyond so many unread bytes

ASSUME TcpBufferAssumption ==
  /\ Zero \in Byte
  /\ Chunks \subseteq Seq(Byte)
  /\ InitSize \in Nat \ {0}
  /\ MaxUnread \in Nat

VARIABLE b

Buffer == [data : Seq(Byte), r : Nat, w : Nat]

\* Element i of m_buffer is data[i + 1].
Capacity(x) == Len(x.data)
readAble(x) == x.w - x.r
writeAble(x) == Capacity(x) - x.w

\* The unread bytes, in order.
Contents(x) == [i \in 1..readAble(x) |-> x.data[x.r + i]]

\* Faulty: the bytes are copied from the start of the vector.
resizeFromStart(x, size) ==
  LET count == IF size < readAble(x) THEN size ELSE readAble(x)
  IN [data |-> [i \in 1..size |-> IF i <= count THEN x.data[i] ELSE Zero],
      r |-> 0, w |-> count]

\* resizeBuffer: a new vector with as many unread bytes as fit, in front.
resizeBuffer(x, size) ==
  LET count == IF size < readAble(x) THEN size ELSE readAble(x)
  IN [data |-> [i \in 1..size |-> IF i <= count THEN x.data[x.r + i] ELSE Zero],
      r |-> 0, w |-> count]

\* adjustBuffer: once a third is read, do the same at the size it has.
adjustBuffer(x) ==
  IF x.r < Capacity(x) \div 3 THEN x ELSE resizeBuffer(x, Capacity(x))

\* memcpy to the write index.
Store(x, d) ==
  [i \in 1..Capacity(x) |->
     IF i \in (x.w + 1)..(x.w + Len(d)) THEN d[i - x.w] ELSE x.data[i]]

\* Faulty: twice the growth.
MakeRoomTwice(x, size) ==
  IF size > writeAble(x) THEN resizeBuffer(x, 3 * (x.w + size)) ELSE x

\* Room for size more bytes: int(1.5 * (m_write_index + size)).
MakeRoom(x, size) ==
  IF size > writeAble(x) THEN resizeBuffer(x, (3 * (x.w + size)) \div 2) ELSE x

writeToBuffer(x, d) ==
  LET y == MakeRoom(x, Len(d))
  IN [data |-> Store(y, d), r |-> y.r, w |-> y.w + Len(d)]

readFromBuffer(x, size) ==
  IF readAble(x) = 0 THEN x
  ELSE adjustBuffer([x EXCEPT !.r = @ + (IF readAble(x) > size THEN size
                                         ELSE readAble(x))])

\* Faulty: the buffer is not adjusted.
moveReadIndexOnly(x, size) ==
  IF size < 0 \/ x.r + size > x.w THEN x ELSE [x EXCEPT !.r = @ + size]

moveReadIndex(x, size) ==
  IF size < 0 \/ x.r + size > x.w THEN x
  ELSE adjustBuffer([x EXCEPT !.r = @ + size])

\* Faulty: one byte too many is let through.
moveWriteIndexTooFar(x, size) ==
  IF size < 0 \/ size > writeAble(x) + 1 THEN x
  ELSE adjustBuffer([x EXCEPT !.w = @ + size])

moveWriteIndex(x, size) ==
  IF size < 0 \/ size > writeAble(x) THEN x
  ELSE adjustBuffer([x EXCEPT !.w = @ + size])

(***************************************************************************)
(* What a connection does with its buffers                                 *)
(***************************************************************************)
BufferInit == b = [data |-> [i \in 1..InitSize |-> Zero], r |-> 0, w |-> 0]

\* encode() appends a package.
Write(d) ==
  /\ readAble(b) + Len(d) <= MaxUnread
  /\ b' = writeToBuffer(b, d)

Read(size) == b' = readFromBuffer(b, size)

\* decode() and onWrite() consume bytes; a size that is out of range is
\* refused.
Skip(size) == b' = moveReadIndex(b, size)

\* onRead() doubles a buffer with no room left ...
Grow ==
  /\ writeAble(b) = 0
  /\ b' = resizeBuffer(b, 2 * Capacity(b))

\* ... and lets read(2) put bytes behind the write index, then counts them.
Receive(d) ==
  /\ readAble(b) + Len(d) <= MaxUnread
  /\ Len(d) <= writeAble(b)
  /\ b' = moveWriteIndex([b EXCEPT !.data = Store(b, d)], Len(d))

\* Counting more than there is room for is refused.
Overrun(size) ==
  /\ size \notin 0..writeAble(b)
  /\ b' = moveWriteIndex(b, size)

Sizes == -1..(MaxUnread + 1)

BufferNext ==
  \/ Grow
  \/ \E d \in Chunks : Write(d) \/ Receive(d)
  \/ \E size \in Sizes : Skip(size) \/ Overrun(size)
  \/ \E size \in 0..(MaxUnread + 1) : Read(size)

BufferSpec == BufferInit /\ [][BufferNext]_b

(***************************************************************************)
(* Properties                                                              *)
(***************************************************************************)

\* docs/known-regressions.md, BUG-TCPBUFFER-001: 0 <= read_index <=
\* write_index <= capacity, after any sequence of calls.
IndexesInRange ==
  /\ b \in Buffer
  /\ 0 <= b.r /\ b.r <= b.w /\ b.w <= Capacity(b)

\* Between calls less than a third of the buffer is bytes already read.
ReadPartIsSmall == b.r = 0 \/ 3 * b.r < Capacity(b)

\* However the reads and writes alternate, the buffer grows only in
\* proportion to what is unread in it: a capacity that has just grown is at
\* most three times the unread bytes.
GrowthIsProportional ==
  [][Capacity(b') > Capacity(b) => Capacity(b') <= 3 * readAble(b')]_b

Fifo == INSTANCE ByteQueue WITH queue <- Contents(b)

\* A TcpBuffer is a FIFO queue of bytes: growing and moving bytes to the
\* front loses, repeats and reorders none.
IsFifo == Fifo!Spec
=============================================================================
