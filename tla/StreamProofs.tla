---------------------------- MODULE StreamProofs ----------------------------
(***************************************************************************)
(* Theorems about what a TcpConnection reads its messages with.            *)
(*                                                                         *)
(* TcpBuffer, for every byte set, chunk set and initial capacity: the      *)
(* indexes stay in range, growth is proportional to the unread bytes, and  *)
(* the buffer is a FIFO queue.                                             *)
(*                                                                         *)
(* TinyPBCoder, for every stream of integers, wherever it is cut, and      *)
(* every largest package.                                                  *)
(***************************************************************************)
EXTENDS TcpBuffer, TinyPBCoder, SequenceTheorems, WellFoundedInduction, TLAPS

(***************************************************************************)
(* The buffer                                                              *)
(***************************************************************************)

\* A buffer whose indexes are in range.
WellFormed(x) ==
  /\ x \in Buffer
  /\ x.r <= x.w /\ x.w <= Len(x.data)

\* The inductive invariant: IndexesInRange and ReadPartIsSmall.
BufferInv == WellFormed(b) /\ ReadPartIsSmall

\* The integer quotients that adjustBuffer and writeToBuffer compute.
LEMMA Half ==
  ASSUME NEW v \in Nat
  PROVE  v \div 2 \in Nat /\ 2 * (v \div 2) <= v /\ v <= 2 * (v \div 2) + 1
OBVIOUS

\* The elements of a concatenation.
LEMMA ConcatElements ==
  ASSUME NEW s \in Seq(Byte), NEW d \in Seq(Byte)
  PROVE  s \o d = [i \in 1..(Len(s) + Len(d)) |->
                     IF i <= Len(s) THEN s[i] ELSE d[i - Len(s)]]
<1> DEFINE t == [i \in 1..(Len(s) + Len(d)) |->
                   IF i <= Len(s) THEN s[i] ELSE d[i - Len(s)]]
<1>1. Len(s) \in Nat /\ Len(d) \in Nat
  BY LenProperties
<1>2. t \in [1..(Len(s) + Len(d)) -> Byte]
  BY <1>1, ElementOfSeq
<1>3. t \in Seq(Byte) /\ Len(t) = Len(s) + Len(d)
  BY <1>1, <1>2
<1>4. /\ s \o d \in Seq(Byte) /\ Len(s \o d) = Len(s) + Len(d)
      /\ \A i \in 1..(Len(s) + Len(d)) :
           (s \o d)[i] = IF i <= Len(s) THEN s[i] ELSE d[i - Len(s)]
  BY ConcatProperties
<1>5. \A i \in 1..Len(t) : t[i] = (s \o d)[i]
  BY <1>3, <1>4
<1> HIDE DEF t
<1>6. t = s \o d
  BY <1>3, <1>4, <1>5, SeqEqual
<1> QED BY <1>6 DEF t

\* Making a new vector that holds at least the unread bytes keeps them.
LEMMA ResizeKeeps ==
  ASSUME NEW x, WellFormed(x), NEW size \in Nat, readAble(x) <= size
  PROVE  /\ WellFormed(resizeBuffer(x, size))
         /\ resizeBuffer(x, size).r = 0
         /\ resizeBuffer(x, size).w = readAble(x)
         /\ Capacity(resizeBuffer(x, size)) = size
         /\ Contents(resizeBuffer(x, size)) = Contents(x)
<1> DEFINE y == resizeBuffer(x, size)
           count == readAble(x)
<1>1. count \in Nat /\ count <= size
  BY DEF WellFormed, Buffer, readAble
<1>2. y = [data |-> [i \in 1..size |->
                       IF i <= count THEN x.data[x.r + i] ELSE Zero],
           r |-> 0, w |-> count]
  BY <1>1 DEF resizeBuffer
<1>3. \A i \in 1..count : x.data[x.r + i] \in Byte
  BY DEF WellFormed, Buffer, readAble
<1>4. y.data \in Seq(Byte) /\ Len(y.data) = size
  <2>1. [i \in 1..size |-> IF i <= count THEN x.data[x.r + i] ELSE Zero]
          \in [1..size -> Byte]
    BY <1>1, <1>3, TcpBufferAssumption
  <2>2. y.data \in [1..size -> Byte]
    BY <1>2, <2>1
  <2> QED BY <2>2
<1>5. y.r = 0 /\ y.w = count
  BY <1>2
<1>6. WellFormed(y)
  BY <1>1, <1>2, <1>4, <1>5 DEF WellFormed, Buffer
<1>7. Contents(y) = Contents(x)
  <2>1. \A i \in 1..count : y.data[y.r + i] = x.data[x.r + i]
    BY <1>1, <1>2
  <2> QED BY <1>1, <1>5, <2>1 DEF Contents, readAble
<1> QED BY <1>4, <1>5, <1>6, <1>7 DEF Capacity

\* adjustBuffer keeps the unread bytes and the capacity, and leaves less than
\* a third of the buffer read.
LEMMA AdjustKeeps ==
  ASSUME NEW x, WellFormed(x)
  PROVE  /\ WellFormed(adjustBuffer(x))
         /\ Capacity(adjustBuffer(x)) = Capacity(x)
         /\ readAble(adjustBuffer(x)) = readAble(x)
         /\ Contents(adjustBuffer(x)) = Contents(x)
         /\ adjustBuffer(x).r = 0 \/ 3 * adjustBuffer(x).r < Capacity(x)
<1>1. Capacity(x) \in Nat /\ readAble(x) \in Nat /\ readAble(x) <= Capacity(x)
      /\ x.r \in Nat
  BY DEF WellFormed, Buffer, readAble, Capacity
<1>2. CASE x.r < Capacity(x) \div 3
  BY <1>1, <1>2 DEF adjustBuffer
<1>3. CASE ~(x.r < Capacity(x) \div 3)
  <2>1. adjustBuffer(x) = resizeBuffer(x, Capacity(x))
    BY <1>3 DEF adjustBuffer
  <2>2. readAble(resizeBuffer(x, Capacity(x))) = readAble(x)
    BY <1>1, ResizeKeeps DEF readAble
  <2> QED BY <1>1, <2>1, <2>2, ResizeKeeps
<1> QED BY <1>2, <1>3

\* writeToBuffer appends its bytes, and grows only in proportion.
LEMMA WriteAppends ==
  ASSUME NEW x, WellFormed(x), x.r = 0 \/ 3 * x.r < Capacity(x),
         NEW d \in Seq(Byte)
  PROVE  /\ WellFormed(writeToBuffer(x, d))
         /\ Contents(writeToBuffer(x, d)) = Contents(x) \o d
         /\ LET y == writeToBuffer(x, d)
            IN /\ y.r = 0 \/ 3 * y.r < Capacity(y)
               /\ Capacity(y) > Capacity(x) => Capacity(y) <= 3 * readAble(y)
<1> DEFINE n == Len(d)
           m == MakeRoom(x, n)
           y == writeToBuffer(x, d)
<1>1. /\ n \in Nat /\ x.r \in Nat /\ x.w \in Nat /\ Capacity(x) \in Nat
      /\ x.r <= x.w /\ x.w <= Capacity(x) /\ readAble(x) = x.w - x.r
  BY DEF WellFormed, Buffer, Capacity, readAble
<1>2. /\ WellFormed(m) /\ Contents(m) = Contents(x) /\ n <= writeAble(m)
      /\ readAble(m) = readAble(x)
      /\ m.r = 0 \/ 3 * m.r < Capacity(m)
      /\ Capacity(m) > Capacity(x) => Capacity(m) <= 3 * (readAble(x) + n)
  <2>1. CASE n > writeAble(x)
    <3> DEFINE size == (3 * (x.w + n)) \div 2
    <3>1. /\ size \in Nat /\ readAble(x) + n <= size /\ readAble(x) <= size
          /\ 2 * size <= 3 * (x.w + n)
      <4>1. 3 * (x.w + n) \in Nat
        BY <1>1
      <4>2. size \in Nat /\ 2 * size <= 3 * (x.w + n)
            /\ 3 * (x.w + n) <= 2 * size + 1
        BY <4>1, Half
      <4> HIDE DEF size
      <4> QED BY <1>1, <4>2
    <3>2. m = resizeBuffer(x, size)
      BY <2>1 DEF MakeRoom
    <3> HIDE DEF size
    <3>3. /\ WellFormed(m) /\ Contents(m) = Contents(x) /\ m.r = 0
          /\ m.w = readAble(x) /\ Capacity(m) = size
      BY <1>1, <3>1, <3>2, ResizeKeeps
    <3>4. readAble(m) = readAble(x) /\ n <= writeAble(m)
      BY <1>1, <3>1, <3>3 DEF readAble, writeAble
    <3>5. size <= 3 * (readAble(x) + n)
      BY <1>1, <2>1, <3>1 DEF writeAble
    <3> QED BY <3>3, <3>4, <3>5
  <2>2. CASE ~(n > writeAble(x))
    <3>1. m = x
      BY <2>2 DEF MakeRoom
    <3> QED BY <1>1, <2>2, <3>1 DEF writeAble
  <2> QED BY <2>1, <2>2
<1>3. /\ m.r \in Nat /\ m.w \in Nat /\ m.r <= m.w /\ m.data \in Seq(Byte)
      /\ Capacity(m) = Len(m.data) /\ m.w + n <= Len(m.data)
      /\ readAble(m) = m.w - m.r
  BY <1>1, <1>2 DEF WellFormed, Buffer, Capacity, writeAble, readAble
<1>4. Store(m, d) \in Seq(Byte) /\ Len(Store(m, d)) = Len(m.data)
  <2>1. Store(m, d) \in [1..Len(m.data) -> Byte]
    BY <1>1, <1>3 DEF Store, Capacity
  <2>2. Len(m.data) \in Nat
    BY <1>3
  <2> QED BY <2>1, <2>2
<1>5. y.data = Store(m, d) /\ y.r = m.r /\ y.w = m.w + n
      /\ y = [data |-> Store(m, d), r |-> m.r, w |-> m.w + n]
  BY DEF writeToBuffer
<1>6. WellFormed(y)
  BY <1>1, <1>3, <1>4, <1>5 DEF WellFormed, Buffer
<1>7. readAble(y) = readAble(m) + n /\ Capacity(y) = Capacity(m)
  BY <1>1, <1>3, <1>4, <1>5 DEF readAble, Capacity
<1>8. Contents(y) = Contents(m) \o d
  <2> DEFINE k == readAble(m)
  <2>1. k \in Nat
    BY <1>3
  <2>2. Contents(m) \in Seq(Byte) /\ Len(Contents(m)) = k
    <3>1. Contents(m) \in [1..k -> Byte]
      BY <1>3 DEF Contents
    <3> QED BY <2>1, <3>1
  <2>3. Contents(y) = [i \in 1..(k + n) |-> Store(m, d)[m.r + i]]
    BY <1>5, <1>7 DEF Contents
  <2>4. \A i \in 1..(k + n) :
          Store(m, d)[m.r + i] = IF i <= k THEN Contents(m)[i] ELSE d[i - k]
    <3> TAKE i \in 1..(k + n)
    <3>1. m.r + i \in 1..Len(m.data) /\ i \in Nat
      <4>1. Len(m.data) \in Nat
        BY <1>3
      <4>2. i \in Nat /\ 1 <= i /\ i <= m.w - m.r + n
        BY <1>1, <1>3, <2>1
      <4> HIDE DEF m, n, k
      <4> QED BY <1>1, <1>3, <4>1, <4>2, SMTT(20)
    <3>2. Store(m, d)[m.r + i] =
            IF m.r + i \in (m.w + 1)..(m.w + n) THEN d[m.r + i - m.w]
            ELSE m.data[m.r + i]
      BY <1>3, <3>1 DEF Store, Capacity
    <3>3. CASE i <= k
      <4>1. i \in 1..k /\ m.r + i \notin (m.w + 1)..(m.w + n)
        BY <1>1, <1>3, <3>1, <3>3, SMTT(20)
      <4> QED BY <3>2, <3>3, <4>1 DEF Contents
    <3>4. CASE ~(i <= k)
      <4>1. m.r + i \in (m.w + 1)..(m.w + n) /\ m.r + i - m.w = i - k
        BY <1>1, <1>3, <3>1, <3>4, SMTT(20)
      <4> QED BY <3>2, <3>4, <4>1
    <3> QED BY <3>3, <3>4
  <2>5. Contents(m) \o d = [i \in 1..(k + n) |->
                              IF i <= k THEN Contents(m)[i] ELSE d[i - k]]
    <3> HIDE DEF k, m
    <3>1. Contents(m) \o d = [i \in 1..(Len(Contents(m)) + Len(d)) |->
            IF i <= Len(Contents(m)) THEN Contents(m)[i]
            ELSE d[i - Len(Contents(m))]]
      BY <2>2, ConcatElements
    <3> QED BY <2>2, <3>1
  <2> QED BY <2>3, <2>4, <2>5
<1> QED BY <1>1, <1>2, <1>5, <1>6, <1>7, <1>8

\* Moving the read index drops bytes from the front.
LEMMA AdvanceDrops ==
  ASSUME NEW x, WellFormed(x), NEW n \in 0..readAble(x)
  PROVE  LET y == [x EXCEPT !.r = @ + n]
         IN /\ WellFormed(y)
            /\ Capacity(y) = Capacity(x)
            /\ Contents(y) = SubSeq(Contents(x), n + 1, Len(Contents(x)))
<1> DEFINE y == [x EXCEPT !.r = @ + n]
           k == readAble(x)
<1>1. /\ n \in Nat /\ x.r \in Nat /\ x.w \in Nat /\ x.data \in Seq(Byte)
      /\ x.w <= Len(x.data) /\ k = x.w - x.r /\ k \in Nat /\ n <= k
  BY DEF WellFormed, Buffer, readAble
<1>2. y = [data |-> x.data, r |-> x.r + n, w |-> x.w]
  BY DEF WellFormed, Buffer
<1>3. WellFormed(y) /\ Capacity(y) = Capacity(x)
  BY <1>1, <1>2 DEF WellFormed, Buffer, Capacity
<1>4. Contents(x) \in Seq(Byte) /\ Len(Contents(x)) = k
  <2>1. Contents(x) \in [1..k -> Byte]
    BY <1>1 DEF Contents
  <2> QED BY <1>1, <2>1
<1>5. readAble(y) = k - n
  BY <1>1, <1>2 DEF readAble
<1>6. Contents(y) = [i \in 1..(k - n) |-> x.data[x.r + n + i]]
  BY <1>2, <1>5 DEF Contents
<1>7. SubSeq(Contents(x), n + 1, k) = [i \in 1..(k - n) |-> Contents(x)[n + i]]
  <2>1. k - (n + 1) + 1 = k - n
    BY <1>1
  <2>2. \A i \in 1..(k - n) : (n + 1) + i - 1 = n + i
    BY <1>1
  <2> QED BY <1>1, <1>4, <2>1, <2>2
<1>8. \A i \in 1..(k - n) : Contents(x)[n + i] = x.data[x.r + n + i]
  BY <1>1 DEF Contents
<1> QED BY <1>3, <1>4, <1>6, <1>7, <1>8

\* read(2) and moveWriteIndex append the bytes that arrived.
LEMMA ReceiveAppends ==
  ASSUME NEW x, WellFormed(x), NEW d \in Seq(Byte), Len(d) <= writeAble(x)
  PROVE  LET y == moveWriteIndex([x EXCEPT !.data = Store(x, d)], Len(d))
         IN /\ WellFormed(y)
            /\ Contents(y) = Contents(x) \o d
            /\ Capacity(y) = Capacity(x)
            /\ y.r = 0 \/ 3 * y.r < Capacity(y)
<1> DEFINE n == Len(d)
           k == readAble(x)
<1>1. /\ n \in Nat /\ x.r \in Nat /\ x.w \in Nat /\ x.r <= x.w
      /\ x.data \in Seq(Byte) /\ Len(x.data) \in Nat /\ x.w + n <= Len(x.data)
      /\ k = x.w - x.r /\ k \in Nat
  BY DEF WellFormed, Buffer, Capacity, writeAble, readAble
<1>2. Store(x, d) \in Seq(Byte) /\ Len(Store(x, d)) = Len(x.data)
  <2>1. \A i \in 1..Len(x.data) :
          (IF i \in (x.w + 1)..(x.w + n) THEN d[i - x.w] ELSE x.data[i]) \in Byte
    BY <1>1
  <2>2. Store(x, d) \in [1..Len(x.data) -> Byte]
    BY <2>1 DEF Store, Capacity
  <2>3. Len(x.data) \in Nat
    BY <1>1
  <2> QED BY <2>2, <2>3
<1> DEFINE s == [x EXCEPT !.data = Store(x, d)]
           z == [s EXCEPT !.w = @ + n]
<1>3. /\ s = [data |-> Store(x, d), r |-> x.r, w |-> x.w]
      /\ z = [data |-> Store(x, d), r |-> x.r, w |-> x.w + n]
  <2> DEFINE t == Store(x, d)
  <2> HIDE DEF t, n
  <2>1. [x EXCEPT !.data = t] = [data |-> t, r |-> x.r, w |-> x.w]
    BY DEF WellFormed, Buffer
  <2>2. [[data |-> t, r |-> x.r, w |-> x.w] EXCEPT !.w = @ + n]
          = [data |-> t, r |-> x.r, w |-> x.w + n]
    OBVIOUS
  <2> QED BY <2>1, <2>2 DEF t
<1>4. WellFormed(z) /\ Capacity(z) = Capacity(x) /\ readAble(z) = k + n
  BY <1>1, <1>2, <1>3 DEF WellFormed, Buffer, Capacity, readAble
<1>5. Contents(z) = Contents(x) \o d
  <2>1. Contents(x) \in Seq(Byte) /\ Len(Contents(x)) = k
    <3>1. Contents(x) \in [1..k -> Byte]
      BY <1>1 DEF Contents
    <3> QED BY <1>1, <3>1
  <2>2. Contents(x) \o d = [i \in 1..(k + n) |->
                              IF i <= k THEN Contents(x)[i] ELSE d[i - k]]
    <3>1. Contents(x) \o d = [i \in 1..(Len(Contents(x)) + Len(d)) |->
            IF i <= Len(Contents(x)) THEN Contents(x)[i]
            ELSE d[i - Len(Contents(x))]]
      BY <2>1, ConcatElements
    <3> HIDE DEF k
    <3> QED BY <2>1, <3>1
  <2>3. Contents(z) = [i \in 1..(k + n) |-> Store(x, d)[x.r + i]]
    BY <1>3, <1>4 DEF Contents
  <2>4. \A i \in 1..(k + n) :
          Store(x, d)[x.r + i] = IF i <= k THEN Contents(x)[i] ELSE d[i - k]
    <3> TAKE i \in 1..(k + n)
    <3>1. x.r + i \in 1..Len(x.data) /\ i \in Nat
      BY <1>1
    <3>2. Store(x, d)[x.r + i] =
            IF x.r + i \in (x.w + 1)..(x.w + n) THEN d[x.r + i - x.w]
            ELSE x.data[x.r + i]
      BY <1>1, <3>1 DEF Store, Capacity
    <3>3. CASE i <= k
      <4>1. i \in 1..k /\ x.r + i \notin (x.w + 1)..(x.w + n)
        BY <1>1, <3>1, <3>3, SMTT(20)
      <4> QED BY <3>2, <3>3, <4>1 DEF Contents
    <3>4. CASE ~(i <= k)
      <4>1. x.r + i \in (x.w + 1)..(x.w + n) /\ x.r + i - x.w = i - k
        BY <1>1, <3>1, <3>4, SMTT(20)
      <4> QED BY <3>2, <3>4, <4>1
    <3> QED BY <3>3, <3>4
  <2> QED BY <2>2, <2>3, <2>4
<1>6. moveWriteIndex(s, n) = adjustBuffer(z)
  BY <1>1, <1>2, <1>3 DEF moveWriteIndex, writeAble, Capacity
<1> HIDE DEF s, z
<1>7. QED BY <1>4, <1>5, <1>6, AdjustKeeps DEF s

\* Consuming bytes, by moveReadIndex or readFromBuffer, takes them from the
\* front of the queue and leaves the buffer adjusted.
LEMMA ConsumeTakes ==
  ASSUME NEW x, WellFormed(x), NEW n \in 0..readAble(x)
  PROVE  LET y == adjustBuffer([x EXCEPT !.r = @ + n])
         IN /\ WellFormed(y)
            /\ Capacity(y) = Capacity(x)
            /\ y.r = 0 \/ 3 * y.r < Capacity(y)
            /\ \E j \in 0..Len(Contents(x)) :
                 Contents(y) = SubSeq(Contents(x), j + 1, Len(Contents(x)))
<1> DEFINE z == [x EXCEPT !.r = @ + n]
<1>1. /\ WellFormed(z) /\ Capacity(z) = Capacity(x)
      /\ Contents(z) = SubSeq(Contents(x), n + 1, Len(Contents(x)))
  BY AdvanceDrops
<1>2. n \in 0..Len(Contents(x))
  <2>1. readAble(x) \in Nat
    BY DEF WellFormed, Buffer, readAble
  <2>2. Contents(x) \in [1..readAble(x) -> Byte]
    BY DEF WellFormed, Buffer, readAble, Contents
  <2>3. Len(Contents(x)) = readAble(x)
    BY <2>1, <2>2
  <2> QED BY <2>3
<1> HIDE DEF z
<1>3. /\ WellFormed(adjustBuffer(z)) /\ Capacity(adjustBuffer(z)) = Capacity(x)
      /\ adjustBuffer(z).r = 0 \/ 3 * adjustBuffer(z).r < Capacity(x)
      /\ Contents(adjustBuffer(z)) = SubSeq(Contents(x), n + 1, Len(Contents(x)))
  BY <1>1, AdjustKeeps
<1> QED BY <1>2, <1>3 DEF z

-----------------------------------------------------------------------------
\* What every step does: the invariant is kept, growth is proportional, and
\* the unread bytes change as a queue's do.
StepIsFine ==
  /\ BufferInv'
  /\ Capacity(b') > Capacity(b) => Capacity(b') <= 3 * readAble(b')
  /\ Fifo!Next \/ UNCHANGED Contents(b)

\* The invariant gives the two properties.
LEMMA InvImplies == BufferInv => IndexesInRange /\ ReadPartIsSmall
BY DEF BufferInv, WellFormed, IndexesInRange, Buffer, Capacity

\* A new TcpBuffer is an empty queue.
LEMMA InitFine == BufferInit => BufferInv /\ Fifo!Init
<1> SUFFICES ASSUME BufferInit PROVE BufferInv /\ Fifo!Init
  OBVIOUS
<1>1. b = [data |-> [i \in 1..InitSize |-> Zero], r |-> 0, w |-> 0]
  BY DEF BufferInit
<1>2. [i \in 1..InitSize |-> Zero] \in [1..InitSize -> Byte]
  BY TcpBufferAssumption
<1>3. /\ [i \in 1..InitSize |-> Zero] \in Seq(Byte)
      /\ Len([i \in 1..InitSize |-> Zero]) \in Nat
  BY <1>2, TcpBufferAssumption
<1>4. BufferInv
  <2> DEFINE z == [i \in 1..InitSize |-> Zero]
  <2> HIDE DEF z
  <2>1. b = [data |-> z, r |-> 0, w |-> 0] /\ z \in Seq(Byte) /\ Len(z) \in Nat
    BY <1>1, <1>3 DEF z
  <2> QED BY <2>1 DEF BufferInv, WellFormed, Buffer, ReadPartIsSmall
<1>5. Contents(b) = <<>>
  BY <1>1 DEF Contents, readAble
<1> QED BY <1>4, <1>5 DEF Fifo!Init

\* Every operation keeps the invariant and is a step of the queue: one step per
\* action.
LEMMA StepFine == BufferInv /\ [BufferNext]_b => StepIsFine
<1> SUFFICES ASSUME BufferInv, [BufferNext]_b PROVE StepIsFine
  OBVIOUS
<1>0. /\ WellFormed(b) /\ (b.r = 0 \/ 3 * b.r < Capacity(b))
      /\ Capacity(b) \in Nat /\ readAble(b) \in Nat /\ readAble(b) <= Capacity(b)
      /\ readAble(b) = b.w - b.r /\ b.r \in Nat /\ b.w \in Nat
  BY DEF BufferInv, WellFormed, Buffer, Capacity, readAble, ReadPartIsSmall
<1>s. (b' = b) => StepIsFine
  BY <1>0 DEF StepIsFine, BufferInv, ReadPartIsSmall, Capacity, Contents, readAble,
     WellFormed
\* A step that takes bytes, or that is refused.
<1>c. ASSUME NEW n \in 0..readAble(b), b' = adjustBuffer([b EXCEPT !.r = @ + n])
      PROVE  StepIsFine
  <2>1. /\ WellFormed(b') /\ Capacity(b') = Capacity(b)
        /\ b'.r = 0 \/ 3 * b'.r < Capacity(b')
        /\ \E j \in 0..Len(Contents(b)) :
             Contents(b') = SubSeq(Contents(b), j + 1, Len(Contents(b)))
    BY <1>0, <1>c, ConsumeTakes
  <2>2. BufferInv' /\ ~(Capacity(b') > Capacity(b))
    BY <1>0, <2>1 DEF BufferInv, ReadPartIsSmall, WellFormed, Capacity
  <2>3. Fifo!Take
    BY <2>1 DEF Fifo!Take, Contents, readAble
  <2> QED BY <2>2, <2>3 DEF StepIsFine, Fifo!Next
<1>1. CASE Grow
  <2>1. /\ writeAble(b) = 0 /\ b' = resizeBuffer(b, 2 * Capacity(b))
    BY <1>1 DEF Grow
  <2>2. 2 * Capacity(b) \in Nat /\ readAble(b) <= 2 * Capacity(b)
    BY <1>0
  <2>3. /\ WellFormed(b') /\ b'.r = 0 /\ b'.w = readAble(b)
        /\ Capacity(b') = 2 * Capacity(b) /\ Contents(b') = Contents(b)
    BY <1>0, <2>1, <2>2, ResizeKeeps
  <2>4. readAble(b') = readAble(b)
    BY <1>0, <2>3 DEF readAble
  <2>5. 2 * Capacity(b) <= 3 * readAble(b)
    BY <1>0, <2>1 DEF writeAble
  <2>6. BufferInv'
    BY <2>3 DEF BufferInv, ReadPartIsSmall, WellFormed
  <2> QED BY <2>3, <2>4, <2>5, <2>6 DEF StepIsFine, Contents, readAble
<1>2. ASSUME NEW d \in Chunks, Write(d)
      PROVE  StepIsFine
  <2>1. d \in Seq(Byte) /\ b' = writeToBuffer(b, d)
    BY <1>2, TcpBufferAssumption DEF Write
  <2>2. /\ WellFormed(b') /\ Contents(b') = Contents(b) \o d
        /\ b'.r = 0 \/ 3 * b'.r < Capacity(b')
        /\ Capacity(b') > Capacity(b) => Capacity(b') <= 3 * readAble(b')
    BY <1>0, <2>1, WriteAppends
  <2>3. BufferInv'
    BY <2>2 DEF BufferInv, ReadPartIsSmall, WellFormed, Capacity
  <2>4. Fifo!Put
    BY <2>2 DEF Fifo!Put, Contents, readAble
  <2> QED BY <2>2, <2>3, <2>4 DEF StepIsFine, Fifo!Next
<1>3. ASSUME NEW d \in Chunks, Receive(d)
      PROVE  StepIsFine
  <2>1. /\ d \in Seq(Byte) /\ Len(d) <= writeAble(b)
        /\ b' = moveWriteIndex([b EXCEPT !.data = Store(b, d)], Len(d))
    BY <1>3, TcpBufferAssumption DEF Receive
  <2>2. /\ WellFormed(b') /\ Contents(b') = Contents(b) \o d
        /\ Capacity(b') = Capacity(b)
        /\ b'.r = 0 \/ 3 * b'.r < Capacity(b')
    BY <1>0, <2>1, ReceiveAppends
  <2>3. BufferInv' /\ ~(Capacity(b') > Capacity(b))
    BY <1>0, <2>2 DEF BufferInv, ReadPartIsSmall, WellFormed, Capacity
  <2>4. Fifo!Put
    BY <2>2 DEF Fifo!Put, Contents, readAble
  <2> QED BY <2>3, <2>4 DEF StepIsFine, Fifo!Next
<1>4. ASSUME NEW size \in Sizes, Skip(size)
      PROVE  StepIsFine
  <2>1. b' = moveReadIndex(b, size) /\ size \in Int
    BY <1>4, TcpBufferAssumption DEF Skip, Sizes
  <2>2. CASE size < 0 \/ b.r + size > b.w
    BY <1>s, <2>1, <2>2 DEF moveReadIndex
  <2>3. CASE ~(size < 0 \/ b.r + size > b.w)
    <3>1. size \in 0..readAble(b)
      BY <1>0, <2>1, <2>3
    <3>2. b' = adjustBuffer([b EXCEPT !.r = @ + size])
      BY <2>1, <2>3 DEF moveReadIndex
    <3> QED BY <1>c, <3>1, <3>2
  <2> QED BY <2>2, <2>3
<1>5. ASSUME NEW size \in Sizes, Overrun(size)
      PROVE  StepIsFine
  <2>1. b' = b
    BY <1>0, <1>5, TcpBufferAssumption
    DEF Overrun, moveWriteIndex, Sizes, writeAble, WellFormed, Buffer, Capacity
  <2> QED BY <1>s, <2>1
<1>6. ASSUME NEW size \in 0..(MaxUnread + 1), Read(size)
      PROVE  StepIsFine
  <2>1. b' = readFromBuffer(b, size) /\ size \in Nat
    BY <1>6, TcpBufferAssumption DEF Read
  <2>2. CASE readAble(b) = 0
    BY <1>s, <2>1, <2>2 DEF readFromBuffer
  <2>3. CASE readAble(b) # 0
    <3> DEFINE n == IF readAble(b) > size THEN size ELSE readAble(b)
    <3>1. n \in 0..readAble(b)
      BY <1>0, <2>1
    <3>2. b' = adjustBuffer([b EXCEPT !.r = @ + n])
      BY <2>1, <2>3 DEF readFromBuffer
    <3> HIDE DEF n
    <3> QED BY <1>c, <3>1, <3>2
  <2> QED BY <2>2, <2>3
<1>7. CASE UNCHANGED b
  BY <1>7, <1>s
<1> QED BY <1>1, <1>2, <1>3, <1>4, <1>5, <1>6, <1>7 DEF BufferNext

\* After any sequence of calls the indexes are in range (writeToBuffer,
\* readFromBuffer, resizeBuffer, adjustBuffer, moveReadIndex and
\* moveWriteIndex of net/tcp/tcp_buffer.cc).
THEOREM IndexesStayInRange == BufferSpec => []IndexesInRange
<1>1. BufferInit => BufferInv
  BY InitFine
<1>2. BufferInv /\ [BufferNext]_b => BufferInv'
  BY StepFine DEF StepIsFine
<1> QED BY <1>1, <1>2, InvImplies, PTL DEF BufferSpec

\* adjustBuffer keeps the part already read below a third.
THEOREM ReadPartStaysSmall == BufferSpec => []ReadPartIsSmall
<1>1. BufferInit => BufferInv
  BY InitFine
<1>2. BufferInv /\ [BufferNext]_b => BufferInv'
  BY StepFine DEF StepIsFine
<1> QED BY <1>1, <1>2, InvImplies, PTL DEF BufferSpec

\* writeToBuffer and onRead's doubling never make the buffer larger than
\* three times the bytes it has to hold.
THEOREM GrowthStaysProportional == BufferSpec => GrowthIsProportional
<1>1. BufferInit => BufferInv
  BY InitFine
<1>2. BufferInv /\ [BufferNext]_b => BufferInv'
  BY StepFine DEF StepIsFine
<1>3. BufferInv /\ [BufferNext]_b =>
        [Capacity(b') > Capacity(b) => Capacity(b') <= 3 * readAble(b')]_b
  BY StepFine DEF StepIsFine
<1> QED BY <1>1, <1>2, <1>3, PTL DEF BufferSpec, GrowthIsProportional

\* TcpBuffer implements a FIFO queue of bytes.
THEOREM BufferIsFifo == BufferSpec => IsFifo
<1>1. BufferInit => BufferInv /\ Fifo!Init
  BY InitFine
<1>2. BufferInv /\ [BufferNext]_b => BufferInv' /\ [Fifo!Next]_(Contents(b))
  BY StepFine DEF StepIsFine
<1> QED BY <1>1, <1>2, PTL DEF BufferSpec, IsFifo, Fifo!Spec

USE MaxPackageAssumption

(***************************************************************************)
(* One turn of the loop                                                    *)
(***************************************************************************)

\* The cells that look like a start flag.
Starts(s) == {i \in 1..Len(s) : s[i] = PB_START}

\* A set of natural numbers that is not empty has a least element.
LEMMA LeastNatural ==
  ASSUME NEW T, T \subseteq Nat, T # {}
  PROVE  \E x \in T : \A y \in T : x <= y
<1> DEFINE R == {ss \in Nat \X Nat : ss[1] < ss[2]}
<1>1. IsWellFoundedOn(R, Nat)
  BY NatLessThanWellFounded DEF OpToRel
<1>2. \A x, y \in Nat : y < x => <<y, x>> \in R
  OBVIOUS
<1> HIDE DEF R
<1>3. PICK x \in T : \A y \in T : <<y, x>> \notin R
  BY <1>1, WFMin
<1>4. \A y \in T : ~(y < x)
  BY <1>2, <1>3
<1>5. \A y \in T : x <= y
  BY <1>4
<1> QED
  BY <1>5

\* StartIndex finds the first of them, or answers 0.
LEMMA StartIndexIsFirst ==
  ASSUME NEW s \in Seq(Int)
  PROVE  /\ StartIndex(s) \in 0..Len(s)
         /\ StartIndex(s) = 0 => \A i \in 1..Len(s) : s[i] # PB_START
         /\ StartIndex(s) # 0 => /\ s[StartIndex(s)] = PB_START
                                 /\ \A i \in 1..(StartIndex(s) - 1) : s[i] # PB_START
<1>1. StartIndex(s) = IF Starts(s) # {} THEN Min(Starts(s)) ELSE 0
  BY DEF StartIndex, SelectInSeq, Starts
<1>2. Starts(s) \subseteq Nat
  BY DEF Starts
<1>3. CASE Starts(s) # {}
  <2>1. \E x \in Starts(s) : \A y \in Starts(s) : x <= y
    BY <1>2, <1>3, LeastNatural
  <2>2. Min(Starts(s)) \in Starts(s) /\ \A y \in Starts(s) : Min(Starts(s)) <= y
    BY <2>1 DEF Min
  <2>3. PICK m \in 1..Len(s) : m = StartIndex(s) /\ s[m] = PB_START /\ \A y \in Starts(s) : m <= y
    BY <1>1, <1>3, <2>2 DEF Starts
  <2>4. ASSUME NEW i \in 1..(m - 1) PROVE s[i] # PB_START
    <3>1. i \in 1..Len(s) /\ ~(m <= i)
      OBVIOUS
    <3> QED
      BY <2>3, <3>1 DEF Starts
  <2> QED
    BY <2>3, <2>4
<1>4. CASE Starts(s) = {}
  BY <1>1, <1>4 DEF Starts
<1> QED
  BY <1>3, <1>4

\* What one turn does, case by case.
LEMMA TurnCases ==
  ASSUME NEW s \in Seq(Int), s # <<>>
  PROVE  \/ StartIndex(s) = 0 /\ Turn(s) = Wait(Len(s))
         \/ StartIndex(s) > 1 /\ Turn(s) = Take(StartIndex(s) - 1, <<>>)
         \/ StartIndex(s) = 1 /\ Len(s) < 2 /\ Turn(s) = Wait(0)
         \/ /\ StartIndex(s) = 1 /\ Len(s) >= 2
            /\ \/ BadLength(s[2]) /\ Turn(s) = Take(1, <<>>)
               \/ ~BadLength(s[2]) /\ s[2] > Len(s) /\ Turn(s) = Wait(0)
               \/ /\ ~BadLength(s[2]) /\ s[2] <= Len(s)
                  /\ \/ s[s[2]] # PB_END /\ Turn(s) = Take(1, <<>>)
                     \/ /\ s[s[2]] = PB_END
                        /\ LET p == SubSeq(s, 1, s[2])
                           IN Turn(s) = Take(s[2], IF ParseSuccess(p) THEN <<Message(p)>>
                                                                      ELSE <<>>)
<1>1. StartIndex(s) \in 0..Len(s)
  BY StartIndexIsFirst
<1>2. CASE StartIndex(s) = 0
  BY <1>2 DEF Turn
<1>3. CASE StartIndex(s) > 1
  BY <1>1, <1>3 DEF Turn
<1>4. CASE StartIndex(s) = 1 /\ Len(s) < 2
  BY <1>4 DEF Turn
<1>5. CASE StartIndex(s) = 1 /\ Len(s) >= 2
  <2> DEFINE len == s[2]
             p == SubSeq(s, 1, len)
  <2>1. len \in Int
    BY <1>5
  <2>2. Turn(s) = IF BadLength(len) THEN Take(1, <<>>)
                  ELSE IF len > Len(s) THEN Wait(0)
                  ELSE IF s[len] # PB_END THEN Take(1, <<>>)
                  ELSE Take(len, IF ParseSuccess(p) THEN <<Message(p)>> ELSE <<>>)
    <3>1. ~(StartIndex(s) = 0) /\ ~(StartIndex(s) > 1) /\ ~(StartIndex(s) = 1 /\ Len(s) < 2)
      BY <1>5
    <3> QED
      BY <3>1, Zenon DEF Turn
  <2> HIDE DEF p
  <2>3. len > Len(s) \/ len <= Len(s)
    BY <2>1
  <2>4. len <= Len(s) => ~(len > Len(s))
    BY <2>1
  <2> QED
    BY <1>5, <2>2, <2>3, <2>4, Zenon DEF p
<1> QED
  BY <1>1, <1>2, <1>3, <1>4, <1>5

\* A turn that is not the last consumes something; the last one finds noise only, or
\* waits for the rest of a package that has begun and is not too long.
LEMMA TurnProgress ==
  ASSUME NEW s \in Seq(Int), s # <<>>
  PROVE  /\ Turn(s).stop \in BOOLEAN
         /\ ~Turn(s).stop => Turn(s).drop \in 1..Len(s)
         /\ Turn(s).stop => /\ Turn(s).out = <<>>
                            /\ \/ StartIndex(s) = 0 /\ Turn(s).drop = Len(s)
                               \/ /\ Turn(s).drop = 0
                                  /\ s[1] = PB_START /\ Len(s) < MaxPackage
<1>0. /\ StartIndex(s) \in 0..Len(s) /\ Len(s) \in Nat /\ Len(s) >= 1
      /\ StartIndex(s) # 0 => s[StartIndex(s)] = PB_START
      /\ MaxPackage \in Int /\ MaxPackage >= 8
  BY StartIndexIsFirst DEF MIN_PACKAGE_SIZE
<1>1. ASSUME NEW n, NEW m PROVE ~Take(n, m).stop /\ Take(n, m).drop = n
  BY DEF Take
<1>2. ASSUME NEW n PROVE Wait(n).stop /\ Wait(n).drop = n /\ Wait(n).out = <<>>
  BY DEF Wait
<1>3. CASE StartIndex(s) = 0 /\ Turn(s) = Wait(Len(s))
  BY <1>2, <1>3 DEF Wait
<1>4. CASE StartIndex(s) > 1 /\ Turn(s) = Take(StartIndex(s) - 1, <<>>)
  BY <1>0, <1>1, <1>4 DEF Take
<1>5. CASE StartIndex(s) = 1 /\ Len(s) < 2 /\ Turn(s) = Wait(0)
  BY <1>0, <1>2, <1>5 DEF Wait
<1>6. CASE StartIndex(s) = 1 /\ Len(s) >= 2
  <2>1. s[2] \in Int
    BY <1>6
  <2>2. ~BadLength(s[2]) => s[2] >= 8 /\ s[2] <= MaxPackage
    BY <2>1, <1>0 DEF BadLength, MIN_PACKAGE_SIZE
  <2>3. CASE Turn(s) = Take(1, <<>>)
    BY <1>0, <1>1, <2>3 DEF Take
  <2>4. CASE ~BadLength(s[2]) /\ s[2] > Len(s) /\ Turn(s) = Wait(0)
    BY <1>0, <1>2, <1>6, <2>1, <2>2, <2>4 DEF Wait
  <2>5. CASE ~BadLength(s[2]) /\ s[2] <= Len(s) /\ \E m : Turn(s) = Take(s[2], m)
    <3>1. s[2] \in 1..Len(s)
      BY <1>0, <2>1, <2>2, <2>5
    <3> QED
      BY <1>1, <2>5, <3>1 DEF Take
  <2>6. \/ Turn(s) = Take(1, <<>>)
        \/ ~BadLength(s[2]) /\ s[2] > Len(s) /\ Turn(s) = Wait(0)
        \/ ~BadLength(s[2]) /\ s[2] <= Len(s) /\ \E m : Turn(s) = Take(s[2], m)
    <3>1. StartIndex(s) # 0 /\ ~(StartIndex(s) > 1) /\ ~(Len(s) < 2)
      BY <1>0, <1>6
    <3> QED
      BY <3>1, TurnCases, Zenon
  <2> QED
    BY <2>3, <2>4, <2>5, <2>6
<1> QED
  BY <1>3, <1>4, <1>5, <1>6, TurnCases, Zenon

(***************************************************************************)
(* The loop                                                                *)
(***************************************************************************)

\* What is left of s when n cells of it have been consumed.
Drop(s, n) == SubSeq(s, n + 1, Len(s))

\* Consuming leaves a shorter sequence, and may be done in parts.
LEMMA DropFacts ==
  ASSUME NEW s \in Seq(Int), NEW n \in 0..Len(s)
  PROVE  /\ Drop(s, n) \in Seq(Int)
         /\ Len(Drop(s, n)) = Len(s) - n
         /\ \A i \in 1..(Len(s) - n) : Drop(s, n)[i] = s[n + i]
         /\ n = 0 => Drop(s, n) = s
<1>1. Drop(s, n) \in Seq(Int) /\ Len(Drop(s, n)) = Len(s) - n
  BY DEF Drop
<1>2. \A i \in 1..(Len(s) - n) : Drop(s, n)[i] = s[n + i]
  BY DEF Drop
<1> QED
  BY <1>1, <1>2

\* Consuming twice is consuming the sum.
LEMMA DropTwice ==
  ASSUME NEW s \in Seq(Int), NEW m \in 0..Len(s), NEW n \in 0..(Len(s) - m)
  PROVE  Drop(Drop(s, m), n) = Drop(s, m + n)
<1> DEFINE d == Drop(s, m)
<1>1. /\ d \in Seq(Int) /\ Len(d) = Len(s) - m
      /\ \A i \in 1..(Len(s) - m) : d[i] = s[m + i]
  BY DropFacts
<1> HIDE DEF d
<1>2. m + n \in 0..Len(s) /\ n \in 0..Len(d) /\ Len(s) - (m + n) = Len(d) - n
  BY <1>1
<1>3. /\ Drop(s, m + n) \in Seq(Int) /\ Len(Drop(s, m + n)) = Len(d) - n
      /\ \A i \in 1..(Len(d) - n) : Drop(s, m + n)[i] = s[m + n + i]
  BY <1>2, DropFacts
<1>4. /\ Drop(d, n) \in Seq(Int) /\ Len(Drop(d, n)) = Len(d) - n
      /\ \A i \in 1..(Len(d) - n) : Drop(d, n)[i] = d[n + i]
  BY <1>1, <1>2, DropFacts
<1>5. ASSUME NEW i \in 1..(Len(d) - n) PROVE Drop(d, n)[i] = Drop(s, m + n)[i]
  <2>1. n + i \in 1..(Len(s) - m) /\ m + (n + i) = m + n + i
    BY <1>1
  <2>2. d[n + i] = s[m + (n + i)]
    BY <1>1, <2>1
  <2> QED
    BY <1>3, <1>4, <2>1, <2>2
<1>6. Drop(d, n) = Drop(s, m + n)
  BY <1>3, <1>4, <1>5, SeqEqual
<1> QED
  BY <1>6 DEF d

\* What comes later is not consumed earlier.
LEMMA DropConcat ==
  ASSUME NEW s \in Seq(Int), NEW t \in Seq(Int), NEW n \in 0..Len(s)
  PROVE  Drop(s \o t, n) = Drop(s, n) \o t
<1> DEFINE st == s \o t
           d == Drop(s, n)
<1>0. Len(s) \in Nat /\ Len(t) \in Nat
  OBVIOUS
<1>1. /\ st \in Seq(Int) /\ Len(st) = Len(s) + Len(t)
      /\ \A i \in 1..(Len(s) + Len(t)) : st[i] = IF i <= Len(s) THEN s[i] ELSE t[i - Len(s)]
  BY ConcatProperties
<1>2. /\ d \in Seq(Int) /\ Len(d) = Len(s) - n
      /\ \A i \in 1..(Len(s) - n) : d[i] = s[n + i]
  BY DropFacts
<1> HIDE DEF st, d
<1>3. /\ d \o t \in Seq(Int) /\ Len(d \o t) = Len(d) + Len(t)
      /\ \A i \in 1..(Len(d) + Len(t)) : (d \o t)[i] = IF i <= Len(d) THEN d[i] ELSE t[i - Len(d)]
  BY <1>2, ConcatProperties
<1>4. n \in 0..Len(st) /\ Len(st) - n = Len(d) + Len(t)
  BY <1>0, <1>1, <1>2
<1>5. /\ Drop(st, n) \in Seq(Int) /\ Len(Drop(st, n)) = Len(d) + Len(t)
      /\ \A i \in 1..(Len(d) + Len(t)) : Drop(st, n)[i] = st[n + i]
  BY <1>1, <1>4, DropFacts
<1>6. ASSUME NEW i \in 1..(Len(d) + Len(t)) PROVE Drop(st, n)[i] = (d \o t)[i]
  <2>1. n + i \in 1..(Len(s) + Len(t)) /\ Len(d) \in Nat
    BY <1>0, <1>2
  <2>2. CASE i <= Len(d)
    <3>1. n + i <= Len(s) /\ i \in 1..(Len(s) - n)
      BY <1>0, <1>2, <2>2
    <3>2. st[n + i] = s[n + i]
      BY <1>1, <2>1, <3>1
    <3>3. d[i] = s[n + i]
      BY <1>2, <3>1
    <3>4. (d \o t)[i] = d[i] /\ Drop(st, n)[i] = st[n + i]
      BY <1>3, <1>5, <2>2
    <3> QED
      BY <3>2, <3>3, <3>4
  <2>3. CASE ~(i <= Len(d))
    <3>1. ~(n + i <= Len(s)) /\ n + i - Len(s) = i - Len(d)
      BY <1>0, <1>2, <2>1, <2>3
    <3>2. st[n + i] = t[n + i - Len(s)]
      BY <1>1, <2>1, <3>1
    <3>3. (d \o t)[i] = t[i - Len(d)] /\ Drop(st, n)[i] = st[n + i]
      BY <1>3, <1>5, <2>3
    <3> QED
      BY <3>1, <3>2, <3>3
  <2> QED
    BY <2>2, <2>3
<1>7. Drop(st, n) = d \o t
  BY <1>3, <1>5, <1>6, SeqEqual
<1> QED
  BY <1>7 DEF st, d

\* The definition of decode, as an equation a function may satisfy.
Turns(f, s) ==
  IF s = <<>> THEN [drop |-> 0, out |-> <<>>]
  ELSE LET t == Turn(s)
       IN IF t.stop THEN [drop |-> t.drop, out |-> t.out]
          ELSE LET rest == f[SubSeq(s, t.drop + 1, Len(s))]
               IN [drop |-> t.drop + rest.drop, out |-> t.out \o rest.out]

Upto(n) == {s \in Seq(Int) : Len(s) <= n}

\* f is decode for what is not longer than n.
Decodes(f, n) == f = [s \in Upto(n) |-> Turns(f, s)]

\* The loop on s looks only at what is shorter than s.
LEMMA TurnsIsLocal ==
  ASSUME NEW f, NEW g, NEW s \in Seq(Int),
         \A r \in Seq(Int) : Len(r) < Len(s) => f[r] = g[r]
  PROVE  Turns(f, s) = Turns(g, s)
<1>1. CASE s = <<>> \/ Turn(s).stop
  BY <1>1, Zenon DEF Turns
<1>2. CASE s # <<>> /\ ~Turn(s).stop
  <2> DEFINE r == SubSeq(s, Turn(s).drop + 1, Len(s))
  <2>1. Turn(s).drop \in 1..Len(s)
    BY <1>2, TurnProgress
  <2>2. r \in Seq(Int) /\ Len(r) < Len(s)
    <3>1. Turn(s).drop \in 0..Len(s) /\ Len(s) \in Nat
      BY <2>1
    <3>2. r = Drop(s, Turn(s).drop)
      BY DEF Drop
    <3>3. r \in Seq(Int) /\ Len(r) = Len(s) - Turn(s).drop
      BY <3>1, <3>2, DropFacts
    <3> QED
      BY <2>1, <3>1, <3>3
  <2>3. f[r] = g[r]
    BY <2>2
  <2> QED
    BY <1>2, <2>3, Zenon DEF Turns
<1> QED
  BY <1>1, <1>2

\* Two such functions agree where both are defined.
LEMMA DecodesAgree ==
  ASSUME NEW m \in Nat, NEW n \in Nat, NEW f, NEW g, Decodes(f, m), Decodes(g, n),
         NEW s \in Seq(Int), Len(s) <= m, Len(s) <= n
  PROVE  f[s] = g[s]
<1> DEFINE Bad == {k \in Nat : \E r \in Seq(Int) : /\ Len(r) = k /\ k <= m /\ k <= n
                                                   /\ f[r] # g[r]}
<1>1. CASE Bad = {}
  <2>1. Len(s) \in Nat
    OBVIOUS
  <2> QED
    BY <1>1, <2>1
<1>2. CASE Bad # {}
  <2>1. PICK k \in Bad : \A j \in Bad : k <= j
    <3>1. Bad \subseteq Nat
      OBVIOUS
    <3> HIDE DEF Bad
    <3> QED
      BY <1>2, <3>1, LeastNatural
  <2>2. PICK r \in Seq(Int) : Len(r) = k /\ k <= m /\ k <= n /\ f[r] # g[r]
    BY <2>1
  <2>3. ASSUME NEW q \in Seq(Int), Len(q) < Len(r) PROVE f[q] = g[q]
    <3>1. Len(q) \in Nat /\ ~(k <= Len(q)) /\ Len(q) <= m /\ Len(q) <= n
      BY <2>2, <2>3
    <3>2. Len(q) \notin Bad
      BY <2>1, <3>1
    <3> QED
      BY <3>1, <3>2
  <2>4. Turns(f, r) = Turns(g, r)
    BY <2>3, TurnsIsLocal
  <2>5. r \in Upto(m) /\ r \in Upto(n)
    BY <2>2 DEF Upto
  <2>6. f[r] = Turns(f, r)
    <3> DEFINE T(q) == Turns(f, q)
    <3>1. f = [q \in Upto(m) |-> T(q)]
      BY DEF Decodes
    <3> HIDE DEF T
    <3>2. f[r] = T(r)
      BY <2>5, <3>1
    <3> QED
      BY <3>2 DEF T
  <2>7. g[r] = Turns(g, r)
    <3> DEFINE T(q) == Turns(g, q)
    <3>1. g = [q \in Upto(n) |-> T(q)]
      BY DEF Decodes
    <3> HIDE DEF T
    <3>2. g[r] = T(r)
      BY <2>5, <3>1
    <3> QED
      BY <3>2 DEF T
  <2> QED
    BY <2>2, <2>4, <2>6, <2>7
<1> QED
  BY <1>1, <1>2

\* There is one for every n: no n is the least for which there is none.
LEMMA DecodesExists ==
  ASSUME NEW n \in Nat
  PROVE  \E f : Decodes(f, n)
<1> DEFINE Bad == {m \in Nat : ~ \E f : Decodes(f, m)}
<1>1. SUFFICES ASSUME Bad # {} PROVE FALSE
  OBVIOUS
<1>2. PICK m \in Bad : \A k \in Bad : m <= k
  <2>1. Bad \subseteq Nat
    OBVIOUS
  <2> HIDE DEF Bad
  <2> QED
    BY <1>1, <2>1, LeastNatural
<1>3. PICK f : m # 0 => Decodes(f, m - 1)
  <2>1. m # 0 => m - 1 \in Nat /\ ~(m <= m - 1)
    OBVIOUS
  <2>2. m # 0 => m - 1 \notin Bad
    BY <1>2, <2>1
  <2>3. m # 0 => \E f : Decodes(f, m - 1)
    BY <2>1, <2>2
  <2> QED
    BY <2>3
<1> DEFINE T(q) == Turns(f, q)
           g == [s \in Upto(m) |-> T(s)]
<1>4. ASSUME NEW s \in Upto(m) PROVE g[s] = Turns(g, s)
  <2>1. s \in Seq(Int) /\ Len(s) <= m /\ Len(s) \in Nat
    BY <1>4 DEF Upto
  <2>2. ASSUME NEW r \in Seq(Int), Len(r) < Len(s) PROVE f[r] = g[r]
    <3>1. m # 0 /\ Len(r) <= m - 1 /\ Len(r) <= m /\ Len(r) \in Nat
      BY <2>1, <2>2
    <3>2. r \in Upto(m) /\ r \in Upto(m - 1)
      BY <3>1 DEF Upto
    <3>3. f = [q \in Upto(m - 1) |-> T(q)]
      BY <1>3, <3>1 DEF Decodes
    <3> HIDE DEF T
    <3>4. f[r] = T(r)
      BY <3>2, <3>3
    <3>5. g[r] = T(r)
      BY <3>2
    <3> QED
      BY <3>4, <3>5
  <2> HIDE DEF g
  <2>3. Turns(f, s) = Turns(g, s)
    BY <2>1, <2>2, TurnsIsLocal
  <2>4. g[s] = T(s)
    <3> HIDE DEF T
    <3> QED
      BY <1>4 DEF g
  <2> QED
    BY <2>3, <2>4
<1>5. g = [s \in Upto(m) |-> g[s]]
  <2> HIDE DEF T
  <2> QED
    OBVIOUS
<1> HIDE DEF g
<1>6. g = [s \in Upto(m) |-> Turns(g, s)]
  <2> DEFINE U(q) == Turns(g, q)
  <2>1. \A s \in Upto(m) : g[s] = U(s)
    BY <1>4
  <2> HIDE DEF U
  <2>2. g = [s \in Upto(m) |-> U(s)]
    BY <1>5, <2>1
  <2> QED
    BY <2>2 DEF U
<1>7. Decodes(g, m)
  BY <1>6 DEF Decodes
<1> QED
  BY <1>2, <1>7

\* So the recursive definition of decode does define a function.
LEMMA DecodeDef ==
  ASSUME NEW s \in Seq(Int)
  PROVE  decode[s] = Turns(decode, s)
<1> DEFINE G(n) == CHOOSE f : Decodes(f, n)
           F == [q \in Seq(Int) |-> G(Len(q))[q]]
<1>1. ASSUME NEW n \in Nat PROVE Decodes(G(n), n)
  BY DecodesExists
<1>2. ASSUME NEW q \in Seq(Int) PROVE F[q] = Turns(F, q)
  <2> DEFINE n == Len(q)
  <2>1. n \in Nat /\ q \in Upto(n)
    BY DEF Upto
  <2>2. Decodes(G(n), n)
    BY <1>1, <2>1
  <2>3. G(n)[q] = Turns(G(n), q)
    <3> DEFINE T(r) == Turns(G(n), r)
    <3>1. G(n) = [r \in Upto(n) |-> T(r)]
      BY <2>2 DEF Decodes
    <3> HIDE DEF T, G, n
    <3>2. G(n)[q] = T(q)
      BY <2>1, <3>1
    <3> QED
      BY <3>2 DEF T
  <2>4. ASSUME NEW r \in Seq(Int), Len(r) < Len(q) PROVE G(n)[r] = F[r]
    <3>1. Len(r) \in Nat /\ Len(r) <= n /\ Len(r) <= Len(r)
      BY <2>1, <2>4
    <3>2. Decodes(G(Len(r)), Len(r))
      BY <1>1, <3>1
    <3>3. F[r] = G(Len(r))[r]
      <4> HIDE DEF G
      <4> QED
        OBVIOUS
    <3> HIDE DEF G, F, n
    <3>4. G(n)[r] = G(Len(r))[r]
      BY <2>1, <2>2, <3>1, <3>2, DecodesAgree
    <3> QED
      BY <3>3, <3>4
  <2>5. F[q] = G(n)[q]
    <3> HIDE DEF G
    <3> QED
      OBVIOUS
  <2> HIDE DEF G, F, n
  <2>6. Turns(G(n), q) = Turns(F, q)
    BY <2>4, TurnsIsLocal
  <2> QED
    BY <2>3, <2>5, <2>6
<1>3. F = [q \in Seq(Int) |-> F[q]]
  <2> HIDE DEF G
  <2> QED
    OBVIOUS
<1> HIDE DEF F
<1>4. F = [q \in Seq(Int) |-> Turns(F, q)]
  <2> DEFINE U(q) == Turns(F, q)
  <2>1. \A q \in Seq(Int) : F[q] = U(q)
    BY <1>2
  <2> HIDE DEF U
  <2>2. F = [q \in Seq(Int) |-> U(q)]
    BY <1>3, <2>1
  <2> QED
    BY <2>2 DEF U
<1>5. decode = CHOOSE f : f = [q \in Seq(Int) |-> Turns(f, q)]
  BY Zenon DEF decode, Turns
<1>6. decode = [q \in Seq(Int) |-> Turns(decode, q)]
  BY <1>4, <1>5
<1> DEFINE V(q) == Turns(decode, q)
<1>7. decode = [q \in Seq(Int) |-> V(q)]
  BY <1>6
<1> HIDE DEF V
<1>8. decode[s] = V(s)
  BY <1>7
<1> QED
  BY <1>8 DEF V

(***************************************************************************)
(* What decode() consumes and leaves                                       *)
(***************************************************************************)

\* The messages decode() can produce.
Decoded == {Message(p) : p \in Seq(Int)}

\* The three ways in which the loop goes on or ends.
LEMMA DecodeCases ==
  ASSUME NEW s \in Seq(Int)
  PROVE  /\ s = <<>> => decode[s].drop = 0 /\ decode[s].out = <<>>
         /\ s # <<>> /\ Turn(s).stop =>
              decode[s].drop = Turn(s).drop /\ decode[s].out = Turn(s).out
         /\ s # <<>> /\ ~Turn(s).stop =>
              /\ decode[s].drop = Turn(s).drop + decode[Drop(s, Turn(s).drop)].drop
              /\ decode[s].out = Turn(s).out \o decode[Drop(s, Turn(s).drop)].out
<1>1. decode[s] = Turns(decode, s)
  BY DecodeDef
<1>2. CASE s = <<>>
  <2>1. decode[s] = [drop |-> 0, out |-> <<>>]
    BY <1>1, <1>2, Zenon DEF Turns
  <2> QED
    BY <1>2, <2>1
<1>3. CASE s # <<>> /\ Turn(s).stop
  <2>1. decode[s] = [drop |-> Turn(s).drop, out |-> Turn(s).out]
    BY <1>1, <1>3, Zenon DEF Turns
  <2> QED
    BY <1>3, <2>1
<1>4. CASE s # <<>> /\ ~Turn(s).stop
  <2> DEFINE rest == decode[Drop(s, Turn(s).drop)]
             n == Turn(s).drop + rest.drop
             m == Turn(s).out \o rest.out
  <2>1. decode[s] = [drop |-> n, out |-> m]
    BY <1>1, <1>4, Zenon DEF Turns, Drop
  <2> HIDE DEF n, m
  <2>2. decode[s].drop = n /\ decode[s].out = m
    BY <2>1
  <2> QED
    BY <1>4, <2>2, Zenon DEF n, m
<1> QED
  BY <1>2, <1>3, <1>4

\* What a turn produces are messages.
LEMMA TurnOut ==
  ASSUME NEW s \in Seq(Int), s # <<>>
  PROVE  Turn(s).out \in Seq(Decoded)
<1>0. \A n, m : Take(n, m).out = m /\ Wait(n).out = <<>>
  BY DEF Take, Wait
<1>1. <<>> \in Seq(Decoded)
  OBVIOUS
<1> DEFINE p == SubSeq(s, 1, s[2])
<1>2. CASE ~BadLength(s[2]) /\ s[2] <= Len(s) /\ Len(s) >= 2
  <2>1. s[2] \in 0..Len(s)
    BY <1>2 DEF BadLength, MIN_PACKAGE_SIZE
  <2>2. p \in Seq(Int)
    BY <2>1
  <2>3. Message(p) \in Decoded
    BY <2>2 DEF Decoded
  <2>4. (IF ParseSuccess(p) THEN <<Message(p)>> ELSE <<>>) \in Seq(Decoded)
    BY <1>1, <2>3
  <2>5. \/ \E n : Turn(s) = Wait(n) \/ Turn(s) = Take(n, <<>>)
        \/ \E n : Turn(s) = Take(n, IF ParseSuccess(p) THEN <<Message(p)>> ELSE <<>>)
    BY TurnCases, Zenon
  <2> HIDE DEF p
  <2> QED
    BY <1>0, <1>1, <2>4, <2>5
<1>3. CASE ~(~BadLength(s[2]) /\ s[2] <= Len(s) /\ Len(s) >= 2)
  <2>1. \E n : Turn(s) = Wait(n) \/ Turn(s) = Take(n, <<>>)
    BY <1>3, TurnCases, Zenon
  <2> QED
    BY <1>0, <1>1, <2>1
<1> QED
  BY <1>2, <1>3

\* decode() consumes no more than there is, produces messages, and leaves nothing or
\* the start of one package, shorter than the largest.
DecodesWell(s) ==
  /\ decode[s].drop \in 0..Len(s)
  /\ decode[s].out \in Seq(Decoded)
  /\ decode[s].drop < Len(s) => /\ s[decode[s].drop + 1] = PB_START
                                /\ Len(s) - decode[s].drop < MaxPackage

\* So it does with every input: a shortest one that it treated otherwise would begin with a
\* turn after which a shorter one is left.
LEMMA DecodeFacts ==
  ASSUME NEW s \in Seq(Int)
  PROVE  DecodesWell(s)
<1> DEFINE Bad == {k \in Nat : \E r \in Seq(Int) : Len(r) = k /\ ~DecodesWell(r)}
<1>1. CASE Bad = {}
  <2>1. Len(s) \in Nat
    OBVIOUS
  <2> QED
    BY <1>1, <2>1
<1>2. CASE Bad # {}
  <2>1. PICK k \in Bad : \A j \in Bad : k <= j
    <3>1. Bad \subseteq Nat
      OBVIOUS
    <3> HIDE DEF Bad
    <3> QED
      BY <1>2, <3>1, LeastNatural
  <2>2. PICK r \in Seq(Int) : Len(r) = k /\ ~DecodesWell(r)
    BY <2>1
  <2>3. <<>> \in Seq(Decoded) /\ Len(r) \in Nat
    OBVIOUS
  <2>4. CASE r = <<>>
    <3>1. decode[r].drop = 0 /\ decode[r].out = <<>> /\ Len(r) = 0
      BY <2>4, DecodeCases
    <3> QED
      BY <2>2, <2>3, <3>1 DEF DecodesWell
  <2>5. CASE r # <<>> /\ Turn(r).stop
    <3>1. decode[r].drop = Turn(r).drop /\ decode[r].out = <<>>
      BY <2>5, DecodeCases, TurnProgress
    <3>2. \/ Turn(r).drop = Len(r)
          \/ Turn(r).drop = 0 /\ r[1] = PB_START /\ Len(r) < MaxPackage
      BY <2>5, TurnProgress
    <3>3. MaxPackage \in Int /\ 0 + 1 = 1
      OBVIOUS
    <3>4. decode[r].drop \in 0..Len(r)
      BY <2>3, <3>1, <3>2
    <3>5. decode[r].drop < Len(r) => r[decode[r].drop + 1] = PB_START
      BY <2>3, <3>1, <3>2
    <3>6. decode[r].drop < Len(r) => Len(r) - decode[r].drop < MaxPackage
      BY <2>3, <3>1, <3>2, <3>3
    <3> QED
      BY <2>2, <2>3, <3>1, <3>4, <3>5, <3>6 DEF DecodesWell
  <2>6. CASE r # <<>> /\ ~Turn(r).stop
    <3> DEFINE n == Turn(r).drop
               q == Drop(r, n)
    <3>1. n \in 1..Len(r)
      BY <2>6, TurnProgress
    <3>2. /\ q \in Seq(Int) /\ Len(q) = Len(r) - n
          /\ \A i \in 1..(Len(r) - n) : q[i] = r[n + i]
      <4>1. n \in 0..Len(r)
        BY <3>1
      <4> HIDE DEF n
      <4> QED
        BY <4>1, DropFacts
    <3>3. decode[r].drop = n + decode[q].drop /\ decode[r].out = Turn(r).out \o decode[q].out
      BY <2>6, DecodeCases
    <3> HIDE DEF n, q
    <3>4. Len(q) \in Nat /\ ~(k <= Len(q))
      BY <2>2, <2>3, <3>1, <3>2
    <3>5. DecodesWell(q)
      BY <2>1, <3>2, <3>4
    <3> DEFINE d == decode[q].drop
    <3>6. /\ d \in 0..Len(q)
          /\ decode[q].out \in Seq(Decoded)
          /\ d < Len(q) => q[d + 1] = PB_START /\ Len(q) - d < MaxPackage
      BY <3>5 DEF DecodesWell
    <3>7. Turn(r).out \in Seq(Decoded)
      BY <2>6, TurnOut
    <3>8. decode[r].out \in Seq(Decoded)
      BY <3>3, <3>6, <3>7, ConcatProperties
    <3>9. decode[r].drop = n + d
      BY <3>3
    <3> HIDE DEF d
    <3>10. decode[r].drop \in 0..Len(r)
      BY <2>3, <3>1, <3>2, <3>6, <3>9
    <3>11. ASSUME decode[r].drop < Len(r)
           PROVE  r[decode[r].drop + 1] = PB_START /\ Len(r) - decode[r].drop < MaxPackage
      <4>1. d < Len(q) /\ d + 1 \in 1..(Len(r) - n) /\ n + (d + 1) = n + d + 1
        BY <2>3, <3>1, <3>2, <3>6, <3>9, <3>11
      <4>2. q[d + 1] = r[n + (d + 1)]
        BY <3>2, <4>1
      <4>3. Len(r) - (n + d) = Len(q) - d
        BY <2>3, <3>1, <3>2, <3>6
      <4> QED
        BY <3>6, <3>9, <4>1, <4>2, <4>3
    <3> QED
      BY <2>2, <3>8, <3>10, <3>11 DEF DecodesWell
  <2> QED
    BY <2>4, <2>5, <2>6
<1> QED
  BY <1>1, <1>2

(***************************************************************************)
(* decode() on a stream that comes in two parts                            *)
(***************************************************************************)

\* Where the first start flag is determines StartIndex.
LEMMA StartIndexIs ==
  ASSUME NEW s \in Seq(Int), NEW k \in 0..Len(s),
         \A i \in 1..(k - 1) : s[i] # PB_START,
         k # 0 => s[k] = PB_START,
         k = 0 => \A i \in 1..Len(s) : s[i] # PB_START
  PROVE  StartIndex(s) = k
<1> DEFINE j == StartIndex(s)
<1>1. /\ j \in 0..Len(s)
      /\ j = 0 => \A i \in 1..Len(s) : s[i] # PB_START
      /\ j # 0 => s[j] = PB_START /\ \A i \in 1..(j - 1) : s[i] # PB_START
  BY StartIndexIsFirst
<1> HIDE DEF j
<1>2. j = 0 => k = 0
  BY <1>1
<1>3. k = 0 => j = 0
  BY <1>1
<1>4. j # 0 /\ k # 0 => ~(j < k) /\ ~(k < j)
  BY <1>1
<1> QED
  BY <1>1, <1>2, <1>3, <1>4 DEF j

\* The cells of a concatenation.
LEMMA Cells ==
  ASSUME NEW s \in Seq(Int), NEW t \in Seq(Int)
  PROVE  /\ s \o t \in Seq(Int) /\ Len(s \o t) = Len(s) + Len(t)
         /\ \A i \in 1..Len(s) : (s \o t)[i] = s[i]
         /\ \A i \in 1..Len(t) : (s \o t)[Len(s) + i] = t[i]
<1>0. Len(s) \in Nat /\ Len(t) \in Nat
  OBVIOUS
<1> DEFINE st == s \o t
<1>1. /\ st \in Seq(Int) /\ Len(st) = Len(s) + Len(t)
      /\ \A i \in 1..(Len(s) + Len(t)) : st[i] = IF i <= Len(s) THEN s[i] ELSE t[i - Len(s)]
  BY ConcatProperties
<1> HIDE DEF st
<1>2. \A i \in 1..Len(s) : st[i] = s[i]
  BY <1>0, <1>1
<1>3. ASSUME NEW i \in 1..Len(t) PROVE st[Len(s) + i] = t[i]
  <2>1. Len(s) + i \in 1..(Len(s) + Len(t)) /\ ~(Len(s) + i <= Len(s)) /\ (Len(s) + i) - Len(s) = i
    BY <1>0
  <2> QED
    BY <1>1, <2>1
<1> QED
  BY <1>1, <1>2, <1>3 DEF st

\* A turn that is not the last does not depend on what comes later.
LEMMA TurnStable ==
  ASSUME NEW s \in Seq(Int), NEW t \in Seq(Int), s # <<>>, ~Turn(s).stop
  PROVE  s \o t # <<>> /\ Turn(s \o t) = Turn(s)
<1> DEFINE st == s \o t
<1>1. /\ st \in Seq(Int) /\ Len(st) = Len(s) + Len(t)
      /\ \A i \in 1..Len(s) : st[i] = s[i]
  BY Cells
<1>2. /\ Len(s) \in Nat /\ Len(t) \in Nat /\ Len(s) >= 1
  OBVIOUS
<1>3. \A k \in 1..Len(s) : SubSeq(st, 1, k) = SubSeq(s, 1, k)
  <2>1. 1 \in 1..Len(s)
    BY <1>2
  <2> QED
    BY <2>1, SubSeqOfConcat1
<1> HIDE DEF st
<1>4. st # <<>> /\ Len(st) >= Len(s)
  BY <1>1, <1>2
<1> DEFINE k == StartIndex(s)
<1>5. /\ k \in 0..Len(s)
      /\ k # 0 => s[k] = PB_START /\ \A i \in 1..(k - 1) : s[i] # PB_START
  BY StartIndexIsFirst
<1>6. k # 0
  <2>1. k = 0 => ~(k > 1) /\ k # 1
    OBVIOUS
  <2>2. k = 0 => Turn(s) = Wait(Len(s))
    BY <2>1, TurnCases, Zenon
  <2> QED
    BY <2>2 DEF Wait
<1>7. StartIndex(st) = k
  <2> HIDE DEF k
  <2>1. k \in 0..Len(st) /\ st[k] = PB_START
    BY <1>1, <1>2, <1>5, <1>6
  <2>2. ASSUME NEW i \in 1..(k - 1) PROVE st[i] # PB_START
    <3>1. i \in 1..Len(s)
      BY <1>2, <1>5
    <3> QED
      BY <1>1, <1>5, <1>6, <3>1
  <2> QED
    BY <1>1, <1>6, <2>1, <2>2, StartIndexIs
<1>8. CASE k > 1
  <2>1. k # 0 /\ k # 1
    BY <1>8
  <2>2. Turn(s) = Take(k - 1, <<>>)
    BY <2>1, TurnCases, Zenon
  <2>3. Turn(st) = Take(k - 1, <<>>)
    BY <1>1, <1>4, <1>7, <2>1, TurnCases, Zenon
  <2> QED
    BY <1>4, <2>2, <2>3 DEF st
<1>9. CASE k = 1
  <2>1. ~(k > 1)
    BY <1>9
  <2>2. ~(Len(s) < 2)
    <3>1. Len(s) < 2 => ~(Len(s) >= 2)
      BY <1>2
    <3>2. Len(s) < 2 => Turn(s) = Wait(0)
      BY <1>6, <2>1, <3>1, TurnCases, Zenon
    <3> QED
      BY <3>2 DEF Wait
  <2>3. Len(s) >= 2 /\ Len(st) >= 2 /\ ~(Len(st) < 2)
    BY <1>1, <1>2, <2>2
  <2>4. st[2] = s[2] /\ s[2] \in Int
    BY <1>1, <1>2, <2>3
  <2>5. CASE BadLength(s[2])
    <3>1. Turn(s) = Take(1, <<>>)
      BY <1>6, <2>1, <2>2, <2>5, TurnCases, Zenon
    <3>2. Turn(st) = Take(1, <<>>)
      BY <1>1, <1>4, <1>6, <1>7, <2>1, <2>3, <2>4, <2>5, TurnCases, Zenon
    <3> QED
      BY <1>4, <3>1, <3>2 DEF st
  <2>6. CASE ~BadLength(s[2])
    <3>1. ~(s[2] > Len(s))
      <4>1. s[2] > Len(s) => ~(s[2] <= Len(s))
        BY <1>2, <2>4
      <4>2. s[2] > Len(s) => Turn(s) = Wait(0)
        BY <1>6, <2>1, <2>2, <2>6, <4>1, TurnCases, Zenon
      <4> QED
        BY <4>2 DEF Wait
    <3>2. s[2] >= 8
      BY <2>4, <2>6 DEF BadLength, MIN_PACKAGE_SIZE
    <3>3. s[2] \in 1..Len(s) /\ s[2] <= Len(s) /\ s[2] <= Len(st) /\ ~(s[2] > Len(st))
      <4> DEFINE l == s[2]
                 a == Len(s)
                 z == Len(st)
      <4>1. l \in Int /\ a \in Nat /\ z \in Nat /\ z >= a /\ ~(l > a) /\ l >= 8
        BY <1>1, <1>2, <1>4, <2>4, <3>1, <3>2
      <4> HIDE DEF l, a, z
      <4>2. l \in 1..a /\ l <= a /\ l <= z /\ ~(l > z)
        BY <4>1
      <4> QED
        BY <4>2 DEF l, a, z
    <3>4. st[s[2]] = s[s[2]] /\ SubSeq(st, 1, s[2]) = SubSeq(s, 1, s[2])
      BY <1>1, <1>3, <3>3
    <3>5. CASE s[s[2]] # PB_END
      <4>1. Turn(s) = Take(1, <<>>)
        BY <1>6, <2>1, <2>2, <2>6, <3>1, <3>5, TurnCases, Zenon
      <4>2. Turn(st) = Take(1, <<>>)
        BY <1>1, <1>4, <1>6, <1>7, <2>1, <2>3, <2>4, <2>6, <3>3, <3>4, <3>5, TurnCases, Zenon
      <4> QED
        BY <1>4, <4>1, <4>2 DEF st
    <3>6. CASE s[s[2]] = PB_END
      <4> DEFINE R(p) == Take(s[2], IF ParseSuccess(p) THEN <<Message(p)>> ELSE <<>>)
      <4>1. Turn(s) = R(SubSeq(s, 1, s[2]))
        BY <1>6, <2>1, <2>2, <2>6, <3>1, <3>6, TurnCases, Zenon
      <4>2. Turn(st) = R(SubSeq(st, 1, s[2]))
        BY <1>1, <1>4, <1>6, <1>7, <2>1, <2>3, <2>4, <2>6, <3>3, <3>4, <3>6, TurnCases, Zenon
      <4> HIDE DEF R
      <4> QED
        BY <1>4, <3>4, <4>1, <4>2 DEF st
    <3> QED
      BY <3>5, <3>6
  <2> QED
    BY <2>5, <2>6
<1> QED
  BY <1>5, <1>6, <1>8, <1>9

\* Cells among which no package can start are consumed and add nothing.
LEMMA NoiseAhead ==
  ASSUME NEW s \in Seq(Int), NEW t \in Seq(Int), StartIndex(s) = 0
  PROVE  /\ decode[s \o t].drop = Len(s) + decode[t].drop
         /\ decode[s \o t].out = decode[t].out
<1> DEFINE st == s \o t
<1>1. /\ st \in Seq(Int) /\ Len(st) = Len(s) + Len(t)
      /\ \A i \in 1..Len(s) : st[i] = s[i]
      /\ \A i \in 1..Len(t) : st[Len(s) + i] = t[i]
  BY Cells
<1>2. Len(s) \in Nat /\ Len(t) \in Nat
  OBVIOUS
<1>3. Drop(st, Len(s)) = t
  <2>1. Len(s) \in 0..Len(s)
    BY <1>2
  <2>2. Drop(s, Len(s)) = <<>>
    <3>1. Drop(s, Len(s)) \in Seq(Int) /\ Len(Drop(s, Len(s))) = 0
      BY <1>2, <2>1, DropFacts
    <3> QED
      BY <3>1
  <2>3. Drop(st, Len(s)) = Drop(s, Len(s)) \o t
    BY <2>1, DropConcat
  <2> QED
    BY <2>2, <2>3, ConcatEmptySeq
<1>4. CASE s = <<>>
  <2>1. st = t /\ Len(s) = 0
    BY <1>4, ConcatEmptySeq
  <2>2. decode[t].drop \in Int
    BY DecodeFacts DEF DecodesWell
  <2> QED
    BY <2>1, <2>2
<1>5. CASE s # <<>>
  <2>0. \A i \in 1..Len(s) : s[i] # PB_START
    BY StartIndexIsFirst
  <2> HIDE DEF st
  <2>1. st # <<>> /\ Len(s) >= 1
    BY <1>1, <1>2, <1>5
  <2> DEFINE k == StartIndex(t)
  <2>2. /\ k \in 0..Len(t)
        /\ k = 0 => \A i \in 1..Len(t) : t[i] # PB_START
        /\ k # 0 => t[k] = PB_START /\ \A i \in 1..(k - 1) : t[i] # PB_START
    BY StartIndexIsFirst
  <2>3. CASE k = 0
    <3>1. ASSUME NEW i \in 1..Len(st) PROVE st[i] # PB_START
      <4>1. CASE i <= Len(s)
        <5>1. i \in 1..Len(s)
          BY <1>2, <4>1
        <5> QED
          BY <1>1, <2>0, <5>1
      <4>2. CASE ~(i <= Len(s))
        <5>1. i - Len(s) \in 1..Len(t) /\ Len(s) + (i - Len(s)) = i
          BY <1>1, <1>2, <4>2
        <5> QED
          BY <1>1, <2>2, <2>3, <5>1
      <4> QED
        BY <4>1, <4>2
    <3>2. 0 \in 0..Len(st) /\ \A i \in 1..(0 - 1) : st[i] # PB_START
      BY <1>1, <1>2
    <3>3. StartIndex(st) = 0
      BY <1>1, <3>1, <3>2, StartIndexIs
    <3>4. ASSUME NEW q \in Seq(Int), q # <<>>, StartIndex(q) = 0
          PROVE  decode[q].drop = Len(q) /\ decode[q].out = <<>>
      <4>1. ~(StartIndex(q) > 1) /\ StartIndex(q) # 1
        BY <3>4
      <4>2. Turn(q) = Wait(Len(q))
        BY <3>4, <4>1, TurnCases, Zenon
      <4>3. Turn(q).stop /\ Turn(q).drop = Len(q) /\ Turn(q).out = <<>>
        BY <4>2 DEF Wait
      <4> QED
        BY <3>4, <4>3, DecodeCases
    <3>5. decode[st].drop = Len(st) /\ decode[st].out = <<>>
      BY <1>1, <2>1, <3>3, <3>4
    <3>6. decode[t].drop = Len(t) /\ decode[t].out = <<>>
      <4>1. CASE t = <<>>
        <5>1. Len(t) = 0
          BY <4>1
        <5> QED
          BY <4>1, <5>1, DecodeCases
      <4>2. CASE t # <<>>
        BY <2>3, <3>4, <4>2
      <4> QED
        BY <4>1, <4>2
    <3> QED
      BY <1>1, <1>2, <3>5, <3>6 DEF st
  <2>4. CASE k # 0
    <3> DEFINE n == Len(s) + k - 1
               q == Drop(t, k - 1)
    <3>1. /\ k \in 1..Len(t) /\ k - 1 \in 0..Len(t) /\ n \in 1..Len(st) /\ n \in 0..Len(st)
          /\ Len(s) + k \in 0..Len(st) /\ Len(s) + k # 0 /\ Len(s) + k > 1
          /\ Len(s) \in 0..Len(st) /\ k - 1 \in 0..(Len(st) - Len(s)) /\ Len(s) + (k - 1) = n
      <4> DEFINE a == Len(s)
                 z == Len(t)
                 c == Len(st)
      <4>1. a \in Nat /\ z \in Nat /\ c = a + z /\ a >= 1 /\ k \in 0..z /\ k # 0
        BY <1>1, <1>2, <2>1, <2>2, <2>4
      <4> HIDE DEF k, a, z, c
      <4>2. /\ k \in 1..z /\ k - 1 \in 0..z /\ a + k - 1 \in 1..c /\ a + k - 1 \in 0..c
            /\ a + k \in 0..c /\ a + k # 0 /\ a + k > 1
            /\ a \in 0..c /\ k - 1 \in 0..(c - a) /\ a + (k - 1) = a + k - 1
        BY <4>1
      <4> QED
        BY <4>2 DEF a, z, c
    <3>2. ASSUME NEW i \in 1..(Len(s) + k - 1) PROVE st[i] # PB_START
      <4> HIDE DEF k
      <4>1. CASE i <= Len(s)
        <5>1. i \in 1..Len(s)
          BY <1>2, <4>1
        <5> QED
          BY <1>1, <2>0, <5>1
      <4>2. CASE ~(i <= Len(s))
        <5>1. i - Len(s) \in 1..Len(t) /\ Len(s) + (i - Len(s)) = i /\ i - Len(s) \in 1..(k - 1)
          BY <1>1, <1>2, <2>2, <4>2
        <5>2. st[i] = t[i - Len(s)]
          BY <1>1, <5>1
        <5> QED
          BY <2>2, <2>4, <5>1, <5>2
      <4> QED
        BY <4>1, <4>2
    <3>3. StartIndex(st) = Len(s) + k
      <4> DEFINE m == Len(s) + k
      <4>1. st[m] = PB_START
        <5> HIDE DEF k
        <5> QED
          BY <1>1, <2>2, <2>4, <3>1
      <4>2. m \in 0..Len(st) /\ m # 0 /\ \A i \in 1..(m - 1) : st[i] # PB_START
        BY <3>1, <3>2
      <4> HIDE DEF m
      <4>3. StartIndex(st) = m
        BY <1>1, <4>1, <4>2, StartIndexIs
      <4> QED
        BY <4>3 DEF m
    <3>4. Turn(st) = Take(n, <<>>)
      <4>1. StartIndex(st) # 0 /\ StartIndex(st) # 1
        BY <3>1, <3>3
      <4>2. Turn(st) = Take(StartIndex(st) - 1, <<>>)
        BY <1>1, <2>1, <4>1, TurnCases, Zenon
      <4> DEFINE m == Len(s) + k
      <4>3. StartIndex(st) = m
        BY <3>3
      <4>4. m - 1 = n
        <5> DEFINE a == Len(s)
        <5>1. a \in Nat /\ k \in Int
          BY <1>2, <2>2
        <5> HIDE DEF a, k
        <5>2. (a + k) - 1 = a + (k - 1)
          BY <5>1
        <5> QED
          BY <5>2 DEF a
      <4> HIDE DEF m, n
      <4> QED
        BY <4>2, <4>3, <4>4, Zenon
    <3>5. ~Turn(st).stop /\ Turn(st).drop = n /\ Turn(st).out = <<>>
      BY <3>4 DEF Take
    <3>6. Drop(st, n) = q
      <4> HIDE DEF n, k
      <4>1. Drop(Drop(st, Len(s)), k - 1) = Drop(st, Len(s) + (k - 1))
        BY <1>1, <3>1, DropTwice
      <4> QED
        BY <1>3, <3>1, <4>1 DEF st
    <3>7. q \in Seq(Int) /\ (k - 1 = 0 => q = t)
      <4> HIDE DEF k
      <4> QED
        BY <3>1, DropFacts
    <3> HIDE DEF n, q
    <3>8. decode[st].drop = n + decode[q].drop /\ decode[st].out = <<>> \o decode[q].out
      BY <1>1, <2>1, <3>5, <3>6, DecodeCases
    <3>9. decode[q].drop \in Int /\ decode[q].out \in Seq(Decoded)
      BY <3>7, DecodeFacts DEF DecodesWell
    <3>10. decode[t].drop = (k - 1) + decode[q].drop /\ decode[t].out = decode[q].out
      <4>1. CASE k = 1
        <5>1. k - 1 = 0
          BY <4>1
        <5> HIDE DEF k
        <5>2. q = t
          BY <3>7, <5>1
        <5> QED
          BY <3>9, <5>1, <5>2
      <4>2. CASE k # 1
        <5>1. k > 1 /\ t # <<>>
          <6> HIDE DEF k
          <6> QED
            BY <1>2, <3>1, <4>2
        <5>2. Turn(t) = Take(k - 1, <<>>)
          BY <2>4, <4>2, <5>1, TurnCases, Zenon
        <5>3. ~Turn(t).stop /\ Turn(t).drop = k - 1 /\ Turn(t).out = <<>>
          BY <5>2 DEF Take
        <5>4. decode[t].drop = (k - 1) + decode[q].drop /\ decode[t].out = <<>> \o decode[q].out
          <6> HIDE DEF k
          <6> QED
            BY <5>1, <5>3, DecodeCases DEF q
        <5> QED
          BY <3>9, <5>4, ConcatEmptySeq
      <4> QED
        BY <4>1, <4>2
    <3>11. decode[st].out = decode[t].out
      BY <3>8, <3>9, <3>10, ConcatEmptySeq
    <3>12. decode[st].drop = Len(s) + decode[t].drop
      <4> DEFINE a == Len(s)
                 x == decode[q].drop
      <4>1. a \in Nat /\ k \in Int /\ x \in Int /\ n = a + (k - 1)
        BY <1>2, <2>2, <3>1, <3>9
      <4>2. decode[st].drop = n + x /\ decode[t].drop = (k - 1) + x
        BY <3>8, <3>10
      <4> HIDE DEF a, k, x
      <4>3. n + x = a + ((k - 1) + x)
        BY <4>1
      <4> QED
        BY <4>2, <4>3 DEF a
    <3> QED
      BY <3>11, <3>12 DEF st
  <2> QED
    BY <2>3, <2>4
<1> QED
  BY <1>4, <1>5

\* One call of decode() on both parts, or one on the first and one on what it left with
\* the second: the same.
Joins(s, t) ==
  /\ decode[s \o t].drop = decode[s].drop + decode[Drop(s, decode[s].drop) \o t].drop
  /\ decode[s \o t].out = decode[s].out \o decode[Drop(s, decode[s].drop) \o t].out

\* Sequences of messages may be put together in any grouping.
LEMMA Regroup ==
  ASSUME NEW a \in Seq(Decoded), NEW z \in Seq(Decoded), NEW c \in Seq(Decoded)
  PROVE  a \o (z \o c) = (a \o z) \o c
  BY ConcatAssociative

\* The part that matters: a first part that does not end the loop at once.
LEMMA JoinsOnward ==
  ASSUME NEW s \in Seq(Int), NEW t \in Seq(Int), s # <<>>, ~Turn(s).stop,
         Joins(Drop(s, Turn(s).drop), t)
  PROVE  Joins(s, t)
<1> DEFINE st == s \o t
           n == Turn(s).drop
           q == Drop(s, n)
           e == decode[q].drop
           left == Drop(q, e)
           r == decode[left \o t]
<1>1. n \in 1..Len(s) /\ n \in 0..Len(s) /\ Len(s) \in Nat
  BY TurnProgress
<1>2. q \in Seq(Int) /\ Len(q) = Len(s) - n
  <2> HIDE DEF n
  <2> QED
    BY <1>1, DropFacts
<1>3. e \in 0..Len(q) /\ decode[q].out \in Seq(Decoded)
  <2> HIDE DEF q
  <2> QED
    BY <1>2, DecodeFacts DEF DecodesWell
<1>4. left \in Seq(Int)
  <2> HIDE DEF q, e
  <2> QED
    BY <1>2, <1>3, DropFacts
<1>5. left \o t \in Seq(Int) /\ st \in Seq(Int)
  <2> HIDE DEF left
  <2> QED
    BY <1>4, ConcatProperties
<1>6. r.drop \in Nat /\ r.out \in Seq(Decoded)
  <2>1. DecodesWell(left \o t)
    <3> HIDE DEF left
    <3> QED
      BY <1>5, DecodeFacts
  <2>2. r.drop \in 0..Len(left \o t) /\ r.out \in Seq(Decoded)
    BY <2>1, Zenon DEF DecodesWell
  <2> HIDE DEF r, left
  <2> QED
    BY <2>2
<1>7. Drop(s, n + e) = left
  <2> HIDE DEF n, e
  <2>1. e \in 0..(Len(s) - n)
    BY <1>2, <1>3
  <2> QED
    BY <1>1, <2>1, DropTwice
<1>8. decode[s].drop = n + e /\ decode[s].out = Turn(s).out \o decode[q].out
  BY DecodeCases
<1>9. decode[st].drop = n + decode[q \o t].drop /\ decode[st].out = Turn(s).out \o decode[q \o t].out
  <2>1. st # <<>> /\ Turn(st) = Turn(s)
    BY TurnStable
  <2>2. Drop(st, n) = q \o t
    <3> HIDE DEF n
    <3> QED
      BY <1>1, DropConcat
  <2>3. ~Turn(st).stop /\ Drop(st, Turn(st).drop) = q \o t /\ Turn(st).drop = n
    BY <2>1, <2>2
  <2> HIDE DEF st, q, n
  <2> QED
    BY <1>5, <2>1, <2>3, DecodeCases
<1>10. decode[q \o t].drop = e + r.drop /\ decode[q \o t].out = decode[q].out \o r.out
  BY Zenon DEF Joins
<1>11. Turn(s).out \in Seq(Decoded)
  BY TurnOut
<1>12. decode[Drop(s, decode[s].drop) \o t] = r
  BY <1>7, <1>8, Zenon
<1>13. decode[st].drop = decode[s].drop + r.drop
  <2> HIDE DEF n, e, r
  <2>1. n + (e + r.drop) = (n + e) + r.drop
    BY <1>1, <1>2, <1>3, <1>6
  <2> QED
    BY <1>8, <1>9, <1>10, <2>1, Zenon
<1>14. decode[st].out = decode[s].out \o r.out
  <2> DEFINE u == Turn(s).out
             v == decode[q].out
             w == r.out
  <2>0. u \in Seq(Decoded) /\ v \in Seq(Decoded) /\ w \in Seq(Decoded)
    BY <1>3, <1>6, <1>11
  <2>1. decode[st].out = u \o (v \o w) /\ decode[s].out = u \o v
    BY <1>8, <1>9, <1>10, Zenon
  <2> HIDE DEF u, v, w
  <2>2. u \o (v \o w) = (u \o v) \o w
    BY <2>0, Regroup, Zenon
  <2> QED
    BY <2>1, <2>2, Zenon DEF w
<1> QED
  BY <1>12, <1>13, <1>14, Zenon DEF Joins

\* The loop on two parts, by the least length for which it would fail.
LEMMA DecodeConcat ==
  ASSUME NEW s \in Seq(Int), NEW t \in Seq(Int)
  PROVE  Joins(s, t)
<1> DEFINE Bad == {k \in Nat : \E r \in Seq(Int) : Len(r) = k /\ ~Joins(r, t)}
<1>1. CASE Bad = {}
  <2>1. Len(s) \in Nat
    OBVIOUS
  <2> QED
    BY <1>1, <2>1
<1>2. CASE Bad # {}
  <2>1. PICK k \in Bad : \A j \in Bad : k <= j
    <3>1. Bad \subseteq Nat
      OBVIOUS
    <3> HIDE DEF Bad
    <3> QED
      BY <1>2, <3>1, LeastNatural
  <2>2. PICK r \in Seq(Int) : Len(r) = k /\ ~Joins(r, t)
    BY <2>1
  <2>3. /\ decode[t].drop \in Nat /\ decode[t].out \in Seq(Decoded)
        /\ r \o t \in Seq(Int) /\ Len(r) \in Nat
        /\ decode[r \o t].drop \in Nat /\ decode[r \o t].out \in Seq(Decoded)
    <3>1. ASSUME NEW q \in Seq(Int)
          PROVE  decode[q].drop \in Nat /\ decode[q].out \in Seq(Decoded)
      <4>1. decode[q].drop \in 0..Len(q) /\ decode[q].out \in Seq(Decoded) /\ Len(q) \in Nat
        BY DecodeFacts DEF DecodesWell
      <4> QED
        BY <4>1
    <3>2. r \o t \in Seq(Int)
      BY ConcatProperties
    <3>3. decode[t].drop \in Nat /\ decode[t].out \in Seq(Decoded)
      BY <3>1
    <3>4. decode[r \o t].drop \in Nat /\ decode[r \o t].out \in Seq(Decoded)
      BY <3>1, <3>2, Zenon
    <3> QED
      BY <3>2, <3>3, <3>4
  <2>4. ASSUME decode[r].drop = 0, decode[r].out = <<>> PROVE FALSE
    <3>1. 0 \in 0..Len(r)
      BY <2>3
    <3>2. Drop(r, decode[r].drop) = r
      BY <2>4, <3>1, DropFacts
    <3>3. decode[r \o t].drop = 0 + decode[r \o t].drop
      BY <2>3
    <3>4. decode[r \o t].out = <<>> \o decode[r \o t].out
      BY <2>3, ConcatEmptySeq
    <3>5. Joins(r, t)
      BY <2>4, <3>2, <3>3, <3>4, Zenon DEF Joins
    <3> QED
      BY <2>2, <3>5
  <2>5. CASE r = <<>>
    BY <2>4, <2>5, DecodeCases
  <2>6. CASE r # <<>> /\ Turn(r).stop
    <3>1. decode[r].drop = Turn(r).drop /\ decode[r].out = <<>>
      BY <2>6, DecodeCases, TurnProgress
    <3>2. StartIndex(r) = 0 /\ decode[r].drop = Len(r)
      BY <2>4, <2>6, <3>1, TurnProgress
    <3>3. Drop(r, Len(r)) = <<>>
      <4>1. Len(r) \in 0..Len(r)
        BY <2>3
      <4>2. Drop(r, Len(r)) \in Seq(Int) /\ Len(Drop(r, Len(r))) = 0
        BY <2>3, <4>1, DropFacts
      <4> QED
        BY <4>2
    <3>4. Drop(r, decode[r].drop) \o t = t
      BY <3>2, <3>3, ConcatEmptySeq
    <3>5. decode[r \o t].drop = Len(r) + decode[t].drop /\ decode[r \o t].out = decode[t].out
      BY <3>2, NoiseAhead
    <3>6. decode[t].out = <<>> \o decode[t].out
      BY <2>3, ConcatEmptySeq
    <3>7. Joins(r, t)
      BY <3>1, <3>2, <3>4, <3>5, <3>6, Zenon DEF Joins
    <3> QED
      BY <2>2, <3>7
  <2>7. CASE r # <<>> /\ ~Turn(r).stop
    <3> DEFINE n == Turn(r).drop
               q == Drop(r, n)
    <3>1. n \in 1..Len(r) /\ n \in 0..Len(r)
      BY <2>7, TurnProgress
    <3>2. q \in Seq(Int) /\ Len(q) = Len(r) - n
      <4> HIDE DEF n
      <4> QED
        BY <3>1, DropFacts
    <3>3. Joins(q, t)
      <4> HIDE DEF n, q
      <4>1. Len(q) \in Nat /\ ~(k <= Len(q))
        BY <2>2, <2>3, <3>1, <3>2
      <4> QED
        BY <2>1, <3>2, <4>1
    <3>4. Joins(r, t)
      BY <2>7, <3>3, JoinsOnward
    <3> QED
      BY <2>2, <3>4
  <2> QED
    BY <2>5, <2>6, <2>7
<1> QED
  BY <1>1, <1>2

(***************************************************************************)
(* What encode() writes, decode() reads                                    *)
(***************************************************************************)

\* The cells of e start with those of s.
Begins(s, e) == Len(s) <= Len(e) /\ \A i \in 1..Len(s) : e[i] = s[i]

\* What follows s in e, when it is t.
LEMMA Section ==
  ASSUME NEW s \in Seq(Int), NEW t \in Seq(Int), NEW e \in Seq(Int), Begins(s \o t, e)
  PROVE  /\ Begins(s, e)
         /\ \A i \in 1..Len(t) : e[Len(s) + i] = t[i]
         /\ SubSeq(e, Len(s) + 1, Len(s) + Len(t)) = t
<1> DEFINE a == Len(s)
           z == Len(t)
           st == s \o t
<1>1. /\ st \in Seq(Int) /\ Len(st) = a + z
      /\ \A i \in 1..a : st[i] = s[i]
      /\ \A i \in 1..z : st[a + i] = t[i]
  BY Cells
<1>2. a \in Nat /\ z \in Nat /\ Len(e) \in Nat
  OBVIOUS
<1>3. Len(st) <= Len(e) /\ \A i \in 1..Len(st) : e[i] = st[i]
  BY DEF Begins
<1> HIDE DEF a, z, st
<1>4. Begins(s, e)
  <2>1. a <= Len(e) /\ \A i \in 1..a : i \in 1..Len(st)
    BY <1>1, <1>2, <1>3
  <2>2. a <= Len(e) /\ \A i \in 1..a : e[i] = s[i]
    BY <1>1, <1>3, <2>1
  <2> QED
    BY <2>2 DEF Begins, a
<1>5. \A i \in 1..z : e[a + i] = t[i]
  <2>1. \A i \in 1..z : a + i \in 1..Len(st)
    BY <1>1, <1>2
  <2> QED
    BY <1>1, <1>3, <2>1
<1>6. SubSeq(e, a + 1, a + z) = t
  <2> DEFINE u == SubSeq(e, a + 1, a + z)
  <2>1. a + z <= Len(e)
    BY <1>1, <1>3
  <2>2. u \in Seq(Int) /\ Len(u) = z /\ \A i \in 1..z : u[i] = e[a + i]
    <3> DEFINE x == a + 1
               y == a + z
    <3>1. /\ x \in Int /\ y \in Int /\ \A i \in x..y : i \in 1..Len(e)
          /\ (IF x <= y THEN y - x + 1 ELSE 0) = z /\ y - x + 1 = z
          /\ \A i \in 1..z : x + i - 1 = a + i
      BY <1>2, <2>1
    <3> HIDE DEF x, y
    <3>2. \A i \in x..y : e[i] \in Int
      BY <3>1
    <3>3. /\ u \in Seq(Int) /\ Len(u) = IF x <= y THEN y - x + 1 ELSE 0
          /\ \A i \in 1..(y - x + 1) : u[i] = e[x + i - 1]
      BY <3>1, <3>2, SubSeqProperties DEF x, y
    <3> QED
      BY <3>1, <3>3
  <2> HIDE DEF u
  <2>3. Len(t) = z /\ \A i \in 1..Len(u) : u[i] = t[i]
    BY <1>5, <2>2 DEF z
  <2>4. u = t
    BY <2>2, <2>3, SeqEqual
  <2> QED
    BY <2>4 DEF u
<1> QED
  BY <1>4, <1>5, <1>6 DEF a, z

\* The cells that encodeTinyPB writes for a message that has an id and is not too large.
Package(m) ==
  <<PB_START, PackageSize(m), Len(m.id)>> \o m.id
  \o <<Len(m.method)>> \o m.method
  \o <<m.err, Len(m.info)>> \o m.info \o m.body \o <<1, PB_END>>

\* A package is as long as it says, ends with the flag and holds the message.
Readable(e, m) ==
  /\ e \in Seq(Int) /\ Len(e) = PackageSize(m) /\ PackageSize(m) >= 8
  /\ e[1] = PB_START /\ e[2] = PackageSize(m) /\ e[PackageSize(m)] = PB_END
  /\ ParseSuccess(e) /\ Message(e) = m

\* Every package is.
LEMMA PackageIsRead ==
  ASSUME NEW m \in Messages
  PROVE  Readable(Package(m), m)
<1> DEFINE e == Package(m)
           id == m.id
           me == m.method
           in == m.info
           bo == m.body
           I == Len(id)
           M == Len(me)
           F == Len(in)
           B == Len(bo)
           L == PackageSize(m)
           h1 == <<PB_START, L, I>>
           h2 == <<M>>
           h3 == <<m.err, F>>
           h4 == <<1, PB_END>>
           p2 == h1 \o id
           p3 == p2 \o h2
           p4 == p3 \o me
           p5 == p4 \o h3
           p6 == p5 \o in
           p7 == p6 \o bo
<1>1. /\ id \in Seq(Int) /\ me \in Seq(Int) /\ in \in Seq(Int) /\ bo \in Seq(Int)
      /\ m.err \in Int
  BY DEF Messages
<1>2. I \in Nat /\ M \in Nat /\ F \in Nat /\ B \in Nat
  BY <1>1
<1>3. L = 8 + I + M + F + B /\ L \in Nat
  <2>1. L = MIN_PACKAGE_SIZE + I + M + F + B
    BY Zenon DEF PackageSize
  <2> HIDE DEF L, I, M, F, B
  <2> QED
    BY <1>2, <2>1 DEF MIN_PACKAGE_SIZE
<1>4. e = p7 \o h4
  BY DEF Package
<1> HIDE DEF e
<1>5. m = [id |-> id, method |-> me, err |-> m.err, info |-> in, body |-> bo]
  BY DEF Messages
<1> HIDE DEF id, me, in, bo, I, M, F, B, L
<1>6. /\ h1 \in Seq(Int) /\ Len(h1) = 3 /\ h1[1] = PB_START /\ h1[2] = L /\ h1[3] = I
      /\ h2 \in Seq(Int) /\ Len(h2) = 1 /\ h2[1] = M
      /\ h3 \in Seq(Int) /\ Len(h3) = 2 /\ h3[1] = m.err /\ h3[2] = F
      /\ h4 \in Seq(Int) /\ Len(h4) = 2 /\ h4[2] = PB_END
  BY <1>1, <1>2, <1>3 DEF PB_START, PB_END
<1> HIDE DEF h1, h2, h3, h4
<1>8. /\ h1 \in Seq(Int) /\ h2 \in Seq(Int) /\ h3 \in Seq(Int) /\ h4 \in Seq(Int)
      /\ Len(h1) = 3 /\ Len(h2) = 1 /\ Len(h3) = 2 /\ Len(h4) = 2
  BY <1>6
<1>7. Len(id) = I /\ Len(me) = M /\ Len(in) = F /\ Len(bo) = B
  BY DEF I, M, F, B
<1>12. p2 \in Seq(Int) /\ Len(p2) = 3 + I
  <2>1. p2 \in Seq(Int) /\ Len(p2) = Len(h1) + Len(id)
    BY <1>1, <1>8, Cells
  <2> QED
    BY <1>7, <1>8, <2>1
<1> HIDE DEF p2
<1>13. p3 \in Seq(Int) /\ Len(p3) = 4 + I
  <2>1. p3 \in Seq(Int) /\ Len(p3) = Len(p2) + Len(h2)
    BY <1>8, <1>12, Cells
  <2> QED
    BY <1>2, <1>8, <1>12, <2>1
<1> HIDE DEF p3
<1>14. p4 \in Seq(Int) /\ Len(p4) = 4 + I + M
  <2>1. p4 \in Seq(Int) /\ Len(p4) = (4 + I) + M
    BY <1>1, <1>7, <1>13, Cells
  <2> QED
    BY <1>2, <2>1
<1> HIDE DEF p4
<1>15. p5 \in Seq(Int) /\ Len(p5) = 6 + I + M
  <2>1. p5 \in Seq(Int) /\ Len(p5) = Len(p4) + Len(h3)
    BY <1>8, <1>14, Cells
  <2> QED
    BY <1>2, <1>8, <1>14, <2>1
<1> HIDE DEF p5
<1>16. p6 \in Seq(Int) /\ Len(p6) = 6 + I + M + F
  <2>1. p6 \in Seq(Int) /\ Len(p6) = (6 + I + M) + F
    BY <1>1, <1>7, <1>15, Cells
  <2> QED
    BY <1>2, <2>1
<1> HIDE DEF p6
<1>17. p7 \in Seq(Int) /\ Len(p7) = 6 + I + M + F + B
  <2>1. p7 \in Seq(Int) /\ Len(p7) = (6 + I + M + F) + B
    BY <1>1, <1>7, <1>16, Cells
  <2> QED
    BY <1>2, <2>1
<1> HIDE DEF p7
<1>18. e \in Seq(Int) /\ Len(e) = L
  <2>1. e \in Seq(Int) /\ Len(e) = Len(p7) + Len(h4)
    BY <1>4, <1>8, <1>17, Cells
  <2> QED
    BY <1>2, <1>3, <1>8, <1>17, <2>1
<1>20. Begins(p7, e) /\ e[L] = PB_END
  <2>1. Begins(p7 \o h4, e)
    BY <1>4, <1>18 DEF Begins
  <2>2. Begins(p7, e) /\ \A i \in 1..Len(h4) : e[Len(p7) + i] = h4[i]
    BY <1>6, <1>17, <1>18, <2>1, Section
  <2>3. 2 \in 1..Len(h4) /\ Len(p7) + 2 = L
    BY <1>2, <1>3, <1>6, <1>17
  <2>4. e[Len(p7) + 2] = h4[2]
    BY <2>2, <2>3
  <2> QED
    BY <1>6, <2>2, <2>3, <2>4
<1>21. Begins(p6, e) /\ SubSeq(e, 7 + I + M + F, L - 2) = bo
  <2>1. Begins(p6, e) /\ SubSeq(e, Len(p6) + 1, Len(p6) + Len(bo)) = bo
    BY <1>1, <1>16, <1>18, <1>20, Section DEF p7
  <2>2. Len(p6) + 1 = 7 + I + M + F /\ Len(p6) + Len(bo) = L - 2
    BY <1>2, <1>3, <1>7, <1>16
  <2> QED
    BY <2>1, <2>2
<1>22. Begins(p5, e) /\ SubSeq(e, 7 + I + M, 6 + I + M + F) = in
  <2>1. Begins(p5, e) /\ SubSeq(e, Len(p5) + 1, Len(p5) + Len(in)) = in
    BY <1>1, <1>15, <1>18, <1>21, Section DEF p6
  <2>2. Len(p5) + 1 = 7 + I + M /\ Len(p5) + Len(in) = 6 + I + M + F
    BY <1>2, <1>7, <1>15
  <2> QED
    BY <2>1, <2>2
<1>23. Begins(p4, e) /\ e[5 + I + M] = m.err /\ e[6 + I + M] = F
  <2>1. Begins(p4, e) /\ \A i \in 1..Len(h3) : e[Len(p4) + i] = h3[i]
    BY <1>6, <1>14, <1>18, <1>22, Section DEF p5
  <2>2. /\ 1 \in 1..Len(h3) /\ 2 \in 1..Len(h3)
        /\ Len(p4) + 1 = 5 + I + M /\ Len(p4) + 2 = 6 + I + M
    BY <1>2, <1>6, <1>14
  <2>3. e[Len(p4) + 1] = h3[1] /\ e[Len(p4) + 2] = h3[2]
    BY <2>1, <2>2
  <2> QED
    BY <1>6, <2>1, <2>2, <2>3
<1>24. Begins(p3, e) /\ SubSeq(e, 5 + I, 4 + I + M) = me
  <2>1. Begins(p3, e) /\ SubSeq(e, Len(p3) + 1, Len(p3) + Len(me)) = me
    BY <1>1, <1>13, <1>18, <1>23, Section DEF p4
  <2>2. Len(p3) + 1 = 5 + I /\ Len(p3) + Len(me) = 4 + I + M
    BY <1>2, <1>7, <1>13
  <2> QED
    BY <2>1, <2>2
<1>25. Begins(p2, e) /\ e[4 + I] = M
  <2>1. Begins(p2, e) /\ \A i \in 1..Len(h2) : e[Len(p2) + i] = h2[i]
    BY <1>6, <1>12, <1>18, <1>24, Section DEF p3
  <2>2. 1 \in 1..Len(h2) /\ Len(p2) + 1 = 4 + I
    BY <1>2, <1>6, <1>12
  <2>3. e[Len(p2) + 1] = h2[1]
    BY <2>1, <2>2
  <2> QED
    BY <1>6, <2>1, <2>2, <2>3
<1>26. Begins(h1, e) /\ SubSeq(e, 4, 3 + I) = id
  <2>1. Begins(h1, e) /\ SubSeq(e, Len(h1) + 1, Len(h1) + Len(id)) = id
    BY <1>1, <1>6, <1>18, <1>25, Section DEF p2
  <2>2. Len(h1) + 1 = 4 /\ Len(h1) + Len(id) = 3 + I
    BY <1>2, <1>6, <1>7
  <2> QED
    BY <2>1, <2>2
<1>27. e[1] = PB_START /\ e[2] = L /\ e[3] = I
  BY <1>6, <1>26 DEF Begins
<1> DEFINE mi == 4 + e[3]
           ei == mi + e[mi] + 1
           bi == ei + 1 + e[ei + 1] + 1
<1>28. /\ mi = 4 + I /\ mi - 1 = 3 + I /\ mi + 1 = 5 + I /\ e[mi] = M
  BY <1>2, <1>25, <1>27
<1> HIDE DEF mi
<1>29. /\ ei = 5 + I + M /\ ei - 1 = 4 + I + M /\ ei + 1 = 6 + I + M /\ ei + 2 = 7 + I + M
       /\ e[ei] = m.err /\ e[ei + 1] = F
  <2>1. ei = (4 + I) + M + 1
    BY <1>28
  <2>2. ei = 5 + I + M
    BY <1>2, <2>1
  <2> HIDE DEF ei
  <2>3. ei - 1 = 4 + I + M /\ ei + 1 = 6 + I + M /\ ei + 2 = 7 + I + M
    BY <1>2, <2>2
  <2> QED
    BY <1>23, <2>2, <2>3
<1> HIDE DEF ei
<1>30. bi = 7 + I + M + F /\ bi - 1 = 6 + I + M + F
  <2>1. bi = (5 + I + M) + 1 + F + 1
    BY <1>29
  <2> HIDE DEF bi
  <2> QED
    BY <1>2, <2>1
<1> HIDE DEF bi
<1>31. Message(e) = [id |-> SubSeq(e, 4, mi - 1),
                     method |-> SubSeq(e, mi + 1, ei - 1),
                     err |-> e[ei],
                     info |-> SubSeq(e, ei + 2, bi - 1),
                     body |-> SubSeq(e, bi, Len(e) - 2)]
  BY Zenon DEF Message, mi, ei, bi
<1>32. Message(e) = m
  BY <1>5, <1>18, <1>21, <1>22, <1>24, <1>26, <1>28, <1>29, <1>30, <1>31, Zenon
<1>33. ParseSuccess(e)
  <2> DEFINE last == Len(e) - 2
  <2>1. last = 6 + I + M + F + B
    BY <1>2, <1>3, <1>18
  <2> HIDE DEF last
  <2>2. 3 <= last /\ e[3] >= 0 /\ 3 + e[3] <= last
    BY <1>2, <1>27, <2>1
  <2>3. mi <= last /\ e[mi] >= 0 /\ mi + e[mi] <= last
    BY <1>2, <1>28, <2>1
  <2>4. ei <= last /\ ei + 1 <= last /\ e[ei + 1] >= 0 /\ ei + 1 + e[ei + 1] <= last
    BY <1>2, <1>29, <2>1
  <2> QED
    BY <2>2, <2>3, <2>4, Zenon DEF ParseSuccess, mi, ei, last
<1>34. L >= 8
  BY <1>2, <1>3
<1> QED
  BY <1>18, <1>20, <1>27, <1>32, <1>33, <1>34, Zenon DEF Readable, L, e

\* decode() takes the package of a message whole, and makes the message of it.
LEMMA OneMessage ==
  ASSUME NEW m \in Messages
  PROVE  /\ encodeTinyPB(m) \in Seq(Int)
         /\ decode[encodeTinyPB(m)].drop = Len(encodeTinyPB(m))
         /\ decode[encodeTinyPB(m)].out = Sent(m)
<1> DEFINE w == WithId(m)
           e == encodeTinyPB(m)
           L == PackageSize(w)
<1>1. w \in Messages
  <2>1. DefaultId \in Seq(Int)
    BY DEF DefaultId
  <2> QED
    BY <2>1 DEF WithId, Messages
<1>2. CASE L > MaxPackage
  <2>1. e = <<>> /\ Sent(m) = <<>>
    BY <1>2, Zenon DEF encodeTinyPB, Sent
  <2>2. <<>> \in Seq(Int) /\ Len(<<>>) = 0
    OBVIOUS
  <2>3. decode[<<>>].drop = 0 /\ decode[<<>>].out = <<>>
    BY <2>2, DecodeCases
  <2> QED
    BY <2>1, <2>2, <2>3, Zenon
<1>3. CASE ~(L > MaxPackage)
  <2>1. e = Package(w) /\ Sent(m) = <<w>>
    BY <1>3, Zenon DEF encodeTinyPB, Sent, Package
  <2>2. Readable(e, w)
    BY <1>1, <2>1, PackageIsRead, Zenon
  <2> HIDE DEF w, e
  <2>3. /\ e \in Seq(Int) /\ Len(e) = L /\ L >= 8 /\ L \in Nat
        /\ e[1] = PB_START /\ e[2] = L /\ e[L] = PB_END
        /\ ParseSuccess(e) /\ Message(e) = w
    <3>1. Readable(e, w) /\ Len(e) \in Nat
      BY <2>2 DEF Readable
    <3> QED
      BY <3>1, Zenon DEF Readable
  <2> HIDE DEF L
  <2>4. StartIndex(e) = 1
    <3>1. 1 \in 0..Len(e) /\ \A i \in 1..(1 - 1) : e[i] # PB_START
      BY <2>3
    <3> QED
      BY <2>3, <3>1, StartIndexIs
  <2>5. e # <<>> /\ Len(e) >= 2 /\ ~(Len(e) < 2) /\ L <= Len(e) /\ ~(L > Len(e)) /\ L \in 0..Len(e)
    BY <2>3
  <2>6. ~BadLength(L)
    BY <1>3, <2>3 DEF BadLength, MIN_PACKAGE_SIZE
  <2>7. SubSeq(e, 1, L) = e
    BY <2>3
  <2>8. Turn(e) = Take(L, <<w>>)
    <3>1. StartIndex(e) # 0 /\ ~(StartIndex(e) > 1)
      BY <2>4
    <3>2. Turn(e) = Take(L, IF ParseSuccess(SubSeq(e, 1, L)) THEN <<Message(SubSeq(e, 1, L))>>
                                                             ELSE <<>>)
      BY <2>3, <2>5, <2>6, <3>1, TurnCases, Zenon
    <3> QED
      BY <2>3, <2>7, <3>2, Zenon
  <2>9. ~Turn(e).stop /\ Turn(e).drop = L /\ Turn(e).out = <<w>>
    BY <2>8 DEF Take
  <2>10. Drop(e, L) = <<>>
    <3>1. Drop(e, L) \in Seq(Int) /\ Len(Drop(e, L)) = Len(e) - L
      BY <2>3, <2>5, DropFacts
    <3>2. Len(Drop(e, L)) = 0
      BY <2>3, <3>1
    <3> QED
      BY <3>1, <3>2
  <2>11. decode[<<>>].drop = 0 /\ decode[<<>>].out = <<>>
    <3>1. <<>> \in Seq(Int)
      OBVIOUS
    <3> QED
      BY <3>1, DecodeCases
  <2>12. decode[e].drop = L + 0 /\ decode[e].out = <<w>> \o <<>>
    BY <2>3, <2>5, <2>9, <2>10, <2>11, DecodeCases
  <2>13. <<w>> \o <<>> = <<w>> /\ L + 0 = L
    BY <2>3
  <2> QED
    BY <2>1, <2>3, <2>12, <2>13 DEF e
<1> QED
  BY <1>2, <1>3

\* The first m values of the function that FlattenSeq defines.
Flattens(g, q, m) ==
  g = [i \in 1..m |-> IF i = 1 THEN q[i] ELSE g[i - 1] \o q[i]]

\* There is such a function for every m: no m is the least for which there is none.
LEMMA FlattenExists ==
  ASSUME NEW q, NEW n \in Nat
  PROVE  \E g : Flattens(g, q, n)
<1> DEFINE Bad == {m \in Nat : ~ \E g : Flattens(g, q, m)}
<1>1. SUFFICES ASSUME Bad # {} PROVE FALSE
  OBVIOUS
<1>2. PICK m \in Bad : \A k \in Bad : m <= k
  <2>1. Bad \subseteq Nat
    OBVIOUS
  <2> HIDE DEF Bad
  <2> QED
    BY <1>1, <2>1, LeastNatural
<1>3. CASE m = 0
  <2> DEFINE e == [i \in 1..0 |-> 0]
  <2>1. e = [i \in 1..0 |-> IF i = 1 THEN q[i] ELSE e[i - 1] \o q[i]]
    OBVIOUS
  <2> QED
    BY <1>2, <1>3, <2>1 DEF Flattens
<1>4. CASE m # 0
  <2>1. m - 1 \in Nat /\ m - 1 \notin Bad /\ m \in Nat
    BY <1>2, <1>4
  <2>2. PICK g : Flattens(g, q, m - 1)
    BY <2>1
  <2> DEFINE h == [i \in 1..m |-> IF i < m THEN g[i]
                                  ELSE IF i = 1 THEN q[i] ELSE g[i - 1] \o q[i]]
  <2>3. ASSUME NEW i \in 1..m
        PROVE  h[i] = IF i = 1 THEN q[i] ELSE h[i - 1] \o q[i]
    <3>1. CASE i < m
      <4>1. i \in 1..(m - 1)
        BY <2>1, <3>1
      <4>2. g[i] = IF i = 1 THEN q[i] ELSE g[i - 1] \o q[i]
        BY <2>2, <4>1 DEF Flattens
      <4>3. i # 1 => i - 1 \in 1..m /\ i - 1 < m
        BY <2>1
      <4> QED
        BY <3>1, <4>2, <4>3
    <3>2. CASE ~(i < m)
      <4>1. i # 1 => i - 1 \in 1..m /\ i - 1 < m
        BY <2>1
      <4> QED
        BY <3>2, <4>1
    <3> QED
      BY <3>1, <3>2
  <2>4. h = [i \in 1..m |-> h[i]]
    OBVIOUS
  <2> HIDE DEF h
  <2>5. h = [i \in 1..m |-> IF i = 1 THEN q[i] ELSE h[i - 1] \o q[i]]
    BY <2>3, <2>4
  <2> QED
    BY <1>2, <2>5 DEF Flattens
<1> QED
  BY <1>3, <1>4

\* FlattenSeq is the last value of that function.
LEMMA FlattenLast ==
  ASSUME NEW q, Len(q) \in Nat, Len(q) # 0
  PROVE  \E g : Flattens(g, q, Len(q)) /\ FlattenSeq(q) = g[Len(q)]
<1> DEFINE n == Len(q)
           g == CHOOSE g : Flattens(g, q, n)
<1>1. Flattens(g, q, n)
  BY FlattenExists
<1>2. FlattenSeq(q) = g[n]
  BY DEF FlattenSeq, Flattens
<1> QED
  BY <1>1, <1>2

\* The packages of a conversation give its messages back, and leave nothing.
LEMMA ConversationIsRead ==
  ASSUME NEW c \in Seq(Messages)
  PROVE  /\ encode(c) \in Seq(Int)
         /\ decode[encode(c)].drop = Len(encode(c))
         /\ decode[encode(c)].out = FlattenSeq([i \in DOMAIN c |-> Sent(c[i])])
<1> DEFINE n == Len(c)
           qe == [i \in DOMAIN c |-> encodeTinyPB(c[i])]
           qs == [i \in DOMAIN c |-> Sent(c[i])]
<1>1. n \in Nat /\ DOMAIN c = 1..n /\ \A i \in 1..n : c[i] \in Messages
  OBVIOUS
<1>2. encode(c) = FlattenSeq(qe)
  BY DEF encode
<1>3. Len(qe) = n /\ Len(qs) = n
  BY <1>1
<1>4. \A i \in 1..n : qe[i] = encodeTinyPB(c[i]) /\ qs[i] = Sent(c[i])
  BY <1>1
<1>5. ASSUME NEW i \in 1..n
      PROVE  qe[i] \in Seq(Int) /\ decode[qe[i]].drop = Len(qe[i]) /\ decode[qe[i]].out = qs[i]
  BY <1>1, <1>4, OneMessage
<1>6. CASE n = 0
  <2>1. qe = <<>> /\ qs = <<>>
    BY <1>1, <1>6
  <2>2. FlattenSeq(<<>>) = <<>> /\ <<>> \in Seq(Int) /\ Len(<<>>) = 0
    BY DEF FlattenSeq
  <2>3. decode[<<>>].drop = 0 /\ decode[<<>>].out = <<>>
    BY <2>2, DecodeCases
  <2> QED
    BY <1>2, <2>1, <2>2, <2>3, Zenon
<1>7. CASE n # 0
  <2> HIDE DEF qe, qs, n
  <2>1. PICK g : Flattens(g, qe, n) /\ FlattenSeq(qe) = g[n]
    BY <1>1, <1>3, <1>7, FlattenLast
  <2>2. PICK h : Flattens(h, qs, n) /\ FlattenSeq(qs) = h[n]
    BY <1>1, <1>3, <1>7, FlattenLast
  <2> DEFINE Good(i) == /\ g[i] \in Seq(Int)
                        /\ decode[g[i]].drop = Len(g[i])
                        /\ decode[g[i]].out = h[i]
             Bad == {i \in 1..n : ~Good(i)}
  <2>3. CASE Bad = {}
    <3>1. n \in 1..n
      BY <1>1, <1>7
    <3>2. Good(n)
      <4> HIDE DEF Good
      <4> QED
        BY <2>3, <3>1
    <3> QED
      BY <1>2, <2>1, <2>2, <3>2, Zenon DEF qs
  <2>4. CASE Bad # {}
    <3>1. PICK i \in Bad : \A k \in Bad : i <= k
      <4>1. Bad \subseteq Nat
        BY <1>1
      <4> HIDE DEF Bad
      <4> QED
        BY <2>4, <4>1, LeastNatural
    <3>2. i \in 1..n /\ ~Good(i)
      BY <3>1
    <3>3. g[i] = (IF i = 1 THEN qe[i] ELSE g[i - 1] \o qe[i])
      <4> DEFINE T(j) == IF j = 1 THEN qe[j] ELSE g[j - 1] \o qe[j]
      <4>1. g = [j \in 1..n |-> T(j)]
        BY <2>1 DEF Flattens
      <4> HIDE DEF T
      <4>2. g[i] = T(i)
        BY <3>2, <4>1
      <4> QED
        BY <4>2 DEF T
    <3>4. h[i] = (IF i = 1 THEN qs[i] ELSE h[i - 1] \o qs[i])
      <4> DEFINE T(j) == IF j = 1 THEN qs[j] ELSE h[j - 1] \o qs[j]
      <4>1. h = [j \in 1..n |-> T(j)]
        BY <2>2 DEF Flattens
      <4> HIDE DEF T
      <4>2. h[i] = T(i)
        BY <3>2, <4>1
      <4> QED
        BY <4>2 DEF T
    <3>5. CASE i = 1
      <4>1. g[i] = qe[i] /\ h[i] = qs[i]
        BY <3>3, <3>4, <3>5
      <4>2. Good(i)
        BY <1>5, <3>2, <4>1
      <4> QED
        BY <3>2, <4>2
    <3>6. CASE i # 1
      <4> DEFINE a == g[i - 1]
                 z == qe[i]
      <4>1. i - 1 \in 1..n /\ ~(i <= i - 1)
        BY <1>1, <3>2, <3>6
      <4>2. Good(i - 1)
        <5> HIDE DEF Good
        <5> QED
          BY <3>1, <4>1
      <4>3. a \in Seq(Int) /\ decode[a].drop = Len(a) /\ decode[a].out = h[i - 1]
        BY <4>2
      <4>4. z \in Seq(Int) /\ decode[z].drop = Len(z) /\ decode[z].out = qs[i]
        BY <1>5, <3>2
      <4>5. g[i] = a \o z /\ h[i] = h[i - 1] \o qs[i]
        BY <3>3, <3>4, <3>6
      <4> HIDE DEF a, z, Good
      <4>6. Drop(a, decode[a].drop) \o z = z
        <5>1. Len(a) \in 0..Len(a)
          BY <4>3
        <5>2. Drop(a, Len(a)) \in Seq(Int) /\ Len(Drop(a, Len(a))) = Len(a) - Len(a)
          BY <4>3, <5>1, DropFacts
        <5>3. Len(a) - Len(a) = 0
          BY <4>3
        <5>4. Drop(a, Len(a)) = <<>>
          BY <5>2, <5>3
        <5> QED
          BY <4>3, <4>4, <5>4, ConcatEmptySeq
      <4>7. Joins(a, z)
        BY <4>3, <4>4, DecodeConcat
      <4>8. /\ decode[a \o z].drop = Len(a) + Len(z)
            /\ decode[a \o z].out = h[i - 1] \o qs[i]
        BY <4>3, <4>4, <4>6, <4>7, Zenon DEF Joins
      <4>9. a \o z \in Seq(Int) /\ Len(a \o z) = Len(a) + Len(z)
        BY <4>3, <4>4, Cells
      <4>10. Good(i)
        BY <4>5, <4>8, <4>9, Zenon DEF Good
      <4> QED
        BY <3>2, <4>10
    <3> QED
      BY <3>5, <3>6
  <2> QED
    BY <2>3, <2>4
<1> QED
  BY <1>6, <1>7

(***************************************************************************)
(* The connection that reads the stream                                    *)
(***************************************************************************)

\* What decode() has consumed and produced is what it would of everything that came.
CoderInv ==
  /\ stream \in Seq(Int)
  /\ arrived \in 0..Len(stream)
  /\ pos \in 0..arrived
  /\ ChunkingIndependent

\* The cells that one call of onRead adds: to all that came, and to what was left.
LEMMA Pieces ==
  ASSUME NEW s \in Seq(Int), NEW a \in 0..Len(s), NEW p \in 0..a, NEW z \in a..Len(s)
  PROVE  LET w == SubSeq(s, 1, a)
             c == SubSeq(s, a + 1, z)
         IN /\ w \in Seq(Int) /\ c \in Seq(Int) /\ Len(w) = a
            /\ SubSeq(s, 1, z) = w \o c
            /\ SubSeq(s, p + 1, z) = Drop(w, p) \o c
<1> DEFINE w == SubSeq(s, 1, a)
           c == SubSeq(s, a + 1, z)
           l == SubSeq(s, p + 1, a)
<1>0. Len(s) \in Nat /\ a \in Nat /\ z \in Nat /\ p \in Nat /\ p <= a /\ a <= z /\ z <= Len(s)
  OBVIOUS
<1>1. w \in Seq(Int) /\ Len(w) = a /\ \A i \in 1..a : w[i] = s[i]
  BY <1>0
<1>2. c \in Seq(Int)
  BY <1>0
<1>3. l \in Seq(Int) /\ Len(l) = a - p /\ \A i \in 1..(a - p) : l[i] = s[p + i]
  BY <1>0
<1>4. SubSeq(s, 1, z) = w \o c
  <2>1. 1 \in 1..(Len(s) + 1) /\ a \in (1 - 1)..Len(s) /\ z \in a..Len(s)
    BY <1>0
  <2> QED
    BY <2>1, ConcatAdjacentSubSeq
<1>5. SubSeq(s, p + 1, z) = l \o c
  <2> DEFINE m == p + 1
  <2>1. m \in 1..(Len(s) + 1) /\ a \in (m - 1)..Len(s) /\ z \in a..Len(s)
    BY <1>0
  <2> HIDE DEF m
  <2>2. SubSeq(s, m, a) \o SubSeq(s, a + 1, z) = SubSeq(s, m, z)
    BY <2>1, ConcatAdjacentSubSeq
  <2> QED
    BY <2>2 DEF m
<1>6. l = Drop(w, p)
  <2> HIDE DEF w, l
  <2>1. p \in 0..Len(w)
    BY <1>0, <1>1
  <2>2. /\ Drop(w, p) \in Seq(Int) /\ Len(Drop(w, p)) = a - p
        /\ \A i \in 1..(a - p) : Drop(w, p)[i] = w[p + i]
    BY <1>1, <2>1, DropFacts
  <2>3. ASSUME NEW i \in 1..(a - p) PROVE l[i] = Drop(w, p)[i]
    <3>1. p + i \in 1..a
      BY <1>0
    <3> QED
      BY <1>1, <1>3, <2>2, <3>1
  <2> QED
    BY <1>3, <2>2, <2>3, SeqEqual
<1> QED
  BY <1>1, <1>2, <1>4, <1>5, <1>6, Zenon

\* Nothing has come.
LEMMA InitCoderInv == Init => CoderInv
<1> SUFFICES ASSUME Init PROVE CoderInv
  OBVIOUS
<1>1. stream \in Seq(Int) /\ arrived = 0 /\ pos = 0 /\ out = <<>>
  BY StreamsAssumption DEF Init
<1>2. SubSeq(stream, 1, arrived) = <<>> /\ <<>> \in Seq(Int)
  BY <1>1
<1>3. decode[<<>>].drop = 0 /\ decode[<<>>].out = <<>>
  BY <1>2, DecodeCases
<1>4. ChunkingIndependent
  BY <1>1, <1>2, <1>3, Zenon DEF ChunkingIndependent
<1> QED
  BY <1>1, <1>4 DEF CoderInv

\* One more piece, of any size, is decoded.
LEMMA NextCoderInv == CoderInv /\ [Next]_vars => CoderInv'
<1> SUFFICES ASSUME CoderInv, [Next]_vars PROVE CoderInv'
  OBVIOUS
<1>1. /\ stream \in Seq(Int) /\ arrived \in 0..Len(stream) /\ pos \in 0..arrived
      /\ Len(stream) \in Nat
  BY DEF CoderInv
<1>2. out = decode[SubSeq(stream, 1, arrived)].out /\ pos = decode[SubSeq(stream, 1, arrived)].drop
  BY Zenon DEF CoderInv, ChunkingIndependent
<1>3. CASE UNCHANGED vars
  BY <1>3 DEF vars, CoderInv, ChunkingIndependent
<1>4. ASSUME NEW n \in 1..Len(stream), OnRead(n) PROVE CoderInv'
  <2> DEFINE z == arrived + n
             w == SubSeq(stream, 1, arrived)
             c == SubSeq(stream, arrived + 1, z)
             d == decode[Drop(w, pos) \o c]
  <2>1. z \in arrived..Len(stream) /\ z \in 0..Len(stream) /\ z \in Nat
    BY <1>1, <1>4 DEF OnRead
  <2>2. /\ w \in Seq(Int) /\ c \in Seq(Int) /\ Len(w) = arrived
        /\ SubSeq(stream, 1, z) = w \o c
        /\ SubSeq(stream, pos + 1, z) = Drop(w, pos) \o c
    <3> HIDE DEF z
    <3> QED
      BY <1>1, <2>1, Pieces
  <2>3. pos' = pos + d.drop /\ out' = out \o d.out /\ arrived' = z /\ stream' = stream
    BY <1>4, <2>2, Zenon DEF OnRead
  <2>4. Joins(w, c)
    <3> HIDE DEF w, c
    <3> QED
      BY <2>2, DecodeConcat
  <2>5. decode[w \o c].drop = pos + d.drop /\ decode[w \o c].out = out \o d.out
    BY <1>2, <2>4, Zenon DEF Joins
  <2>6. SubSeq(stream', 1, arrived') = w \o c
    BY <2>2, <2>3, Zenon
  <2>7. ChunkingIndependent'
    BY <2>3, <2>5, <2>6, Zenon DEF ChunkingIndependent
  <2>8. pos' \in 0..arrived'
    <3>1. w \o c \in Seq(Int) /\ Len(w \o c) = z
      <4>1. SubSeq(stream, 1, z) \in Seq(Int) /\ Len(SubSeq(stream, 1, z)) = z
        BY <1>1, <2>1
      <4> QED
        BY <2>2, <4>1, Zenon
    <3> HIDE DEF w, c, z, d
    <3>2. decode[w \o c].drop \in 0..Len(w \o c)
      BY <3>1, DecodeFacts DEF DecodesWell
    <3> QED
      BY <2>3, <2>5, <3>1, <3>2
  <2> QED
    BY <1>1, <2>1, <2>3, <2>7, <2>8 DEF CoderInv
<1> QED
  BY <1>3, <1>4 DEF Next, AllRead

\* CoderInv holds in every reachable state.
LEMMA CoderInvHolds == Spec => []CoderInv
<1> QED
  BY InitCoderInv, NextCoderInv, PTL DEF Spec

\* docs/protocol.md, "TCP Sticky And Partial Packets": wherever a stream is cut, and
\* whatever it is made of, the messages that excute() gets and the cells the buffer
\* still holds are those of one decode() of everything that came.
THEOREM CutsMakeNoDifference == Spec => []ChunkingIndependent
<1>1. CoderInv => ChunkingIndependent
  BY DEF CoderInv
<1> QED
  BY <1>1, CoderInvHolds, PTL

\* The cells that decode() leaves in the buffer are the start of one package shorter
\* than MAX_PACKAGE_SIZE, for every stream, however malformed.
THEOREM BacklogStaysBounded == Spec => []BacklogBounded
<1>1. CoderInv => BacklogBounded
  <2> SUFFICES ASSUME CoderInv, arrived > pos
               PROVE  stream[pos + 1] = PB_START /\ arrived - pos < MaxPackage
    BY DEF BacklogBounded
  <2> DEFINE w == SubSeq(stream, 1, arrived)
  <2>1. /\ stream \in Seq(Int) /\ arrived \in 0..Len(stream) /\ pos \in 0..arrived
        /\ Len(stream) \in Nat
    BY DEF CoderInv
  <2>2. w \in Seq(Int) /\ Len(w) = arrived /\ \A i \in 1..arrived : w[i] = stream[i]
    BY <2>1
  <2>3. pos = decode[w].drop
    BY Zenon DEF CoderInv, ChunkingIndependent
  <2> HIDE DEF w
  <2>4. pos < Len(w) => w[pos + 1] = PB_START /\ Len(w) - pos < MaxPackage
    BY <2>2, <2>3, DecodeFacts DEF DecodesWell
  <2>5. pos < Len(w) /\ pos + 1 \in 1..arrived
    BY <2>1, <2>2
  <2> QED
    BY <2>2, <2>4, <2>5
<1> QED
  BY <1>1, CoderInvHolds, PTL

\* What a sequence is a prefix of.
LEMMA PrefixOfConcat ==
  ASSUME NEW s \in Seq(Decoded), NEW t \in Seq(Decoded)
  PROVE  IsPrefix(s, s \o t)
<1> DEFINE u == s \o t
           n == Len(s)
<1>0. n \in Nat /\ Len(t) \in Nat
  OBVIOUS
<1>1. /\ u \in Seq(Decoded) /\ Len(u) = n + Len(t)
      /\ \A i \in 1..(n + Len(t)) : u[i] = IF i <= n THEN s[i] ELSE t[i - n]
  BY ConcatProperties
<1> HIDE DEF u
<1>2. n <= Len(u)
  BY <1>0, <1>1
<1>3. \A i \in 1..n : u[i] = s[i]
  BY <1>0, <1>1
<1>4. /\ SubSeq(s, 1, n) \in Seq(Decoded) /\ Len(SubSeq(s, 1, n)) = n
      /\ \A i \in 1..n : SubSeq(s, 1, n)[i] = s[i]
  BY <1>0
<1>5. /\ SubSeq(u, 1, n) \in Seq(Decoded) /\ Len(SubSeq(u, 1, n)) = n
      /\ \A i \in 1..n : SubSeq(u, 1, n)[i] = u[i]
  BY <1>0, <1>1, <1>2
<1>6. SubSeq(s, 1, n) = SubSeq(u, 1, n)
  BY <1>3, <1>4, <1>5, SeqEqual
<1> QED
  BY <1>2, <1>6 DEF IsPrefix, u

\* docs/protocol.md, "TCP Sticky And Partial Packets": for every conversation, after
\* cells among which no package starts and wherever the stream is cut, excute() gets
\* the messages that were encoded, in order and once, and the ones too large to be
\* sent are the only ones missing.
THEOREM WhatIsSentIsReceived == Spec => []RoundTrip
<1>1. CoderInv => RoundTrip
  <2> SUFFICES ASSUME CoderInv, NEW p \in Exchanges, stream = p[1]
               PROVE  IsPrefix(out, p[2]) /\ (arrived = Len(stream) => out = p[2])
    BY DEF RoundTrip
  <2>1. \E a \in Leads : \E c \in Conversations : p = Exchange(a, c)
    BY DEF Exchanges
  <2>2. PICK a \in Leads : \E c \in Conversations : p = Exchange(a, c)
    BY <2>1
  <2>3. PICK c \in Conversations : p = Exchange(a, c)
    BY <2>2
  <2> DEFINE sent == FlattenSeq([i \in DOMAIN c |-> Sent(c[i])])
             x == encode(c)
  <2>4. /\ x \in Seq(Int) /\ decode[x].out = sent
    <3>1. c \in Seq(Messages)
      BY ConversationsAssumption
    <3> QED
      BY <3>1, ConversationIsRead
  <2>5. a \in Seq(Int) /\ StartIndex(a) = 0
    <3>1. a \in Seq(Int) /\ \A i \in 1..Len(a) : a[i] # PB_START
      BY ConversationsAssumption
    <3>2. 0 \in 0..Len(a) /\ \A i \in 1..(0 - 1) : a[i] # PB_START
      BY <3>1
    <3> QED
      BY <3>1, <3>2, StartIndexIs
  <2> HIDE DEF sent, x
  <2>6. p = <<a \o x, sent>>
    BY <2>3, Zenon DEF Exchange, sent, x
  <2>7. p[1] = a \o x /\ p[2] = sent
    <3> DEFINE y == a \o x
    <3>1. p = <<y, sent>>
      BY <2>6
    <3> HIDE DEF y
    <3>2. p[1] = y /\ p[2] = sent
      BY <3>1
    <3> QED
      BY <3>2 DEF y
  <2>8. decode[stream].out = sent
    BY <2>4, <2>5, <2>7, NoiseAhead
  <2>9. /\ stream \in Seq(Int) /\ arrived \in 0..Len(stream) /\ pos \in 0..arrived
        /\ Len(stream) \in Nat
    BY DEF CoderInv
  <2> DEFINE w == SubSeq(stream, 1, arrived)
             rest == SubSeq(stream, arrived + 1, Len(stream))
             r == decode[Drop(w, decode[w].drop) \o rest]
  <2>10. out = decode[w].out
    BY Zenon DEF CoderInv, ChunkingIndependent
  <2>11. w \in Seq(Int) /\ rest \in Seq(Int) /\ stream = w \o rest
    <3>1. Len(stream) \in arrived..Len(stream) /\ SubSeq(stream, 1, Len(stream)) = stream
      BY <2>9
    <3>2. w \in Seq(Int) /\ rest \in Seq(Int) /\ SubSeq(stream, 1, Len(stream)) = w \o rest
      BY <2>9, <3>1, Pieces
    <3> QED
      BY <3>1, <3>2, Zenon
  <2>12. Joins(w, rest)
    <3> HIDE DEF w, rest
    <3> QED
      BY <2>11, DecodeConcat
  <2>13. sent = out \o r.out
    BY <2>8, <2>10, <2>11, <2>12, Zenon DEF Joins
  <2>14. out \in Seq(Decoded) /\ r.out \in Seq(Decoded)
    <3>1. decode[w].out \in Seq(Decoded)
      <4> HIDE DEF w
      <4> QED
        BY <2>11, DecodeFacts DEF DecodesWell
    <3>2. decode[w].drop \in 0..Len(w)
      <4> HIDE DEF w
      <4> QED
        BY <2>11, DecodeFacts DEF DecodesWell
    <3> DEFINE v == Drop(w, decode[w].drop)
    <3>3. v \in Seq(Int)
      <4> DEFINE d == decode[w].drop
      <4> HIDE DEF w, d
      <4> QED
        BY <2>11, <3>2, DropFacts DEF d
    <3> HIDE DEF v, rest
    <3>4. v \o rest \in Seq(Int)
      BY <2>11, <3>3, ConcatProperties
    <3>5. decode[v \o rest].out \in Seq(Decoded)
      BY <3>4, DecodeFacts DEF DecodesWell
    <3> QED
      BY <2>10, <3>1, <3>5, Zenon DEF v, rest
  <2>15. IsPrefix(out, sent)
    <3> DEFINE z == r.out
    <3>1. z \in Seq(Decoded) /\ sent = out \o z
      BY <2>13, <2>14
    <3> HIDE DEF z
    <3> QED
      BY <2>14, <3>1, PrefixOfConcat, Zenon
  <2>16. arrived = Len(stream) => out = sent
    <3>1. arrived = Len(stream) => w = stream
      BY <2>9
    <3> QED
      BY <2>8, <2>10, <3>1, Zenon
  <2> QED
    BY <2>7, <2>15, <2>16
<1> QED
  BY <1>1, CoderInvHolds, PTL
=============================================================================
