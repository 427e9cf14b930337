---------------------------- MODULE LoggerProofs ----------------------------
(***************************************************************************)
(* Theorems about Logger, for any threads that log, any thread a signal    *)
(* may interrupt and any number of log calls.  They speak of the runs in   *)
(* which no two threads have met in a section.                             *)
(***************************************************************************)
EXTENDS Logger, SequenceTheorems, WellFoundedInduction, TLAPS

(***************************************************************************)
(* The invariant                                                           *)
(***************************************************************************)

Names == {"put", "swap", "push", "unlock", "pop", "wait", "asleep", "print",
          "stop", "join", "raise"}
Ops == [op : Names, m : Mutexes, lines : Seq(Nat)]

Types ==
  /\ todo \in [Agents -> Seq(Ops)]
  /\ inside \in [Mutexes -> SUBSET Agents]
  /\ locked \subseteq Mutexes
  /\ count \in [Channels -> Nat]
  /\ buffer \in [Channels -> Seq(Nat)]
  /\ queue \in [Channels -> Seq(Seq(Nat))]
  /\ stop \in [Channels -> BOOLEAN]
  /\ printed \in [Channels -> Seq(Nat)]

Fronts == {FrontMutex("rpc"), FrontMutex("app")}
Backs == {BackMutex("rpc"), BackMutex("app")}

\* A thread that only logs.
LogsOnly(s) ==
  \A i \in DOMAIN s : s[i].op \in {"put", "unlock"} /\ s[i].m \in Fronts

\* A thread that may sync.  It hands on a buffer that it took right after it
\* has given up the rpc mutex.
Syncs(s) ==
  \A i \in DOMAIN s :
    /\ s[i].op \in {"put", "swap"} => s[i].m \in Fronts
    /\ s[i].op = "push" =>
         /\ s[i].m \in Backs
         /\ \/ i = 1
            \/ i = 2 /\ s[1].op = "unlock" /\ s[1].m = FrontMutex("rpc")

\* A writer waits, prints or goes on.
Writes(s, c) ==
  \/ s \in {<<>>, <<Do("pop", BackMutex(c))>>, <<Do("wait", BackMutex(c))>>,
            <<Do("asleep", BackMutex(c))>>, <<Do("unlock", BackMutex(c))>>,
            <<Do("unlock", BackMutex(c)), Do("pop", BackMutex(c))>>}
  \/ \E l \in Seq(Nat) : s = <<Op("print", BackMutex(c), l)>>

\* Every operation that locks is followed by one that unlocks.
Frees(s) ==
  \A i \in DOMAIN s :
    s[i].op \in {"put", "swap", "push"} =>
      \E j \in DOMAIN s : j > i /\ s[j].op = "unlock" /\ s[j].m = s[i].m

\* The lines of a push on the back of c are still to be handed on.
Hands(s, c) == \E i \in DOMAIN s : s[i].op = "push" /\ s[i].m = BackMutex(c)

\* s has an operation that leaves the section of m.
WillLeave(s, m) ==
  \E i \in DOMAIN s : s[i].op \in {"unlock", "wait", "print"} /\ s[i].m = m

Shapes ==
  /\ \A u \in Users \ {"loop"} : LogsOnly(todo[u])
  /\ \A a \in {"loop", "handler"} : Syncs(todo[a])
  /\ \A c \in Channels : Writes(todo[c], c)
  /\ \A a \in Agents : Frees(todo[a])

\* Without the asynchronous logger there are neither writers nor syncs.
NoWriters ==
  type = 0 =>
    /\ victim = None
    /\ \A c \in Channels : todo[c] = <<>> /\ queue[c] = <<>>
    /\ buffer["rpc"] = <<>>
    /\ \A a \in Users \cup {"loop"} : \A i \in DOMAIN todo[a] :
         todo[a][i].op \in {"put", "unlock"} /\ todo[a][i].m = FrontMutex("app")

\* One at most is in a section.
OneInside == \A m \in Mutexes : \A a, b \in inside[m] : a = b

\* A mutex is locked by someone who is in its section, and who will leave it.
LockedInside == \A m \in locked : inside[m] # {}
AllLeave == \A m \in Mutexes : \A a \in inside[m] : WillLeave(todo[a], m)

\* Whoever has app lines to hand on still has the app mutex, as syncLoop does
\* not unlock it by hand.
AppHeld ==
  \A a \in {"loop", "handler"} :
    Hands(todo[a], "app") => a \in inside[FrontMutex("app")]

\* Between the pop that found nothing and the wait the writer has the mutex.
\* It returns only if it was told to, which only the handler does.
WaitsAt(c) ==
  /\ todo[c] = <<Do("wait", BackMutex(c))>> =>
       queue[c] = <<>> /\ c \in inside[BackMutex(c)]
  /\ todo[c] = <<Do("asleep", BackMutex(c))>> => queue[c] = <<>>
  /\ todo[c] \in {<<>>, <<Do("unlock", BackMutex(c))>>} => type = 0 \/ stop[c]
  /\ stop[c] => victim # None

LoggerInv ==
  /\ Types /\ Shapes /\ NoWriters
  /\ OneInside /\ LockedInside /\ AllLeave /\ AppHeld
  /\ \A c \in Channels : WaitsAt(c)
  /\ type \in {0, 1}
  /\ victim = None => todo["handler"] = <<>>
  /\ victim # None => type = 1

\* The trail of channel c is the lines 1 to n in order.
Exact(c) == Trail(c) = [n \in 1..count[c] |-> n]

\* The trail of channel c is the lines 1 to n in some order.
Complete(c) == Len(Trail(c)) = count[c] /\ ToSet(Trail(c)) = 1..count[c]

\* Only the rpc channel may be out of order, and only after a signal.
OrderedAt(c) ==
  \/ Exact(c)
  \/ c = "rpc" /\ victim # None /\ Complete(c)

\* What every step preserves, as long as no two threads meet.
Good == LoggerInv /\ \A c \in Channels : OrderedAt(c)

(***************************************************************************)
(* Sequences                                                               *)
(***************************************************************************)

\* A set of natural numbers that is not empty has a least element.
LEMMA LeastNatural ==
  ASSUME NEW T, T \subseteq Nat, T # {}
  PROVE  \E x \in T : \A y \in T : x <= y
<1> DEFINE R == {ss \in Nat \X Nat : ss[1] < ss[2]}
<1>1. IsWellFoundedOn(R, Nat)
  BY NatLessThanWellFounded DEF OpToRel
<1>2. \A x, y \in Nat : y < x => <<y, x>> \in R
  OBVIOUS
<1> HIDE DEF R
<1>3. PICK x \in T : \A y \in T : <<y, x>> \notin R
  BY <1>1, WFMin
<1>4. \A y \in T : ~(y < x)
  BY <1>2, <1>3
<1>5. \A y \in T : x <= y
  BY <1>4
<1> QED
  BY <1>5

\* The first m values of the function that FlattenSeq defines.
Flattens(g, q, m) ==
  g = [i \in 1..m |-> IF i = 1 THEN q[i] ELSE g[i - 1] \o q[i]]

\* There is such a function for every m: no m is the least for which there is none.
LEMMA FlattenExists ==
  ASSUME NEW q, NEW n \in Nat
  PROVE  \E g : Flattens(g, q, n)
<1> DEFINE Bad == {m \in Nat : ~ \E g : Flattens(g, q, m)}
<1>1. SUFFICES ASSUME Bad # {} PROVE FALSE
  OBVIOUS
<1>2. PICK m \in Bad : \A k \in Bad : m <= k
  <2>1. Bad \subseteq Nat
    OBVIOUS
  <2> HIDE DEF Bad
  <2> QED
    BY <1>1, <2>1, LeastNatural
<1>3. CASE m = 0
  <2> DEFINE e == [i \in 1..0 |-> 0]
  <2>1. e = [i \in 1..0 |-> IF i = 1 THEN q[i] ELSE e[i - 1] \o q[i]]
    OBVIOUS
  <2> QED
    BY <1>2, <1>3, <2>1 DEF Flattens
<1>4. CASE m # 0
  <2>1. m - 1 \in Nat /\ m - 1 \notin Bad /\ m \in Nat
    BY <1>2, <1>4
  <2>2. PICK g : Flattens(g, q, m - 1)
    BY <2>1
  <2> DEFINE h == [i \in 1..m |-> IF i < m THEN g[i]
                                  ELSE IF i = 1 THEN q[i] ELSE g[i - 1] \o q[i]]
  <2>3. ASSUME NEW i \in 1..m
        PROVE  h[i] = IF i = 1 THEN q[i] ELSE h[i - 1] \o q[i]
    <3>1. CASE i < m
      <4>1. i \in 1..(m - 1)
        BY <2>1, <3>1
      <4>2. g[i] = IF i = 1 THEN q[i] ELSE g[i - 1] \o q[i]
        BY <2>2, <4>1 DEF Flattens
      <4>3. i # 1 => i - 1 \in 1..m /\ i - 1 < m
        BY <2>1
      <4> QED
        BY <3>1, <4>2, <4>3
    <3>2. CASE ~(i < m)
      <4>1. i # 1 => i - 1 \in 1..m /\ i - 1 < m
        BY <2>1
      <4> QED
        BY <3>2, <4>1
    <3> QED
      BY <3>1, <3>2
  <2>4. h = [i \in 1..m |-> h[i]]
    OBVIOUS
  <2> HIDE DEF h
  <2>5. h = [i \in 1..m |-> IF i = 1 THEN q[i] ELSE h[i - 1] \o q[i]]
    BY <2>3, <2>4
  <2> QED
    BY <1>2, <2>5 DEF Flattens
<1> QED
  BY <1>3, <1>4

\* FlattenSeq is the last value of that function.
LEMMA FlattenLast ==
  ASSUME NEW q, Len(q) \in Nat, Len(q) # 0
  PROVE  \E g : Flattens(g, q, Len(q)) /\ FlattenSeq(q) = g[Len(q)]
<1> DEFINE n == Len(q)
           g == CHOOSE g : Flattens(g, q, n)
<1>1. Flattens(g, q, n)
  BY FlattenExists
<1>2. FlattenSeq(q) = g[n]
  BY DEF FlattenSeq, Flattens
<1> QED
  BY <1>1, <1>2

\* The values of that function are sequences of lines.
LEMMA FlattensType ==
  ASSUME NEW q \in Seq(Seq(Nat)), NEW g, NEW n \in 1..Len(q), Flattens(g, q, Len(q))
  PROVE  g[n] \in Seq(Nat)
<1> DEFINE Bad == {i \in 1..Len(q) : g[i] \notin Seq(Nat)}
<1>1. SUFFICES ASSUME Bad # {} PROVE FALSE
  OBVIOUS
<1>2. Bad \subseteq Nat
  OBVIOUS
<1>3. PICK i \in Bad : \A k \in Bad : i <= k
  <2> HIDE DEF Bad
  <2> QED
    BY <1>1, <1>2, LeastNatural
<1>4. g[i] = IF i = 1 THEN q[i] ELSE g[i - 1] \o q[i]
  BY <1>3 DEF Flattens
<1>5. q[i] \in Seq(Nat)
  BY <1>3
<1>6. CASE i = 1
  BY <1>3, <1>4, <1>5, <1>6
<1>7. CASE i # 1
  <2>1. i - 1 \in 1..Len(q) /\ i - 1 \notin Bad
    BY <1>3, <1>7
  <2>2. g[i - 1] \o q[i] \in Seq(Nat)
    BY <1>5, <2>1, ConcatProperties
  <2> QED
    BY <1>3, <1>4, <1>7, <2>2
<1> QED
  BY <1>6, <1>7

\* FlattenSeq of sequences of lines is a sequence of lines.
LEMMA FlattenType ==
  ASSUME NEW q \in Seq(Seq(Nat))
  PROVE  FlattenSeq(q) \in Seq(Nat)
<1>1. CASE q = <<>>
  <2>1. FlattenSeq(<<>>) = <<>>
    BY DEF FlattenSeq
  <2>2. <<>> \in Seq(Nat)
    BY EmptySeq
  <2> QED
    BY <1>1, <2>1, <2>2
<1>2. CASE q # <<>>
  <2>1. Len(q) \in Nat /\ Len(q) # 0 /\ Len(q) \in 1..Len(q)
    BY <1>2, EmptySeq
  <2>2. PICK g : Flattens(g, q, Len(q)) /\ FlattenSeq(q) = g[Len(q)]
    BY <2>1, FlattenLast
  <2> QED
    BY <2>1, <2>2, FlattensType
<1> QED
  BY <1>1, <1>2

\* What is pushed comes last.
LEMMA FlattenAppend ==
  ASSUME NEW q \in Seq(Seq(Nat)), NEW l \in Seq(Nat)
  PROVE  FlattenSeq(Append(q, l)) = FlattenSeq(q) \o l
<1> DEFINE r == Append(q, l)
           n == Len(q)
<1>1. /\ r \in Seq(Seq(Nat)) /\ Len(r) = n + 1 /\ n \in Nat
      /\ r[n + 1] = l /\ \A i \in 1..n : r[i] = q[i]
  BY AppendProperties
<1>2. FlattenSeq(<<>>) = <<>>
  BY DEF FlattenSeq
<1> HIDE DEF r
<1>3. PICK g : Flattens(g, r, n + 1) /\ FlattenSeq(r) = g[n + 1]
  BY <1>1, FlattenLast
<1>4. \A i \in 1..(n + 1) : g[i] = IF i = 1 THEN r[i] ELSE g[i - 1] \o r[i]
  BY <1>3 DEF Flattens
<1>5. CASE n = 0
  <2>1. q = <<>>
    BY <1>5, EmptySeq
  <2>2. g[1] = l
    BY <1>1, <1>4, <1>5
  <2>3. <<>> \o l = l
    BY ConcatEmptySeq
  <2> QED
    BY <1>2, <1>3, <1>5, <2>1, <2>2, <2>3 DEF r
<1>6. CASE n # 0
  <2>1. PICK h : Flattens(h, q, n) /\ FlattenSeq(q) = h[n]
    BY <1>1, <1>6, FlattenLast
  <2>2. \A i \in 1..n : h[i] = IF i = 1 THEN q[i] ELSE h[i - 1] \o q[i]
    BY <2>1 DEF Flattens
  <2> DEFINE Bad == {i \in 1..n : g[i] # h[i]}
  <2>3. Bad = {}
    <3>1. SUFFICES ASSUME Bad # {} PROVE FALSE
      OBVIOUS
    <3>2. Bad \subseteq Nat
      OBVIOUS
    <3>3. PICK i \in Bad : \A k \in Bad : i <= k
      <4> HIDE DEF Bad
      <4> QED
        BY <3>1, <3>2, LeastNatural
    <3>4. i \in 1..n /\ i \in 1..(n + 1) /\ g[i] # h[i]
      BY <1>1, <3>3
    <3>5. i # 1 => g[i - 1] = h[i - 1]
      BY <1>1, <3>3, <3>4
    <3>6. g[i] = IF i = 1 THEN r[i] ELSE g[i - 1] \o r[i]
      BY <1>4, <3>4
    <3>7. h[i] = IF i = 1 THEN q[i] ELSE h[i - 1] \o q[i]
      BY <2>2, <3>4
    <3>8. r[i] = q[i]
      BY <1>1, <3>4
    <3> QED
      BY <3>4, <3>5, <3>6, <3>7, <3>8
  <2>4. n \in 1..n /\ n + 1 \in 1..(n + 1) /\ n + 1 # 1 /\ (n + 1) - 1 = n
    BY <1>1, <1>6
  <2>5. g[n] = h[n]
    BY <2>3, <2>4
  <2>6. g[n + 1] = g[(n + 1) - 1] \o r[n + 1]
    BY <1>4, <2>4
  <2>7. g[n + 1] = h[n] \o l
    BY <1>1, <2>4, <2>5, <2>6
  <2> QED
    BY <1>3, <2>1, <2>7 DEF r
<1> QED
  BY <1>5, <1>6

\* Concatenation of lines is associative.
LEMMA Assoc ==
  \A x, y, z \in Seq(Nat) : (x \o y) \o z = x \o (y \o z)
BY ConcatAssociative

\* What is popped came first.
LEMMA FlattenHead ==
  ASSUME NEW q \in Seq(Seq(Nat)), q # <<>>
  PROVE  FlattenSeq(q) = Head(q) \o FlattenSeq(Tail(q))
<1> DEFINE t == Tail(q)
           n == Len(q)
<1>1. /\ t \in Seq(Seq(Nat)) /\ n \in Nat /\ n # 0 /\ Len(t) = n - 1
      /\ Head(q) = q[1] /\ q[1] \in Seq(Nat)
      /\ \A i \in 1..(n - 1) : t[i] = q[i + 1]
  BY HeadTailProperties, EmptySeq
<1>2. FlattenSeq(<<>>) = <<>>
  BY DEF FlattenSeq
<1> HIDE DEF t
<1>3. PICK g : Flattens(g, q, n) /\ FlattenSeq(q) = g[n]
  BY <1>1, FlattenLast
<1>4. \A i \in 1..n : g[i] = IF i = 1 THEN q[i] ELSE g[i - 1] \o q[i]
  BY <1>3 DEF Flattens
<1>5. CASE n = 1
  <2>1. t = <<>>
    BY <1>1, <1>5, EmptySeq
  <2>2. g[1] = q[1]
    BY <1>1, <1>4, <1>5
  <2>3. q[1] \o <<>> = q[1]
    BY <1>1, ConcatEmptySeq
  <2> QED
    BY <1>1, <1>2, <1>3, <1>5, <2>1, <2>2, <2>3 DEF t
<1>6. CASE n # 1
  <2>1. n - 1 \in Nat /\ n - 1 # 0 /\ Len(t) \in Nat /\ Len(t) # 0
    BY <1>1, <1>6
  <2>2. PICK h : Flattens(h, t, n - 1) /\ FlattenSeq(t) = h[n - 1]
    BY <1>1, <2>1, FlattenLast
  <2>3. \A i \in 1..(n - 1) : h[i] = IF i = 1 THEN t[i] ELSE h[i - 1] \o t[i]
    BY <2>2 DEF Flattens
  <2>4. \A i \in 1..(n - 1) : h[i] \in Seq(Nat)
    BY <1>1, <2>2, FlattensType
  <2> DEFINE Off(i) == g[i + 1] # q[1] \o h[i]
             Bad == {i \in 1..(n - 1) : Off(i)}
  <2> HIDE DEF Off
  <2>5. Bad = {}
    <3>1. SUFFICES ASSUME Bad # {} PROVE FALSE
      OBVIOUS
    <3>2. Bad \subseteq Nat
      BY <1>1
    <3>3. PICK i \in Bad : \A k \in Bad : i <= k
      <4> HIDE DEF Bad
      <4> QED
        BY <3>1, <3>2, LeastNatural
    <3>4. /\ i \in 1..(n - 1) /\ i + 1 \in 1..n /\ i + 1 # 1 /\ (i + 1) - 1 = i
          /\ Off(i)
      BY <1>1, <3>3
    <3>5. g[i + 1] = g[(i + 1) - 1] \o q[i + 1]
      BY <1>4, <3>4
    <3>6. g[i + 1] = g[i] \o t[i]
      BY <1>1, <3>4, <3>5
    <3>7. h[i] = IF i = 1 THEN t[i] ELSE h[i - 1] \o t[i]
      BY <2>3, <3>4
    <3>8. CASE i = 1
      <4>1. g[1] = q[1]
        BY <1>1, <1>4
      <4> QED
        BY <3>4, <3>6, <3>7, <3>8, <4>1 DEF Off
    <3>9. CASE i # 1
      <4>1. i - 1 \in 1..(n - 1) /\ i - 1 \notin Bad /\ (i - 1) + 1 = i
        BY <1>1, <3>3, <3>4, <3>9
      <4>2. g[i] = q[1] \o h[i - 1]
        BY <4>1 DEF Off
      <4>3. h[i - 1] \in Seq(Nat) /\ t[i] \in Seq(Nat)
        BY <1>1, <2>4, <3>4, <4>1
      <4>4. (q[1] \o h[i - 1]) \o t[i] = q[1] \o (h[i - 1] \o t[i])
        BY <1>1, <4>3, Assoc
      <4> QED
        BY <3>4, <3>6, <3>7, <3>9, <4>2, <4>4 DEF Off
    <3> QED
      BY <3>8, <3>9
  <2>6. n - 1 \in 1..(n - 1) /\ (n - 1) + 1 = n
    BY <1>1, <2>1
  <2>7. g[(n - 1) + 1] = q[1] \o h[n - 1]
    BY <2>5, <2>6 DEF Off
  <2> QED
    BY <1>1, <1>3, <2>2, <2>6, <2>7 DEF t
<1> QED
  BY <1>1, <1>5, <1>6

\* Concatenation keeps every line.
LEMMA Cat ==
  \A x, y \in Seq(Nat) :
    /\ x \o y \in Seq(Nat)
    /\ Len(x \o y) = Len(x) + Len(y)
    /\ ToSet(x \o y) = ToSet(x) \cup ToSet(y)
<1> SUFFICES ASSUME NEW x \in Seq(Nat), NEW y \in Seq(Nat)
             PROVE  /\ x \o y \in Seq(Nat)
                    /\ Len(x \o y) = Len(x) + Len(y)
                    /\ ToSet(x \o y) = ToSet(x) \cup ToSet(y)
  OBVIOUS
<1> DEFINE z == x \o y
<1>1. /\ z \in Seq(Nat) /\ Len(z) = Len(x) + Len(y)
      /\ \A i \in 1..(Len(x) + Len(y)) :
           z[i] = IF i <= Len(x) THEN x[i] ELSE y[i - Len(x)]
  BY ConcatProperties
<1> HIDE DEF z
<1>2. /\ DOMAIN x = 1..Len(x) /\ DOMAIN y = 1..Len(y)
      /\ DOMAIN z = 1..(Len(x) + Len(y))
      /\ Len(x) \in Nat /\ Len(y) \in Nat
  BY <1>1, LenProperties
<1>3. ASSUME NEW v \in ToSet(z) PROVE v \in ToSet(x) \cup ToSet(y)
  <2>1. PICK i \in 1..(Len(x) + Len(y)) : v = z[i]
    BY <1>2, <1>3 DEF ToSet
  <2>2. CASE i <= Len(x)
    <3>1. i \in DOMAIN x /\ v = x[i]
      BY <1>1, <1>2, <2>1, <2>2
    <3> QED
      BY <3>1 DEF ToSet
  <2>3. CASE ~(i <= Len(x))
    <3>1. i - Len(x) \in DOMAIN y /\ v = y[i - Len(x)]
      BY <1>1, <1>2, <2>1, <2>3
    <3> QED
      BY <3>1 DEF ToSet
  <2> QED
    BY <2>2, <2>3
<1>4. ASSUME NEW v \in ToSet(x) PROVE v \in ToSet(z)
  <2>1. PICK i \in 1..Len(x) : v = x[i]
    BY <1>2, <1>4 DEF ToSet
  <2>2. i \in DOMAIN z /\ v = z[i]
    BY <1>1, <1>2, <2>1
  <2> QED
    BY <2>2 DEF ToSet
<1>5. ASSUME NEW v \in ToSet(y) PROVE v \in ToSet(z)
  <2>1. PICK i \in 1..Len(y) : v = y[i]
    BY <1>2, <1>5 DEF ToSet
  <2> DEFINE j == i + Len(x)
  <2>0. j \in 1..(Len(x) + Len(y)) /\ ~(j <= Len(x))
    BY <1>2, <2>1
  <2>2. j \in DOMAIN z /\ z[j] = y[j - Len(x)]
    <3> HIDE DEF j
    <3> QED
      BY <1>1, <1>2, <2>0
  <2>3. j - Len(x) = i
    BY <1>2
  <2>4. v = z[j]
    BY <2>1, <2>2, <2>3
  <2> QED
    BY <2>2, <2>4 DEF ToSet
<1>6. ToSet(z) = ToSet(x) \cup ToSet(y)
  BY <1>3, <1>4, <1>5
<1> QED
  BY <1>1, <1>6 DEF z

\* The empty sequence adds nothing.
LEMMA CatEmpty == \A x \in Seq(Nat) : x \o <<>> = x /\ <<>> \o x = x
BY ConcatEmptySeq

\* The six places where a line of a channel may be.
Six(p, k, q, l, h, b) == p \o k \o q \o l \o h \o b

\* What the places hold, they hold together.
SixHolds(p, k, q, l, h, b) ==
  /\ Six(p, k, q, l, h, b) \in Seq(Nat)
  /\ Len(Six(p, k, q, l, h, b))
       = Len(p) + Len(k) + Len(q) + Len(l) + Len(h) + Len(b)
  /\ ToSet(Six(p, k, q, l, h, b))
       = ToSet(p) \cup ToSet(k) \cup ToSet(q)
           \cup ToSet(l) \cup ToSet(h) \cup ToSet(b)

\* No order of the places matters for which lines there are.
LEMMA SixLines ==
  ASSUME NEW p \in Seq(Nat), NEW k \in Seq(Nat), NEW q \in Seq(Nat),
         NEW l \in Seq(Nat), NEW h \in Seq(Nat), NEW b \in Seq(Nat)
  PROVE  SixHolds(p, k, q, l, h, b)
<1> DEFINE s2 == p \o k
           s3 == s2 \o q
           s4 == s3 \o l
           s5 == s4 \o h
           s6 == s5 \o b
<1>1. s2 \in Seq(Nat) /\ Len(s2) = Len(p) + Len(k) /\ ToSet(s2) = ToSet(p) \cup ToSet(k)
  BY Cat
<1>2. s3 \in Seq(Nat) /\ Len(s3) = Len(s2) + Len(q) /\ ToSet(s3) = ToSet(s2) \cup ToSet(q)
  <2> HIDE DEF s2
  <2> QED
    BY <1>1, Cat
<1>3. s4 \in Seq(Nat) /\ Len(s4) = Len(s3) + Len(l) /\ ToSet(s4) = ToSet(s3) \cup ToSet(l)
  <2> HIDE DEF s3
  <2> QED
    BY <1>2, Cat
<1>4. s5 \in Seq(Nat) /\ Len(s5) = Len(s4) + Len(h) /\ ToSet(s5) = ToSet(s4) \cup ToSet(h)
  <2> HIDE DEF s4
  <2> QED
    BY <1>3, Cat
<1>5. s6 \in Seq(Nat) /\ Len(s6) = Len(s5) + Len(b) /\ ToSet(s6) = ToSet(s5) \cup ToSet(b)
  <2> HIDE DEF s5
  <2> QED
    BY <1>4, Cat
<1>6. Six(p, k, q, l, h, b) = s6
  BY DEF Six
<1> HIDE DEF s2, s3, s4, s5, s6
<1>7. Len(s6) = Len(p) + Len(k) + Len(q) + Len(l) + Len(h) + Len(b)
  BY <1>1, <1>2, <1>3, <1>4, <1>5
<1>8. ToSet(s6) = ToSet(p) \cup ToSet(k) \cup ToSet(q)
                    \cup ToSet(l) \cup ToSet(h) \cup ToSet(b)
  BY <1>1, <1>2, <1>3, <1>4, <1>5
<1> QED
  BY <1>5, <1>6, <1>7, <1>8 DEF SixHolds

\* Neighbours may pass lines on without changing their order: printing, a pop,
\* a push and a swap by one who has nobody between itself and the next place.
LEMMA SixMoves ==
  ASSUME NEW p \in Seq(Nat), NEW k \in Seq(Nat), NEW q \in Seq(Nat),
         NEW l \in Seq(Nat), NEW h \in Seq(Nat), NEW b \in Seq(Nat)
  PROVE  /\ Six(p \o k, <<>>, q, l, h, b) = Six(p, k, q, l, h, b)
         /\ Six(p, <<>>, k \o q, l, h, b) = Six(p, k, q, l, h, b)
         /\ Six(p, k, q \o l, <<>>, h, b) = Six(p, k, q, l, h, b)
         /\ Six(p, k, q \o h, <<>>, <<>>, b) = Six(p, k, q, <<>>, h, b)
         /\ Six(p, k, q, b, <<>>, <<>>) = Six(p, k, q, <<>>, <<>>, b)
         /\ Six(p, k, q, l, b, <<>>) = Six(p, k, q, l, <<>>, b)
<1>1. <<>> \in Seq(Nat)
  BY EmptySeq
<1>2. (p \o k) \o <<>> = p \o k /\ p \o k \in Seq(Nat)
  BY Cat, CatEmpty
<1>3. p \o <<>> = p
  BY CatEmpty
<1>4. p \o (k \o q) = (p \o k) \o q
  <2>1. \A y, z \in Seq(Nat) : (p \o y) \o z = p \o (y \o z)
    BY Assoc
  <2> QED
    BY <2>1
<1> DEFINE x == p \o k
<1>5. x \o (q \o l) = (x \o q) \o l /\ x \o (q \o h) = (x \o q) \o h /\ x \o q \in Seq(Nat)
  <2> HIDE DEF x
  <2>1. x \in Seq(Nat)
    BY <1>2 DEF x
  <2>2. x \o (q \o l) = (x \o q) \o l
    BY <2>1, Assoc
  <2>3. x \o (q \o h) = (x \o q) \o h
    BY <2>1, Assoc
  <2>4. x \o q \in Seq(Nat)
    BY <2>1, Cat
  <2> QED
    BY <2>2, <2>3, <2>4
<1> DEFINE y == x \o q
<1>6. y \o <<>> = y /\ (y \o h) \o <<>> = y \o h /\ (y \o l) \o <<>> = y \o l
      /\ (y \o b) \o <<>> = y \o b /\ ((y \o l) \o b) \o <<>> = (y \o l) \o b
  <2> HIDE DEF x, y
  <2>1. y \in Seq(Nat)
    BY <1>5 DEF y
  <2>2. y \o h \in Seq(Nat) /\ y \o l \in Seq(Nat) /\ y \o b \in Seq(Nat)
    BY <2>1, Cat
  <2>3. (y \o l) \o b \in Seq(Nat)
    BY <2>2, Cat
  <2> QED
    BY <2>1, <2>2, <2>3, CatEmpty
<1>7. Six(p \o k, <<>>, q, l, h, b) = Six(p, k, q, l, h, b)
  BY <1>2, Zenon DEF Six
<1>8. Six(p, <<>>, k \o q, l, h, b) = Six(p, k, q, l, h, b)
  BY <1>3, <1>4, Zenon DEF Six
<1>10. /\ Six(p, k, q, l, h, b) = y \o l \o h \o b
       /\ Six(p, k, q \o l, <<>>, h, b) = (x \o (q \o l)) \o <<>> \o h \o b
       /\ Six(p, k, q \o h, <<>>, <<>>, b) = (x \o (q \o h)) \o <<>> \o <<>> \o b
       /\ Six(p, k, q, <<>>, h, b) = y \o <<>> \o h \o b
       /\ Six(p, k, q, b, <<>>, <<>>) = y \o b \o <<>> \o <<>>
       /\ Six(p, k, q, <<>>, <<>>, b) = y \o <<>> \o <<>> \o b
       /\ Six(p, k, q, l, b, <<>>) = y \o l \o b \o <<>>
       /\ Six(p, k, q, l, <<>>, b) = y \o l \o <<>> \o b
  BY Zenon DEF Six
<1>11. x \o (q \o l) = y \o l /\ x \o (q \o h) = y \o h
  BY <1>5
<1> HIDE DEF x, y
<1>12. Six(p, k, q \o l, <<>>, h, b) = Six(p, k, q, l, h, b)
  BY <1>6, <1>10, <1>11, Zenon
<1>13. Six(p, k, q \o h, <<>>, <<>>, b) = Six(p, k, q, <<>>, h, b)
  BY <1>6, <1>10, <1>11, Zenon
<1>14. Six(p, k, q, b, <<>>, <<>>) = Six(p, k, q, <<>>, <<>>, b)
  BY <1>6, <1>10, Zenon
<1>15. Six(p, k, q, l, b, <<>>) = Six(p, k, q, l, <<>>, b)
  BY <1>6, <1>10, Zenon
<1> QED
  BY <1>7, <1>8, <1>12, <1>13, <1>14, <1>15

\* When the timer takes the buffer from behind the handler, or the handler hands
\* on before the timer does, the lines are the same.
LEMMA SixMixed ==
  ASSUME NEW p \in Seq(Nat), NEW k \in Seq(Nat), NEW q \in Seq(Nat),
         NEW l \in Seq(Nat), NEW h \in Seq(Nat), NEW b \in Seq(Nat)
  PROVE  /\ Len(Six(p, k, q, b, h, <<>>)) = Len(Six(p, k, q, <<>>, h, b))
         /\ ToSet(Six(p, k, q, b, h, <<>>)) = ToSet(Six(p, k, q, <<>>, h, b))
         /\ Len(Six(p, k, q \o h, l, <<>>, b)) = Len(Six(p, k, q, l, h, b))
         /\ ToSet(Six(p, k, q \o h, l, <<>>, b)) = ToSet(Six(p, k, q, l, h, b))
<1> DEFINE e == <<>>
           r == q \o h
<1>1. e \in Seq(Nat) /\ Len(e) = 0 /\ ToSet(e) = {}
  BY EmptySeq DEF ToSet
<1>2. r \in Seq(Nat) /\ Len(r) = Len(q) + Len(h) /\ ToSet(r) = ToSet(q) \cup ToSet(h)
  BY Cat
<1>3. Len(p) \in Nat /\ Len(k) \in Nat /\ Len(q) \in Nat
      /\ Len(l) \in Nat /\ Len(h) \in Nat /\ Len(b) \in Nat
  BY LenProperties
<1> HIDE DEF e, r
<1>4. /\ SixHolds(p, k, q, b, h, e) /\ SixHolds(p, k, q, e, h, b)
      /\ SixHolds(p, k, r, l, e, b) /\ SixHolds(p, k, q, l, h, b)
  BY <1>1, <1>2, SixLines
<1>5. ToSet(Six(p, k, q, b, h, e)) = ToSet(Six(p, k, q, e, h, b))
  BY <1>4 DEF SixHolds
<1>6. ToSet(Six(p, k, r, l, e, b)) = ToSet(Six(p, k, q, l, h, b))
  BY <1>1, <1>2, <1>4 DEF SixHolds
<1>7. Len(Six(p, k, q, b, h, e)) = Len(Six(p, k, q, e, h, b))
  BY <1>1, <1>3, <1>4 DEF SixHolds
<1>8. Len(Six(p, k, r, l, e, b)) = Len(Six(p, k, q, l, h, b))
  BY <1>1, <1>2, <1>3, <1>4 DEF SixHolds
<1> QED
  BY <1>5, <1>6, <1>7, <1>8 DEF e, r

\* The places in front of the buffer.
Five(p, k, q, l, h) == p \o k \o q \o l \o h

\* They hold lines.
LEMMA FiveLines ==
  ASSUME NEW p \in Seq(Nat), NEW k \in Seq(Nat), NEW q \in Seq(Nat),
         NEW l \in Seq(Nat), NEW h \in Seq(Nat)
  PROVE  Five(p, k, q, l, h) \in Seq(Nat)
<1> DEFINE s2 == p \o k
           s3 == s2 \o q
           s4 == s3 \o l
<1>1. s2 \in Seq(Nat)
  BY Cat
<1>2. s3 \in Seq(Nat)
  <2> HIDE DEF s2
  <2> QED
    BY <1>1, Cat
<1>3. s4 \in Seq(Nat)
  <2> HIDE DEF s3
  <2> QED
    BY <1>2, Cat
<1>4. s4 \o h \in Seq(Nat)
  <2> HIDE DEF s4
  <2> QED
    BY <1>3, Cat
<1> QED
  BY <1>4 DEF Five

\* All the lines are printed.
LEMMA SixPrinted ==
  ASSUME NEW p \in Seq(Nat)
  PROVE  Six(p, <<>>, <<>>, <<>>, <<>>, <<>>) = p
<1>1. p \o <<>> = p
  BY CatEmpty
<1> QED
  BY <1>1, Zenon DEF Six

\* The lines 1 to n, one more of them, and what they are.
LEMMA OneToN ==
  ASSUME NEW n \in Nat, NEW s, s = [i \in 1..n |-> i]
  PROVE  /\ s \in Seq(Nat) /\ Len(s) = n /\ ToSet(s) = 1..n
         /\ Append(s, n + 1) = [i \in 1..(n + 1) |-> i]
<1>1. s \in Seq(Nat) /\ Len(s) = n
  BY SeqDef
<1>2. ToSet(s) = 1..n
  BY DEF ToSet
<1> DEFINE t == Append(s, n + 1)
           u == [i \in 1..(n + 1) |-> i]
<1>3. t \in Seq(Nat) /\ Len(t) = n + 1 /\ t[n + 1] = n + 1 /\ \A i \in 1..n : t[i] = i
  BY <1>1, AppendProperties
<1>4. u \in Seq(Nat) /\ Len(u) = n + 1 /\ \A i \in 1..(n + 1) : u[i] = i
  BY SeqDef
<1> HIDE DEF t, u
<1>5. \A i \in 1..Len(t) : t[i] = u[i]
  BY <1>3, <1>4
<1>6. t = u
  BY <1>3, <1>4, <1>5, SeqEqual
<1> QED
  BY <1>1, <1>2, <1>6 DEF t, u

\* One more line of a complete trail makes it complete again.
LEMMA AppendLines ==
  ASSUME NEW s \in Seq(Nat), NEW n \in Nat, Len(s) = n, ToSet(s) = 1..n
  PROVE  Len(Append(s, n + 1)) = n + 1 /\ ToSet(Append(s, n + 1)) = 1..(n + 1)
<1> DEFINE one == <<n + 1>>
<1>1. one \in Seq(Nat) /\ Len(one) = 1 /\ ToSet(one) = {n + 1}
  BY DEF ToSet
<1>2. Append(s, n + 1) = s \o one
  BY AppendIsConcat
<1> HIDE DEF one
<1>3. Len(s \o one) = Len(s) + Len(one) /\ ToSet(s \o one) = ToSet(s) \cup ToSet(one)
  BY <1>1, Cat
<1>4. 1..n \cup {n + 1} = 1..(n + 1)
  OBVIOUS
<1> QED
  BY <1>1, <1>2, <1>3, <1>4

(***************************************************************************)
(* Lists of operations                                                     *)
(***************************************************************************)

\* A list that hands nothing on.
Quiet(s) ==
  \A i \in DOMAIN s : /\ s[i].op # "push"
                      /\ s[i].op \in {"put", "swap"} => s[i].m \in Fronts

\* The four mutexes.
LEMMA MutexFacts ==
  /\ Mutexes = Fronts \cup Backs
  /\ \A c \in Channels : FrontMutex(c) \in Fronts /\ BackMutex(c) \in Backs
  /\ \A m \in Fronts : m[2] \in Channels /\ m = FrontMutex(m[2])
  /\ \A m \in Backs : m[2] \in Channels /\ m = BackMutex(m[2])
  /\ \A m \in Fronts : m \notin Backs
  /\ \A c, d \in Channels : c # d => BackMutex(c) # BackMutex(d) /\ FrontMutex(c) # FrontMutex(d)
  /\ \A c \in Channels : FrontMutex(c)[2] = c /\ BackMutex(c)[2] = c
  /\ Channels = {"rpc", "app"}
BY DEF Mutexes, Fronts, Backs, FrontMutex, BackMutex, Channels

\* The fields of an operation.
LEMMA OpFacts ==
  ASSUME NEW op \in Names, NEW m \in Mutexes, NEW l \in Seq(Nat)
  PROVE  /\ Op(op, m, l) \in Ops /\ Op(op, m, l).op = op
         /\ Op(op, m, l).m = m /\ Op(op, m, l).lines = l
         /\ Do(op, m) \in Ops /\ Do(op, m).op = op
         /\ Do(op, m).m = m /\ Do(op, m).lines = <<>>
<1>1. <<>> \in Seq(Nat)
  BY EmptySeq
<1> QED
  BY <1>1 DEF Op, Do, Ops, Names

\* The tail of a list, element by element.
LEMMA TailFacts ==
  ASSUME NEW s \in Seq(Ops), s # <<>>
  PROVE  /\ Tail(s) \in Seq(Ops) /\ Len(s) \in Nat /\ Len(s) >= 1
         /\ DOMAIN s = 1..Len(s) /\ DOMAIN Tail(s) = 1..(Len(s) - 1)
         /\ \A i \in 1..(Len(s) - 1) : Tail(s)[i] = s[i + 1]
         /\ Head(s) = s[1] /\ s[1] \in Ops /\ 1 \in DOMAIN s
         /\ <<>> \o Tail(s) = Tail(s)
<1>1. Tail(s) \in Seq(Ops) /\ Len(Tail(s)) = Len(s) - 1 /\ Len(s) \in Nat \ {0}
  BY HeadTailProperties, EmptySeq
<1>2. \A i \in 1..(Len(s) - 1) : Tail(s)[i] = s[i + 1]
  BY <1>1, HeadTailProperties
<1>3. DOMAIN s = 1..Len(s) /\ DOMAIN Tail(s) = 1..(Len(s) - 1)
  BY <1>1, LenProperties
<1>4. <<>> \o Tail(s) = Tail(s)
  BY <1>1, ConcatEmptySeq
<1>5. 1 \in 1..Len(s) /\ Len(s) >= 1
  BY <1>1
<1>6. Head(s) = s[1] /\ s[1] \in Ops
  BY <1>5, ElementOfSeq
<1> QED
  BY <1>1, <1>2, <1>3, <1>4, <1>5, <1>6

\* What is left of a list after its first operation.
LEMMA TailShapes ==
  ASSUME NEW s \in Seq(Ops), s # <<>>
  PROVE  /\ LogsOnly(s) => LogsOnly(Tail(s))
         /\ Syncs(s) => Syncs(Tail(s))
         /\ Frees(s) => Frees(Tail(s))
         /\ \A c \in Channels : Hands(Tail(s), c) => Hands(s, c)
         /\ \A m \in Mutexes :
              WillLeave(s, m) /\ ~(Head(s).op \in {"unlock", "wait", "print"} /\ Head(s).m = m)
                => WillLeave(Tail(s), m)
<1> DEFINE t == Tail(s)
           n == Len(s)
<1>1. /\ n \in Nat /\ n >= 1 /\ DOMAIN s = 1..n /\ DOMAIN t = 1..(n - 1)
      /\ \A i \in 1..(n - 1) : t[i] = s[i + 1]
      /\ Head(s) = s[1]
  BY TailFacts
<1> HIDE DEF t, n
<1>2. \A i \in DOMAIN t : i \in Nat /\ i >= 1 /\ i + 1 \in DOMAIN s /\ t[i] = s[i + 1]
  BY <1>1
<1>3. \A j \in DOMAIN s : j \in Nat /\ (j # 1 => j - 1 \in DOMAIN t /\ t[j - 1] = s[j])
  <2> SUFFICES ASSUME NEW j \in DOMAIN s, j # 1
               PROVE  j - 1 \in DOMAIN t /\ t[j - 1] = s[j]
    BY <1>1
  <2>1. j - 1 \in 1..(n - 1) /\ (j - 1) + 1 = j
    BY <1>1
  <2> QED
    BY <1>1, <2>1
<1>4. LogsOnly(s) => LogsOnly(t)
  BY <1>2 DEF LogsOnly
<1>5. ASSUME Syncs(s) PROVE Syncs(t)
  <2> SUFFICES ASSUME NEW i \in DOMAIN t
               PROVE  /\ t[i].op \in {"put", "swap"} => t[i].m \in Fronts
                      /\ t[i].op = "push" => t[i].m \in Backs /\ i = 1
    BY DEF Syncs
  <2>1. i \in Nat /\ i >= 1 /\ i + 1 \in DOMAIN s /\ t[i] = s[i + 1]
    BY <1>2
  <2>2. s[i + 1].op = "push" => s[i + 1].m \in Backs /\ (i + 1 = 1 \/ i + 1 = 2)
    BY <1>5, <2>1 DEF Syncs
  <2>3. s[i + 1].op \in {"put", "swap"} => s[i + 1].m \in Fronts
    BY <1>5, <2>1 DEF Syncs
  <2>4. i + 1 = 1 \/ i + 1 = 2 => i = 1
    BY <2>1
  <2> QED
    BY <2>1, <2>2, <2>3, <2>4
<1>6. ASSUME Frees(s) PROVE Frees(t)
  <2> SUFFICES ASSUME NEW i \in DOMAIN t, t[i].op \in {"put", "swap", "push"}
               PROVE  \E j \in DOMAIN t : j > i /\ t[j].op = "unlock" /\ t[j].m = t[i].m
    BY DEF Frees
  <2>1. i \in Nat /\ i >= 1 /\ i + 1 \in DOMAIN s /\ t[i] = s[i + 1]
    BY <1>2
  <2>2. PICK j \in DOMAIN s : j > i + 1 /\ s[j].op = "unlock" /\ s[j].m = s[i + 1].m
    BY <1>6, <2>1 DEF Frees
  <2>3. j \in Nat /\ j # 1 /\ j - 1 > i
    BY <1>3, <2>1, <2>2
  <2>4. j - 1 \in DOMAIN t /\ t[j - 1] = s[j]
    BY <1>3, <2>3
  <2> QED
    BY <2>1, <2>2, <2>3, <2>4
<1>7. ASSUME NEW c \in Channels, Hands(t, c) PROVE Hands(s, c)
  BY <1>2, <1>7 DEF Hands
<1>8. ASSUME NEW m \in Mutexes, WillLeave(s, m),
             ~(s[1].op \in {"unlock", "wait", "print"} /\ s[1].m = m)
      PROVE  WillLeave(t, m)
  <2>1. PICK j \in DOMAIN s : s[j].op \in {"unlock", "wait", "print"} /\ s[j].m = m
    BY <1>8 DEF WillLeave
  <2>2. j # 1
    BY <1>8, <2>1
  <2>3. j - 1 \in DOMAIN t /\ t[j - 1] = s[j]
    BY <1>3, <2>2
  <2> QED
    BY <2>1, <2>3 DEF WillLeave
<1> QED
  BY <1>1, <1>4, <1>5, <1>6, <1>7, <1>8 DEF t

\* Whoever locks at the head of a list unlocks in its tail.
LEMMA FreesLater ==
  ASSUME NEW s \in Seq(Ops), s # <<>>, Frees(s),
         Head(s).op \in {"put", "swap", "push"}
  PROVE  WillLeave(Tail(s), Head(s).m)
<1>1. Head(s) = s[1] /\ 1 \in DOMAIN s /\ Len(s) \in Nat /\ DOMAIN s = 1..Len(s)
      /\ DOMAIN Tail(s) = 1..(Len(s) - 1)
      /\ \A i \in 1..(Len(s) - 1) : Tail(s)[i] = s[i + 1]
  BY TailFacts
<1>2. PICK j \in DOMAIN s : j > 1 /\ s[j].op = "unlock" /\ s[j].m = s[1].m
  BY <1>1 DEF Frees
<1>3. j - 1 \in 1..(Len(s) - 1) /\ (j - 1) + 1 = j
  BY <1>1, <1>2
<1>4. Tail(s)[j - 1] = s[j] /\ j - 1 \in DOMAIN Tail(s)
  BY <1>1, <1>3
<1> QED
  BY <1>1, <1>2, <1>4 DEF WillLeave

\* Nothing is carried where there is no such operation.
LEMMA CarriedNone ==
  ASSUME NEW s, NEW op, NEW c,
         \A i \in DOMAIN s : ~(s[i].op = op /\ s[i].m = BackMutex(c))
  PROVE  Carried(s, op, c) = <<>>
BY DEF Carried

\* The only such operation tells what is carried.
LEMMA CarriedOne ==
  ASSUME NEW s, NEW op, NEW c, NEW k \in DOMAIN s, k \in Nat,
         s[k].op = op, s[k].m = BackMutex(c),
         \A i \in DOMAIN s : s[i].op = op /\ s[i].m = BackMutex(c) => i = k
  PROVE  Carried(s, op, c) = s[k].lines
<1> DEFINE mine == {i \in DOMAIN s : s[i].op = op /\ s[i].m = BackMutex(c)}
<1>1. mine = {k}
  OBVIOUS
<1>2. Carried(s, op, c) = IF mine = {} THEN <<>> ELSE s[Min(mine)].lines
  BY DEF Carried
<1> HIDE DEF mine
<1>3. Min({k}) = k
  BY DEF Min
<1> QED
  BY <1>1, <1>2, <1>3

\* One who syncs has one buffer at most to hand on.
LEMMA SyncsOne ==
  ASSUME NEW s \in Seq(Ops), Syncs(s), NEW i \in DOMAIN s, NEW j \in DOMAIN s,
         s[i].op = "push", s[j].op = "push"
  PROVE  i = j
BY DEF Syncs

\* What is carried is a sequence of lines.
LEMMA CarriedType ==
  ASSUME NEW s \in Seq(Ops), Syncs(s), NEW c \in Channels
  PROVE  /\ Carried(s, "push", c) \in Seq(Nat)
         /\ ~Hands(s, c) => Carried(s, "push", c) = <<>>
<1>1. CASE ~Hands(s, c)
  <2>1. Carried(s, "push", c) = <<>>
    BY <1>1, CarriedNone DEF Hands
  <2> QED
    BY <2>1, EmptySeq
<1>2. CASE Hands(s, c)
  <2>1. PICK k \in DOMAIN s : s[k].op = "push" /\ s[k].m = BackMutex(c)
    BY <1>2 DEF Hands
  <2>2. \A i \in DOMAIN s : s[i].op = "push" /\ s[i].m = BackMutex(c) => i = k
    BY <2>1, SyncsOne
  <2>3. k \in Nat /\ k \in 1..Len(s)
    BY LenProperties
  <2>4. Carried(s, "push", c) = s[k].lines
    BY <2>1, <2>2, <2>3, CarriedOne
  <2>5. s[k] \in Ops
    BY <2>3, ElementOfSeq
  <2>6. s[k].lines \in Seq(Nat)
    BY <2>5 DEF Ops
  <2> QED
    BY <1>2, <2>4, <2>6
<1> QED
  BY <1>1, <1>2

\* A quiet list carries nothing.
LEMMA QuietFacts ==
  ASSUME NEW s, Quiet(s)
  PROVE  /\ Syncs(s) /\ \A c \in Channels : ~Hands(s, c)
         /\ \A c \in Channels : Carried(s, "push", c) = <<>>
<1>1. Syncs(s) /\ \A c \in Channels : ~Hands(s, c)
  BY DEF Quiet, Syncs, Hands
<1>2. \A c \in Channels : Carried(s, "push", c) = <<>>
  BY CarriedNone DEF Quiet
<1> QED
  BY <1>1, <1>2

\* An operation that is not a push leaves what is carried alone.
LEMMA TailCarried ==
  ASSUME NEW s \in Seq(Ops), s # <<>>, Syncs(s), Head(s).op # "push", NEW c \in Channels
  PROVE  Carried(Tail(s), "push", c) = Carried(s, "push", c)
<1> DEFINE t == Tail(s)
           n == Len(s)
<1>1. /\ n \in Nat /\ n >= 1 /\ DOMAIN s = 1..n /\ DOMAIN t = 1..(n - 1)
      /\ \A i \in 1..(n - 1) : t[i] = s[i + 1]
      /\ Head(s) = s[1] /\ t \in Seq(Ops)
  BY TailFacts
<1>0. Syncs(t)
  BY TailShapes
<1> HIDE DEF t, n
<1>2. CASE ~Hands(s, c)
  <2>1. ~Hands(t, c)
    BY <1>2, TailShapes DEF t
  <2> QED
    BY <1>0, <1>1, <1>2, <2>1, CarriedType DEF t
<1>3. CASE Hands(s, c)
  <2>1. PICK k \in DOMAIN s : s[k].op = "push" /\ s[k].m = BackMutex(c)
    BY <1>3 DEF Hands
  <2>2. \A i \in DOMAIN s : s[i].op = "push" /\ s[i].m = BackMutex(c) => i = k
    BY <2>1, SyncsOne
  <2>3. k \in Nat /\ k # 1 /\ k - 1 \in DOMAIN t /\ k - 1 \in Nat /\ t[k - 1] = s[k]
    <3>1. k # 1 /\ k \in Nat
      BY <1>1, <2>1
    <3>2. k - 1 \in 1..(n - 1) /\ (k - 1) + 1 = k
      BY <1>1, <3>1
    <3> QED
      BY <1>1, <3>1, <3>2
  <2>4. Carried(s, "push", c) = s[k].lines
    BY <2>1, <2>2, <2>3, CarriedOne
  <2> DEFINE h == k - 1
  <2>5. h \in DOMAIN t /\ h \in Nat /\ t[h] = s[k]
    BY <2>3
  <2> HIDE DEF h
  <2>6. \A i \in DOMAIN t : t[i].op = "push" /\ t[i].m = BackMutex(c) => i = h
    BY <1>0, <1>1, <2>1, <2>5, SyncsOne
  <2>7. Carried(t, "push", c) = t[h].lines
    BY <2>1, <2>5, <2>6, CarriedOne
  <2> QED
    BY <2>4, <2>5, <2>7 DEF t
<1> QED
  BY <1>2, <1>3

\* A push hands on what is carried, and leaves nothing.
LEMMA PushCarried ==
  ASSUME NEW s \in Seq(Ops), s # <<>>, Syncs(s), Head(s).op = "push"
  PROVE  /\ Quiet(Tail(s))
         /\ Head(s).m \in Backs
         /\ Carried(s, "push", Head(s).m[2]) = Head(s).lines
         /\ Head(s).lines \in Seq(Nat)
         /\ \A c \in Channels : c # Head(s).m[2] => Carried(s, "push", c) = <<>>
         /\ Hands(s, Head(s).m[2])
<1> DEFINE t == Tail(s)
           n == Len(s)
           c1 == s[1].m[2]
<1>1. /\ n \in Nat /\ n >= 1 /\ DOMAIN s = 1..n /\ DOMAIN t = 1..(n - 1)
      /\ \A i \in 1..(n - 1) : t[i] = s[i + 1]
      /\ Head(s) = s[1] /\ s[1] \in Ops /\ 1 \in DOMAIN s
  BY TailFacts
<1> HIDE DEF t, n
<1>2. s[1].m \in Backs /\ s[1].lines \in Seq(Nat)
  BY <1>1 DEF Syncs, Ops
<1>3. c1 \in Channels /\ s[1].m = BackMutex(c1)
  BY <1>2, MutexFacts
<1>4. \A i \in DOMAIN s : s[i].op = "push" => i = 1
  BY <1>1, SyncsOne
<1>5. Carried(s, "push", c1) = s[1].lines
  <2> HIDE DEF c1
  <2>1. \A i \in DOMAIN s : s[i].op = "push" /\ s[i].m = BackMutex(c1) => i = 1
    BY <1>4
  <2> QED
    BY <1>1, <1>3, <2>1, CarriedOne
<1>6. ASSUME NEW c \in Channels, c # c1 PROVE Carried(s, "push", c) = <<>>
  <2>1. BackMutex(c) # BackMutex(c1)
    BY <1>3, <1>6, MutexFacts
  <2>2. \A i \in DOMAIN s : ~(s[i].op = "push" /\ s[i].m = BackMutex(c))
    BY <1>3, <1>4, <2>1
  <2> QED
    BY <2>2, CarriedNone
<1>7. Quiet(t)
  <2> SUFFICES ASSUME NEW i \in DOMAIN t
               PROVE  t[i].op # "push" /\ (t[i].op \in {"put", "swap"} => t[i].m \in Fronts)
    BY DEF Quiet
  <2>1. i + 1 \in DOMAIN s /\ i + 1 # 1 /\ t[i] = s[i + 1]
    BY <1>1
  <2> QED
    BY <1>4, <2>1 DEF Syncs
<1>8. Hands(s, c1)
  BY <1>1, <1>3 DEF Hands
<1> QED
  BY <1>1, <1>2, <1>5, <1>6, <1>7, <1>8 DEF t

\* A list that starts with a swap is quiet, and so is its tail.
LEMMA SwapQuiet ==
  ASSUME NEW s \in Seq(Ops), s # <<>>, Syncs(s), Head(s).op = "swap"
  PROVE  Quiet(s) /\ Quiet(Tail(s)) /\ Head(s).m \in Fronts
<1> DEFINE t == Tail(s)
           n == Len(s)
<1>1. /\ n \in Nat /\ n >= 1 /\ DOMAIN s = 1..n /\ DOMAIN t = 1..(n - 1)
      /\ \A i \in 1..(n - 1) : t[i] = s[i + 1]
      /\ Head(s) = s[1] /\ s[1] \in Ops /\ 1 \in DOMAIN s
  BY TailFacts
<1> HIDE DEF t, n
<1>2. Quiet(s) /\ s[1].m \in Fronts
  BY <1>1 DEF Syncs, Quiet
<1>3. Quiet(t)
  <2> SUFFICES ASSUME NEW i \in DOMAIN t
               PROVE  t[i].op # "push" /\ (t[i].op \in {"put", "swap"} => t[i].m \in Fronts)
    BY DEF Quiet
  <2>1. i + 1 \in DOMAIN s /\ t[i] = s[i + 1]
    BY <1>1
  <2> QED
    BY <1>2, <2>1 DEF Quiet
<1> QED
  BY <1>1, <1>2, <1>3 DEF t

\* Lists one after the other, element by element.
LEMMA CatFacts ==
  ASSUME NEW x \in Seq(Ops), NEW y \in Seq(Ops)
  PROVE  /\ x \o y \in Seq(Ops) /\ Len(x) \in Nat
         /\ DOMAIN x = 1..Len(x) /\ DOMAIN y = 1..Len(y)
         /\ DOMAIN (x \o y) = 1..(Len(x) + Len(y))
         /\ \A i \in DOMAIN x : i \in DOMAIN (x \o y) /\ (x \o y)[i] = x[i]
         /\ \A i \in DOMAIN y : Len(x) + i \in DOMAIN (x \o y) /\ (x \o y)[Len(x) + i] = y[i]
         /\ \A i \in DOMAIN (x \o y) :
              \/ i \in DOMAIN x /\ (x \o y)[i] = x[i]
              \/ i - Len(x) \in DOMAIN y /\ (x \o y)[i] = y[i - Len(x)] /\ i > Len(x)
<1> DEFINE z == x \o y
<1>1. /\ z \in Seq(Ops) /\ Len(z) = Len(x) + Len(y)
      /\ \A i \in 1..(Len(x) + Len(y)) :
           z[i] = IF i <= Len(x) THEN x[i] ELSE y[i - Len(x)]
  BY ConcatProperties
<1> HIDE DEF z
<1>2. /\ DOMAIN x = 1..Len(x) /\ DOMAIN y = 1..Len(y)
      /\ DOMAIN z = 1..(Len(x) + Len(y))
      /\ Len(x) \in Nat /\ Len(y) \in Nat
  BY <1>1, LenProperties
<1>3. \A i \in DOMAIN x : i \in DOMAIN z /\ z[i] = x[i]
  BY <1>1, <1>2
<1>4. ASSUME NEW i \in DOMAIN y PROVE Len(x) + i \in DOMAIN z /\ z[Len(x) + i] = y[i]
  <2> DEFINE j == Len(x) + i
  <2>1. j \in 1..(Len(x) + Len(y)) /\ ~(j <= Len(x)) /\ j - Len(x) = i
    BY <1>2
  <2> HIDE DEF j
  <2>2. j \in DOMAIN z /\ z[j] = y[i]
    BY <1>1, <1>2, <2>1
  <2> QED
    BY <2>2 DEF j
<1>5. ASSUME NEW i \in DOMAIN z
      PROVE  \/ i \in DOMAIN x /\ z[i] = x[i]
             \/ i - Len(x) \in DOMAIN y /\ z[i] = y[i - Len(x)] /\ i > Len(x)
  BY <1>1, <1>2
<1> QED
  BY <1>1, <1>2, <1>3, <1>4, <1>5 DEF z

\* Quiet lists, one after the other.
LEMMA CatQuiet ==
  ASSUME NEW x \in Seq(Ops), NEW y \in Seq(Ops), Quiet(x), Quiet(y)
  PROVE  x \o y \in Seq(Ops) /\ Quiet(x \o y)
<1> DEFINE z == x \o y
<1>1. z \in Seq(Ops) /\ \A i \in DOMAIN z :
              \/ i \in DOMAIN x /\ z[i] = x[i]
              \/ i - Len(x) \in DOMAIN y /\ z[i] = y[i - Len(x)]
  BY CatFacts
<1> HIDE DEF z
<1>2. Quiet(z)
  BY <1>1 DEF Quiet
<1> QED
  BY <1>1, <1>2 DEF z

\* Lists that free what they lock, one after the other.
LEMMA CatFrees ==
  ASSUME NEW x \in Seq(Ops), NEW y \in Seq(Ops), Frees(x), Frees(y)
  PROVE  Frees(x \o y)
<1> DEFINE z == x \o y
           n == Len(x)
<1>1. /\ n \in Nat /\ DOMAIN x = 1..n /\ DOMAIN y = 1..Len(y)
      /\ \A i \in DOMAIN x : i \in DOMAIN z /\ z[i] = x[i]
      /\ \A i \in DOMAIN y : n + i \in DOMAIN z /\ z[n + i] = y[i]
      /\ \A i \in DOMAIN z :
              \/ i \in DOMAIN x /\ z[i] = x[i]
              \/ i - n \in DOMAIN y /\ z[i] = y[i - n] /\ i > n
      /\ DOMAIN z = 1..(n + Len(y)) /\ Len(y) \in Nat
  BY CatFacts
<1> HIDE DEF z, n
<1> SUFFICES ASSUME NEW i \in DOMAIN z, z[i].op \in {"put", "swap", "push"}
             PROVE  \E j \in DOMAIN z : j > i /\ z[j].op = "unlock" /\ z[j].m = z[i].m
  BY DEF Frees, z
<1>2. CASE i \in DOMAIN x /\ z[i] = x[i]
  <2>1. PICK j \in DOMAIN x : j > i /\ x[j].op = "unlock" /\ x[j].m = x[i].m
    BY <1>2 DEF Frees
  <2> QED
    BY <1>1, <1>2, <2>1
<1>3. CASE i - n \in DOMAIN y /\ z[i] = y[i - n]
  <2>1. PICK j \in DOMAIN y : j > i - n /\ y[j].op = "unlock" /\ y[j].m = y[i - n].m
    BY <1>3 DEF Frees
  <2>2. n + j > i
    BY <1>1, <2>1
  <2> QED
    BY <1>1, <1>3, <2>1, <2>2
<1> QED
  BY <1>1, <1>2, <1>3

\* A log call.
LEMMA PushLogFacts ==
  ASSUME NEW c \in Channels
  PROVE  /\ PushLog(c) \in Seq(Ops) /\ LogsOnly(PushLog(c))
         /\ Quiet(PushLog(c)) /\ Frees(PushLog(c))
         /\ \A i \in DOMAIN PushLog(c) : /\ PushLog(c)[i].op \in {"put", "unlock"}
                                         /\ PushLog(c)[i].m = FrontMutex(c)
<1> DEFINE m == FrontMutex(c)
           p == Do("put", m)
           u == Do("unlock", m)
           s == <<p, u, u>>
<1>1. m \in Fronts /\ m \in Mutexes
  BY MutexFacts
<1>2. /\ p \in Ops /\ p.op = "put" /\ p.m = m
      /\ u \in Ops /\ u.op = "unlock" /\ u.m = m
  <2> HIDE DEF m
  <2>1. <<>> \in Seq(Nat)
    BY EmptySeq
  <2> QED
    BY <1>1, <2>1 DEF Op, Do, Ops, Names
<1>3. PushLog(c) = s
  BY DEF PushLog
<1> HIDE DEF m, p, u
<1>4. s \in Seq(Ops) /\ DOMAIN s = 1..3 /\ s[1] = p /\ s[2] = u /\ s[3] = u
  BY <1>2
<1> HIDE DEF s
<1>5. \A i \in DOMAIN s : s[i] = p \/ s[i] = u
  BY <1>4
<1>6. LogsOnly(s) /\ Quiet(s) /\ \A i \in DOMAIN s : s[i].op \in {"put", "unlock"} /\ s[i].m = m
  BY <1>1, <1>2, <1>5 DEF LogsOnly, Quiet
<1>7. Frees(s)
  <2> SUFFICES ASSUME NEW i \in DOMAIN s, s[i].op \in {"put", "swap", "push"}
               PROVE  \E j \in DOMAIN s : j > i /\ s[j].op = "unlock" /\ s[j].m = s[i].m
    BY DEF Frees
  <2>1. i = 1 /\ 3 \in DOMAIN s /\ 3 > 1
    BY <1>2, <1>4
  <2> QED
    BY <1>2, <1>4, <2>1
<1> QED
  BY <1>3, <1>4, <1>6, <1>7 DEF m

\* The sync that the timer and the handler do.
LEMMA SyncLoopFacts == SyncLoop \in Seq(Ops) /\ Quiet(SyncLoop) /\ Frees(SyncLoop)
<1> DEFINE mr == FrontMutex("rpc")
           ma == FrontMutex("app")
           sr == Do("swap", mr)
           sa == Do("swap", ma)
           ua == Do("unlock", ma)
           ur == Do("unlock", mr)
           s == <<sr, sa, ua, ur>>
<1>1. mr \in Fronts /\ ma \in Fronts /\ mr \in Mutexes /\ ma \in Mutexes
  BY MutexFacts
<1>2. /\ sr \in Ops /\ sr.op = "swap" /\ sr.m = mr
      /\ sa \in Ops /\ sa.op = "swap" /\ sa.m = ma
      /\ ua \in Ops /\ ua.op = "unlock" /\ ua.m = ma
      /\ ur \in Ops /\ ur.op = "unlock" /\ ur.m = mr
  <2> HIDE DEF mr, ma
  <2>1. <<>> \in Seq(Nat)
    BY EmptySeq
  <2> QED
    BY <1>1, <2>1 DEF Op, Do, Ops, Names
<1>3. SyncLoop = s
  BY DEF SyncLoop
<1> HIDE DEF mr, ma, sr, sa, ua, ur
<1>4. s \in Seq(Ops) /\ DOMAIN s = 1..4 /\ s[1] = sr /\ s[2] = sa /\ s[3] = ua /\ s[4] = ur
  BY <1>2
<1> HIDE DEF s
<1>5. \A i \in DOMAIN s : s[i] \in {sr, sa, ua, ur}
  BY <1>4
<1>6. Quiet(s)
  BY <1>1, <1>2, <1>5 DEF Quiet
<1>7. Frees(s)
  <2> SUFFICES ASSUME NEW i \in DOMAIN s, s[i].op \in {"put", "swap", "push"}
               PROVE  \E j \in DOMAIN s : j > i /\ s[j].op = "unlock" /\ s[j].m = s[i].m
    BY DEF Frees
  <2>1. (i = 1 \/ i = 2) /\ 3 \in DOMAIN s /\ 4 \in DOMAIN s /\ 3 > 2 /\ 4 > 1
    BY <1>2, <1>4
  <2> QED
    BY <1>2, <1>4, <2>1
<1> QED
  BY <1>3, <1>4, <1>6, <1>7

\* Two elements, then three.
LEMMA TwoAndThree ==
  ASSUME NEW S, NEW a \in S, NEW b \in S, NEW c \in S, NEW d \in S, NEW e \in S
  PROVE <<a, b>> \o <<c, d, e>> = <<a, b, c, d, e>>
<1> DEFINE u == <<a, b>>
           v == <<c, d, e>>
           w == <<a, b, c, d, e>>
<1>1. u \in Seq(S) /\ v \in Seq(S) /\ w \in Seq(S) /\ Len(u) = 2 /\ Len(v) = 3 /\ Len(w) = 5
  OBVIOUS
<1>2. /\ u[1] = w[1] /\ u[2] = w[2] /\ v[1] = w[3] /\ v[2] = w[4] /\ v[3] = w[5]
  OBVIOUS
<1> HIDE DEF u, v, w
<1>3. /\ u \o v \in Seq(S) /\ Len(u \o v) = Len(u) + Len(v)
      /\ \A i \in 1..(Len(u) + Len(v)) :
           (u \o v)[i] = IF i <= Len(u) THEN u[i] ELSE v[i - Len(u)]
  BY <1>1, ConcatProperties
<1>4. PICK z \in Seq(S) : z = u \o v
  BY <1>3
<1>5. /\ Len(z) = 5
      /\ \A i \in 1..5 : z[i] = IF i <= 2 THEN u[i] ELSE v[i - 2]
  BY <1>1, <1>3, <1>4
<1>6. z[1] = w[1] /\ z[2] = w[2] /\ z[3] = w[3] /\ z[4] = w[4] /\ z[5] = w[5]
  BY <1>2, <1>5
<1>7. \A i \in 1..Len(z) : i = 1 \/ i = 2 \/ i = 3 \/ i = 4 \/ i = 5
  BY <1>5
<1>8. z = w
  BY <1>1, <1>5, <1>6, <1>7, SeqEqual
<1> QED
  BY <1>4, <1>8 DEF u, v, w

\* The operations of the signal handler, those of flush() written out.
LEMMA HandlerList ==
  CoredumpHandler = (PushLog("rpc") \o SyncLoop)
    \o <<Do("stop", BackMutex("rpc")), Do("stop", BackMutex("app")),
         Do("join", BackMutex("rpc")), Do("join", BackMutex("app")),
         Do("raise", BackMutex("rpc"))>>
<1> DEFINE sr == Do("stop", BackMutex("rpc"))
           sa == Do("stop", BackMutex("app"))
           jr == Do("join", BackMutex("rpc"))
           ja == Do("join", BackMutex("app"))
           rr == Do("raise", BackMutex("rpc"))
           p == PushLog("rpc")
           q == SyncLoop
           u == <<sr, sa>>
           v == <<jr, ja, rr>>
<1>1. sr \in Ops /\ sa \in Ops /\ jr \in Ops /\ ja \in Ops /\ rr \in Ops
  <2>1. <<>> \in Seq(Nat)
    BY EmptySeq
  <2> QED
    BY <2>1, MutexFacts DEF Op, Do, Ops, Names
<1>2. p \in Seq(Ops) /\ q \in Seq(Ops)
  BY PushLogFacts, SyncLoopFacts, MutexFacts
<1>3. CoredumpHandler = (p \o (q \o u)) \o v
  BY Zenon DEF CoredumpHandler, Flush
<1> HIDE DEF sr, sa, jr, ja, rr, p, q
<1>4. u \in Seq(Ops) /\ v \in Seq(Ops)
  BY <1>1
<1>5. u \o v = <<sr, sa, jr, ja, rr>>
  BY <1>1, TwoAndThree
<1> HIDE DEF u, v
<1>6. (p \o (q \o u)) \o v = (p \o q) \o (u \o v)
  <2>1. p \o (q \o u) = (p \o q) \o u /\ p \o q \in Seq(Ops)
    BY <1>2, <1>4, ConcatAssociative, ConcatProperties
  <2> QED
    BY <1>4, <2>1, ConcatAssociative
<1>7. CoredumpHandler = (p \o q) \o <<sr, sa, jr, ja, rr>>
  BY <1>3, <1>5, <1>6
<1> QED
  BY <1>7 DEF sr, sa, jr, ja, rr, p, q

\* What the signal handler does.
LEMMA HandlerFacts ==
  CoredumpHandler \in Seq(Ops) /\ Quiet(CoredumpHandler) /\ Frees(CoredumpHandler)
<1> DEFINE br == BackMutex("rpc")
           ba == BackMutex("app")
           s == <<Do("stop", br), Do("stop", ba), Do("join", br), Do("join", ba),
                  Do("raise", br)>>
<1>1. br \in Mutexes /\ ba \in Mutexes /\ "rpc" \in Channels
  BY MutexFacts
<1>2. \A m \in Mutexes :
        /\ Do("stop", m) \in Ops /\ Do("stop", m).op = "stop"
        /\ Do("join", m) \in Ops /\ Do("join", m).op = "join"
        /\ Do("raise", m) \in Ops /\ Do("raise", m).op = "raise"
  <2>1. <<>> \in Seq(Nat)
    BY EmptySeq
  <2> QED
    BY <2>1 DEF Op, Do, Ops, Names
<1>3. s \in Seq(Ops)
  <2> HIDE DEF br, ba
  <2> QED
    BY <1>1, <1>2
<1>4. \A i \in DOMAIN s : s[i].op \in {"stop", "join", "raise"}
  <2> HIDE DEF br, ba
  <2> QED
    BY <1>1, <1>2
<1> HIDE DEF s
<1>5. Quiet(s) /\ Frees(s)
  BY <1>4 DEF Quiet, Frees
<1> DEFINE x == PushLog("rpc") \o SyncLoop
<1>6. x \in Seq(Ops) /\ Quiet(x) /\ Frees(x)
  BY <1>1, PushLogFacts, SyncLoopFacts, CatQuiet, CatFrees
<1>7. CoredumpHandler = x \o s
  BY HandlerList, Zenon DEF s
<1> HIDE DEF x
<1> QED
  BY <1>3, <1>5, <1>6, <1>7, CatQuiet, CatFrees

\* What a swap puts in front of the rest of the list: the rpc mutex is given
\* up, then the buffer that was taken is handed on.
LEMMA AfterSwapFacts ==
  ASSUME NEW c \in Channels, NEW l \in Seq(Nat), NEW t \in Seq(Ops), Quiet(t), Frees(t),
         NEW z, z = AfterSwap(c, l) \o t
  PROVE  /\ z \in Seq(Ops) /\ Syncs(z) /\ Frees(z)
         /\ Carried(z, "push", c) = l
         /\ \A d \in Channels : d # c => ~Hands(z, d)
         /\ \A m \in Mutexes : WillLeave(t, m) => WillLeave(z, m)
<1> DEFINE mr == FrontMutex("rpc")
           b == BackMutex(c)
           ur == Do("unlock", mr)
           p == Op("push", b, l)
           u == Do("unlock", b)
           x == AfterSwap(c, l)
           n == Len(x)
<1>1. mr \in Mutexes /\ b \in Mutexes /\ b \in Backs
  BY MutexFacts
<1>2. /\ ur \in Ops /\ ur.op = "unlock" /\ ur.m = mr
      /\ u \in Ops /\ u.op = "unlock" /\ u.m = b
      /\ p \in Ops /\ p.op = "push" /\ p.m = b /\ p.lines = l
  <2> HIDE DEF mr, b
  <2>1. <<>> \in Seq(Nat)
    BY EmptySeq
  <2> QED
    BY <1>1, <2>1 DEF Op, Do, Ops, Names
<1>3. x = IF l = <<>> THEN <<ur>> ELSE <<ur, p, u, u>>
  <2>1. x = <<ur>> \o (IF l = <<>> THEN <<>> ELSE <<p, u, u>>)
    BY DEF AfterSwap, PushLogBuffer
  <2> HIDE DEF ur, p, u
  <2>2. <<ur>> \in Seq(Ops)
    BY <1>2
  <2>3. <<ur>> \o <<>> = <<ur>>
    BY <2>2, ConcatEmptySeq
  <2>4. <<ur>> \o <<p, u, u>> = <<ur, p, u, u>>
    <3> DEFINE r == <<p, u, u>>
               v == <<ur, p, u, u>>
    <3>1. r \in Seq(Ops) /\ Len(r) = 3 /\ r[1] = p /\ r[2] = u /\ r[3] = u
      BY <1>2
    <3>2. /\ v \in Seq(Ops) /\ Len(v) = 4
          /\ v[1] = ur /\ v[2] = p /\ v[3] = u /\ v[4] = u
      BY <1>2
    <3>3. Len(<<ur>>) = 1 /\ <<ur>>[1] = ur
      OBVIOUS
    <3> HIDE DEF r, v
    <3>4. /\ <<ur>> \o r \in Seq(Ops) /\ Len(<<ur>> \o r) = 4
          /\ \A i \in 1..4 : (<<ur>> \o r)[i] = v[i]
      <4> DEFINE e == <<ur>>
      <4>0. e \in Seq(Ops) /\ Len(e) = 1 /\ e[1] = ur
        BY <2>2, <3>3
      <4> HIDE DEF e
      <4>1. /\ e \o r \in Seq(Ops) /\ Len(e \o r) = Len(e) + Len(r)
            /\ \A i \in 1..(Len(e) + Len(r)) :
                 (e \o r)[i] = IF i <= Len(e) THEN e[i] ELSE r[i - Len(e)]
        BY <3>1, <4>0, ConcatProperties
      <4>2. /\ Len(e \o r) = 4
            /\ \A i \in 1..4 : (e \o r)[i] = IF i <= 1 THEN e[i] ELSE r[i - 1]
        BY <3>1, <4>0, <4>1
      <4>3. \A i \in 1..4 : (e \o r)[i] = v[i]
        BY <3>1, <3>2, <4>0, <4>2
      <4> QED
        BY <4>1, <4>2, <4>3 DEF e
    <3>5. <<ur>> \o r = v
      BY <3>2, <3>4, SeqEqual
    <3> QED
      BY <3>5 DEF r, v
  <2> QED
    BY <2>1, <2>3, <2>4
<1> HIDE DEF mr, b, ur, p, u, x
<1>4. /\ x \in Seq(Ops) /\ x[1] = ur /\ n \in Nat /\ 1 \in DOMAIN x
      /\ l = <<>> => DOMAIN x = 1..1 /\ n = 1
      /\ l # <<>> => DOMAIN x = 1..4 /\ n = 4 /\ x[2] = p /\ x[3] = u /\ x[4] = u
  BY <1>2, <1>3
<1>0. \A i \in DOMAIN x : x[i] = ur \/ (l # <<>> /\ i = 2 /\ x[i] = p) \/ x[i] = u
  BY <1>4
<1>5. /\ z \in Seq(Ops)
      /\ \A i \in DOMAIN x : i \in DOMAIN z /\ z[i] = x[i]
      /\ \A i \in DOMAIN t : n + i \in DOMAIN z /\ z[n + i] = t[i]
      /\ \A i \in DOMAIN z :
              \/ i \in DOMAIN x /\ z[i] = x[i]
              \/ i - n \in DOMAIN t /\ z[i] = t[i - n] /\ i > n
      /\ DOMAIN z = 1..(n + Len(t)) /\ Len(t) \in Nat
  <2>1. z = x \o t
    BY DEF x
  <2>2. Len(t) \in Nat
    BY LenProperties
  <2> QED
    BY <1>4, <2>1, <2>2, CatFacts
<1>6. Frees(x)
  <2> SUFFICES ASSUME NEW i \in DOMAIN x, x[i].op \in {"put", "swap", "push"}
               PROVE  \E j \in DOMAIN x : j > i /\ x[j].op = "unlock" /\ x[j].m = x[i].m
    BY DEF Frees
  <2>1. l # <<>> /\ i = 2
    BY <1>0, <1>2
  <2>2. 3 \in DOMAIN x /\ 3 > 2
    BY <1>4, <2>1
  <2> QED
    BY <1>2, <1>4, <2>1, <2>2
<1>7. Frees(z)
  BY <1>4, <1>6, CatFrees DEF x
<1>8. \A i \in DOMAIN z : z[i].op = "push" => l # <<>> /\ i = 2 /\ z[i] = p
  <2> SUFFICES ASSUME NEW i \in DOMAIN z, z[i].op = "push"
               PROVE  l # <<>> /\ i = 2 /\ z[i] = p
    OBVIOUS
  <2>1. i \in DOMAIN x /\ z[i] = x[i]
    BY <1>5 DEF Quiet
  <2> QED
    BY <1>0, <1>2, <2>1
<1>9. \A i \in DOMAIN z : z[i].op \in {"put", "swap"} => z[i].m \in Fronts
  <2> SUFFICES ASSUME NEW i \in DOMAIN z, z[i].op \in {"put", "swap"}
               PROVE  z[i].m \in Fronts
    OBVIOUS
  <2>1. CASE i \in DOMAIN x /\ z[i] = x[i]
    BY <1>0, <1>2, <2>1
  <2>2. CASE i - n \in DOMAIN t /\ z[i] = t[i - n]
    BY <2>2 DEF Quiet
  <2> QED
    BY <1>5, <2>1, <2>2
<1>10. z[1] = ur
  BY <1>4, <1>5
<1>11. Syncs(z)
  BY <1>1, <1>2, <1>8, <1>9, <1>10 DEF Syncs, mr
<1>12. Carried(z, "push", c) = l
  <2>1. CASE l = <<>>
    <3>1. \A i \in DOMAIN z : ~(z[i].op = "push" /\ z[i].m = BackMutex(c))
      BY <1>8, <2>1
    <3> QED
      BY <2>1, <3>1, CarriedNone
  <2>2. CASE l # <<>>
    <3>1. 2 \in DOMAIN z /\ z[2] = p
      BY <1>4, <1>5, <2>2
    <3>2. \A i \in DOMAIN z : z[i].op = "push" /\ z[i].m = BackMutex(c) => i = 2
      BY <1>8
    <3>3. Carried(z, "push", c) = z[2].lines
      <4>1. z[2].op = "push" /\ z[2].m = BackMutex(c) /\ 2 \in Nat
        BY <1>2, <3>1 DEF b
      <4> QED
        BY <3>1, <3>2, <4>1, CarriedOne
    <3> QED
      BY <1>2, <3>1, <3>3
  <2> QED
    BY <2>1, <2>2
<1>13. ASSUME NEW d \in Channels, d # c PROVE ~Hands(z, d)
  <2>1. BackMutex(d) # BackMutex(c)
    BY <1>13, MutexFacts
  <2> QED
    BY <1>2, <1>8, <2>1 DEF Hands, b
<1>14. ASSUME NEW m \in Mutexes, WillLeave(t, m) PROVE WillLeave(z, m)
  <2>1. PICK i \in DOMAIN t : t[i].op \in {"unlock", "wait", "print"} /\ t[i].m = m
    BY <1>14 DEF WillLeave
  <2> QED
    BY <1>5, <2>1 DEF WillLeave
<1> QED
  BY <1>5, <1>7, <1>11, <1>12, <1>13, <1>14

\* The lists of a writer.
LEMMA WriterFacts ==
  ASSUME NEW c \in Channels, NEW s, Writes(s, c)
  PROVE  /\ s \in Seq(Ops) /\ Frees(s)
         /\ s # <<>> => Head(s).m = BackMutex(c)
                        /\ Head(s).op \in {"pop", "wait", "asleep", "unlock", "print"}
         /\ s # <<>> /\ Head(s).op = "pop" => s = <<Do("pop", BackMutex(c))>>
         /\ s # <<>> /\ Head(s).op = "wait" => s = <<Do("wait", BackMutex(c))>>
         /\ s # <<>> /\ Head(s).op = "asleep" => s = <<Do("asleep", BackMutex(c))>>
         /\ s # <<>> /\ Head(s).op = "print" =>
              Head(s).lines \in Seq(Nat) /\ s = <<Op("print", BackMutex(c), Head(s).lines)>>
         /\ s # <<>> /\ Head(s).op = "unlock" =>
              s = <<Do("unlock", BackMutex(c))>>
                \/ s = <<Do("unlock", BackMutex(c)), Do("pop", BackMutex(c))>>
<1> DEFINE b == BackMutex(c)
<1>1. b \in Mutexes
  BY MutexFacts
<1>2. <<>> \in Seq(Nat)
  BY EmptySeq
<1>3. \A op \in Names : Do(op, b) \in Ops /\ Do(op, b).op = op /\ Do(op, b).m = b
  <2> HIDE DEF b
  <2> QED
    BY <1>1, <1>2, OpFacts
<1>4. \A l \in Seq(Nat) : Op("print", b, l) \in Ops /\ Op("print", b, l).op = "print"
                          /\ Op("print", b, l).m = b /\ Op("print", b, l).lines = l
  <2> HIDE DEF b
  <2> QED
    BY <1>1, <1>2 DEF Op, Ops, Names
<1>5. {"pop", "wait", "asleep", "unlock"} \subseteq Names
  BY DEF Names
<1>6. ASSUME NEW o \in Ops, s = <<o>>,
             o.op \in {"pop", "wait", "asleep", "unlock", "print"}
      PROVE  s \in Seq(Ops) /\ Frees(s) /\ s # <<>> /\ Head(s) = o
  <2>1. s \in Seq(Ops) /\ s # <<>> /\ Head(s) = o /\ DOMAIN s = 1..1 /\ s[1] = o
    BY <1>6
  <2>2. Frees(s)
    BY <1>6, <2>1 DEF Frees
  <2> QED
    BY <2>1, <2>2
<1>7. CASE s = <<>>
  BY <1>7, EmptySeq DEF Frees
<1>8. CASE s = <<Do("pop", b)>>
  BY <1>3, <1>5, <1>6, <1>8
<1>9. CASE s = <<Do("wait", b)>>
  BY <1>3, <1>5, <1>6, <1>9
<1>10. CASE s = <<Do("asleep", b)>>
  BY <1>3, <1>5, <1>6, <1>10
<1>11. CASE s = <<Do("unlock", b)>>
  BY <1>3, <1>5, <1>6, <1>11
<1>12. CASE s = <<Do("unlock", b), Do("pop", b)>>
  <2> DEFINE u == Do("unlock", b)
             p == Do("pop", b)
  <2>1. u \in Ops /\ p \in Ops /\ u.op = "unlock" /\ p.op = "pop" /\ u.m = b
    BY <1>3, <1>5
  <2>2. s = <<u, p>>
    BY <1>12
  <2> HIDE DEF u, p
  <2>3. s \in Seq(Ops) /\ s # <<>> /\ Head(s) = u /\ DOMAIN s = 1..2 /\ s[1] = u /\ s[2] = p
    BY <2>1, <2>2
  <2>4. \A i \in DOMAIN s : s[i] = u \/ s[i] = p
    BY <2>3
  <2>5. Frees(s)
    BY <2>1, <2>4 DEF Frees
  <2> QED
    BY <1>12, <2>1, <2>3, <2>5
<1>13. CASE \E l \in Seq(Nat) : s = <<Op("print", b, l)>>
  <2>1. PICK l \in Seq(Nat) : s = <<Op("print", b, l)>>
    BY <1>13
  <2> QED
    BY <1>4, <1>6, <2>1
<1> QED
  BY <1>7, <1>8, <1>9, <1>10, <1>11, <1>12, <1>13 DEF Writes

\* The sections a writer is in, and the lines it has, by its list.
LEMMA WriterLists ==
  ASSUME NEW c \in Channels
  PROVE  /\ \A m \in Mutexes :
              /\ ~WillLeave(<<>>, m)
              /\ ~WillLeave(<<Do("pop", BackMutex(c))>>, m)
              /\ ~WillLeave(<<Do("asleep", BackMutex(c))>>, m)
              /\ WillLeave(<<Do("wait", BackMutex(c))>>, m) <=> m = BackMutex(c)
              /\ \A l \in Seq(Nat) :
                   WillLeave(<<Op("print", BackMutex(c), l)>>, m) <=> m = BackMutex(c)
              /\ WillLeave(<<Do("unlock", BackMutex(c))>>, m) <=> m = BackMutex(c)
              /\ WillLeave(<<Do("unlock", BackMutex(c)), Do("pop", BackMutex(c))>>, m)
                   => m = BackMutex(c)
         /\ Carried(<<>>, "print", c) = <<>>
         /\ Carried(<<Do("pop", BackMutex(c))>>, "print", c) = <<>>
         /\ Carried(<<Do("wait", BackMutex(c))>>, "print", c) = <<>>
         /\ Carried(<<Do("asleep", BackMutex(c))>>, "print", c) = <<>>
         /\ Carried(<<Do("unlock", BackMutex(c))>>, "print", c) = <<>>
         /\ Carried(<<Do("unlock", BackMutex(c)), Do("pop", BackMutex(c))>>, "print", c) = <<>>
         /\ \A l \in Seq(Nat) :
              Carried(<<Op("print", BackMutex(c), l)>>, "print", c) = l
<1> DEFINE b == BackMutex(c)
           u == Do("unlock", b)
           p == Do("pop", b)
<1>1. b \in Mutexes
  BY MutexFacts
<1>2. <<>> \in Seq(Nat)
  BY EmptySeq
<1>3. \A op \in Names : Do(op, b) \in Ops /\ Do(op, b).op = op /\ Do(op, b).m = b
  <2> HIDE DEF b
  <2> QED
    BY <1>1, <1>2, OpFacts
<1>4. \A l \in Seq(Nat) : Op("print", b, l) \in Ops /\ Op("print", b, l).op = "print"
                          /\ Op("print", b, l).m = b /\ Op("print", b, l).lines = l
  <2> HIDE DEF b
  <2> QED
    BY <1>1, <1>2 DEF Op, Ops, Names
<1>5. {"pop", "wait", "asleep", "unlock"} \subseteq Names
  BY DEF Names
<1>6. ASSUME NEW o \in Ops, NEW m \in Mutexes
      PROVE  WillLeave(<<o>>, m) <=> o.op \in {"unlock", "wait", "print"} /\ o.m = m
  <2> DEFINE s == <<o>>
  <2>1. DOMAIN s = {1} /\ s[1] = o
    OBVIOUS
  <2> HIDE DEF s
  <2>2. WillLeave(s, m) <=> o.op \in {"unlock", "wait", "print"} /\ o.m = m
    BY <2>1 DEF WillLeave
  <2> QED
    BY <2>2 DEF s
<1>7. ASSUME NEW o \in Ops, o.op # "print" PROVE Carried(<<o>>, "print", c) = <<>>
  <2> DEFINE s == <<o>>
  <2>1. DOMAIN s = {1} /\ s[1] = o
    OBVIOUS
  <2> HIDE DEF s
  <2>2. \A i \in DOMAIN s : ~(s[i].op = "print" /\ s[i].m = BackMutex(c))
    BY <1>7, <2>1
  <2>3. Carried(s, "print", c) = <<>>
    BY <2>2, CarriedNone
  <2> QED
    BY <2>3 DEF s
<1>8. ASSUME NEW o \in Ops, o.op = "print", o.m = BackMutex(c)
      PROVE  Carried(<<o>>, "print", c) = o.lines
  <2> DEFINE s == <<o>>
  <2>1. DOMAIN s = {1} /\ s[1] = o /\ 1 \in Nat
    OBVIOUS
  <2> HIDE DEF s
  <2>2. 1 \in DOMAIN s /\ \A i \in DOMAIN s : s[i].op = "print" /\ s[i].m = BackMutex(c) => i = 1
    BY <2>1
  <2>3. Carried(s, "print", c) = s[1].lines
    BY <1>8, <2>1, <2>2, CarriedOne
  <2> QED
    BY <2>1, <2>3 DEF s
<1>9. u \in Ops /\ u.op = "unlock" /\ u.m = b /\ p \in Ops /\ p.op = "pop"
  BY <1>3, <1>5
<1>10. ASSUME NEW m \in Mutexes
       PROVE  WillLeave(<<u, p>>, m) => m = b
  <2> HIDE DEF u, p, b
  <2> DEFINE s == <<u, p>>
  <2>1. DOMAIN s = {1, 2} /\ s[1] = u /\ s[2] = p
    OBVIOUS
  <2> HIDE DEF s
  <2>2. WillLeave(s, m) => m = b
    BY <1>9, <2>1 DEF WillLeave
  <2> QED
    BY <2>2 DEF s
<1>11. Carried(<<u, p>>, "print", c) = <<>>
  <2> HIDE DEF u, p, b
  <2> DEFINE s == <<u, p>>
  <2>1. DOMAIN s = {1, 2} /\ s[1] = u /\ s[2] = p
    OBVIOUS
  <2> HIDE DEF s
  <2>2. \A i \in DOMAIN s : ~(s[i].op = "print" /\ s[i].m = BackMutex(c))
    BY <1>9, <2>1
  <2>3. Carried(s, "print", c) = <<>>
    BY <2>2, CarriedNone
  <2> QED
    BY <2>3 DEF s
<1>12. ASSUME NEW m \in Mutexes
       PROVE  /\ ~WillLeave(<<>>, m)
              /\ ~WillLeave(<<Do("pop", b)>>, m)
              /\ ~WillLeave(<<Do("asleep", b)>>, m)
              /\ WillLeave(<<Do("wait", b)>>, m) <=> m = b
              /\ \A l \in Seq(Nat) : WillLeave(<<Op("print", b, l)>>, m) <=> m = b
              /\ WillLeave(<<Do("unlock", b)>>, m) <=> m = b
  <2>1. ~WillLeave(<<>>, m)
    BY DEF WillLeave
  <2> HIDE DEF b
  <2>2. ~WillLeave(<<Do("pop", b)>>, m) /\ ~WillLeave(<<Do("asleep", b)>>, m)
    BY <1>3, <1>5, <1>6
  <2>3. WillLeave(<<Do("wait", b)>>, m) <=> m = b
    BY <1>3, <1>5, <1>6
  <2>4. WillLeave(<<Do("unlock", b)>>, m) <=> m = b
    BY <1>3, <1>5, <1>6
  <2>5. \A l \in Seq(Nat) : WillLeave(<<Op("print", b, l)>>, m) <=> m = b
    BY <1>4, <1>6
  <2> QED
    BY <2>1, <2>2, <2>3, <2>4, <2>5
<1>13. Carried(<<>>, "print", c) = <<>>
  BY CarriedNone
<1>14. /\ Carried(<<Do("pop", b)>>, "print", c) = <<>>
       /\ Carried(<<Do("wait", b)>>, "print", c) = <<>>
       /\ Carried(<<Do("asleep", b)>>, "print", c) = <<>>
       /\ Carried(<<Do("unlock", b)>>, "print", c) = <<>>
  BY <1>3, <1>5, <1>7
<1>15. \A l \in Seq(Nat) : Carried(<<Op("print", b, l)>>, "print", c) = l
  BY <1>4, <1>8
<1> QED
  BY <1>10, <1>11, <1>12, <1>13, <1>14, <1>15

(***************************************************************************)
(* Who moves                                                               *)
(***************************************************************************)

\* The threads with a part of their own are told apart from those that log.
LEMMA AgentFacts ==
  /\ \A u \in Users \ {"loop"} : u \notin {"loop", "handler", "rpc", "app"}
  /\ Agents = (Users \ {"loop"}) \cup {"loop", "handler", "rpc", "app"}
  /\ Channels = {"rpc", "app"}
BY LoggerAssumption DEF Agents, Threads, Channels

\* An agent that does not move keeps its list, unless it is a writer that is
\* woken.
Rests(b) ==
  \/ todo'[b] = todo[b]
  \/ /\ b \in Channels /\ todo[b] = <<Do("asleep", BackMutex(b))>>
     /\ todo'[b] = <<Do("pop", BackMutex(b))>>

\* What a step of agent a has to keep: t is what it has still to do.
LEMMA Moves ==
  ASSUME LoggerInv, NEW a \in Agents, NEW t \in Seq(Ops),
         todo' \in [Agents -> Seq(Ops)],
         todo'[a] = t, \A b \in Agents : b # a => Rests(b),
         Frees(t),
         a \in Users \ {"loop"} => LogsOnly(t),
         a \in {"loop", "handler"} => Syncs(t),
         a \in Channels => Writes(t, a),
         inside' \in [Mutexes -> SUBSET Agents],
         \A m \in Mutexes : \A b \in Agents : b # a => (b \in inside'[m] <=> b \in inside[m]),
         \A m \in Mutexes : a \in inside'[m] => WillLeave(t, m),
         a \in {"loop", "handler"} /\ Hands(t, "app") => a \in inside'[FrontMutex("app")]
  PROVE  Shapes' /\ AllLeave' /\ AppHeld'
<1>1. ASSUME NEW b \in Agents, b # a
      PROVE  /\ Frees(todo'[b])
             /\ b \notin Channels => todo'[b] = todo[b]
             /\ b \in Channels => Writes(todo'[b], b)
             /\ \A m \in Mutexes : b \in inside[m] => WillLeave(todo'[b], m)
  <2>1. Frees(todo[b]) /\ (b \in Channels => Writes(todo[b], b))
        /\ \A m \in Mutexes : b \in inside[m] => WillLeave(todo[b], m)
    BY DEF LoggerInv, Shapes, AllLeave
  <2>2. CASE todo'[b] = todo[b]
    BY <2>1, <2>2
  <2>3. CASE /\ b \in Channels /\ todo[b] = <<Do("asleep", BackMutex(b))>>
             /\ todo'[b] = <<Do("pop", BackMutex(b))>>
    <3>1. \A m \in Mutexes : ~WillLeave(todo[b], m)
      BY <2>3, WriterLists
    <3>2. Writes(todo'[b], b)
      BY <2>3 DEF Writes
    <3>3. Frees(todo'[b])
      BY <2>3, <3>2, WriterFacts
    <3> QED
      BY <2>1, <2>3, <3>1, <3>2, <3>3
  <2> QED
    BY <1>1, <2>2, <2>3 DEF Rests
<1>2. Shapes'
  <2>1. \A u \in Users \ {"loop"} : LogsOnly(todo'[u])
    <3> SUFFICES ASSUME NEW u \in Users \ {"loop"} PROVE LogsOnly(todo'[u])
      OBVIOUS
    <3>1. u \in Agents /\ u \notin Channels
      BY AgentFacts
    <3>2. LogsOnly(todo[u])
      BY DEF LoggerInv, Shapes
    <3> QED
      BY <1>1, <3>1, <3>2
  <2>2. \A b \in {"loop", "handler"} : Syncs(todo'[b])
    <3> SUFFICES ASSUME NEW b \in {"loop", "handler"} PROVE Syncs(todo'[b])
      OBVIOUS
    <3>1. b \in Agents /\ b \notin Channels
      BY AgentFacts
    <3>2. Syncs(todo[b])
      BY DEF LoggerInv, Shapes
    <3> QED
      BY <1>1, <3>1, <3>2
  <2>3. \A c \in Channels : Writes(todo'[c], c)
    <3>1. Channels \subseteq Agents
      BY AgentFacts
    <3> QED
      BY <1>1, <3>1
  <2>4. \A b \in Agents : Frees(todo'[b])
    BY <1>1
  <2> QED
    BY <2>1, <2>2, <2>3, <2>4, Zenon DEF Shapes
<1>3. AllLeave'
  <2> SUFFICES ASSUME NEW m \in Mutexes, NEW b \in inside'[m] PROVE WillLeave(todo'[b], m)
    BY Zenon DEF AllLeave
  <2>1. b \in Agents
    OBVIOUS
  <2> QED
    BY <1>1, <2>1
<1>4. AppHeld'
  <2> SUFFICES ASSUME NEW b \in {"loop", "handler"}, Hands(todo'[b], "app")
               PROVE  b \in inside'[FrontMutex("app")]
    BY Zenon DEF AppHeld
  <2>1. b \in Agents /\ b \notin Channels /\ FrontMutex("app") \in Mutexes
    BY AgentFacts, MutexFacts
  <2>2. CASE b = a
    BY <2>2
  <2>3. CASE b # a
    <3>1. todo'[b] = todo[b]
      BY <1>1, <2>1, <2>3
    <3>2. b \in inside[FrontMutex("app")]
      BY <3>1 DEF LoggerInv, AppHeld
    <3> QED
      BY <2>1, <2>3, <3>2
  <2> QED
    BY <2>2, <2>3
<1> QED
  BY <1>2, <1>3, <1>4

\* The constructor of a ScopeMutex, if nobody is in the section.
LEMMA EnterFacts ==
  ASSUME LoggerInv, NEW a \in Agents, NEW m \in Mutexes, Mutex(a) = m,
         Enter(a), ~raced'
  PROVE  /\ inside[m] = {} /\ locked' \subseteq Mutexes
         /\ inside' \in [Mutexes -> SUBSET Agents]
         /\ OneInside' /\ LockedInside'
         /\ inside'[m] = {a} /\ \A k \in Mutexes : k # m => inside'[k] = inside[k]
         /\ \A k \in Mutexes : \A b \in Agents : b # a => (b \in inside'[k] <=> b \in inside[k])
<1>1. inside \in [Mutexes -> SUBSET Agents] /\ locked \subseteq Mutexes
  BY DEF LoggerInv, Types
<1>2. raced' = (inside[m] # {}) /\ locked' = locked \cup {m}
      /\ inside' = [inside EXCEPT ![m] = @ \cup {a}]
  BY Zenon DEF Enter
<1>3. inside[m] = {}
  BY <1>2
<1>4. /\ inside' \in [Mutexes -> SUBSET Agents] /\ inside'[m] = {a}
      /\ \A k \in Mutexes : k # m => inside'[k] = inside[k]
  BY <1>1, <1>2, <1>3
<1>5. OneInside'
  BY <1>4 DEF LoggerInv, OneInside
<1>6. LockedInside'
  BY <1>1, <1>2, <1>4 DEF LoggerInv, LockedInside
<1>7. \A k \in Mutexes : \A b \in Agents : b # a => (b \in inside'[k] <=> b \in inside[k])
  BY <1>3, <1>4
<1> QED
  BY <1>1, <1>2, <1>3, <1>4, <1>5, <1>6, <1>7

\* unlock(), the destructor and pthread_cond_wait.
LEMMA LeaveFacts ==
  ASSUME LoggerInv, NEW a \in Agents, NEW m \in Mutexes, Mutex(a) = m, Leave(a)
  PROVE  /\ locked' \subseteq Mutexes
         /\ inside' \in [Mutexes -> SUBSET Agents]
         /\ OneInside' /\ LockedInside'
         /\ a \notin inside'[m] /\ \A k \in Mutexes : k # m => inside'[k] = inside[k]
         /\ \A k \in Mutexes : \A b \in Agents : b # a => (b \in inside'[k] <=> b \in inside[k])
<1>1. inside \in [Mutexes -> SUBSET Agents] /\ locked \subseteq Mutexes
  BY DEF LoggerInv, Types
<1>2. locked' = locked \ {m} /\ inside' = [inside EXCEPT ![m] = @ \ {a}]
  BY Zenon DEF Leave
<1>4. /\ inside' \in [Mutexes -> SUBSET Agents] /\ inside'[m] = inside[m] \ {a}
      /\ \A k \in Mutexes : k # m => inside'[k] = inside[k]
  BY <1>1, <1>2
<1>5. OneInside'
  BY <1>4 DEF LoggerInv, OneInside
<1>6. LockedInside'
  BY <1>1, <1>2, <1>4 DEF LoggerInv, LockedInside
<1>7. \A k \in Mutexes : \A b \in Agents : b # a => (b \in inside'[k] <=> b \in inside[k])
  BY <1>4
<1> QED
  BY <1>1, <1>2, <1>4, <1>5, <1>6, <1>7

\* A step that leaves the mutexes alone.
LEMMA LockSame ==
  ASSUME LoggerInv, UNCHANGED lockVars
  PROVE  /\ locked' \subseteq Mutexes /\ inside' = inside /\ raced' = raced
         /\ inside' \in [Mutexes -> SUBSET Agents]
         /\ OneInside' /\ LockedInside'
         /\ \A k \in Mutexes : \A b \in Agents : b \in inside'[k] <=> b \in inside[k]
BY DEF LoggerInv, lockVars, Types, OneInside, LockedInside

\* What a writer waits for, as long as it does not move and its queue is left
\* alone.
LEMMA WaitsSame ==
  ASSUME LoggerInv, NEW c \in Channels, todo'[c] = todo[c], queue'[c] = queue[c],
         c \in inside[BackMutex(c)] => c \in inside'[BackMutex(c)],
         type' = type, stop[c] => stop'[c], stop'[c] => victim' # None
  PROVE  WaitsAt(c)'
<1>1. WaitsAt(c)
  BY DEF LoggerInv
<1> QED
  BY <1>1, Zenon DEF WaitsAt

\* Without the asynchronous logger, when lists only get shorter.
LEMMA NoWritersSame ==
  ASSUME LoggerInv, type' = type, type = 0 => victim' = victim /\ queue' = queue
                                             /\ buffer'["rpc"] = buffer["rpc"],
         type = 0 => \A c \in Channels : todo'[c] = todo[c],
         type = 0 => \A a \in Users \cup {"loop"} : \A i \in DOMAIN todo'[a] :
           todo'[a][i].op \in {"put", "unlock"} /\ todo'[a][i].m = FrontMutex("app")
  PROVE  NoWriters'
<1>1. NoWriters
  BY DEF LoggerInv
<1> QED
  BY <1>1, Zenon DEF NoWriters

\* What a channel has from one moment to the next, in six places.
Carriers(c) ==
  <<Carried(todo[c], "print", c), Carried(todo["loop"], "push", c),
    Carried(todo["handler"], "push", c)>>

\* The step of an agent that is not a writer and that hands nothing on: it goes
\* on with the rest of its list, and moves no line between its carriers.
LEMMA TailInv ==
  ASSUME LoggerInv, NEW a \in Agents, a \notin Channels, todo[a] # <<>>,
         Head(todo[a]).op # "push",
         Go(a, <<>>),
         inside' \in [Mutexes -> SUBSET Agents], locked' \subseteq Mutexes,
         OneInside', LockedInside',
         \A m \in Mutexes : \A b \in Agents : b # a => (b \in inside'[m] <=> b \in inside[m]),
         \A m \in Mutexes : a \in inside'[m] => WillLeave(Tail(todo[a]), m),
         a \in {"loop", "handler"} /\ Hands(Tail(todo[a]), "app")
           => a \in inside'[FrontMutex("app")],
         UNCHANGED <<type, queue, printed, victim>>,
         count' \in [Channels -> Nat], buffer' \in [Channels -> Seq(Nat)],
         type = 0 => buffer'["rpc"] = buffer["rpc"],
         stop' \in [Channels -> BOOLEAN],
         \A c \in Channels : (stop[c] => stop'[c]) /\ (stop'[c] => victim # None)
  PROVE  LoggerInv' /\ \A c \in Channels : Carriers(c)' = Carriers(c)
<1> DEFINE s == todo[a]
           t == Tail(s)
<1>1. todo \in [Agents -> Seq(Ops)] /\ s \in Seq(Ops) /\ queue \in [Channels -> Seq(Seq(Nat))]
      /\ printed \in [Channels -> Seq(Nat)]
  BY DEF LoggerInv, Types
<1>2. t \in Seq(Ops) /\ <<>> \o t = t
  <2> HIDE DEF s
  <2> QED
    BY <1>1, TailFacts DEF s
<1>3. todo' = [todo EXCEPT ![a] = t]
  BY <1>2 DEF Go
<1>4. /\ todo' \in [Agents -> Seq(Ops)] /\ todo'[a] = t
      /\ \A b \in Agents : b # a => todo'[b] = todo[b]
  <2> HIDE DEF t
  <2> QED
    BY <1>1, <1>2, <1>3
<1>5. /\ Frees(s) /\ (a \in Users \ {"loop"} => LogsOnly(s))
      /\ (a \in {"loop", "handler"} => Syncs(s))
  BY DEF LoggerInv, Shapes
<1>6. /\ Frees(t) /\ (a \in Users \ {"loop"} => LogsOnly(t))
      /\ (a \in {"loop", "handler"} => Syncs(t))
  <2> HIDE DEF s
  <2> QED
    BY <1>1, <1>5, TailShapes DEF s
<1>7. Shapes' /\ AllLeave' /\ AppHeld'
  <2> HIDE DEF s, t
  <2>1. \A b \in Agents : b # a => Rests(b)
    BY <1>4, Zenon DEF Rests
  <2>2. (\A m \in Mutexes : a \in inside'[m] => WillLeave(t, m))
        /\ (a \in {"loop", "handler"} /\ Hands(t, "app") => a \in inside'[FrontMutex("app")])
    BY Zenon DEF s, t
  <2> QED
    BY <1>2, <1>4, <1>6, <2>1, <2>2, Moves
<1>8. \A c \in Channels : c \in Agents /\ c # a /\ todo'[c] = todo[c]
  BY <1>4, AgentFacts
<1>9. \A c \in Channels : WaitsAt(c)'
  <2> SUFFICES ASSUME NEW c \in Channels PROVE WaitsAt(c)'
    OBVIOUS
  <2>1. BackMutex(c) \in Mutexes
    BY MutexFacts
  <2>2. c \in inside[BackMutex(c)] => c \in inside'[BackMutex(c)]
    BY <1>8, <2>1
  <2>3. queue'[c] = queue[c] /\ type' = type /\ victim' = victim /\ todo'[c] = todo[c]
    BY <1>8
  <2>4. (stop[c] => stop'[c]) /\ (stop'[c] => victim' # None)
    BY <2>3
  <2> QED
    BY <2>2, <2>3, <2>4, WaitsSame
<1>10. NoWriters'
  <2>1. ASSUME type = 0, NEW b \in Users \cup {"loop"}, NEW i \in DOMAIN todo'[b]
        PROVE  todo'[b][i].op \in {"put", "unlock"} /\ todo'[b][i].m = FrontMutex("app")
    <3>1. b \in Agents
      BY AgentFacts
    <3>2. \A j \in DOMAIN todo[b] : todo[b][j].op \in {"put", "unlock"}
                                    /\ todo[b][j].m = FrontMutex("app")
      BY <2>1 DEF LoggerInv, NoWriters
    <3>3. CASE b # a
      BY <1>4, <2>1, <3>1, <3>2, <3>3
    <3>4. CASE b = a
      <4>1. i \in DOMAIN t
        BY <1>4, <2>1, <3>4
      <4>2. i + 1 \in DOMAIN s /\ t[i] = s[i + 1]
        <5> HIDE DEF s
        <5> QED
          BY <1>1, <4>1, TailFacts DEF s
      <4> QED
        BY <1>4, <3>2, <3>4, <4>2
    <3> QED
      BY <3>3, <3>4
  <2>2. type' = type /\ victim' = victim /\ queue' = queue
    OBVIOUS
  <2> QED
    BY <1>8, <2>1, <2>2, NoWritersSame
<1>11. Types'
  BY <1>1, <1>4, Zenon DEF Types
<1>12. /\ type' \in {0, 1} /\ (victim' # None => type' = 1)
       /\ (victim' = None => todo'["handler"] = <<>>)
  <2>1. type \in {0, 1} /\ (victim # None => type = 1)
        /\ (victim = None => todo["handler"] = <<>>)
    BY DEF LoggerInv
  <2>2. a = "handler" => victim # None
    BY <2>1
  <2>3. a # "handler" => todo'["handler"] = todo["handler"]
    BY <1>4, AgentFacts
  <2> QED
    BY <2>1, <2>2, <2>3
<1>13. LoggerInv'
  BY <1>7, <1>9, <1>10, <1>11, <1>12, Zenon DEF LoggerInv
<1>14. ASSUME NEW c \in Channels, NEW b \in {"loop", "handler"}
       PROVE  Carried(todo'[b], "push", c) = Carried(todo[b], "push", c)
  <2>1. b \in Agents
    BY AgentFacts
  <2>2. CASE b # a
    BY <1>4, <2>1, <2>2
  <2>3. CASE b = a
    <3>1. Carried(t, "push", c) = Carried(s, "push", c)
      <4>1. Syncs(s) /\ Head(s).op # "push" /\ s # <<>>
        BY <1>5, <2>3
      <4> HIDE DEF s
      <4> QED
        BY <1>1, <4>1, TailCarried
    <3> QED
      BY <1>4, <2>3, <3>1
  <2> QED
    BY <2>2, <2>3
<1>15. \A c \in Channels : Carriers(c)' = Carriers(c)
  BY <1>8, <1>14, Zenon DEF Carriers
<1> QED
  BY <1>13, <1>15

(***************************************************************************)
(* The trail of a channel                                                  *)
(***************************************************************************)

\* The six places.
LEMMA TrailIsSix ==
  ASSUME NEW c
  PROVE  /\ Trail(c) = Six(printed[c], Carried(todo[c], "print", c), FlattenSeq(queue[c]),
                           Carried(todo["loop"], "push", c),
                           Carried(todo["handler"], "push", c), buffer[c])
         /\ Trail(c)' = Six(printed'[c], Carried(todo'[c], "print", c), FlattenSeq(queue'[c]),
                           Carried(todo'["loop"], "push", c),
                           Carried(todo'["handler"], "push", c), buffer'[c])
BY Zenon DEF Trail, Six

\* Each of them holds lines.
LEMMA TrailTypes ==
  ASSUME LoggerInv, NEW c \in Channels
  PROVE  /\ printed[c] \in Seq(Nat) /\ Carried(todo[c], "print", c) \in Seq(Nat)
         /\ FlattenSeq(queue[c]) \in Seq(Nat)
         /\ Carried(todo["loop"], "push", c) \in Seq(Nat)
         /\ Carried(todo["handler"], "push", c) \in Seq(Nat)
         /\ buffer[c] \in Seq(Nat) /\ Trail(c) \in Seq(Nat) /\ count[c] \in Nat
<1>1. /\ printed[c] \in Seq(Nat) /\ queue[c] \in Seq(Seq(Nat)) /\ buffer[c] \in Seq(Nat)
      /\ count[c] \in Nat
      /\ todo \in [Agents -> Seq(Ops)]
  BY DEF LoggerInv, Types
<1>2. FlattenSeq(queue[c]) \in Seq(Nat)
  BY <1>1, FlattenType
<1>3. \A b \in {"loop", "handler"} : Carried(todo[b], "push", c) \in Seq(Nat)
  <2> SUFFICES ASSUME NEW b \in {"loop", "handler"}
               PROVE  Carried(todo[b], "push", c) \in Seq(Nat)
    OBVIOUS
  <2>1. todo[b] \in Seq(Ops) /\ Syncs(todo[b])
    BY <1>1, AgentFacts DEF LoggerInv, Shapes
  <2> QED
    BY <2>1, CarriedType
<1>4. Carried(todo[c], "print", c) \in Seq(Nat)
  <2>1. Writes(todo[c], c) /\ <<>> \in Seq(Nat)
    BY EmptySeq DEF LoggerInv, Shapes
  <2>2. CASE \E l \in Seq(Nat) : todo[c] = <<Op("print", BackMutex(c), l)>>
    BY <2>2, WriterLists
  <2>3. CASE ~ \E l \in Seq(Nat) : todo[c] = <<Op("print", BackMutex(c), l)>>
    BY <2>1, <2>3, WriterLists DEF Writes
  <2> QED
    BY <2>2, <2>3
<1>5. Trail(c) \in Seq(Nat)
  <2> DEFINE p == printed[c]
             k == Carried(todo[c], "print", c)
             q == FlattenSeq(queue[c])
             l == Carried(todo["loop"], "push", c)
             h == Carried(todo["handler"], "push", c)
             b == buffer[c]
  <2>1. Trail(c) = Six(p, k, q, l, h, b)
    BY TrailIsSix
  <2>2. /\ p \in Seq(Nat) /\ k \in Seq(Nat) /\ q \in Seq(Nat)
        /\ l \in Seq(Nat) /\ h \in Seq(Nat) /\ b \in Seq(Nat)
    BY <1>1, <1>2, <1>3, <1>4
  <2> HIDE DEF p, k, q, l, h, b
  <2> QED
    BY <2>1, <2>2, SixLines DEF SixHolds
<1> QED
  BY <1>1, <1>2, <1>3, <1>4, <1>5

\* A trail that is in order is complete.
LEMMA ExactComplete ==
  ASSUME LoggerInv, NEW c \in Channels, Exact(c)
  PROVE  Complete(c)
<1>1. count[c] \in Nat
  BY TrailTypes
<1> QED
  BY <1>1, OneToN DEF Exact, Complete

\* The trail is left as it is.
LEMMA TrailKept ==
  ASSUME NEW c \in Channels, OrderedAt(c), Trail(c)' = Trail(c), count'[c] = count[c],
         victim # None => victim' # None
  PROVE  OrderedAt(c)'
<1>1. CASE Exact(c)
  BY <1>1, Zenon DEF Exact, OrderedAt
<1>2. CASE c = "rpc" /\ victim # None /\ Complete(c)
  BY <1>2, Zenon DEF Complete, OrderedAt
<1> QED
  BY <1>1, <1>2 DEF OrderedAt

\* A line comes to the end of the trail.
LEMMA TrailGrows ==
  ASSUME LoggerInv, NEW c \in Channels, OrderedAt(c),
         Trail(c)' = Append(Trail(c), count[c] + 1), count'[c] = count[c] + 1,
         victim # None => victim' # None
  PROVE  OrderedAt(c)'
<1>1. count[c] \in Nat /\ Trail(c) \in Seq(Nat)
  BY TrailTypes
<1>2. CASE Exact(c)
  <2>1. Append(Trail(c), count[c] + 1) = [n \in 1..(count[c] + 1) |-> n]
    BY <1>1, <1>2, OneToN DEF Exact
  <2>2. Exact(c)'
    BY <2>1, Zenon DEF Exact
  <2> QED
    BY <2>2 DEF OrderedAt
<1>3. CASE c = "rpc" /\ victim # None /\ Complete(c)
  <2>1. Len(Trail(c)) = count[c] /\ ToSet(Trail(c)) = 1..count[c]
    BY <1>3 DEF Complete
  <2>2. /\ Len(Append(Trail(c), count[c] + 1)) = count[c] + 1
        /\ ToSet(Append(Trail(c), count[c] + 1)) = 1..(count[c] + 1)
    BY <1>1, <2>1, AppendLines
  <2>3. Complete(c)'
    BY <2>2, Zenon DEF Complete
  <2> QED
    BY <1>3, <2>3 DEF OrderedAt
<1> QED
  BY <1>2, <1>3 DEF OrderedAt

\* Nothing moves on channel c.
LEMMA TrailSame ==
  ASSUME NEW c, printed'[c] = printed[c], queue'[c] = queue[c], buffer'[c] = buffer[c],
         Carriers(c)' = Carriers(c)
  PROVE  Trail(c)' = Trail(c)
<1>1. /\ Carried(todo'[c], "print", c) = Carried(todo[c], "print", c)
      /\ Carried(todo'["loop"], "push", c) = Carried(todo["loop"], "push", c)
      /\ Carried(todo'["handler"], "push", c) = Carried(todo["handler"], "push", c)
  BY DEF Carriers
<1> QED
  BY <1>1, TrailIsSix

(***************************************************************************)
(* The steps                                                               *)
(***************************************************************************)

\* The head of a list that is not empty.
LEMMA HeadFacts ==
  ASSUME LoggerInv, NEW a \in Agents, todo[a] # <<>>
  PROVE  /\ todo[a] \in Seq(Ops) /\ Head(todo[a]) \in Ops /\ Mutex(a) \in Mutexes
         /\ Mutex(a) = Head(todo[a]).m
<1>1. todo[a] \in Seq(Ops)
  BY DEF LoggerInv, Types
<1>2. Head(todo[a]) \in Ops
  BY <1>1, TailFacts
<1> QED
  BY <1>1, <1>2 DEF Mutex, Ops

\* unlock() or the destructor, by one that is not a writer.
LEMMA UnlockGood ==
  ASSUME Good, NEW a \in Agents, a \notin Channels, Unlock(a)
  PROVE  Good'
<1> DEFINE s == todo[a]
           m == Mutex(a)
<1>1. LoggerInv /\ \A c \in Channels : OrderedAt(c)
  BY DEF Good
<1>2. /\ s # <<>> /\ Head(s).op = "unlock" /\ Leave(a) /\ Go(a, <<>>)
      /\ UNCHANGED <<type, dataVars, calls, stop, victim, dead>>
  BY DEF Unlock, At
<1>3. s \in Seq(Ops) /\ m \in Mutexes /\ m = Head(s).m
  BY <1>1, <1>2, HeadFacts
<1>4. /\ locked' \subseteq Mutexes /\ inside' \in [Mutexes -> SUBSET Agents]
      /\ OneInside' /\ LockedInside'
      /\ a \notin inside'[m] /\ \A k \in Mutexes : k # m => inside'[k] = inside[k]
      /\ \A k \in Mutexes : \A b \in Agents : b # a => (b \in inside'[k] <=> b \in inside[k])
  BY <1>1, <1>2, <1>3, LeaveFacts
<1>5. \A k \in Mutexes : a \in inside'[k] => WillLeave(Tail(s), k)
  <2> SUFFICES ASSUME NEW k \in Mutexes, a \in inside'[k] PROVE WillLeave(Tail(s), k)
    OBVIOUS
  <2>1. k # m /\ a \in inside[k]
    BY <1>4
  <2>2. WillLeave(s, k)
    BY <1>1, <2>1 DEF LoggerInv, AllLeave
  <2> HIDE DEF s, m
  <2> QED
    BY <1>2, <1>3, <2>1, <2>2, TailShapes
<1>6. a \in {"loop", "handler"} /\ Hands(Tail(s), "app") => a \in inside'[FrontMutex("app")]
  <2> SUFFICES ASSUME a \in {"loop", "handler"}, Hands(Tail(s), "app")
               PROVE  a \in inside'[FrontMutex("app")]
    OBVIOUS
  <2>1. "app" \in Channels /\ FrontMutex("app") \in Mutexes /\ FrontMutex("app") # FrontMutex("rpc")
    BY MutexFacts
  <2>2. Syncs(s)
    BY <1>1 DEF LoggerInv, Shapes
  <2>3. Hands(s, "app")
    <3> HIDE DEF s, m
    <3> QED
      BY <1>2, <1>3, <2>1, TailShapes
  <2>4. a \in inside[FrontMutex("app")]
    BY <1>1, <2>3 DEF LoggerInv, AppHeld
  <2>5. Head(s) = s[1]
    <3> HIDE DEF s
    <3> QED
      BY <1>2, <1>3, TailFacts
  <2>6. m = FrontMutex("rpc")
    <3>1. PICK i \in DOMAIN s : s[i].op = "push"
      BY <2>3 DEF Hands
    <3>2. i = 1 \/ s[1].m = FrontMutex("rpc")
      BY <2>2, <3>1 DEF Syncs
    <3>3. i # 1
      BY <1>2, <2>5, <3>1
    <3> QED
      BY <1>3, <2>5, <3>2, <3>3
  <2> QED
    BY <1>4, <2>1, <2>4, <2>6
<1>7. /\ UNCHANGED <<type, queue, printed, victim>> /\ UNCHANGED <<count, buffer, stop>>
  BY <1>2 DEF dataVars
<1>8. /\ count' \in [Channels -> Nat] /\ buffer' \in [Channels -> Seq(Nat)]
      /\ stop' \in [Channels -> BOOLEAN]
  BY <1>1, <1>7 DEF LoggerInv, Types
<1>9. \A c \in Channels : (stop[c] => stop'[c]) /\ (stop'[c] => victim # None)
  BY <1>1, <1>7 DEF LoggerInv, WaitsAt
<1>10. LoggerInv' /\ \A c \in Channels : Carriers(c)' = Carriers(c)
  <2>1. type = 0 => buffer'["rpc"] = buffer["rpc"]
    BY <1>7
  <2>2. todo[a] # <<>> /\ Head(todo[a]).op # "push"
    BY <1>2
  <2>3. /\ \A k \in Mutexes : a \in inside'[k] => WillLeave(Tail(todo[a]), k)
        /\ (a \in {"loop", "handler"} /\ Hands(Tail(todo[a]), "app")
             => a \in inside'[FrontMutex("app")])
    BY <1>5, <1>6
  <2> HIDE DEF s, m
  <2> QED
    BY <1>1, <1>2, <1>4, <1>7, <1>8, <1>9, <2>1, <2>2, <2>3, TailInv
<1>11. \A c \in Channels : OrderedAt(c)'
  <2> SUFFICES ASSUME NEW c \in Channels PROVE OrderedAt(c)'
    OBVIOUS
  <2>1. Trail(c)' = Trail(c)
    BY <1>7, <1>10, TrailSame
  <2> QED
    BY <1>1, <1>7, <2>1, TrailKept
<1> QED
  BY <1>10, <1>11, Zenon DEF Good

\* One that is not a writer puts only on a front mutex.
LEMMA PutMutex ==
  ASSUME LoggerInv, NEW a \in Agents, a \notin Channels, todo[a] # <<>>,
         Head(todo[a]).op \in {"put", "swap"}
  PROVE  Mutex(a) \in Fronts /\ Channel(a) \in Channels /\ Mutex(a) = FrontMutex(Channel(a))
<1> DEFINE s == todo[a]
<1>1. s \in Seq(Ops) /\ Mutex(a) = Head(s).m
  BY HeadFacts
<1>2. Head(s) = s[1] /\ 1 \in DOMAIN s
  <2> HIDE DEF s
  <2> QED
    BY <1>1, TailFacts DEF s
<1>3. CASE a \in {"loop", "handler"}
  <2>1. Syncs(s)
    BY <1>3 DEF LoggerInv, Shapes
  <2>2. s[1].m \in Fronts
    BY <1>2, <2>1 DEF Syncs
  <2> QED
    BY <1>1, <1>2, <2>2, MutexFacts DEF Channel
<1>4. CASE a \in Users \ {"loop"}
  <2>1. LogsOnly(s)
    BY <1>4 DEF LoggerInv, Shapes
  <2>2. s[1].m \in Fronts
    BY <1>2, <2>1 DEF LogsOnly
  <2> QED
    BY <1>1, <1>2, <2>2, MutexFacts DEF Channel
<1> QED
  BY <1>3, <1>4, AgentFacts

\* pushLog and pushAppLog, in their section.
LEMMA PutGood ==
  ASSUME Good, NEW a \in Agents, a \notin Channels, Put(a), ~raced'
  PROVE  Good'
<1> DEFINE s == todo[a]
           m == Mutex(a)
           d == Channel(a)
<1>1. LoggerInv /\ \A c \in Channels : OrderedAt(c)
  BY DEF Good
<1>2. /\ s # <<>> /\ Head(s).op = "put" /\ Enter(a) /\ Go(a, <<>>)
      /\ count' = [count EXCEPT ![d] = @ + 1]
      /\ buffer' = [buffer EXCEPT ![d] = Append(@, count[d] + 1)]
      /\ UNCHANGED <<type, calls, queue, stop, printed, victim, dead>>
  BY DEF Put, At
<1>3. s \in Seq(Ops) /\ m \in Mutexes /\ m = Head(s).m
  BY <1>1, <1>2, HeadFacts
<1>4. m = FrontMutex(d) /\ d \in Channels
  BY <1>1, <1>2, PutMutex
<1>5. /\ locked' \subseteq Mutexes /\ inside' \in [Mutexes -> SUBSET Agents]
      /\ OneInside' /\ LockedInside'
      /\ inside'[m] = {a} /\ \A k \in Mutexes : k # m => inside'[k] = inside[k]
      /\ \A k \in Mutexes : \A b \in Agents : b # a => (b \in inside'[k] <=> b \in inside[k])
  BY <1>1, <1>2, <1>3, EnterFacts
<1>6. \A k \in Mutexes : a \in inside'[k] => WillLeave(Tail(s), k)
  <2> SUFFICES ASSUME NEW k \in Mutexes, a \in inside'[k] PROVE WillLeave(Tail(s), k)
    OBVIOUS
  <2>1. Frees(s)
    BY <1>1 DEF LoggerInv, Shapes
  <2>2. CASE k = m
    <3> HIDE DEF s, m
    <3> QED
      BY <1>2, <1>3, <2>1, <2>2, FreesLater
  <2>3. CASE k # m
    <3>1. a \in inside[k]
      BY <1>5, <2>3
    <3>2. WillLeave(s, k)
      BY <1>1, <3>1 DEF LoggerInv, AllLeave
    <3> HIDE DEF s, m
    <3> QED
      BY <1>2, <1>3, <3>2, TailShapes
  <2> QED
    BY <2>2, <2>3
<1>7. a \in {"loop", "handler"} /\ Hands(Tail(s), "app") => a \in inside'[FrontMutex("app")]
  <2> SUFFICES ASSUME a \in {"loop", "handler"}, Hands(Tail(s), "app")
               PROVE  a \in inside'[FrontMutex("app")]
    OBVIOUS
  <2>1. "app" \in Channels /\ FrontMutex("app") \in Mutexes
    BY MutexFacts
  <2>2. Hands(s, "app")
    <3> HIDE DEF s, m
    <3> QED
      BY <1>2, <1>3, <2>1, TailShapes
  <2>3. a \in inside[FrontMutex("app")]
    BY <1>1, <2>2 DEF LoggerInv, AppHeld
  <2> QED
    BY <1>5, <2>1, <2>3
<1> HIDE DEF d
<1>8. count \in [Channels -> Nat] /\ buffer \in [Channels -> Seq(Nat)]
      /\ stop \in [Channels -> BOOLEAN]
  BY <1>1 DEF LoggerInv, Types
<1>9. /\ count' \in [Channels -> Nat] /\ buffer' \in [Channels -> Seq(Nat)]
      /\ stop' \in [Channels -> BOOLEAN]
      /\ count'[d] = count[d] + 1 /\ buffer'[d] = Append(buffer[d], count[d] + 1)
      /\ \A c \in Channels : c # d => count'[c] = count[c] /\ buffer'[c] = buffer[c]
  <2>1. Append(buffer[d], count[d] + 1) \in Seq(Nat)
    BY <1>4, <1>8, AppendProperties
  <2> QED
    BY <1>2, <1>4, <1>8, <2>1
<1>10. \A c \in Channels : (stop[c] => stop'[c]) /\ (stop'[c] => victim # None)
  BY <1>1, <1>2 DEF LoggerInv, WaitsAt
<1>11. type = 0 => buffer'["rpc"] = buffer["rpc"]
  <2> SUFFICES ASSUME type = 0 PROVE buffer'["rpc"] = buffer["rpc"]
    OBVIOUS
  <2>1. a # "handler"
    BY <1>1, <1>2 DEF LoggerInv, NoWriters
  <2>2. a \in Users \cup {"loop"}
    BY <2>1, AgentFacts
  <2>3. Head(s) = s[1] /\ 1 \in DOMAIN s
    <3> HIDE DEF s
    <3> QED
      BY <1>2, <1>3, TailFacts
  <2>4. s[1].m = FrontMutex("app")
    BY <1>1, <2>2, <2>3 DEF LoggerInv, NoWriters
  <2>5. d # "rpc" /\ "rpc" \in Channels
    BY <1>3, <1>4, <2>3, <2>4, MutexFacts
  <2> QED
    BY <1>9, <2>5
<1>12. LoggerInv' /\ \A c \in Channels : Carriers(c)' = Carriers(c)
  <2>2. todo[a] # <<>> /\ Head(todo[a]).op # "push"
    BY <1>2
  <2>3. /\ \A k \in Mutexes : a \in inside'[k] => WillLeave(Tail(todo[a]), k)
        /\ (a \in {"loop", "handler"} /\ Hands(Tail(todo[a]), "app")
             => a \in inside'[FrontMutex("app")])
    BY <1>6, <1>7
  <2> HIDE DEF s, m
  <2>4. UNCHANGED <<type, queue, printed, victim>>
    BY <1>2
  <2> QED
    BY <1>1, <1>2, <1>5, <1>9, <1>10, <1>11, <2>2, <2>3, <2>4, TailInv
<1>13. \A c \in Channels : OrderedAt(c)'
  <2> SUFFICES ASSUME NEW c \in Channels PROVE OrderedAt(c)'
    OBVIOUS
  <2>1. CASE c # d
    <3>1. Trail(c)' = Trail(c)
      BY <1>2, <1>9, <1>12, <2>1, TrailSame
    <3> QED
      BY <1>1, <1>2, <1>9, <2>1, <3>1, TrailKept
  <2>2. CASE c = d
    <3> DEFINE p == printed[c]
               k == Carried(todo[c], "print", c)
               q == FlattenSeq(queue[c])
               l == Carried(todo["loop"], "push", c)
               h == Carried(todo["handler"], "push", c)
               b == buffer[c]
               n == count[c] + 1
    <3>1. Trail(c) = Six(p, k, q, l, h, b)
      BY TrailIsSix
    <3>2. /\ p \in Seq(Nat) /\ k \in Seq(Nat) /\ q \in Seq(Nat)
          /\ l \in Seq(Nat) /\ h \in Seq(Nat) /\ b \in Seq(Nat) /\ n \in Nat
      BY <1>1, TrailTypes
    <3>3. /\ Carried(todo'[c], "print", c) = k
          /\ Carried(todo'["loop"], "push", c) = l
          /\ Carried(todo'["handler"], "push", c) = h
      BY <1>12 DEF Carriers
    <3>4. printed'[c] = p /\ FlattenSeq(queue'[c]) = q /\ buffer'[c] = Append(b, n)
      BY <1>2, <1>9, <2>2
    <3>5. Trail(c)' = Six(p, k, q, l, h, Append(b, n))
      BY <3>3, <3>4, TrailIsSix
    <3>6. Six(p, k, q, l, h, Append(b, n)) = Append(Six(p, k, q, l, h, b), n)
      <4> HIDE DEF p, k, q, l, h, b, n
      <4> DEFINE e == <<n>>
                 f == Five(p, k, q, l, h)
                 t == f \o b
      <4>1. e \in Seq(Nat) /\ Append(b, n) = b \o e
        BY <3>2, AppendIsConcat
      <4>2. /\ f \in Seq(Nat)
            /\ Six(p, k, q, l, h, b) = f \o b
            /\ Six(p, k, q, l, h, Append(b, n)) = f \o Append(b, n)
        <5>1. f \in Seq(Nat)
          BY <3>2, FiveLines
        <5>2. Six(p, k, q, l, h, b) = f \o b
          BY Zenon DEF Six, Five
        <5>3. Six(p, k, q, l, h, Append(b, n)) = f \o Append(b, n)
          BY Zenon DEF Six, Five
        <5> QED
          BY <5>1, <5>2, <5>3
      <4> HIDE DEF f
      <4>3. t \in Seq(Nat)
        BY <3>2, <4>2, Cat
      <4>4. Append(t, n) = t \o e
        <5> HIDE DEF t
        <5> QED
          BY <3>2, <4>3, AppendIsConcat
      <4> HIDE DEF e
      <4>5. f \o (b \o e) = (f \o b) \o e
        BY <3>2, <4>1, <4>2, Assoc
      <4> QED
        BY <4>1, <4>2, <4>4, <4>5
    <3>7. Trail(c)' = Append(Trail(c), count[c] + 1)
      BY <3>1, <3>5, <3>6
    <3> QED
      BY <1>1, <1>2, <1>9, <2>2, <3>7, TrailGrows
  <2> QED
    BY <2>1, <2>2
<1> QED
  BY <1>12, <1>13, Zenon DEF Good

\* The handler tells a writer to stop, joins it or raises the signal again: it
\* touches neither a mutex nor a line.
LEMMA HandlerGood ==
  ASSUME Good, todo["handler"] # <<>>,
         Head(todo["handler"]).op \in {"stop", "join", "raise"},
         Go("handler", <<>>),
         UNCHANGED <<type, lockVars, dataVars, victim>>,
         stop' \in [Channels -> BOOLEAN],
         \A c \in Channels : stop[c] => stop'[c]
  PROVE  Good'
<1> DEFINE s == todo["handler"]
<1>0. "handler" \in Agents /\ "handler" \notin Channels
  BY AgentFacts
<1>1. LoggerInv /\ \A c \in Channels : OrderedAt(c)
  BY DEF Good
<1>2. s \in Seq(Ops)
  BY <1>0, <1>1, HeadFacts
<1>3. /\ locked' \subseteq Mutexes /\ inside' = inside
      /\ inside' \in [Mutexes -> SUBSET Agents]
      /\ OneInside' /\ LockedInside'
      /\ \A k \in Mutexes : \A b \in Agents : b # "handler" => (b \in inside'[k] <=> b \in inside[k])
  BY <1>1, LockSame
<1>4. \A k \in Mutexes : "handler" \in inside'[k] => WillLeave(Tail(s), k)
  <2> SUFFICES ASSUME NEW k \in Mutexes, "handler" \in inside[k] PROVE WillLeave(Tail(s), k)
    BY <1>3
  <2>1. WillLeave(s, k)
    BY <1>1 DEF LoggerInv, AllLeave
  <2>2. s # <<>> /\ Head(s).op \in {"stop", "join", "raise"}
    OBVIOUS
  <2> HIDE DEF s
  <2> QED
    BY <1>2, <2>1, <2>2, TailShapes
<1>5. Hands(Tail(s), "app") => "handler" \in inside'[FrontMutex("app")]
  <2> SUFFICES ASSUME Hands(Tail(s), "app") PROVE "handler" \in inside[FrontMutex("app")]
    BY <1>3
  <2>1. "app" \in Channels
    BY MutexFacts
  <2>2. Hands(s, "app")
    <3> HIDE DEF s
    <3> QED
      BY <1>2, <2>1, TailShapes DEF s
  <2> QED
    BY <1>1, <2>2 DEF LoggerInv, AppHeld
<1>6. victim # None
  BY <1>1 DEF LoggerInv
<1>7. UNCHANGED <<type, queue, printed, victim>> /\ UNCHANGED <<count, buffer>>
  BY DEF dataVars
<1>8. count' \in [Channels -> Nat] /\ buffer' \in [Channels -> Seq(Nat)]
  BY <1>1, <1>7 DEF LoggerInv, Types
<1>9. LoggerInv' /\ \A c \in Channels : Carriers(c)' = Carriers(c)
  <2>1. type = 0 => buffer'["rpc"] = buffer["rpc"]
    BY <1>7
  <2>2. todo["handler"] # <<>> /\ Head(todo["handler"]).op # "push"
    OBVIOUS
  <2>3. /\ \A k \in Mutexes : "handler" \in inside'[k] => WillLeave(Tail(todo["handler"]), k)
        /\ ("handler" \in {"loop", "handler"} /\ Hands(Tail(todo["handler"]), "app")
             => "handler" \in inside'[FrontMutex("app")])
    BY <1>4, <1>5
  <2>4. \A c \in Channels : (stop[c] => stop'[c]) /\ (stop'[c] => victim # None)
    BY <1>6
  <2> HIDE DEF s
  <2> QED
    BY <1>0, <1>1, <1>3, <1>7, <1>8, <2>1, <2>2, <2>3, <2>4, TailInv
<1>10. \A c \in Channels : OrderedAt(c)'
  <2> SUFFICES ASSUME NEW c \in Channels PROVE OrderedAt(c)'
    OBVIOUS
  <2>1. Trail(c)' = Trail(c)
    BY <1>7, <1>9, TrailSame
  <2> QED
    BY <1>1, <1>7, <2>1, TrailKept
<1> QED
  BY <1>9, <1>10, Zenon DEF Good

\* The lines of the trail are the same, in whatever order.
LEMMA TrailMixed ==
  ASSUME LoggerInv, OrderedAt("rpc"), Len(Trail("rpc")') = Len(Trail("rpc")),
         ToSet(Trail("rpc")') = ToSet(Trail("rpc")),
         count'["rpc"] = count["rpc"], victim # None, victim' = victim
  PROVE  OrderedAt("rpc")'
<1>1. Complete("rpc")
  BY ExactComplete, MutexFacts DEF OrderedAt
<1>2. Len(Trail("rpc")) = count["rpc"] /\ ToSet(Trail("rpc")) = 1..count["rpc"]
  BY <1>1 DEF Complete
<1>3. /\ Len(Trail("rpc")') = count'["rpc"] /\ ToSet(Trail("rpc")') = 1..(count'["rpc"])
  BY <1>2
<1>4. Complete("rpc")'
  BY <1>3, Zenon DEF Complete
<1> QED
  BY <1>4 DEF OrderedAt

\* Only the timer and the handler swap and push.
LEMMA OnlySyncs ==
  ASSUME LoggerInv, NEW a \in Agents, a \notin Channels, todo[a] # <<>>,
         Head(todo[a]).op \in {"swap", "push"}
  PROVE  a \in {"loop", "handler"} /\ type = 1 /\ (a = "handler" => victim # None)
<1> DEFINE s == todo[a]
<1>1. s \in Seq(Ops)
  BY HeadFacts
<1>2. Head(s) = s[1] /\ 1 \in DOMAIN s
  <2> HIDE DEF s
  <2> QED
    BY <1>1, TailFacts DEF s
<1>3. a \notin Users \ {"loop"}
  BY <1>2 DEF LoggerInv, Shapes, LogsOnly
<1>4. a \in {"loop", "handler"}
  BY <1>3, AgentFacts
<1>5. type \in {0, 1} /\ (victim = None => todo["handler"] = <<>>)
  BY DEF LoggerInv
<1>6. type # 0
  <2> SUFFICES ASSUME type = 0 PROVE FALSE
    OBVIOUS
  <2>1. victim = None /\ (a = "loop" => s[1].op \in {"put", "unlock"})
    BY <1>2 DEF LoggerInv, NoWriters
  <2> QED
    BY <1>2, <1>4, <1>5, <2>1
<1> QED
  BY <1>4, <1>5, <1>6

\* syncLoop takes a buffer.  On the app channel nobody else can have lines to
\* hand on; on the rpc channel the handler may, and it overtakes the timer.
LEMMA SwapGood ==
  ASSUME Good, NEW a \in Agents, a \notin Channels, Swap(a), ~raced'
  PROVE  Good'
<1> DEFINE s == todo[a]
           m == Mutex(a)
<1>1. LoggerInv /\ \A c \in Channels : OrderedAt(c)
  BY DEF Good
<1>0. PICK d \in Channels : d = Channel(a) /\ m = FrontMutex(d)
  <2>1. s # <<>> /\ Head(s).op = "swap"
    BY DEF Swap, At
  <2> QED
    BY <1>1, <2>1, PutMutex
<1> DEFINE z == AfterSwap(d, buffer[d]) \o Tail(s)
<1>2. /\ s # <<>> /\ Head(s).op = "swap" /\ Enter(a)
      /\ Go(a, AfterSwap(d, buffer[d]))
      /\ buffer' = [buffer EXCEPT ![d] = <<>>]
      /\ UNCHANGED <<type, count, calls, queue, stop, printed, victim, dead>>
  BY <1>0 DEF Swap, At
<1>3. s \in Seq(Ops) /\ m \in Mutexes /\ m = Head(s).m
  BY <1>1, <1>2, HeadFacts
<1>4. m = FrontMutex(d) /\ d \in Channels
  BY <1>0
<1>5. a \in {"loop", "handler"} /\ type = 1 /\ (a = "handler" => victim # None)
  BY <1>1, <1>2, OnlySyncs
<1>6. Syncs(s) /\ Frees(s)
  BY <1>1, <1>5 DEF LoggerInv, Shapes
<1> HIDE DEF s
<1>7. Quiet(s) /\ Quiet(Tail(s)) /\ Frees(Tail(s)) /\ Tail(s) \in Seq(Ops)
  BY <1>2, <1>3, <1>6, SwapQuiet, TailShapes, TailFacts
<1> HIDE DEF m
<1>8. /\ locked' \subseteq Mutexes /\ inside' \in [Mutexes -> SUBSET Agents]
      /\ OneInside' /\ LockedInside' /\ inside[m] = {}
      /\ inside'[m] = {a} /\ \A k \in Mutexes : k # m => inside'[k] = inside[k]
      /\ \A k \in Mutexes : \A b \in Agents : b # a => (b \in inside'[k] <=> b \in inside[k])
  BY <1>1, <1>2, <1>3, EnterFacts DEF m
<1> HIDE DEF z
<1>9. buffer \in [Channels -> Seq(Nat)] /\ buffer[d] \in Seq(Nat) /\ todo \in [Agents -> Seq(Ops)]
  BY <1>1, <1>4 DEF LoggerInv, Types
<1>10. /\ z \in Seq(Ops) /\ Syncs(z) /\ Frees(z)
       /\ Carried(z, "push", d) = buffer[d]
       /\ \A c \in Channels : c # d => ~Hands(z, c)
       /\ \A k \in Mutexes : WillLeave(Tail(s), k) => WillLeave(z, k)
  <2> DEFINE l == buffer[d]
             t == Tail(s)
  <2>1. z = AfterSwap(d, l) \o t
    BY DEF z
  <2>2. l \in Seq(Nat) /\ t \in Seq(Ops) /\ Quiet(t) /\ Frees(t)
    BY <1>7, <1>9
  <2> HIDE DEF l, t
  <2>3. /\ z \in Seq(Ops) /\ Syncs(z) /\ Frees(z)
        /\ Carried(z, "push", d) = l
        /\ \A c \in Channels : c # d => ~Hands(z, c)
        /\ \A k \in Mutexes : WillLeave(t, k) => WillLeave(z, k)
    BY <1>4, <2>1, <2>2, AfterSwapFacts
  <2> QED
    BY <2>3 DEF l, t
<1>11. /\ todo' \in [Agents -> Seq(Ops)] /\ todo'[a] = z
       /\ \A b \in Agents : b # a => todo'[b] = todo[b]
  <2>1. todo' = [todo EXCEPT ![a] = z]
    BY <1>2 DEF Go, s, z
  <2> QED
    BY <1>9, <1>10, <2>1
<1>12. \A k \in Mutexes : a \in inside'[k] => WillLeave(z, k)
  <2> SUFFICES ASSUME NEW k \in Mutexes, a \in inside'[k] PROVE WillLeave(Tail(s), k)
    BY <1>10
  <2>2. CASE k = m
    BY <1>2, <1>3, <1>6, <2>2, FreesLater
  <2>3. CASE k # m
    <3>1. a \in inside[k]
      BY <1>8, <2>3
    <3>2. WillLeave(s, k)
      BY <1>1, <3>1 DEF LoggerInv, AllLeave, s
    <3> QED
      BY <1>2, <1>3, <3>2, TailShapes
  <2> QED
    BY <2>2, <2>3
<1>13. Hands(z, "app") => a \in inside'[FrontMutex("app")]
  BY <1>4, <1>8, <1>10, MutexFacts
<1>14. Shapes' /\ AllLeave' /\ AppHeld'
  <2>1. \A b \in Agents : b # a => Rests(b)
    BY <1>11, Zenon DEF Rests
  <2>2. a \notin Users \ {"loop"}
    BY <1>5, AgentFacts
  <2> QED
    BY <1>1, <1>8, <1>10, <1>11, <1>12, <1>13, <2>1, <2>2, Moves
<1>15. \A c \in Channels : c \in Agents /\ c # a /\ todo'[c] = todo[c]
  BY <1>11, AgentFacts
<1>16. \A c \in Channels : WaitsAt(c)'
  <2> SUFFICES ASSUME NEW c \in Channels PROVE WaitsAt(c)'
    OBVIOUS
  <2>1. BackMutex(c) \in Mutexes
    BY MutexFacts
  <2>2. c \in inside[BackMutex(c)] => c \in inside'[BackMutex(c)]
    BY <1>8, <1>15, <2>1
  <2>3. queue'[c] = queue[c] /\ type' = type /\ victim' = victim /\ todo'[c] = todo[c]
        /\ stop'[c] = stop[c]
    BY <1>2, <1>15
  <2>4. stop'[c] => victim' # None
    BY <1>1, <2>3 DEF LoggerInv, WaitsAt
  <2> QED
    BY <1>1, <2>2, <2>3, <2>4, WaitsSame
<1>17. NoWriters'
  BY <1>2, <1>5 DEF NoWriters
<1>18. /\ buffer' \in [Channels -> Seq(Nat)] /\ buffer'[d] = <<>>
       /\ \A c \in Channels : c # d => buffer'[c] = buffer[c]
  <2>1. <<>> \in Seq(Nat)
    BY EmptySeq
  <2> QED
    BY <1>2, <1>4, <1>9, <2>1
<1>19. Types'
  <2>1. count \in [Channels -> Nat] /\ queue \in [Channels -> Seq(Seq(Nat))]
        /\ stop \in [Channels -> BOOLEAN] /\ printed \in [Channels -> Seq(Nat)]
    BY <1>1 DEF LoggerInv, Types
  <2> QED
    BY <1>2, <1>8, <1>11, <1>18, <2>1, Zenon DEF Types
<1>20. /\ type' \in {0, 1} /\ (victim' # None => type' = 1)
       /\ (victim' = None => todo'["handler"] = <<>>)
  <2>1. a # "handler" => todo'["handler"] = todo["handler"]
    BY <1>11, AgentFacts
  <2> QED
    BY <1>1, <1>2, <1>5, <2>1 DEF LoggerInv
<1>21. LoggerInv'
  BY <1>8, <1>14, <1>16, <1>17, <1>19, <1>20, Zenon DEF LoggerInv
<1>22. \A c \in Channels : Carried(s, "push", c) = <<>>
  BY <1>7, QuietFacts
<1>23. ASSUME NEW c \in Channels, c # d PROVE OrderedAt(c)'
  <2>1. Carried(z, "push", c) = <<>>
    BY <1>10, <1>23, CarriedType
  <2>2. \A b \in {"loop", "handler"} : Carried(todo'[b], "push", c) = Carried(todo[b], "push", c)
    BY <1>11, <1>22, <2>1, AgentFacts DEF s
  <2>3. Carriers(c)' = Carriers(c)
    BY <1>15, <2>2 DEF Carriers
  <2>4. Trail(c)' = Trail(c)
    BY <1>2, <1>18, <1>23, <2>3, TrailSame
  <2> QED
    BY <1>1, <1>2, <2>4, TrailKept
<1>24. OrderedAt(d)'
  <2> DEFINE p == printed[d]
             k == Carried(todo[d], "print", d)
             q == FlattenSeq(queue[d])
             l == Carried(todo["loop"], "push", d)
             h == Carried(todo["handler"], "push", d)
             b == buffer[d]
  <2>1. Trail(d) = Six(p, k, q, l, h, b)
    BY TrailIsSix
  <2>2. /\ p \in Seq(Nat) /\ k \in Seq(Nat) /\ q \in Seq(Nat)
        /\ l \in Seq(Nat) /\ h \in Seq(Nat) /\ b \in Seq(Nat)
    BY <1>1, <1>4, TrailTypes
  <2>3. printed'[d] = p /\ FlattenSeq(queue'[d]) = q /\ buffer'[d] = <<>>
        /\ Carried(todo'[d], "print", d) = k
    BY <1>2, <1>4, <1>15, <1>18
  <2>4. Trail(d)' = Six(p, k, q, Carried(todo'["loop"], "push", d),
                        Carried(todo'["handler"], "push", d), <<>>)
    BY <2>3, TrailIsSix
  <2>5. CASE a = "handler"
    <3>1. h = <<>> /\ Carried(todo'["loop"], "push", d) = l
          /\ Carried(todo'["handler"], "push", d) = b
      BY <1>4, <1>10, <1>11, <1>22, <2>5, AgentFacts DEF s
    <3>2. Trail(d)' = Six(p, k, q, l, b, <<>>) /\ Trail(d) = Six(p, k, q, l, <<>>, b)
      BY <2>1, <2>4, <3>1
    <3>3. Six(p, k, q, l, b, <<>>) = Six(p, k, q, l, <<>>, b)
      <4> HIDE DEF p, k, q, l, h, b
      <4> QED
        BY <2>2, SixMoves
    <3> QED
      BY <1>1, <1>2, <1>4, <3>2, <3>3, TrailKept
  <2>6. CASE a = "loop"
    <3>1. l = <<>> /\ Carried(todo'["handler"], "push", d) = h
          /\ Carried(todo'["loop"], "push", d) = b
      BY <1>4, <1>10, <1>11, <1>22, <2>6, AgentFacts DEF s
    <3>2. Trail(d)' = Six(p, k, q, b, h, <<>>) /\ Trail(d) = Six(p, k, q, <<>>, h, b)
      BY <2>1, <2>4, <3>1
    <3>3. CASE h = <<>>
      <4>1. Six(p, k, q, b, <<>>, <<>>) = Six(p, k, q, <<>>, <<>>, b)
        <5> HIDE DEF p, k, q, l, h, b
        <5> QED
          BY <2>2, SixMoves
      <4>2. Trail(d)' = Trail(d)
        BY <3>2, <3>3, <4>1
      <4> QED
        BY <1>1, <1>2, <1>4, <4>2, TrailKept
    <3>4. CASE h # <<>>
      <4>1. todo["handler"] \in Seq(Ops) /\ Syncs(todo["handler"])
        BY <1>1, <1>9, AgentFacts DEF LoggerInv, Shapes
      <4>2. Hands(todo["handler"], d)
        BY <1>4, <3>4, <4>1, CarriedType
      <4>3. victim # None
        <5>1. todo["handler"] # <<>>
          BY <4>2 DEF Hands
        <5> QED
          BY <1>1, <5>1 DEF LoggerInv
      <4>4. d = "rpc"
        <5>1. d = "app" => "handler" \in inside[m]
          BY <1>1, <1>4, <4>2 DEF LoggerInv, AppHeld
        <5> QED
          BY <1>4, <1>8, <5>1, MutexFacts
      <4>5. Len(Trail(d)') = Len(Trail(d)) /\ ToSet(Trail(d)') = ToSet(Trail(d))
        <5> HIDE DEF p, k, q, l, h, b
        <5> QED
          BY <2>2, <3>2, SixMixed
      <4> QED
        BY <1>1, <1>2, <1>4, <4>3, <4>4, <4>5, TrailMixed
    <3> QED
      BY <3>3, <3>4
  <2> QED
    BY <1>5, <2>5, <2>6
<1> QED
  <2>1. \A c \in Channels : OrderedAt(c)'
    BY <1>23, <1>24
  <2> QED
    BY <1>21, <2>1, Zenon DEF Good

\* The lists of a writer differ.
LEMMA WriterDistinct ==
  ASSUME NEW c \in Channels
  PROVE  /\ \A x \in {"pop", "wait", "asleep", "unlock"} :
              /\ <<Do(x, BackMutex(c))>> # <<>>
              /\ Head(<<Do(x, BackMutex(c))>>).op = x
              /\ Tail(<<Do(x, BackMutex(c))>>) = <<>>
              /\ <<Do(x, BackMutex(c))>> # <<Do("unlock", BackMutex(c)), Do("pop", BackMutex(c))>>
         /\ \A x, y \in {"pop", "wait", "asleep", "unlock"} :
              x # y => <<Do(x, BackMutex(c))>> # <<Do(y, BackMutex(c))>>
         /\ \A l : /\ <<Op("print", BackMutex(c), l)>> # <<>>
                   /\ Tail(<<Op("print", BackMutex(c), l)>>) = <<>>
                   /\ \A x \in {"pop", "wait", "asleep", "unlock"} :
                        <<Op("print", BackMutex(c), l)>> # <<Do(x, BackMutex(c))>>
         /\ <<Do("unlock", BackMutex(c)), Do("pop", BackMutex(c))>> # <<>>
         /\ Tail(<<Do("unlock", BackMutex(c)), Do("pop", BackMutex(c))>>)
              = <<Do("pop", BackMutex(c))>>
<1> DEFINE b == BackMutex(c)
           u == Do("unlock", b)
           p == Do("pop", b)
<1>1. \A x : Do(x, b).op = x
  BY DEF Do, Op
<1>2. \A l : Op("print", b, l).op = "print"
  BY DEF Op
<1>3. \A o : <<o>> # <<>> /\ Head(<<o>>) = o /\ Tail(<<o>>) = <<>> /\ <<o>>[1] = o /\ Len(<<o>>) = 1
  OBVIOUS
<1>4. Len(<<u, p>>) = 2 /\ <<u, p>> # <<>> /\ Tail(<<u, p>>) = <<p>>
  <2> HIDE DEF u, p
  <2> QED
    OBVIOUS
<1>5. \A o : <<o>> # <<u, p>>
  BY <1>3, <1>4
<1>6. \A x, y : x # y => <<Do(x, b)>> # <<Do(y, b)>>
  BY <1>1, <1>3
<1>7. \A l : \A x : x # "print" => <<Op("print", b, l)>> # <<Do(x, b)>>
  BY <1>1, <1>2, <1>3
<1> QED
  BY <1>1, <1>3, <1>4, <1>5, <1>6, <1>7

\* pushLogBuffer, in its section: the queue of the channel gets what was
\* carried, and the writer is woken.
LEMMA PushEffect ==
  ASSUME LoggerInv, NEW a \in {"loop", "handler"}, NEW d \in Channels,
         Writes(todo[d], d),
         todo' = Woken([todo EXCEPT ![a] = Tail(@)], d),
         Tail(todo[a]) \in Seq(Ops)
  PROVE  /\ todo' \in [Agents -> Seq(Ops)]
         /\ todo'[a] = Tail(todo[a])
         /\ \A b \in Agents : b # a => Rests(b)
         /\ \A b \in Agents : b # a /\ b # d => todo'[b] = todo[b]
         /\ \/ todo'[d] = todo[d] /\ todo[d] # <<Do("asleep", BackMutex(d))>>
            \/ /\ todo[d] = <<Do("asleep", BackMutex(d))>>
               /\ todo'[d] = <<Do("pop", BackMutex(d))>>
<1> DEFINE t == Tail(todo[a])
           f == [todo EXCEPT ![a] = t]
<1>1. todo \in [Agents -> Seq(Ops)] /\ a \in Agents /\ d \in Agents /\ a # d
  BY AgentFacts DEF LoggerInv, Types
<1>2. /\ f \in [Agents -> Seq(Ops)] /\ f[a] = t /\ \A b \in Agents : b # a => f[b] = todo[b]
  <2> HIDE DEF t
  <2>1. t \in Seq(Ops)
    BY DEF t
  <2> QED
    BY <1>1, <2>1
<1>3. todo' = IF Asleep(d) THEN [f EXCEPT ![d] = Loop(d)] ELSE f
  BY Zenon DEF Woken
<1> HIDE DEF t, f
<1>4. CASE Asleep(d)
  <2>1. todo[d] = <<Do("asleep", BackMutex(d))>>
    BY <1>4, WriterFacts DEF Asleep
  <2>2. Loop(d) = <<Do("pop", BackMutex(d))>>
    BY DEF Loop
  <2>3. Loop(d) \in Seq(Ops)
    <3>1. Writes(Loop(d), d)
      BY <2>2 DEF Writes
    <3> QED
      BY <3>1, WriterFacts
  <2>4. /\ todo' \in [Agents -> Seq(Ops)] /\ todo'[a] = t /\ todo'[d] = Loop(d)
        /\ \A b \in Agents : b # a /\ b # d => todo'[b] = todo[b]
    BY <1>1, <1>2, <1>3, <1>4, <2>3
  <2>5. \A b \in Agents : b # a => Rests(b)
    BY <2>1, <2>2, <2>4, Zenon DEF Rests
  <2> QED
    BY <2>1, <2>2, <2>4, <2>5 DEF t
<1>5. CASE ~Asleep(d)
  <2>1. todo[d] # <<Do("asleep", BackMutex(d))>>
    BY <1>5, WriterDistinct DEF Asleep
  <2>2. todo' = f
    BY <1>3, <1>5
  <2>3. \A b \in Agents : b # a => Rests(b)
    BY <1>2, <2>2, Zenon DEF Rests
  <2> QED
    BY <1>1, <1>2, <2>1, <2>2, <2>3 DEF t
<1> QED
  BY <1>4, <1>5

\* A buffer is handed on.  On the rpc channel the handler may do so before the
\* timer; on the app channel only one of them can have taken a buffer.
LEMMA PushGood ==
  ASSUME Good, NEW a \in Agents, a \notin Channels, Push(a), ~raced'
  PROVE  Good'
<1> DEFINE s == todo[a]
           m == Mutex(a)
           ln == Head(s).lines
<1>1. LoggerInv /\ \A c \in Channels : OrderedAt(c)
  BY DEF Good
<1>2. /\ s # <<>> /\ Head(s).op = "push" /\ Enter(a)
      /\ queue' = [queue EXCEPT ![Channel(a)] = Append(@, ln)]
      /\ todo' = Woken([todo EXCEPT ![a] = Tail(@)], Channel(a))
      /\ UNCHANGED <<type, count, calls, buffer, stop, printed, victim, dead>>
  BY DEF Push, At
<1>3. s \in Seq(Ops) /\ m \in Mutexes /\ m = Head(s).m
  BY <1>1, <1>2, HeadFacts
<1>4. a \in {"loop", "handler"} /\ type = 1 /\ (a = "handler" => victim # None)
  BY <1>1, <1>2, OnlySyncs
<1>5. Syncs(s) /\ Frees(s)
  BY <1>1, <1>4 DEF LoggerInv, Shapes
<1>6. /\ Quiet(Tail(s)) /\ m \in Backs
      /\ Carried(s, "push", m[2]) = ln /\ ln \in Seq(Nat)
      /\ \A c \in Channels : c # m[2] => Carried(s, "push", c) = <<>>
      /\ Hands(s, m[2])
  <2> HIDE DEF s, m
  <2> QED
    BY <1>2, <1>3, <1>5, PushCarried
<1>7. PICK d \in Channels : d = m[2] /\ m = BackMutex(d) /\ Channel(a) = d
  BY <1>6, MutexFacts DEF Channel
<1>8. Frees(Tail(s)) /\ Tail(s) \in Seq(Ops)
  <2> HIDE DEF s, m
  <2> QED
    BY <1>2, <1>3, <1>5, TailShapes, TailFacts
<1>9. /\ locked' \subseteq Mutexes /\ inside' \in [Mutexes -> SUBSET Agents]
      /\ OneInside' /\ LockedInside' /\ inside[m] = {}
      /\ inside'[m] = {a} /\ \A k \in Mutexes : k # m => inside'[k] = inside[k]
      /\ \A k \in Mutexes : \A b \in Agents : b # a => (b \in inside'[k] <=> b \in inside[k])
  BY <1>1, <1>2, <1>3, EnterFacts
<1>10. \A c \in Channels : Writes(todo[c], c)
  BY <1>1 DEF LoggerInv, Shapes
<1>11. /\ todo' \in [Agents -> Seq(Ops)]
       /\ todo'[a] = Tail(s)
       /\ \A b \in Agents : b # a => Rests(b)
       /\ \A b \in Agents : b # a /\ b # d => todo'[b] = todo[b]
       /\ \/ todo'[d] = todo[d] /\ todo[d] # <<Do("asleep", BackMutex(d))>>
          \/ /\ todo[d] = <<Do("asleep", BackMutex(d))>>
             /\ todo'[d] = <<Do("pop", BackMutex(d))>>
  <2>1. todo' = Woken([todo EXCEPT ![a] = Tail(@)], d) /\ Tail(todo[a]) \in Seq(Ops)
    BY <1>2, <1>7, <1>8
  <2> QED
    BY <1>1, <1>4, <1>10, <2>1, PushEffect
<1> HIDE DEF s, m, ln
<1>12. \A k \in Mutexes : a \in inside'[k] => WillLeave(Tail(s), k)
  <2> SUFFICES ASSUME NEW k \in Mutexes, a \in inside'[k] PROVE WillLeave(Tail(s), k)
    OBVIOUS
  <2>2. CASE k = m
    BY <1>2, <1>3, <1>5, <2>2, FreesLater
  <2>3. CASE k # m
    <3>1. a \in inside[k]
      BY <1>9, <2>3
    <3>2. WillLeave(s, k)
      BY <1>1, <3>1 DEF LoggerInv, AllLeave, s
    <3> QED
      BY <1>2, <1>3, <3>2, TailShapes
  <2> QED
    BY <2>2, <2>3
<1>13. /\ Syncs(Tail(s)) /\ ~Hands(Tail(s), "app")
       /\ \A c \in Channels : Carried(Tail(s), "push", c) = <<>>
  BY <1>6, QuietFacts, MutexFacts
<1>14. Shapes' /\ AllLeave' /\ AppHeld'
  <2>1. a \notin Users \ {"loop"}
    BY <1>4, AgentFacts
  <2> QED
    BY <1>1, <1>8, <1>9, <1>11, <1>12, <1>13, <2>1, Moves
<1>15. /\ queue \in [Channels -> Seq(Seq(Nat))] /\ queue' \in [Channels -> Seq(Seq(Nat))]
       /\ queue'[d] = Append(queue[d], ln)
       /\ \A c \in Channels : c # d => queue'[c] = queue[c]
  <2>1. queue \in [Channels -> Seq(Seq(Nat))]
    BY <1>1 DEF LoggerInv, Types
  <2>2. queue[d] \in Seq(Seq(Nat))
    BY <2>1
  <2>3. Append(queue[d], ln) \in Seq(Seq(Nat))
    BY <1>6, <2>2, AppendProperties
  <2>4. queue' = [queue EXCEPT ![d] = Append(queue[d], ln)]
    BY <1>2, <1>7
  <2> QED
    BY <2>1, <2>3, <2>4
<1>16. ASSUME NEW c \in Channels PROVE WaitsAt(c)'
  <2>1. BackMutex(c) \in Mutexes /\ c \in Agents /\ c # a
    BY MutexFacts, AgentFacts
  <2>2. c \in inside[BackMutex(c)] => c \in inside'[BackMutex(c)]
    BY <1>9, <2>1
  <2>3. type' = type /\ victim' = victim /\ stop' = stop
    BY <1>2
  <2>4. WaitsAt(c)
    BY <1>1 DEF LoggerInv
  <2>5. CASE c # d
    <3>1. todo'[c] = todo[c] /\ queue'[c] = queue[c]
      BY <1>11, <1>15, <2>1, <2>5
    <3>2. stop'[c] => victim' # None
      BY <2>3, <2>4 DEF WaitsAt
    <3> QED
      BY <1>1, <2>2, <2>3, <3>1, <3>2, WaitsSame
  <2>6. CASE c = d
    <3>1. todo[c] # <<Do("wait", BackMutex(c))>>
      BY <1>7, <1>9, <2>4, <2>6 DEF WaitsAt
    <3>2. CASE todo'[c] = todo[c] /\ todo[c] # <<Do("asleep", BackMutex(c))>>
      BY <2>3, <2>4, <3>1, <3>2, Zenon DEF WaitsAt
    <3>3. CASE todo'[c] = <<Do("pop", BackMutex(c))>>
      <4>1. /\ todo'[c] # <<Do("wait", BackMutex(c))>> /\ todo'[c] # <<>>
            /\ todo'[c] # <<Do("asleep", BackMutex(c))>>
            /\ todo'[c] # <<Do("unlock", BackMutex(c))>>
        BY <3>3, WriterDistinct
      <4>2. stop'[c] => victim' # None
        BY <2>3, <2>4 DEF WaitsAt
      <4> QED
        BY <4>1, <4>2, Zenon DEF WaitsAt
    <3> QED
      BY <1>11, <2>6, <3>2, <3>3
  <2> QED
    BY <2>5, <2>6
<1>17. NoWriters'
  BY <1>2, <1>4 DEF NoWriters
<1>18. Types'
  <2>1. count \in [Channels -> Nat] /\ buffer \in [Channels -> Seq(Nat)]
        /\ stop \in [Channels -> BOOLEAN] /\ printed \in [Channels -> Seq(Nat)]
    BY <1>1 DEF LoggerInv, Types
  <2> QED
    BY <1>2, <1>9, <1>11, <1>15, <2>1, Zenon DEF Types
<1>19. /\ type' \in {0, 1} /\ (victim' # None => type' = 1)
       /\ (victim' = None => todo'["handler"] = <<>>)
  <2>1. a # "handler" => todo'["handler"] = todo["handler"]
    BY <1>11, AgentFacts
  <2> QED
    BY <1>1, <1>2, <1>4, <2>1 DEF LoggerInv
<1>20. LoggerInv'
  BY <1>9, <1>14, <1>16, <1>17, <1>18, <1>19, Zenon DEF LoggerInv
<1>21. \A c \in Channels : Carried(todo'[c], "print", c) = Carried(todo[c], "print", c)
  <2> SUFFICES ASSUME NEW c \in Channels
               PROVE  Carried(todo'[c], "print", c) = Carried(todo[c], "print", c)
    OBVIOUS
  <2>1. c \in Agents /\ c # a
    BY AgentFacts
  <2>2. CASE todo'[c] = todo[c]
    BY <2>2
  <2>3. CASE todo'[c] # todo[c]
    <3>1. todo[c] = <<Do("asleep", BackMutex(c))>> /\ todo'[c] = <<Do("pop", BackMutex(c))>>
      BY <1>11, <2>1, <2>3
    <3> QED
      BY <3>1, WriterLists
  <2> QED
    BY <2>2, <2>3
<1>22. ASSUME NEW c \in Channels, c # d PROVE OrderedAt(c)'
  <2>1. Carried(s, "push", c) = <<>>
    BY <1>6, <1>7, <1>22
  <2>2. \A b \in {"loop", "handler"} : Carried(todo'[b], "push", c) = Carried(todo[b], "push", c)
    BY <1>11, <1>13, <2>1, AgentFacts DEF s
  <2>3. Carriers(c)' = Carriers(c)
    BY <1>21, <2>2 DEF Carriers
  <2>4. Trail(c)' = Trail(c)
    BY <1>2, <1>15, <1>22, <2>3, TrailSame
  <2> QED
    BY <1>1, <1>2, <2>4, TrailKept
<1>23. OrderedAt(d)'
  <2> DEFINE p == printed[d]
             k == Carried(todo[d], "print", d)
             q == FlattenSeq(queue[d])
             l == Carried(todo["loop"], "push", d)
             h == Carried(todo["handler"], "push", d)
             b == buffer[d]
  <2>1. Trail(d) = Six(p, k, q, l, h, b)
    BY TrailIsSix
  <2>2. /\ p \in Seq(Nat) /\ k \in Seq(Nat) /\ q \in Seq(Nat)
        /\ l \in Seq(Nat) /\ h \in Seq(Nat) /\ b \in Seq(Nat)
    BY <1>1, TrailTypes
  <2>3. FlattenSeq(queue'[d]) = q \o ln
    <3>1. queue[d] \in Seq(Seq(Nat))
      BY <1>15
    <3> QED
      BY <1>6, <1>15, <3>1, FlattenAppend
  <2>4. Trail(d)' = Six(p, k, q \o ln, Carried(todo'["loop"], "push", d),
                        Carried(todo'["handler"], "push", d), b)
    BY <1>2, <1>21, <2>3, TrailIsSix
  <2>5. CASE a = "loop"
    <3>1. l = ln /\ Carried(todo'["loop"], "push", d) = <<>>
          /\ Carried(todo'["handler"], "push", d) = h
      BY <1>6, <1>7, <1>11, <1>13, <2>5, AgentFacts DEF s
    <3>2. Trail(d)' = Six(p, k, q \o l, <<>>, h, b)
      BY <2>4, <3>1
    <3>3. Six(p, k, q \o l, <<>>, h, b) = Six(p, k, q, l, h, b)
      <4> HIDE DEF p, k, q, l, h, b
      <4> QED
        BY <2>2, SixMoves
    <3> QED
      BY <1>1, <1>2, <2>1, <3>2, <3>3, TrailKept
  <2>6. CASE a = "handler"
    <3>1. h = ln /\ Carried(todo'["handler"], "push", d) = <<>>
          /\ Carried(todo'["loop"], "push", d) = l
      BY <1>6, <1>7, <1>11, <1>13, <2>6, AgentFacts DEF s
    <3>2. Trail(d)' = Six(p, k, q \o h, l, <<>>, b)
      BY <2>4, <3>1
    <3>3. CASE l = <<>>
      <4>1. Six(p, k, q \o h, <<>>, <<>>, b) = Six(p, k, q, <<>>, h, b)
        <5> HIDE DEF p, k, q, l, h, b
        <5> QED
          BY <2>2, SixMoves
      <4>2. Trail(d)' = Trail(d)
        BY <2>1, <3>2, <3>3, <4>1
      <4> QED
        BY <1>1, <1>2, <4>2, TrailKept
    <3>4. CASE l # <<>>
      <4>1. todo["loop"] \in Seq(Ops) /\ Syncs(todo["loop"])
        BY <1>1, AgentFacts DEF LoggerInv, Types, Shapes
      <4>2. Hands(todo["loop"], d) /\ Hands(todo["handler"], d)
        BY <1>6, <1>7, <2>6, <3>4, <4>1, CarriedType DEF s
      <4>3. d = "rpc"
        <5>1. d = "app" => {"loop", "handler"} \subseteq inside[FrontMutex("app")]
          BY <1>1, <4>2 DEF LoggerInv, AppHeld
        <5>2. FrontMutex("app") \in Mutexes
          BY MutexFacts
        <5>3. ~({"loop", "handler"} \subseteq inside[FrontMutex("app")])
          BY <1>1, <5>2 DEF LoggerInv, OneInside
        <5> QED
          BY <5>1, <5>3, MutexFacts
      <4>4. Len(Trail(d)') = Len(Trail(d)) /\ ToSet(Trail(d)') = ToSet(Trail(d))
        <5> HIDE DEF p, k, q, l, h, b
        <5> QED
          <6>1. /\ Len(Six(p, k, q \o h, l, <<>>, b)) = Len(Six(p, k, q, l, h, b))
                /\ ToSet(Six(p, k, q \o h, l, <<>>, b)) = ToSet(Six(p, k, q, l, h, b))
            BY <2>2, SixMixed
          <6> QED
            BY <2>1, <3>2, <6>1
      <4> QED
        BY <1>1, <1>2, <1>4, <2>6, <4>3, <4>4, TrailMixed
    <3> QED
      BY <3>3, <3>4
  <2> QED
    BY <1>4, <2>5, <2>6
<1> QED
  <2>1. \A c \in Channels : OrderedAt(c)'
    BY <1>22, <1>23
  <2> QED
    BY <1>20, <2>1, Zenon DEF Good

\* A step of the writer of channel c: t is what it has still to do.
LEMMA WriterInv ==
  ASSUME LoggerInv, NEW c \in Channels, todo[c] # <<>>, NEW t, Writes(t, c),
         todo' = [todo EXCEPT ![c] = t],
         inside' \in [Mutexes -> SUBSET Agents], locked' \subseteq Mutexes,
         OneInside', LockedInside',
         \A m \in Mutexes : \A b \in Agents : b # c => (b \in inside'[m] <=> b \in inside[m]),
         \A m \in Mutexes : c \in inside'[m] => WillLeave(t, m),
         UNCHANGED <<type, count, buffer, stop, victim>>,
         queue' \in [Channels -> Seq(Seq(Nat))], printed' \in [Channels -> Seq(Nat)],
         \A e \in Channels : e # c => queue'[e] = queue[e],
         WaitsAt(c)'
  PROVE  /\ LoggerInv' /\ todo'[c] = t
         /\ \A e \in Channels : e # c => Carriers(e)' = Carriers(e)
         /\ \A e \in Channels : \A b \in {"loop", "handler"} :
              Carried(todo'[b], "push", e) = Carried(todo[b], "push", e)
<1>1. c \in Agents /\ c \notin Users \ {"loop"} /\ c \notin {"loop", "handler"}
  BY AgentFacts
<1>2. t \in Seq(Ops) /\ Frees(t)
  BY WriterFacts
<1>3. todo \in [Agents -> Seq(Ops)]
  BY DEF LoggerInv, Types
<1>4. /\ todo' \in [Agents -> Seq(Ops)] /\ todo'[c] = t
      /\ \A b \in Agents : b # c => todo'[b] = todo[b]
  BY <1>1, <1>2, <1>3
<1>5. Shapes' /\ AllLeave' /\ AppHeld'
  <2>1. \A b \in Agents : b # c => Rests(b)
    BY <1>4, Zenon DEF Rests
  <2> QED
    BY <1>1, <1>2, <1>4, <2>1, Moves
<1>6. ASSUME NEW e \in Channels PROVE WaitsAt(e)'
  <2>1. CASE e = c
    BY <2>1
  <2>2. CASE e # c
    <3>1. BackMutex(e) \in Mutexes /\ e \in Agents
      BY MutexFacts, AgentFacts
    <3>2. /\ e \in inside[BackMutex(e)] => e \in inside'[BackMutex(e)]
          /\ todo'[e] = todo[e] /\ queue'[e] = queue[e]
      BY <1>4, <2>2, <3>1
    <3>3. stop'[e] => victim' # None
      BY DEF LoggerInv, WaitsAt
    <3> QED
      BY <3>2, <3>3, WaitsSame
  <2> QED
    BY <2>1, <2>2
<1>7. type # 0
  BY DEF LoggerInv, NoWriters
<1>8. NoWriters'
  BY <1>7 DEF NoWriters
<1>9. Types'
  <2>1. count \in [Channels -> Nat] /\ buffer \in [Channels -> Seq(Nat)]
        /\ stop \in [Channels -> BOOLEAN]
    BY DEF LoggerInv, Types
  <2> QED
    BY <1>4, <2>1, Zenon DEF Types
<1>10. /\ type' \in {0, 1} /\ (victim' # None => type' = 1)
       /\ (victim' = None => todo'["handler"] = <<>>)
  <2>1. todo'["handler"] = todo["handler"]
    BY <1>1, <1>4, AgentFacts
  <2> QED
    BY <2>1 DEF LoggerInv
<1>11. LoggerInv'
  BY <1>5, <1>6, <1>8, <1>9, <1>10, Zenon DEF LoggerInv
<1>12. \A e \in Channels : \A b \in {"loop", "handler"} :
         Carried(todo'[b], "push", e) = Carried(todo[b], "push", e)
  BY <1>1, <1>4, AgentFacts
<1>13. ASSUME NEW e \in Channels, e # c PROVE Carriers(e)' = Carriers(e)
  <2>1. todo'[e] = todo[e]
    BY <1>4, <1>13, AgentFacts
  <2> QED
    BY <1>12, <2>1 DEF Carriers
<1> QED
  BY <1>4, <1>11, <1>12, <1>13

\* The writer of c goes from one list to another and leaves the lines alone.
LEMMA WriterTrail ==
  ASSUME Good, LoggerInv', NEW c \in Channels,
         \A e \in Channels : e # c => Carriers(e)' = Carriers(e),
         \A e \in Channels : \A b \in {"loop", "handler"} :
              Carried(todo'[b], "push", e) = Carried(todo[b], "push", e),
         Carried(todo'[c], "print", c) = Carried(todo[c], "print", c),
         UNCHANGED <<count, buffer, queue, printed, victim>>
  PROVE  Good'
<1>1. \A e \in Channels : OrderedAt(e)
  BY DEF Good
<1>2. ASSUME NEW e \in Channels PROVE OrderedAt(e)'
  <2>1. Carriers(e)' = Carriers(e)
    BY DEF Carriers
  <2>2. Trail(e)' = Trail(e)
    BY <2>1, TrailSame
  <2> QED
    BY <1>1, <2>2, TrailKept
<1> QED
  BY <1>2, Zenon DEF Good

\* The destructor of the writer's ScopeMutex.
LEMMA WriterUnlockGood ==
  ASSUME Good, NEW c \in Channels, Unlock(c)
  PROVE  Good'
<1> DEFINE s == todo[c]
           m == BackMutex(c)
<1>1. LoggerInv /\ c \in Agents /\ m \in Mutexes
  BY AgentFacts, MutexFacts DEF Good
<1>2. /\ s # <<>> /\ Head(s).op = "unlock" /\ Leave(c) /\ Go(c, <<>>)
      /\ UNCHANGED <<type, dataVars, calls, stop, victim, dead>>
  BY DEF Unlock, At
<1>3. Writes(s, c) /\ s \in Seq(Ops)
  BY <1>1, WriterFacts DEF LoggerInv, Shapes
<1>4. Head(s).m = m /\ (s = <<Do("unlock", m)>> \/ s = <<Do("unlock", m), Do("pop", m)>>)
  <2> HIDE DEF s
  <2> QED
    BY <1>2, <1>3, WriterFacts
<1>5. /\ locked' \subseteq Mutexes /\ inside' \in [Mutexes -> SUBSET Agents]
      /\ OneInside' /\ LockedInside'
      /\ c \notin inside'[m] /\ \A k \in Mutexes : k # m => inside'[k] = inside[k]
      /\ \A k \in Mutexes : \A b \in Agents : b # c => (b \in inside'[k] <=> b \in inside[k])
  <2>1. Mutex(c) = m
    BY <1>4 DEF Mutex
  <2> HIDE DEF m
  <2> QED
    BY <1>1, <1>2, <2>1, LeaveFacts
<1>6. ASSUME NEW k \in Mutexes PROVE c \notin inside'[k]
  <2>1. c \in inside[k] => WillLeave(s, k)
    BY <1>1 DEF LoggerInv, AllLeave
  <2>2. WillLeave(s, k) => k = m
    BY <1>4, WriterLists
  <2> QED
    BY <1>5, <2>1, <2>2
<1> DEFINE t == Tail(s)
<1>7. (t = <<>> /\ s = <<Do("unlock", m)>>) \/ t = <<Do("pop", m)>>
  BY <1>4, WriterDistinct
<1>8. Writes(t, c) /\ todo' = [todo EXCEPT ![c] = t]
  <2>1. Writes(t, c)
    BY <1>7 DEF Writes
  <2>2. <<>> \o t = t
    <3> HIDE DEF s
    <3> QED
      BY <1>2, <1>3, TailFacts
  <2> QED
    BY <1>2, <2>1, <2>2 DEF Go
<1>9. todo'[c] = t
  BY <1>1, <1>8 DEF LoggerInv, Types
<1>10. WaitsAt(c)'
  <2>1. WaitsAt(c)
    BY <1>1 DEF LoggerInv
  <2>2. UNCHANGED <<type, stop, victim>>
    BY <1>2
  <2>3. t = <<>> => type = 0 \/ stop[c]
    BY <1>7, <2>1, WriterDistinct DEF WaitsAt
  <2>4. /\ t # <<Do("wait", m)>> /\ t # <<Do("asleep", m)>> /\ t # <<Do("unlock", m)>>
    BY <1>7, WriterDistinct
  <2>5. todo'[c] \in {<<>>, <<Do("unlock", m)>>} => type' = 0 \/ stop'[c]
    BY <1>9, <2>2, <2>3, <2>4
  <2>6. stop'[c] => victim' # None
    BY <2>1, <2>2 DEF WaitsAt
  <2> QED
    BY <1>9, <2>4, <2>5, <2>6, Zenon DEF WaitsAt
<1> HIDE DEF s, t
<1>11. UNCHANGED <<type, count, buffer, stop, victim>> /\ UNCHANGED <<queue, printed>>
  BY <1>2 DEF dataVars
<1>12. queue' \in [Channels -> Seq(Seq(Nat))] /\ printed' \in [Channels -> Seq(Nat)]
  BY <1>1, <1>11 DEF LoggerInv, Types
<1>13. /\ LoggerInv'
       /\ \A e \in Channels : e # c => Carriers(e)' = Carriers(e)
       /\ \A e \in Channels : \A b \in {"loop", "handler"} :
              Carried(todo'[b], "push", e) = Carried(todo[b], "push", e)
  <2>1. todo[c] # <<>>
    BY <1>2 DEF s
  <2>2. \A e \in Channels : e # c => queue'[e] = queue[e]
    BY <1>11
  <2> QED
    BY <1>1, <1>5, <1>6, <1>8, <1>10, <1>11, <1>12, <2>1, <2>2, WriterInv
<1>14. Carried(todo'[c], "print", c) = Carried(todo[c], "print", c)
  BY <1>4, <1>7, <1>9, WriterLists DEF s
<1> QED
  BY <1>11, <1>13, <1>14, WriterTrail

\* pthread_cond_wait gives up the mutex.
LEMMA CondWaitGood ==
  ASSUME Good, NEW c \in Channels, CondWait(c)
  PROVE  Good'
<1> DEFINE s == todo[c]
           m == BackMutex(c)
           t == <<Do("asleep", m)>>
<1>1. LoggerInv /\ c \in Agents /\ m \in Mutexes
  BY AgentFacts, MutexFacts DEF Good
<1>2. /\ s # <<>> /\ Head(s).op = "wait" /\ Leave(c) /\ Go(c, t)
      /\ UNCHANGED <<type, dataVars, calls, stop, victim, dead>>
  BY DEF CondWait, At
<1>3. Writes(s, c) /\ s \in Seq(Ops)
  BY <1>1, WriterFacts DEF LoggerInv, Shapes
<1>4. Head(s).m = m /\ s = <<Do("wait", m)>>
  <2> HIDE DEF s
  <2> QED
    BY <1>2, <1>3, WriterFacts
<1>5. /\ locked' \subseteq Mutexes /\ inside' \in [Mutexes -> SUBSET Agents]
      /\ OneInside' /\ LockedInside'
      /\ c \notin inside'[m] /\ \A k \in Mutexes : k # m => inside'[k] = inside[k]
      /\ \A k \in Mutexes : \A b \in Agents : b # c => (b \in inside'[k] <=> b \in inside[k])
  <2>1. Mutex(c) = m
    BY <1>4 DEF Mutex
  <2> HIDE DEF m
  <2> QED
    BY <1>1, <1>2, <2>1, LeaveFacts
<1>6. ASSUME NEW k \in Mutexes PROVE c \notin inside'[k]
  <2>1. c \in inside[k] => WillLeave(s, k)
    BY <1>1 DEF LoggerInv, AllLeave
  <2>2. WillLeave(s, k) => k = m
    BY <1>4, WriterLists
  <2> QED
    BY <1>5, <2>1, <2>2
<1>7. Writes(t, c) /\ t \in Seq(Ops)
  <2>1. Writes(t, c)
    BY DEF Writes
  <2> QED
    BY <2>1, WriterFacts
<1>8. todo' = [todo EXCEPT ![c] = t]
  <2>1. Tail(s) = <<>> /\ t \o <<>> = t
    <3>1. Tail(s) = <<>>
      BY <1>4, WriterDistinct
    <3> HIDE DEF t
    <3> QED
      BY <1>7, <3>1, ConcatEmptySeq
  <2> HIDE DEF t
  <2> QED
    BY <1>2, <2>1 DEF Go
<1>9. todo'[c] = t
  BY <1>1, <1>8 DEF LoggerInv, Types
<1>10. WaitsAt(c)'
  <2>1. WaitsAt(c)
    BY <1>1 DEF LoggerInv
  <2>2. UNCHANGED <<type, stop, victim, queue>>
    BY <1>2 DEF dataVars
  <2>3. queue[c] = <<>>
    BY <1>4, <2>1 DEF WaitsAt
  <2>4. t # <<Do("wait", m)>> /\ t # <<>> /\ t # <<Do("unlock", m)>>
    BY WriterDistinct
  <2>5. queue'[c] = <<>> /\ (stop'[c] => victim' # None)
    BY <2>1, <2>2, <2>3 DEF WaitsAt
  <2>6. todo'[c] \notin {<<>>, <<Do("unlock", m)>>} /\ todo'[c] # <<Do("wait", m)>>
    BY <1>9, <2>4
  <2> QED
    BY <2>5, <2>6, Zenon DEF WaitsAt
<1> HIDE DEF s, t
<1>11. UNCHANGED <<type, count, buffer, stop, victim>> /\ UNCHANGED <<queue, printed>>
  BY <1>2 DEF dataVars
<1>12. queue' \in [Channels -> Seq(Seq(Nat))] /\ printed' \in [Channels -> Seq(Nat)]
  BY <1>1, <1>11 DEF LoggerInv, Types
<1>13. /\ LoggerInv'
       /\ \A e \in Channels : e # c => Carriers(e)' = Carriers(e)
       /\ \A e \in Channels : \A b \in {"loop", "handler"} :
              Carried(todo'[b], "push", e) = Carried(todo[b], "push", e)
  <2>1. todo[c] # <<>>
    BY <1>2 DEF s
  <2>2. \A e \in Channels : e # c => queue'[e] = queue[e]
    BY <1>11
  <2> QED
    BY <1>1, <1>5, <1>6, <1>7, <1>8, <1>10, <1>11, <1>12, <2>1, <2>2, WriterInv
<1>14. Carried(todo'[c], "print", c) = Carried(todo[c], "print", c)
  BY <1>4, <1>9, WriterLists DEF s, t
<1> QED
  BY <1>11, <1>13, <1>14, WriterTrail

\* The writer takes a buffer from its queue, or goes to wait for one.
LEMMA PopGood ==
  ASSUME Good, NEW c \in Channels, Pop(c), ~raced'
  PROVE  Good'
<1> DEFINE s == todo[c]
           m == BackMutex(c)
           l == Head(queue[c])
           t == IF queue[c] = <<>> THEN <<Do("wait", m)>> ELSE <<Op("print", m, l)>>
<1>1. LoggerInv /\ c \in Agents /\ m \in Mutexes /\ \A e \in Channels : OrderedAt(e)
  BY AgentFacts, MutexFacts DEF Good
<1>2. /\ s # <<>> /\ Head(s).op = "pop" /\ Enter(c)
      /\ IF queue[c] = <<>>
         THEN Go(c, <<Do("wait", m)>>) /\ UNCHANGED queue
         ELSE /\ queue' = [queue EXCEPT ![c] = Tail(@)]
              /\ Go(c, <<Op("print", m, l)>>)
      /\ UNCHANGED <<type, count, calls, buffer, stop, printed, victim, dead>>
  BY DEF Pop, At
<1>3. Writes(s, c) /\ s \in Seq(Ops)
  BY <1>1, WriterFacts DEF LoggerInv, Shapes
<1>4. Head(s).m = m /\ s = <<Do("pop", m)>>
  <2> HIDE DEF s
  <2> QED
    BY <1>2, <1>3, WriterFacts
<1>5. /\ locked' \subseteq Mutexes /\ inside' \in [Mutexes -> SUBSET Agents]
      /\ OneInside' /\ LockedInside'
      /\ inside'[m] = {c} /\ \A k \in Mutexes : k # m => inside'[k] = inside[k]
      /\ \A k \in Mutexes : \A b \in Agents : b # c => (b \in inside'[k] <=> b \in inside[k])
  <2>1. Mutex(c) = m
    BY <1>4 DEF Mutex
  <2> HIDE DEF m
  <2> QED
    BY <1>1, <1>2, <2>1, EnterFacts
<1>6. ASSUME NEW k \in Mutexes, k # m PROVE c \notin inside'[k]
  <2>1. c \in inside[k] => WillLeave(s, k)
    BY <1>1 DEF LoggerInv, AllLeave
  <2>2. ~WillLeave(s, k)
    BY <1>4, WriterLists
  <2> QED
    BY <1>5, <1>6, <2>1, <2>2
<1>7. queue \in [Channels -> Seq(Seq(Nat))] /\ queue[c] \in Seq(Seq(Nat))
      /\ printed \in [Channels -> Seq(Nat)]
  BY <1>1 DEF LoggerInv, Types
<1>8. queue[c] # <<>> => l \in Seq(Nat) /\ Tail(queue[c]) \in Seq(Seq(Nat))
  BY <1>7, HeadTailProperties
<1>9. Writes(t, c) /\ t \in Seq(Ops)
  <2>1. Writes(t, c)
    <3> HIDE DEF l
    <3> QED
      BY <1>8 DEF Writes
  <2> QED
    BY <2>1, WriterFacts
<1>10. todo' = [todo EXCEPT ![c] = t]
  <2>1. Tail(s) = <<>> /\ t \o <<>> = t
    <3>1. Tail(s) = <<>>
      BY <1>4, WriterDistinct
    <3> HIDE DEF t
    <3> QED
      BY <1>9, <3>1, ConcatEmptySeq
  <2>2. Go(c, t)
    BY <1>2
  <2> HIDE DEF t
  <2> QED
    BY <2>1, <2>2 DEF Go
<1>11. todo'[c] = t
  BY <1>1, <1>10 DEF LoggerInv, Types
<1>12. /\ queue' \in [Channels -> Seq(Seq(Nat))]
       /\ queue'[c] = IF queue[c] = <<>> THEN queue[c] ELSE Tail(queue[c])
       /\ \A e \in Channels : e # c => queue'[e] = queue[e]
  <2> HIDE DEF l, t, s
  <2> QED
    BY <1>2, <1>7, <1>8
<1>13. WaitsAt(c)'
  <2>1. stop'[c] => victim' # None
    BY <1>1, <1>2 DEF LoggerInv, WaitsAt
  <2>2. c \in inside'[m]
    BY <1>5
  <2>3. CASE queue[c] = <<>>
    <3>1. t = <<Do("wait", m)>> /\ queue'[c] = <<>>
      BY <1>12, <2>3
    <3>2. t \notin {<<>>, <<Do("unlock", m)>>} /\ t # <<Do("asleep", m)>>
      BY <3>1, WriterDistinct
    <3> HIDE DEF t
    <3> QED
      BY <1>11, <2>1, <2>2, <3>1, <3>2, Zenon DEF WaitsAt
  <2>4. CASE queue[c] # <<>>
    <3>1. t = <<Op("print", m, l)>>
      BY <2>4
    <3>2. t \notin {<<>>, <<Do("unlock", m)>>} /\ t # <<Do("asleep", m)>> /\ t # <<Do("wait", m)>>
      BY <3>1, WriterDistinct
    <3> HIDE DEF t
    <3> QED
      BY <1>11, <2>1, <3>2, Zenon DEF WaitsAt
  <2> QED
    BY <2>3, <2>4
<1>14. \A k \in Mutexes : c \in inside'[k] => WillLeave(t, k)
  <2>1. WillLeave(t, m)
    <3>1. CASE queue[c] = <<>>
      BY <1>1, <3>1, WriterLists
    <3>2. CASE queue[c] # <<>>
      <4>1. t = <<Op("print", m, l)>> /\ l \in Seq(Nat)
        BY <1>8, <3>2
      <4> HIDE DEF l, t
      <4> QED
        BY <1>1, <4>1, WriterLists
    <3> QED
      BY <3>1, <3>2
  <2> QED
    BY <1>6, <2>1
<1> HIDE DEF s, t
<1>15. printed' \in [Channels -> Seq(Nat)] /\ UNCHANGED <<type, count, buffer, stop, victim>>
       /\ printed' = printed
  BY <1>2, <1>7
<1>16. /\ LoggerInv'
       /\ \A e \in Channels : e # c => Carriers(e)' = Carriers(e)
       /\ \A e \in Channels : \A b \in {"loop", "handler"} :
              Carried(todo'[b], "push", e) = Carried(todo[b], "push", e)
  <2>1. todo[c] # <<>>
    BY <1>2 DEF s
  <2> QED
    BY <1>1, <1>5, <1>9, <1>10, <1>12, <1>13, <1>14, <1>15, <2>1, WriterInv
<1>17. Carried(todo[c], "print", c) = <<>>
  BY <1>4, WriterLists DEF s
<1>18. CASE queue[c] = <<>>
  <2>1. Carried(todo'[c], "print", c) = <<>>
    BY <1>11, <1>18, WriterLists DEF t
  <2>2. queue' = queue
    BY <1>2, <1>18
  <2> QED
    BY <1>15, <1>16, <1>17, <2>1, <2>2, WriterTrail
<1>19. CASE queue[c] # <<>>
  <2> DEFINE p == printed[c]
             q == FlattenSeq(Tail(queue[c]))
             lo == Carried(todo["loop"], "push", c)
             h == Carried(todo["handler"], "push", c)
             b == buffer[c]
  <2>1. l \in Seq(Nat) /\ Tail(queue[c]) \in Seq(Seq(Nat))
    BY <1>8, <1>19
  <2>2. Carried(todo'[c], "print", c) = l
    <3>1. todo'[c] = <<Op("print", m, l)>>
      BY <1>11, <1>19 DEF t
    <3> HIDE DEF l
    <3> QED
      BY <2>1, <3>1, WriterLists
  <2>3. FlattenSeq(queue[c]) = l \o q
    BY <1>7, <1>19, FlattenHead
  <2>4. FlattenSeq(queue'[c]) = q
    BY <1>12, <1>19
  <2>5. /\ p \in Seq(Nat) /\ lo \in Seq(Nat) /\ h \in Seq(Nat) /\ b \in Seq(Nat)
    BY <1>1, TrailTypes
  <2>6. q \in Seq(Nat)
    BY <2>1, FlattenType
  <2>7. Trail(c) = Six(p, <<>>, l \o q, lo, h, b)
    BY <1>17, <2>3, TrailIsSix
  <2>8. Trail(c)' = Six(p, l, q, lo, h, b)
    BY <1>15, <1>16, <2>2, <2>4, TrailIsSix
  <2>9. Six(p, <<>>, l \o q, lo, h, b) = Six(p, l, q, lo, h, b)
    <3> HIDE DEF p, q, lo, h, b, l
    <3> QED
      BY <2>1, <2>5, <2>6, SixMoves
  <2>10. ASSUME NEW e \in Channels PROVE OrderedAt(e)'
    <3>1. Trail(e)' = Trail(e)
      <4>1. CASE e = c
        BY <2>7, <2>8, <2>9, <4>1
      <4>2. CASE e # c
        BY <1>12, <1>15, <1>16, <4>2, TrailSame
      <4> QED
        BY <4>1, <4>2
    <3> QED
      BY <1>1, <1>15, <3>1, TrailKept
  <2> QED
    BY <1>16, <2>10, Zenon DEF Good
<1> QED
  BY <1>18, <1>19

\* The writer prints what it took, and returns or goes on.
LEMMA PrintGood ==
  ASSUME Good, NEW c \in Channels, PrintLines(c)
  PROVE  Good'
<1> DEFINE s == todo[c]
           m == BackMutex(c)
           l == Head(s).lines
           t == IF stop[c] THEN <<Do("unlock", m)>> ELSE <<Do("unlock", m), Do("pop", m)>>
<1>1. LoggerInv /\ c \in Agents /\ m \in Mutexes /\ \A e \in Channels : OrderedAt(e)
  BY AgentFacts, MutexFacts DEF Good
<1>2. /\ s # <<>> /\ Head(s).op = "print" /\ Leave(c)
      /\ printed' = [printed EXCEPT ![c] = @ \o l]
      /\ Go(c, <<Do("unlock", m)>> \o (IF stop[c] THEN <<>> ELSE Loop(c)))
      /\ UNCHANGED <<type, count, calls, buffer, queue, stop, victim, dead>>
  BY DEF PrintLines, At
<1>3. Writes(s, c) /\ s \in Seq(Ops)
  BY <1>1, WriterFacts DEF LoggerInv, Shapes
<1>4. Head(s).m = m /\ s = <<Op("print", m, l)>> /\ l \in Seq(Nat)
  <2> HIDE DEF s
  <2> QED
    BY <1>2, <1>3, WriterFacts
<1>5. /\ locked' \subseteq Mutexes /\ inside' \in [Mutexes -> SUBSET Agents]
      /\ OneInside' /\ LockedInside'
      /\ c \notin inside'[m] /\ \A k \in Mutexes : k # m => inside'[k] = inside[k]
      /\ \A k \in Mutexes : \A b \in Agents : b # c => (b \in inside'[k] <=> b \in inside[k])
  <2>1. Mutex(c) = m
    BY <1>4 DEF Mutex
  <2> HIDE DEF m
  <2> QED
    BY <1>1, <1>2, <2>1, LeaveFacts
<1> HIDE DEF l
<1>6. ASSUME NEW k \in Mutexes PROVE c \notin inside'[k]
  <2>1. c \in inside[k] => WillLeave(s, k)
    BY <1>1 DEF LoggerInv, AllLeave
  <2>2. WillLeave(s, k) => k = m
    BY <1>4, WriterLists
  <2> QED
    BY <1>5, <2>1, <2>2
<1>7. Writes(t, c) /\ t \in Seq(Ops)
  <2>1. Writes(t, c)
    BY DEF Writes
  <2> QED
    BY <2>1, WriterFacts
<1>8. todo' = [todo EXCEPT ![c] = t]
  <2> DEFINE u == Do("unlock", m)
             p == Do("pop", m)
  <2>1. <<u>> \o (IF stop[c] THEN <<>> ELSE Loop(c)) = t
    <3>1. t = IF stop[c] THEN <<u>> ELSE <<u, p>>
      OBVIOUS
    <3>2. Loop(c) = <<p>>
      BY DEF Loop
    <3>3. u \in Ops /\ p \in Ops
      <4>1. <<>> \in Seq(Nat)
        BY EmptySeq
      <4> HIDE DEF m
      <4> QED
        BY <1>1, <4>1 DEF Do, Op, Ops, Names
    <3> HIDE DEF u, p, t
    <3>4. <<u>> \in Seq(Ops)
      BY <3>3
    <3>5. <<u>> \o <<>> = <<u>>
      BY <3>4, ConcatEmptySeq
    <3>6. <<u>> \o <<p>> = <<u, p>>
      <4> DEFINE x == <<u>>
                 y == <<p>>
                 v == <<u, p>>
      <4>1. /\ x \in Seq(Ops) /\ Len(x) = 1 /\ x[1] = u
            /\ y \in Seq(Ops) /\ Len(y) = 1 /\ y[1] = p
            /\ v \in Seq(Ops) /\ Len(v) = 2 /\ v[1] = u /\ v[2] = p
        BY <3>3
      <4> HIDE DEF x, y, v
      <4>2. /\ x \o y \in Seq(Ops) /\ Len(x \o y) = Len(x) + Len(y)
            /\ \A i \in 1..(Len(x) + Len(y)) :
                 (x \o y)[i] = IF i <= Len(x) THEN x[i] ELSE y[i - Len(x)]
        BY <4>1, ConcatProperties
      <4>3. Len(x \o y) = Len(v) /\ \A i \in 1..Len(x \o y) : (x \o y)[i] = v[i]
        BY <4>1, <4>2
      <4>4. x \o y = v
        BY <4>1, <4>2, <4>3, SeqEqual
      <4> QED
        BY <4>4 DEF x, y, v
    <3> QED
      BY <3>1, <3>2, <3>5, <3>6
  <2>2. Tail(s) = <<>> /\ t \o <<>> = t
    <3>1. Tail(s) = <<>>
      BY <1>4, WriterDistinct
    <3> HIDE DEF t
    <3> QED
      BY <1>7, <3>1, ConcatEmptySeq
  <2>3. Go(c, t)
    <3> HIDE DEF t
    <3> QED
      BY <1>2, <2>1
  <2> HIDE DEF t
  <2> QED
    BY <2>2, <2>3 DEF Go
<1>9. todo'[c] = t
  BY <1>1, <1>8 DEF LoggerInv, Types
<1>10. WaitsAt(c)'
  <2>1. UNCHANGED <<type, stop, victim>>
    BY <1>2
  <2>2. stop'[c] => victim' # None
    BY <1>1, <2>1 DEF LoggerInv, WaitsAt
  <2>3. /\ t # <<Do("wait", m)>> /\ t # <<Do("asleep", m)>>
        /\ t \in {<<>>, <<Do("unlock", m)>>} => stop[c]
    BY WriterDistinct
  <2> HIDE DEF t
  <2>4. todo'[c] \in {<<>>, <<Do("unlock", m)>>} => type' = 0 \/ stop'[c]
    BY <1>9, <2>1, <2>3
  <2> QED
    BY <1>9, <2>2, <2>3, <2>4, Zenon DEF WaitsAt
<1> HIDE DEF s, t
<1>11. UNCHANGED <<type, count, buffer, stop, victim>> /\ UNCHANGED queue
  BY <1>2
<1>12. /\ queue' \in [Channels -> Seq(Seq(Nat))] /\ printed' \in [Channels -> Seq(Nat)]
       /\ printed'[c] = printed[c] \o l
       /\ \A e \in Channels : e # c => printed'[e] = printed[e]
  <2>1. queue \in [Channels -> Seq(Seq(Nat))] /\ printed \in [Channels -> Seq(Nat)]
    BY <1>1 DEF LoggerInv, Types
  <2>2. printed[c] \o l \in Seq(Nat)
    BY <1>4, <2>1, Cat
  <2> QED
    BY <1>2, <1>11, <2>1, <2>2
<1>13. /\ LoggerInv'
       /\ \A e \in Channels : e # c => Carriers(e)' = Carriers(e)
       /\ \A e \in Channels : \A b \in {"loop", "handler"} :
              Carried(todo'[b], "push", e) = Carried(todo[b], "push", e)
  <2>1. todo[c] # <<>>
    BY <1>2 DEF s
  <2>2. \A e \in Channels : e # c => queue'[e] = queue[e]
    BY <1>11
  <2> QED
    BY <1>1, <1>5, <1>6, <1>7, <1>8, <1>10, <1>11, <1>12, <2>1, <2>2, WriterInv
<1>14. Carried(todo'[c], "print", c) = <<>> /\ Carried(todo[c], "print", c) = l
  BY <1>4, <1>9, WriterLists DEF s, t
<1>15. ASSUME NEW e \in Channels PROVE OrderedAt(e)'
  <2>1. Trail(e)' = Trail(e)
    <3>1. CASE e # c
      BY <1>11, <1>12, <1>13, <3>1, TrailSame
    <3>2. CASE e = c
      <4> DEFINE p == printed[c]
                 q == FlattenSeq(queue[c])
                 lo == Carried(todo["loop"], "push", c)
                 h == Carried(todo["handler"], "push", c)
                 b == buffer[c]
      <4>1. Trail(c) = Six(p, l, q, lo, h, b)
        BY <1>14, TrailIsSix
      <4>2. Trail(c)' = Six(p \o l, <<>>, q, lo, h, b)
        BY <1>11, <1>12, <1>13, <1>14, TrailIsSix
      <4>3. /\ p \in Seq(Nat) /\ q \in Seq(Nat) /\ lo \in Seq(Nat)
            /\ h \in Seq(Nat) /\ b \in Seq(Nat)
        BY <1>1, TrailTypes
      <4>4. Six(p \o l, <<>>, q, lo, h, b) = Six(p, l, q, lo, h, b)
        <5> HIDE DEF p, q, lo, h, b
        <5> QED
          BY <1>4, <4>3, SixMoves
      <4> QED
        BY <3>2, <4>1, <4>2, <4>4
    <3> QED
      BY <3>1, <3>2
  <2> QED
    BY <1>1, <1>11, <2>1, TrailKept
<1> QED
  BY <1>13, <1>15, Zenon DEF Good

\* An agent that is not a writer and has nothing to do starts with list t.
LEMMA StartGood ==
  ASSUME Good, NEW a \in Agents, a \notin Channels, todo[a] = <<>>,
         NEW t \in Seq(Ops), Quiet(t), Frees(t),
         a \in Users \ {"loop"} => LogsOnly(t),
         todo' = [todo EXCEPT ![a] = t],
         UNCHANGED <<type, lockVars, dataVars, stop>>,
         a # "handler" => victim' = victim,
         a = "handler" => victim' # None /\ type = 1,
         type = 0 => \A i \in DOMAIN t : /\ t[i].op \in {"put", "unlock"}
                                         /\ t[i].m = FrontMutex("app")
  PROVE  Good'
<1>1. LoggerInv /\ \A c \in Channels : OrderedAt(c)
  BY DEF Good
<1>2. todo \in [Agents -> Seq(Ops)]
  BY <1>1 DEF LoggerInv, Types
<1>3. /\ todo' \in [Agents -> Seq(Ops)] /\ todo'[a] = t
      /\ \A b \in Agents : b # a => todo'[b] = todo[b]
  BY <1>2
<1>4. /\ locked' \subseteq Mutexes /\ inside' = inside
      /\ inside' \in [Mutexes -> SUBSET Agents]
      /\ OneInside' /\ LockedInside'
      /\ \A k \in Mutexes : \A b \in Agents : b \in inside'[k] <=> b \in inside[k]
  BY <1>1, LockSame
<1>5. \A k \in Mutexes : a \notin inside'[k]
  <2> SUFFICES ASSUME NEW k \in Mutexes, a \in inside[k] PROVE FALSE
    BY <1>4
  <2>1. WillLeave(<<>>, k)
    BY <1>1 DEF LoggerInv, AllLeave
  <2> QED
    BY <2>1 DEF WillLeave
<1>6. /\ Syncs(t) /\ ~Hands(t, "app") /\ \A c \in Channels : Carried(t, "push", c) = <<>>
  BY QuietFacts, MutexFacts
<1>7. Shapes' /\ AllLeave' /\ AppHeld'
  <2>1. \A b \in Agents : b # a => Rests(b)
    BY <1>3, Zenon DEF Rests
  <2>2. \A k \in Mutexes : a \in inside'[k] => WillLeave(t, k)
    BY <1>5
  <2>3. \A k \in Mutexes : \A b \in Agents : b # a => (b \in inside'[k] <=> b \in inside[k])
    BY <1>4
  <2> QED
    BY <1>1, <1>3, <1>4, <1>6, <2>1, <2>2, <2>3, Moves
<1>8. \A c \in Channels : c \in Agents /\ c # a /\ todo'[c] = todo[c]
  BY <1>3, AgentFacts
<1>9. /\ UNCHANGED <<type, stop, count, buffer, queue, printed>>
      /\ (victim # None => victim' # None)
  <2>1. UNCHANGED <<type, stop, count, buffer, queue, printed>>
    BY DEF dataVars
  <2>2. victim # None => victim' # None
    BY Zenon
  <2> QED
    BY <2>1, <2>2
<1>10. ASSUME NEW c \in Channels PROVE WaitsAt(c)'
  <2>1. stop[c] => victim # None
    BY <1>1 DEF LoggerInv, WaitsAt
  <2>2. c \in inside[BackMutex(c)] => c \in inside'[BackMutex(c)]
    BY <1>4
  <2>3. queue'[c] = queue[c] /\ type' = type /\ stop'[c] = stop[c] /\ todo'[c] = todo[c]
    BY <1>8, <1>9
  <2>4. stop'[c] => victim' # None
    BY <1>9, <2>1, <2>3
  <2> QED
    BY <1>1, <2>2, <2>3, <2>4, WaitsSame
<1>11. NoWriters'
  <2>1. ASSUME type = 0, NEW b \in Users \cup {"loop"}, NEW i \in DOMAIN todo'[b]
        PROVE  todo'[b][i].op \in {"put", "unlock"} /\ todo'[b][i].m = FrontMutex("app")
    <3>1. b \in Agents
      BY AgentFacts
    <3>2. CASE b # a
      <4>1. todo'[b] = todo[b]
        BY <1>3, <3>1, <3>2
      <4> QED
        BY <1>1, <2>1, <4>1 DEF LoggerInv, NoWriters
    <3>3. CASE b = a
      BY <1>3, <2>1, <3>3
    <3> QED
      BY <3>2, <3>3
  <2>2. type = 0 => victim' = victim /\ queue' = queue /\ buffer'["rpc"] = buffer["rpc"]
    BY <1>9
  <2>3. type = 0 => \A c \in Channels : todo'[c] = todo[c]
    BY <1>8
  <2> QED
    BY <1>1, <1>9, <2>1, <2>2, <2>3, NoWritersSame
<1>12. Types'
  <2>1. /\ count \in [Channels -> Nat] /\ buffer \in [Channels -> Seq(Nat)]
        /\ stop \in [Channels -> BOOLEAN] /\ printed \in [Channels -> Seq(Nat)]
        /\ queue \in [Channels -> Seq(Seq(Nat))]
    BY <1>1 DEF LoggerInv, Types
  <2> QED
    BY <1>3, <1>4, <1>9, <2>1, Zenon DEF Types
<1>13. /\ type' \in {0, 1} /\ (victim' # None => type' = 1)
       /\ (victim' = None => todo'["handler"] = <<>>)
  <2>1. type \in {0, 1} /\ (victim # None => type = 1)
        /\ (victim = None => todo["handler"] = <<>>)
    BY <1>1 DEF LoggerInv
  <2>2. a # "handler" => todo'["handler"] = todo["handler"]
    BY <1>3, AgentFacts
  <2> QED
    BY <1>9, <2>1, <2>2
<1>14. LoggerInv'
  BY <1>4, <1>7, <1>10, <1>11, <1>12, <1>13, Zenon DEF LoggerInv
<1>15. ASSUME NEW c \in Channels, NEW b \in {"loop", "handler"}
       PROVE  Carried(todo'[b], "push", c) = Carried(todo[b], "push", c)
  <2>1. b \in Agents
    BY AgentFacts
  <2>2. CASE b # a
    BY <1>3, <2>1, <2>2
  <2>3. CASE b = a
    <3>1. Carried(<<>>, "push", c) = <<>>
      BY CarriedNone
    <3> QED
      BY <1>3, <1>6, <2>3, <3>1
  <2> QED
    BY <2>2, <2>3
<1>16. ASSUME NEW c \in Channels PROVE OrderedAt(c)'
  <2>1. Carriers(c)' = Carriers(c)
    BY <1>8, <1>15 DEF Carriers
  <2>2. Trail(c)' = Trail(c)
    BY <1>9, <2>1, TrailSame
  <2> QED
    BY <1>1, <1>9, <2>2, TrailKept
<1> QED
  BY <1>14, <1>16, Zenon DEF Good

\* A log call, which with type 0 prints at once on the rpc channel.
LEMMA LogCallGood ==
  ASSUME Good, NEW u \in Users, NEW c \in Channels, LogCall(u, c)
  PROVE  Good'
<1>1. LoggerInv /\ \A e \in Channels : OrderedAt(e)
  BY DEF Good
<1>2. todo[u] = <<>> /\ UNCHANGED <<type, lockVars, buffer, queue, stop, victim, dead>>
  BY DEF LogCall
<1>3. u \in Agents /\ u \notin Channels /\ u # "handler"
  BY AgentFacts
<1>4. CASE ~(type = 0 /\ c = "rpc")
  <2>1. todo' = [todo EXCEPT ![u] = PushLog(c)] /\ UNCHANGED <<count, printed>>
    BY <1>4 DEF LogCall
  <2> DEFINE t == PushLog(c)
  <2>2. /\ t \in Seq(Ops) /\ LogsOnly(t) /\ Quiet(t) /\ Frees(t)
        /\ \A i \in DOMAIN t : t[i].op \in {"put", "unlock"} /\ t[i].m = FrontMutex(c)
    BY PushLogFacts
  <2>3. type = 0 => c = "app"
    BY <1>4, MutexFacts
  <2>4. UNCHANGED <<type, lockVars, dataVars, stop, victim>>
    BY <1>2, <2>1 DEF dataVars
  <2> HIDE DEF t
  <2>5. type = 0 => \A i \in DOMAIN t : t[i].op \in {"put", "unlock"} /\ t[i].m = FrontMutex("app")
    BY <2>2, <2>3
  <2>6. todo' = [todo EXCEPT ![u] = t]
    BY <2>1 DEF t
  <2> QED
    BY <1>2, <1>3, <2>2, <2>4, <2>5, <2>6, StartGood
<1>5. CASE type = 0 /\ c = "rpc"
  <2>1. /\ count' = [count EXCEPT ![c] = @ + 1]
        /\ printed' = [printed EXCEPT ![c] = Append(@, count[c] + 1)]
        /\ todo' = todo
    BY <1>5 DEF LogCall
  <2>2. count \in [Channels -> Nat] /\ printed \in [Channels -> Seq(Nat)]
        /\ buffer \in [Channels -> Seq(Nat)] /\ queue \in [Channels -> Seq(Seq(Nat))]
        /\ stop \in [Channels -> BOOLEAN] /\ todo \in [Agents -> Seq(Ops)]
    BY <1>1 DEF LoggerInv, Types
  <2>3. /\ count' \in [Channels -> Nat] /\ printed' \in [Channels -> Seq(Nat)]
        /\ count'[c] = count[c] + 1 /\ printed'[c] = Append(printed[c], count[c] + 1)
        /\ \A e \in Channels : e # c => count'[e] = count[e] /\ printed'[e] = printed[e]
    <3>1. Append(printed[c], count[c] + 1) \in Seq(Nat)
      BY <2>2, AppendProperties
    <3> QED
      BY <2>1, <2>2, <3>1
  <2>4. locked' = locked /\ inside' = inside
    BY <1>2 DEF lockVars
  <2>5. Types'
    <3>1. inside \in [Mutexes -> SUBSET Agents] /\ locked \subseteq Mutexes
      BY <1>1 DEF LoggerInv, Types
    <3> QED
      BY <1>2, <2>1, <2>2, <2>3, <2>4, <3>1, Zenon DEF Types
  <2>6. LoggerInv'
    <3>1. Shapes' /\ NoWriters' /\ OneInside' /\ LockedInside' /\ AllLeave' /\ AppHeld'
          /\ \A e \in Channels : WaitsAt(e)'
      BY <1>1, <1>2, <2>1, <2>4
         DEF LoggerInv, Shapes, NoWriters, OneInside, LockedInside, AllLeave, AppHeld, WaitsAt
    <3>2. /\ type' \in {0, 1} /\ (victim' # None => type' = 1)
          /\ (victim' = None => todo'["handler"] = <<>>)
      BY <1>1, <1>2, <2>1 DEF LoggerInv
    <3> QED
      BY <2>5, <3>1, <3>2, Zenon DEF LoggerInv
  <2>7. /\ victim = None /\ todo[c] = <<>> /\ queue[c] = <<>> /\ buffer[c] = <<>>
        /\ todo["handler"] = <<>>
        /\ \A i \in DOMAIN todo["loop"] : todo["loop"][i].op \in {"put", "unlock"}
    BY <1>1, <1>5 DEF LoggerInv, NoWriters
  <2>8. /\ Carried(todo[c], "print", c) = <<>>
        /\ Carried(todo["loop"], "push", c) = <<>>
        /\ Carried(todo["handler"], "push", c) = <<>>
        /\ FlattenSeq(queue[c]) = <<>>
    <3>1. Carried(<<>>, "print", c) = <<>> /\ Carried(<<>>, "push", c) = <<>>
      BY CarriedNone
    <3>2. Carried(todo["loop"], "push", c) = <<>>
      BY <2>7, CarriedNone
    <3>3. FlattenSeq(<<>>) = <<>>
      BY DEF FlattenSeq
    <3> QED
      BY <2>7, <3>1, <3>2, <3>3
  <2>9. Trail(c) = Six(printed[c], <<>>, <<>>, <<>>, <<>>, <<>>)
        /\ Trail(c)' = Six(printed'[c], <<>>, <<>>, <<>>, <<>>, <<>>)
    <3>1. queue' = queue /\ buffer' = buffer
      BY <1>2
    <3> QED
      BY <2>1, <2>7, <2>8, <3>1, TrailIsSix
  <2>10. Trail(c) = printed[c] /\ Trail(c)' = printed'[c]
    <3>1. printed[c] \in Seq(Nat) /\ printed'[c] \in Seq(Nat)
      BY <2>2, <2>3
    <3> QED
      BY <2>9, <3>1, SixPrinted
  <2>11. OrderedAt(c)'
    <3>1. Trail(c)' = Append(Trail(c), count[c] + 1)
      BY <2>3, <2>10
    <3>2. victim' = victim
      BY <1>2
    <3> QED
      BY <1>1, <2>3, <3>1, <3>2, TrailGrows
  <2>12. ASSUME NEW e \in Channels, e # c PROVE OrderedAt(e)'
    <3>1. Carriers(e)' = Carriers(e)
      BY <2>1 DEF Carriers
    <3>2. Trail(e)' = Trail(e)
      BY <1>2, <2>3, <2>12, <3>1, TrailSame
    <3> QED
      BY <1>1, <1>2, <2>3, <2>12, <3>2, TrailKept
  <2>13. \A e \in Channels : OrderedAt(e)'
    BY <2>11, <2>12
  <2> QED
    BY <2>6, <2>13, Zenon DEF Good
<1> QED
  BY <1>4, <1>5

\* The timer starts a sync.
LEMMA SyncTimerGood ==
  ASSUME Good, SyncTimer
  PROVE  Good'
<1>1. "loop" \in Agents /\ "loop" \notin Channels /\ "loop" # "handler"
      /\ "loop" \notin Users \ {"loop"}
  BY AgentFacts
<1>2. todo["loop"] = <<>> /\ type = 1 /\ todo' = [todo EXCEPT !["loop"] = SyncLoop]
      /\ UNCHANGED <<type, lockVars, dataVars, stop>> /\ victim' = victim
  BY DEF SyncTimer
<1>3. PICK a \in Agents : a = "loop"
  BY <1>1
<1>4. PICK t \in Seq(Ops) : t = SyncLoop
  BY SyncLoopFacts
<1>5. Quiet(t) /\ Frees(t)
  BY <1>4, SyncLoopFacts, Zenon
<1>6. todo' = [todo EXCEPT ![a] = t] /\ todo[a] = <<>>
  BY <1>2, <1>3, <1>4, Zenon
<1>7. a \notin Channels /\ a # "handler" /\ a \notin Users \ {"loop"}
  BY <1>1, <1>3, Zenon
<1>8. type # 0
  BY <1>2
<1>9. UNCHANGED <<type, lockVars, dataVars, stop>> /\ victim' = victim
  BY <1>2, Zenon
<1> QED
  BY <1>5, <1>6, <1>7, <1>8, <1>9, StartGood

\* A signal starts the handler.
LEMMA SignalGood ==
  ASSUME Good, NEW t \in Victims, Signal(t)
  PROVE  Good'
<1>1. "handler" \in Agents /\ "handler" \notin Channels
      /\ "handler" \notin Users \ {"loop"}
  BY AgentFacts
<1>2. victim = None /\ type = 1 /\ todo' = [todo EXCEPT !["handler"] = CoredumpHandler]
      /\ UNCHANGED <<type, lockVars, dataVars, stop>> /\ victim' = t
  BY DEF Signal
<1>3. todo["handler"] = <<>>
  BY <1>2 DEF Good, LoggerInv
<1>4. victim' # None
  BY <1>2, LoggerAssumption
<1>5. PICK a \in Agents : a = "handler"
  BY <1>1
<1>6. PICK s \in Seq(Ops) : s = CoredumpHandler
  BY HandlerFacts
<1>7. Quiet(s) /\ Frees(s)
  BY <1>6, HandlerFacts, Zenon
<1>8. todo' = [todo EXCEPT ![a] = s] /\ todo[a] = <<>>
  BY <1>2, <1>3, <1>5, <1>6, Zenon
<1>9. a \notin Channels /\ ~(a # "handler") /\ a \notin Users \ {"loop"}
  BY <1>1, <1>5, Zenon
<1>10. type # 0 /\ type = 1
  BY <1>2
<1>11. UNCHANGED <<type, lockVars, dataVars, stop>>
  BY <1>2, Zenon
<1> QED
  BY <1>4, <1>7, <1>8, <1>9, <1>10, <1>11, StartGood

(***************************************************************************)
(* The theorems                                                            *)
(***************************************************************************)

\* The invariant of the specification: it holds up to the first data race.
Sound == ~raced => Good

\* Logger::init, Logger's constructor: the threads of the writers are there if
\* the logger is asynchronous, and no line is anywhere.
LEMMA InitGood == Init => Good
<1> SUFFICES ASSUME Init PROVE Good
  OBVIOUS
<1>1. /\ type \in {0, 1} /\ locked = {} /\ victim = None
      /\ inside = [m \in Mutexes |-> {}]
      /\ count = [c \in Channels |-> 0]
      /\ buffer = [c \in Channels |-> <<>>]
      /\ queue = [c \in Channels |-> <<>>]
      /\ stop = [c \in Channels |-> FALSE]
      /\ printed = [c \in Channels |-> <<>>]
  BY DEF Init
<1>2. \A c \in Channels : Loop(c) = <<Do("pop", BackMutex(c))>>
  BY Zenon DEF Loop
<1>3. /\ \A a \in Agents : todo[a] = IF a \in Channels /\ type = 1 THEN Loop(a) ELSE <<>>
      /\ todo = [a \in Agents |-> IF a \in Channels /\ type = 1 THEN Loop(a) ELSE <<>>]
  BY DEF Init
<1>4. /\ \A c \in Channels : c \in Agents
      /\ \A c \in Channels : BackMutex(c) \in Mutexes
      /\ "loop" \in Agents /\ "loop" \notin Channels
      /\ "handler" \in Agents /\ "handler" \notin Channels
      /\ \A u \in Users \ {"loop"} : u \in Agents /\ u \notin Channels
  BY AgentFacts, MutexFacts
<1>5. /\ \A a \in Agents : a \notin Channels => todo[a] = <<>>
      /\ \A c \in Channels : type = 0 => todo[c] = <<>>
      /\ \A c \in Channels : type = 1 => todo[c] = <<Do("pop", BackMutex(c))>>
  BY <1>2, <1>3, <1>4
<1>6. \A c \in Channels :
        /\ Do("pop", BackMutex(c)) \in Ops /\ Do("pop", BackMutex(c)).op = "pop"
  <2>1. <<>> \in Seq(Nat)
    OBVIOUS
  <2> QED
    BY <1>4, <2>1 DEF Do, Op, Ops, Names
<1>7. \A c \in Channels : Writes(todo[c], c)
  BY <1>1, <1>5 DEF Writes
<1>8. \A a \in Agents : todo[a] \in Seq(Ops) /\ Frees(todo[a])
  <2> SUFFICES ASSUME NEW a \in Agents PROVE todo[a] \in Seq(Ops) /\ Frees(todo[a])
    OBVIOUS
  <2>1. CASE todo[a] = <<>>
    BY <2>1 DEF Frees
  <2>2. CASE a \in Channels /\ type = 1
    <3> DEFINE o == Do("pop", BackMutex(a))
    <3>1. todo[a] = <<o>> /\ o \in Ops /\ o.op = "pop"
      BY <1>5, <1>6, <2>2
    <3> HIDE DEF o
    <3>2. <<o>> \in Seq(Ops) /\ \A i \in DOMAIN <<o>> : <<o>>[i] = o
      BY <3>1
    <3> QED
      BY <3>1, <3>2 DEF Frees
  <2> QED
    BY <1>1, <1>5, <2>1, <2>2
<1>9. Types
  <2>1. todo \in [Agents -> Seq(Ops)]
    BY <1>3, <1>8
  <2>2. /\ inside \in [Mutexes -> SUBSET Agents] /\ locked \subseteq Mutexes
        /\ count \in [Channels -> Nat] /\ buffer \in [Channels -> Seq(Nat)]
        /\ queue \in [Channels -> Seq(Seq(Nat))] /\ printed \in [Channels -> Seq(Nat)]
    BY <1>1
  <2>3. stop \in [Channels -> BOOLEAN]
    BY <1>1
  <2> QED
    BY <2>1, <2>2, <2>3 DEF Types
<1>10. Shapes
  <2>1. LogsOnly(<<>>) /\ Syncs(<<>>)
    BY DEF LogsOnly, Syncs
  <2> QED
    BY <1>4, <1>5, <1>7, <1>8, <2>1 DEF Shapes
<1>11. NoWriters
  <2>1. "rpc" \in Channels /\ \A a \in Users \cup {"loop"} : todo[a] = <<>>
    BY <1>4, <1>5, AgentFacts
  <2> QED
    BY <1>1, <1>5, <2>1 DEF NoWriters
<1>12. OneInside /\ LockedInside /\ AllLeave
  BY <1>1 DEF OneInside, LockedInside, AllLeave
<1>13. AppHeld
  BY <1>4, <1>5 DEF AppHeld, Hands
<1>14. \A c \in Channels : WaitsAt(c)
  <2> SUFFICES ASSUME NEW c \in Channels PROVE WaitsAt(c)
    OBVIOUS
  <2>1. queue[c] = <<>> /\ stop[c] = FALSE
    BY <1>1
  <2>2. CASE type = 0
    BY <1>5, <2>1, <2>2, WriterDistinct DEF WaitsAt
  <2>3. CASE type = 1
    BY <1>5, <2>1, <2>3, WriterDistinct DEF WaitsAt
  <2> QED
    BY <1>1, <2>2, <2>3
<1>15. LoggerInv
  BY <1>1, <1>4, <1>5, <1>9, <1>10, <1>11, <1>12, <1>13, <1>14 DEF LoggerInv
<1>16. ASSUME NEW c \in Channels PROVE OrderedAt(c)
  <2>1. Carried(<<>>, "print", c) = <<>> /\ Carried(<<>>, "push", c) = <<>>
    BY CarriedNone
  <2>2. Carried(todo[c], "print", c) = <<>>
    <3>1. ~\E i \in DOMAIN todo[c] : todo[c][i].op = "print"
      BY <1>1, <1>5, <1>6
    <3> QED
      BY <1>4, <1>8, <3>1, CarriedNone
  <2>3. FlattenSeq(<<>>) = <<>>
    BY DEF FlattenSeq
  <2>4. printed[c] = <<>> /\ buffer[c] = <<>> /\ queue[c] = <<>> /\ count[c] = 0
    BY <1>1
  <2>5. todo["loop"] = <<>> /\ todo["handler"] = <<>>
    BY <1>4, <1>5
  <2>6. Trail(c) = Six(<<>>, <<>>, <<>>, <<>>, <<>>, <<>>)
    BY <2>1, <2>2, <2>3, <2>4, <2>5, TrailIsSix
  <2>7. Trail(c) = <<>>
    <3> PICK p \in Seq(Nat) : p = printed[c]
      BY <1>9 DEF Types
    <3>1. p = <<>>
      BY <2>4
    <3>2. Six(p, <<>>, <<>>, <<>>, <<>>, <<>>) = p
      BY SixPrinted
    <3> QED
      BY <2>6, <3>1, <3>2
  <2>8. Exact(c)
    BY <2>4, <2>7 DEF Exact
  <2> QED
    BY <2>8 DEF OrderedAt
<1> QED
  BY <1>15, <1>16 DEF Good

\* No step breaks the invariant: after a race there is no step, and the step
\* that races ends it.
LEMMA NextSound == Sound /\ [Next]_vars => Sound'
<1> SUFFICES ASSUME Sound, [Next]_vars, ~raced' PROVE Good'
  BY DEF Sound
<1>1. CASE UNCHANGED vars
  <2>1. Good
    BY <1>1 DEF Sound, vars, lockVars
  <2> QED
    BY <1>1, <2>1 DEF Good, vars, lockVars, dataVars, LoggerInv, Types, Shapes, NoWriters,
       OneInside, LockedInside, AllLeave, AppHeld, WaitsAt, OrderedAt, Exact, Complete, Trail
<1>2. ASSUME NEW a \in Agents, a \notin Channels, Sections(a) PROVE Good'
  <2>1. ~raced
    BY <1>2 DEF Sections, Unlock, Put, Swap, Push, At, Running
  <2>2. Good
    BY <2>1 DEF Sound
  <2> QED
    BY <1>2, <2>2, UnlockGood, PutGood, SwapGood, PushGood DEF Sections
<1>3. ASSUME NEW c \in Channels, Writer(c) PROVE Good'
  <2>1. ~raced
    BY <1>3 DEF Writer, Unlock, Pop, CondWait, PrintLines, At, Running
  <2>2. Good
    BY <2>1 DEF Sound
  <2> QED
    BY <1>3, <2>2, WriterUnlockGood, PopGood, CondWaitGood, PrintGood DEF Writer
<1>4. CASE Stop \/ Join \/ Raise
  <2>1. ~raced /\ todo["handler"] # <<>> /\ Go("handler", <<>>)
        /\ Head(todo["handler"]).op \in {"stop", "join", "raise"}
        /\ UNCHANGED <<type, lockVars, dataVars, victim>>
    BY <1>4 DEF Stop, Join, Raise, At, Running
  <2>2. Good
    BY <2>1 DEF Sound
  <2>3. stop \in [Channels -> BOOLEAN]
    BY <2>2 DEF Good, LoggerInv, Types
  <2>4. stop' = stop \/ stop' = [stop EXCEPT ![Channel("handler")] = TRUE]
    BY <1>4 DEF Stop, Join, Raise
  <2>5. stop' \in [Channels -> BOOLEAN] /\ \A c \in Channels : stop[c] => stop'[c]
    BY <2>3, <2>4
  <2> QED
    BY <2>1, <2>2, <2>5, HandlerGood
<1>5. CASE SyncTimer
  <2>1. Good
    BY <1>5 DEF Sound, SyncTimer, Running
  <2> QED
    BY <1>5, <2>1, SyncTimerGood
<1>6. ASSUME NEW t \in Victims, Signal(t) PROVE Good'
  <2>1. Good
    BY <1>6 DEF Sound, Signal, Running
  <2> QED
    BY <1>6, <2>1, SignalGood
<1>7. ASSUME NEW u \in Users, NEW c \in Channels, LogCall(u, c) PROVE Good'
  <2>1. Good
    BY <1>7 DEF Sound, LogCall, Running
  <2> QED
    BY <1>7, <2>1, LogCallGood
<1>8. /\ \A u \in Users : u \in Agents /\ u \notin Channels
      /\ "loop" \in Agents /\ "loop" \notin Channels
      /\ "handler" \in Agents /\ "handler" \notin Channels
  BY AgentFacts
<1>9. CASE \E u \in Users : Sections(u)
  BY <1>2, <1>8, <1>9
<1>10. CASE Sections("loop") \/ Sections("handler")
  BY <1>2, <1>8, <1>10
<1>11. CASE \E c \in Channels : Writer(c)
  BY <1>3, <1>11
<1>12. CASE \E t \in Victims : Signal(t)
  BY <1>6, <1>12
<1>13. CASE \E u \in Users, c \in Channels : LogCall(u, c)
  BY <1>7, <1>13
<1> QED
  BY <1>1, <1>4, <1>5, <1>9, <1>10, <1>11, <1>12, <1>13 DEF Next, Handler

\* The invariant holds in every run of the logger.
LEMMA AlwaysSound == Spec => []Sound
<1>1. Init => Sound
  BY InitGood DEF Sound
<1>2. Sound /\ [Next]_vars => Sound'
  BY NextSound
<1> QED
  BY <1>1, <1>2, PTL DEF Spec

\* Whoever logs, whatever a signal interrupts and however pushLog, syncLoop,
\* pushLogBuffer and the writers interleave, no line is lost or doubled on its
\* way through log.cc, and lines stay in the order of the calls, except on the
\* rpc channel after a signal.
THEOREM LinesStayInOrder == Spec => []LinesInOrder
<1>1. Sound => LinesInOrder
  BY Zenon DEF Sound, Good, OrderedAt, Exact, Complete, LinesInOrder
<1> QED
  BY <1>1, AlwaysSound, PTL

\* A writer of AsyncLogger::Loop never sleeps on a queue that has a buffer, so
\* no pthread_cond_signal of pushLogBuffer is lost, and it returns only if
\* Logger::flush told it to stop after a signal.
NoLostWakeUp ==
  ~raced => \A c \in Channels :
    /\ Asleep(c) => queue[c] = <<>>
    /\ (type = 1 /\ todo[c] = <<>>) => (stop[c] /\ victim # None)

\* In every run a sleeping writer has nothing to print, and a writer that has
\* returned was told to by the handler.
THEOREM SleepersHaveNothing == Spec => []NoLostWakeUp
<1>1. ASSUME Sound, ~raced, NEW c \in Channels, Asleep(c) PROVE queue[c] = <<>>
  <2>1. Writes(todo[c], c) /\ WaitsAt(c)
    BY <1>1 DEF Sound, Good, LoggerInv, Shapes
  <2>2. todo[c] # <<>> /\ Head(todo[c]).op = "asleep"
    BY <1>1 DEF Asleep
  <2>3. todo[c] = <<Do("asleep", BackMutex(c))>>
    <3> DEFINE b == BackMutex(c)
    <3>1. CASE \E l \in Seq(Nat) : todo[c] = <<Op("print", b, l)>>
      BY <2>2, <3>1 DEF Op
    <3>2. CASE todo[c] = <<Do("unlock", b), Do("pop", b)>>
      BY <2>2, <3>2 DEF Do, Op
    <3>3. CASE \E x \in {"pop", "wait", "asleep", "unlock"} : todo[c] = <<Do(x, b)>>
      BY <2>2, <3>3, WriterDistinct
    <3> QED
      BY <2>1, <2>2, <3>1, <3>2, <3>3 DEF Writes
  <2> QED
    BY <2>1, <2>3 DEF WaitsAt
<1>2. ASSUME Sound, ~raced, NEW c \in Channels, type = 1, todo[c] = <<>>
      PROVE  stop[c] /\ victim # None
  BY <1>2 DEF Sound, Good, LoggerInv, WaitsAt
<1>3. Sound => NoLostWakeUp
  BY <1>1, <1>2 DEF NoLostWakeUp
<1> QED
  BY <1>3, AlwaysSound, PTL

\* A ScopeMutex that is unlocked twice never leaves a mutex locked for good: a
\* locked mutex has exactly one thread in its section, and that thread has an
\* unlock or a wait on it still to do.
NoMutexForgotten ==
  ~raced => \A m \in locked :
    \E a \in inside[m] : inside[m] = {a} /\ WillLeave(todo[a], m)

\* In every run a locked mutex has one owner, who is on the way out.
THEOREM MutexesAreFreed == Spec => []NoMutexForgotten
<1>1. ASSUME Sound, ~raced, NEW m \in locked
      PROVE  \E a \in inside[m] : inside[m] = {a} /\ WillLeave(todo[a], m)
  <2>1. LoggerInv
    BY <1>1 DEF Sound, Good
  <2>2. m \in Mutexes /\ inside[m] # {}
    BY <2>1 DEF LoggerInv, Types, LockedInside
  <2>3. PICK a : a \in inside[m]
    BY <2>2
  <2>4. \A b \in inside[m] : b = a
    BY <2>1, <2>2, <2>3 DEF LoggerInv, OneInside
  <2>5. inside[m] = {a}
    BY <2>3, <2>4
  <2> QED
    BY <2>1, <2>2, <2>3, <2>5 DEF LoggerInv, AllLeave
<1>2. Sound => NoMutexForgotten
  BY <1>1 DEF NoMutexForgotten
<1> QED
  BY <1>2, AlwaysSound, PTL

(***************************************************************************)
(* The end of the process                                                  *)
(***************************************************************************)

\* CoredumpHandler raises the signal again only after flush() has joined both writers:
\* the process does not end while one that is not under the handler itself is printing,
\* waiting or about to look at its queue.
WritersJoined == dead => \A c \in Channels : todo[c] = <<>> \/ c = victim

\* The writer of c has still to be joined.
JoinsLeft(s, c) == \E i \in DOMAIN s : s[i].op = "join" /\ s[i].m = BackMutex(c)

\* The signal is raised last.
RaisesLast(s) == \A i \in DOMAIN s : s[i].op = "raise" => i = Len(s)

\* A writer the handler will not join any more has returned, or cannot.
JoinInv ==
  /\ victim # None => \A c \in Channels :
       JoinsLeft(todo["handler"], c) \/ todo[c] = <<>> \/ c = victim
  /\ RaisesLast(todo["handler"])
  /\ dead => victim # None /\ todo["handler"] = <<>>

\* The rest of a list.
LEMMA TailJoins ==
  ASSUME NEW s \in Seq(Ops), s # <<>>
  PROVE  /\ RaisesLast(s) => RaisesLast(Tail(s))
         /\ \A c : JoinsLeft(s, c) /\ ~(Head(s).op = "join" /\ Head(s).m = BackMutex(c))
                     => JoinsLeft(Tail(s), c)
<1> DEFINE t == Tail(s)
           n == Len(s)
<1>1. /\ n \in Nat /\ n >= 1 /\ DOMAIN s = 1..n /\ DOMAIN t = 1..(n - 1)
      /\ \A i \in 1..(n - 1) : t[i] = s[i + 1]
      /\ Head(s) = s[1] /\ t \in Seq(Ops)
  BY TailFacts
<1>2. Len(t) = n - 1
  BY HeadTailProperties
<1> HIDE DEF t, n
<1>3. ASSUME RaisesLast(s), NEW i \in DOMAIN t, t[i].op = "raise" PROVE i = Len(t)
  <2>1. i + 1 \in DOMAIN s /\ s[i + 1].op = "raise"
    BY <1>1, <1>3
  <2>2. i + 1 = n
    BY <1>3, <2>1 DEF RaisesLast, n
  <2> QED
    BY <1>1, <1>2, <2>2
<1>4. ASSUME NEW c, NEW i \in DOMAIN s, s[i].op = "join", s[i].m = BackMutex(c),
             ~(Head(s).op = "join" /\ Head(s).m = BackMutex(c))
      PROVE  JoinsLeft(t, c)
  <2>1. i # 1
    BY <1>1, <1>4
  <2>2. i - 1 \in DOMAIN t /\ t[i - 1] = s[i]
    BY <1>1, <2>1
  <2> QED
    BY <1>4, <2>2 DEF JoinsLeft
<1> QED
  BY <1>3, <1>4 DEF RaisesLast, JoinsLeft, t

\* What is put in front neither joins nor raises.
LEMMA CatJoins ==
  ASSUME NEW x \in Seq(Ops), NEW y \in Seq(Ops),
         \A i \in DOMAIN x : x[i].op \notin {"join", "raise"}
  PROVE  /\ RaisesLast(y) => RaisesLast(x \o y)
         /\ \A c : JoinsLeft(y, c) => JoinsLeft(x \o y, c)
<1> DEFINE z == x \o y
           n == Len(x)
           k == Len(y)
<1>1. /\ z \in Seq(Ops) /\ n \in Nat /\ k \in Nat /\ Len(z) = n + k
      /\ DOMAIN x = 1..n /\ DOMAIN y = 1..k /\ DOMAIN z = 1..(n + k)
      /\ \A i \in 1..n : z[i] = x[i]
      /\ \A i \in 1..k : z[n + i] = y[i]
  BY CatFacts, ConcatProperties, LenProperties
<1> HIDE DEF z, n, k
<1>2. ASSUME RaisesLast(y), NEW i \in DOMAIN z, z[i].op = "raise" PROVE i = Len(z)
  <2>1. i \notin 1..n
    BY <1>1, <1>2
  <2>2. i - n \in 1..k /\ z[i] = y[i - n]
    <3>1. i - n \in 1..k /\ n + (i - n) = i
      BY <1>1, <1>2, <2>1
    <3> QED
      BY <1>1, <3>1
  <2>3. i - n = k
    BY <1>1, <1>2, <2>2 DEF RaisesLast, k
  <2> QED
    BY <1>1, <1>2, <2>3
<1>3. ASSUME NEW c, NEW i \in DOMAIN y, y[i].op = "join", y[i].m = BackMutex(c)
      PROVE  JoinsLeft(z, c)
  <2>1. n + i \in DOMAIN z /\ z[n + i] = y[i]
    BY <1>1, <1>3
  <2> QED
    BY <1>3, <2>1 DEF JoinsLeft
<1> QED
  BY <1>2, <1>3 DEF RaisesLast, JoinsLeft, z

\* What syncLoop does after a swap.
LEMMA AfterSwapOps ==
  ASSUME NEW c \in Channels, NEW l \in Seq(Nat)
  PROVE  /\ AfterSwap(c, l) \in Seq(Ops)
         /\ \A i \in DOMAIN AfterSwap(c, l) : AfterSwap(c, l)[i].op \notin {"join", "raise"}
<1> DEFINE ur == Do("unlock", FrontMutex("rpc"))
           p == Op("push", BackMutex(c), l)
           u == Do("unlock", BackMutex(c))
           x == <<ur>>
           y == IF l = <<>> THEN <<>> ELSE <<p, u, u>>
<1>1. /\ ur \in Ops /\ ur.op = "unlock" /\ p \in Ops /\ p.op = "push"
      /\ u \in Ops /\ u.op = "unlock"
  <2>1. <<>> \in Seq(Nat) /\ FrontMutex("rpc") \in Mutexes /\ BackMutex(c) \in Mutexes
    BY EmptySeq, MutexFacts
  <2> QED
    BY <2>1 DEF Op, Do, Ops, Names
<1>2. AfterSwap(c, l) = x \o y
  BY Zenon DEF AfterSwap, PushLogBuffer
<1> HIDE DEF ur, p, u
<1>3. /\ x \in Seq(Ops) /\ \A i \in DOMAIN x : x[i].op \notin {"join", "raise"}
      /\ y \in Seq(Ops) /\ \A i \in DOMAIN y : y[i].op \notin {"join", "raise"}
  BY <1>1
<1> HIDE DEF x, y
<1>4. /\ x \o y \in Seq(Ops) /\ Len(x) \in Nat /\ Len(y) \in Nat
      /\ DOMAIN x = 1..Len(x) /\ DOMAIN y = 1..Len(y)
      /\ DOMAIN (x \o y) = 1..(Len(x) + Len(y))
      /\ \A i \in 1..Len(x) : (x \o y)[i] = x[i]
      /\ \A i \in 1..Len(y) : (x \o y)[Len(x) + i] = y[i]
  BY <1>3, CatFacts, LenProperties
<1>5. ASSUME NEW i \in DOMAIN (x \o y) PROVE (x \o y)[i].op \notin {"join", "raise"}
  <2>1. CASE i \in 1..Len(x)
    BY <1>3, <1>4, <2>1
  <2>2. CASE i \notin 1..Len(x)
    <3>1. i - Len(x) \in 1..Len(y) /\ Len(x) + (i - Len(x)) = i
      BY <1>4, <1>5, <2>2
    <3> QED
      BY <1>3, <1>4, <3>1
  <2> QED
    BY <2>1, <2>2
<1> QED
  BY <1>2, <1>4, <1>5

\* The handler joins both writers, and raises last.
LEMMA HandlerJoins ==
  /\ RaisesLast(CoredumpHandler)
  /\ \A c \in Channels : JoinsLeft(CoredumpHandler, c)
<1> DEFINE br == BackMutex("rpc")
           ba == BackMutex("app")
           s == <<Do("stop", br), Do("stop", ba), Do("join", br), Do("join", ba),
                  Do("raise", br)>>
           p == PushLog("rpc")
           q == SyncLoop
<1>1. br \in Mutexes /\ ba \in Mutexes /\ "rpc" \in Channels /\ Channels = {"rpc", "app"}
  BY MutexFacts
<1>2. \A m \in Mutexes :
        /\ Do("stop", m) \in Ops /\ Do("stop", m).op = "stop"
        /\ Do("join", m) \in Ops /\ Do("join", m).op = "join" /\ Do("join", m).m = m
        /\ Do("raise", m) \in Ops /\ Do("raise", m).op = "raise"
  <2>1. <<>> \in Seq(Nat)
    BY EmptySeq
  <2> QED
    BY <2>1 DEF Op, Do, Ops, Names
<1>3. /\ s \in Seq(Ops) /\ DOMAIN s = 1..5 /\ Len(s) = 5
      /\ s[3].op = "join" /\ s[3].m = br /\ s[4].op = "join" /\ s[4].m = ba
      /\ s[1].op = "stop" /\ s[2].op = "stop"
  <2> HIDE DEF br, ba
  <2> QED
    BY <1>1, <1>2
<1> HIDE DEF s
<1>4. RaisesLast(s) /\ \A c \in Channels : JoinsLeft(s, c)
  <2>1. RaisesLast(s)
    BY <1>3 DEF RaisesLast
  <2>2. 3 \in DOMAIN s /\ 4 \in DOMAIN s
    BY <1>3
  <2>3. JoinsLeft(s, "rpc") /\ JoinsLeft(s, "app")
    BY <1>3, <2>2 DEF JoinsLeft
  <2> QED
    BY <1>1, <2>1, <2>3
<1>5. /\ p \in Seq(Ops) /\ \A i \in DOMAIN p : p[i].op \notin {"join", "raise"}
  BY <1>1, PushLogFacts
<1>6. /\ q \in Seq(Ops) /\ \A i \in DOMAIN q : q[i].op \notin {"join", "raise"}
  <2> DEFINE a == Do("swap", FrontMutex("rpc"))
             b == Do("swap", FrontMutex("app"))
             d == Do("unlock", FrontMutex("app"))
             e == Do("unlock", FrontMutex("rpc"))
  <2>1. a.op = "swap" /\ b.op = "swap" /\ d.op = "unlock" /\ e.op = "unlock"
    BY DEF Do, Op
  <2>2. q = <<a, b, d, e>>
    BY Zenon DEF SyncLoop
  <2> HIDE DEF a, b, d, e
  <2>3. \A i \in DOMAIN <<a, b, d, e>> : <<a, b, d, e>>[i].op \notin {"join", "raise"}
    BY <2>1
  <2> QED
    BY <2>2, <2>3, SyncLoopFacts
<1>7. CoredumpHandler = (p \o q) \o s
  BY HandlerList, Zenon DEF s
<1> HIDE DEF p, q
<1>8. (p \o q) \o s = p \o (q \o s)
  BY <1>3, <1>5, <1>6, ConcatAssociative
<1>9. q \o s \in Seq(Ops) /\ RaisesLast(q \o s) /\ \A c \in Channels : JoinsLeft(q \o s, c)
  BY <1>3, <1>4, <1>6, CatJoins, CatFacts
<1>10. RaisesLast(p \o (q \o s)) /\ \A c \in Channels : JoinsLeft(p \o (q \o s), c)
  BY <1>5, <1>9, CatJoins
<1> QED
  BY <1>7, <1>8, <1>10

\* A step that is not the handler's, and that gives no writer that has returned anything
\* to do.
LEMMA JoinRests ==
  ASSUME JoinInv, UNCHANGED <<victim, dead>>,
         todo'["handler"] = todo["handler"],
         \A c \in Channels : todo[c] = <<>> => todo'[c] = <<>>
  PROVE  JoinInv'
BY DEF JoinInv, RaisesLast, JoinsLeft

\* A step of the handler, which joins a writer only if that has returned or is under it.
LEMMA JoinMoves ==
  ASSUME LoggerInv, JoinInv, ~dead, UNCHANGED <<victim, dead>>,
         todo["handler"] # <<>>,
         NEW p \in Seq(Ops), \A i \in DOMAIN p : p[i].op \notin {"join", "raise"},
         todo'["handler"] = p \o Tail(todo["handler"]),
         \A c \in Channels : todo[c] = <<>> => todo'[c] = <<>>,
         \A c \in Channels :
           Head(todo["handler"]).op = "join" /\ Head(todo["handler"]).m = BackMutex(c)
             => todo[c] = <<>> \/ c = victim
  PROVE  JoinInv'
<1> DEFINE s == todo["handler"]
           t == Tail(s)
           z == p \o t
<1>1. s \in Seq(Ops)
  BY AgentFacts DEF LoggerInv, Types
<1>2. t \in Seq(Ops)
  BY <1>1, TailFacts
<1>3. /\ RaisesLast(s)
      /\ victim # None => \A c \in Channels : JoinsLeft(s, c) \/ todo[c] = <<>> \/ c = victim
  BY DEF JoinInv
<1>4. /\ RaisesLast(t)
      /\ \A c \in Channels : JoinsLeft(s, c) /\ ~(Head(s).op = "join" /\ Head(s).m = BackMutex(c))
                     => JoinsLeft(t, c)
  BY <1>1, <1>3, TailJoins
<1> HIDE DEF t
<1>5. RaisesLast(z) /\ \A c : JoinsLeft(t, c) => JoinsLeft(z, c)
  BY <1>2, <1>4, CatJoins
<1>6. todo'["handler"] = z
  BY DEF t
<1> HIDE DEF z, s
<1>7. ASSUME victim # None, NEW c \in Channels
      PROVE  JoinsLeft(z, c) \/ todo'[c] = <<>> \/ c = victim
  <2>1. CASE JoinsLeft(s, c) /\ ~(Head(s).op = "join" /\ Head(s).m = BackMutex(c))
    BY <1>4, <1>5, <2>1
  <2>2. CASE Head(s).op = "join" /\ Head(s).m = BackMutex(c)
    BY <2>2 DEF s
  <2>3. CASE todo[c] = <<>> \/ c = victim
    BY <2>3
  <2> QED
    BY <1>3, <1>7, <2>1, <2>2, <2>3
<1>8. RaisesLast(todo["handler"])'
  BY <1>5, <1>6 DEF RaisesLast
<1>9. \A c \in Channels : JoinsLeft(z, c) => JoinsLeft(todo["handler"], c)'
  BY <1>6 DEF JoinsLeft
<1> QED
  BY <1>7, <1>8, <1>9 DEF JoinInv

\* What a step in a section does to the lists.
LEMMA SectionsMove ==
  ASSUME LoggerInv, NEW a \in Agents, a \notin Channels, Sections(a)
  PROVE  /\ ~dead /\ UNCHANGED <<victim, dead>> /\ todo[a] # <<>>
         /\ Head(todo[a]).op \in {"unlock", "put", "swap", "push"}
         /\ \E p \in Seq(Ops) : /\ \A i \in DOMAIN p : p[i].op \notin {"join", "raise"}
                                /\ todo'[a] = p \o Tail(todo[a])
         /\ \A b \in Agents : b # a => \/ todo'[b] = todo[b]
                                       \/ b \in Channels /\ todo[b] # <<>>
<1>1. /\ ~dead /\ UNCHANGED <<victim, dead>> /\ todo[a] # <<>>
      /\ Head(todo[a]).op \in {"unlock", "put", "swap", "push"}
  BY DEF Sections, Unlock, Put, Swap, Push, At, Running
<1>2. /\ todo \in [Agents -> Seq(Ops)] /\ buffer \in [Channels -> Seq(Nat)]
  BY DEF LoggerInv, Types
<1>3. Channel(a) \in Channels
  <2>1. Mutex(a) \in Mutexes
    BY <1>1, HeadFacts
  <2> QED
    BY <2>1, MutexFacts DEF Channel
<1>4. ASSUME NEW p \in Seq(Ops), Go(a, p)
      PROVE  todo'[a] = p \o Tail(todo[a]) /\ \A b \in Agents : b # a => todo'[b] = todo[b]
  BY <1>2, <1>4 DEF Go
<1>5. CASE Unlock(a) \/ Put(a)
  <2>1. <<>> \in Seq(Ops) /\ \A i \in DOMAIN <<>> : <<>>[i].op \notin {"join", "raise"}
    OBVIOUS
  <2>2. Go(a, <<>>)
    BY <1>5 DEF Unlock, Put
  <2>3. PICK p \in Seq(Ops) : p = <<>>
    BY <2>1
  <2>4. Go(a, p)
    BY <2>2, <2>3
  <2>5. todo'[a] = p \o Tail(todo[a]) /\ \A b \in Agents : b # a => todo'[b] = todo[b]
    BY <1>4, <2>4
  <2> QED
    BY <1>1, <2>1, <2>3, <2>5
<1>6. CASE Swap(a)
  <2> DEFINE p == AfterSwap(Channel(a), buffer[Channel(a)])
  <2>1. Go(a, p)
    BY <1>6 DEF Swap
  <2>2. p \in Seq(Ops) /\ \A i \in DOMAIN p : p[i].op \notin {"join", "raise"}
    BY <1>2, <1>3, AfterSwapOps
  <2> HIDE DEF p
  <2>3. todo'[a] = p \o Tail(todo[a]) /\ \A b \in Agents : b # a => todo'[b] = todo[b]
    BY <1>4, <2>1, <2>2
  <2> QED
    BY <1>1, <2>2, <2>3
<1>7. CASE Push(a)
  <2> DEFINE d == Channel(a)
             t == Tail(todo[a])
             f == [todo EXCEPT ![a] = t]
             l == Loop(d)
  <2>1. todo' = IF Asleep(d) THEN [f EXCEPT ![d] = l] ELSE f
    BY <1>7, Zenon DEF Push, Woken
  <2>2. Asleep(d) => todo[d] # <<>>
    BY DEF Asleep
  <2>3. d \in Channels /\ d \in Agents /\ d # a
    BY <1>3, AgentFacts
  <2> HIDE DEF d, l, t
  <2>4. /\ DOMAIN f = Agents /\ f[a] = t
        /\ \A b \in Agents : b # a => f[b] = todo[b]
    BY <1>2
  <2> HIDE DEF f
  <2>5. todo'[a] = t /\ \A b \in Agents : b # a => \/ todo'[b] = todo[b]
                                                   \/ b \in Channels /\ todo[b] # <<>>
    BY <2>1, <2>2, <2>3, <2>4
  <2>6. <<>> \in Seq(Ops) /\ (\A i \in DOMAIN <<>> : <<>>[i].op \notin {"join", "raise"})
        /\ t = <<>> \o t
    BY <1>1, <1>2, TailFacts DEF t
  <2>7. PICK p \in Seq(Ops) : p = <<>>
    BY <2>6
  <2>8. (\A i \in DOMAIN p : p[i].op \notin {"join", "raise"}) /\ todo'[a] = p \o t
    BY <2>5, <2>6, <2>7
  <2> QED
    BY <1>1, <2>5, <2>8 DEF t
<1> QED
  BY <1>5, <1>6, <1>7 DEF Sections

\* No step of the handler skips a writer, and none of the others starts one again.
LEMMA JoinStep == Sound /\ JoinInv /\ [Next]_vars => JoinInv'
<1> SUFFICES ASSUME Sound, JoinInv, [Next]_vars PROVE JoinInv'
  OBVIOUS
<1>0. /\ "handler" \in Agents /\ "handler" \notin Channels
      /\ "loop" \in Agents /\ "loop" \notin Channels /\ "loop" # "handler"
      /\ \A u \in Users : u \in Agents /\ u \notin Channels /\ u # "handler"
      /\ \A c \in Channels : c \in Agents
  BY AgentFacts
<1>1. ~raced => LoggerInv /\ todo \in [Agents -> Seq(Ops)]
  BY DEF Sound, Good, LoggerInv, Types
<1>2. CASE UNCHANGED vars
  BY <1>2, JoinRests DEF vars
<1>3. ASSUME NEW a \in Agents, a \notin Channels, Sections(a) PROVE JoinInv'
  <2>1. LoggerInv
    BY <1>1, <1>3 DEF Sections, Unlock, Put, Swap, Push, At, Running
  <2>2. /\ ~dead /\ UNCHANGED <<victim, dead>> /\ todo[a] # <<>>
        /\ Head(todo[a]).op \in {"unlock", "put", "swap", "push"}
        /\ \E p \in Seq(Ops) : /\ \A i \in DOMAIN p : p[i].op \notin {"join", "raise"}
                               /\ todo'[a] = p \o Tail(todo[a])
        /\ \A b \in Agents : b # a => \/ todo'[b] = todo[b]
                                      \/ b \in Channels /\ todo[b] # <<>>
    BY <1>3, <2>1, SectionsMove
  <2>3. \A c \in Channels : todo[c] = <<>> => todo'[c] = <<>>
    BY <1>0, <1>3, <2>2
  <2>4. CASE a = "handler"
    <3>1. PICK p \in Seq(Ops) : /\ \A i \in DOMAIN p : p[i].op \notin {"join", "raise"}
                                /\ todo'["handler"] = p \o Tail(todo["handler"])
      BY <2>2, <2>4
    <3>2. todo["handler"] # <<>> /\ Head(todo["handler"]).op # "join"
      BY <2>2, <2>4
    <3> QED
      BY <2>1, <2>2, <2>3, <3>1, <3>2, JoinMoves
  <2>5. CASE a # "handler"
    BY <1>0, <2>2, <2>3, <2>5, JoinRests
  <2> QED
    BY <2>4, <2>5
<1>4. ASSUME NEW c \in Channels, Writer(c) PROVE JoinInv'
  <2>1. ~raced /\ todo[c] # <<>> /\ UNCHANGED <<victim, dead>> /\ \E p : Go(c, p)
    BY <1>4 DEF Writer, Unlock, Pop, CondWait, PrintLines, At, Running
  <2>2. PICK p : todo' = [todo EXCEPT ![c] = p \o Tail(todo[c])]
    BY <2>1 DEF Go
  <2>3. \A b \in Agents : b # c => todo'[b] = todo[b]
    BY <1>1, <2>1, <2>2
  <2> QED
    BY <1>0, <2>1, <2>3, JoinRests
<1>5. CASE Stop \/ Join
  <2>1. /\ ~raced /\ ~dead /\ UNCHANGED <<victim, dead>> /\ todo["handler"] # <<>>
        /\ Go("handler", <<>>)
    BY <1>5 DEF Stop, Join, At, Running
  <2>2. PICK p \in Seq(Ops) : p = <<>>
    BY EmptySeq
  <2>3. \A i \in DOMAIN p : p[i].op \notin {"join", "raise"}
    BY <2>2
  <2>4. /\ todo'["handler"] = p \o Tail(todo["handler"])
        /\ \A b \in Agents : b # "handler" => todo'[b] = todo[b]
    BY <1>0, <1>1, <2>1, <2>2 DEF Go
  <2>5. ASSUME NEW c \in Channels, Head(todo["handler"]).op = "join",
               Head(todo["handler"]).m = BackMutex(c)
        PROVE  todo[c] = <<>> \/ c = victim
    <3>1. Join
      BY <1>5, <2>5 DEF Stop, At
    <3>2. Channel("handler") = c
      BY <2>5, MutexFacts DEF Channel, Mutex
    <3> QED
      BY <3>1, <3>2 DEF Join
  <2>6. \A c \in Channels : todo[c] = <<>> => todo'[c] = <<>>
    BY <1>0, <2>4
  <2> QED
    BY <1>1, <2>1, <2>3, <2>4, <2>5, <2>6, JoinMoves
<1>6. CASE Raise
  <2> DEFINE s == todo["handler"]
  <2>1. /\ ~raced /\ s # <<>> /\ Head(s).op = "raise" /\ victim' = victim
        /\ todo' = [todo EXCEPT !["handler"] = <<>> \o Tail(s)]
    BY <1>6 DEF Raise, At, Running, Go
  <2>2. LoggerInv /\ s \in Seq(Ops)
    BY <1>0, <1>1, <2>1
  <2>3. victim # None
    BY <2>1, <2>2 DEF LoggerInv
  <2>4. /\ Len(s) \in Nat /\ DOMAIN s = 1..Len(s) /\ Head(s) = s[1] /\ 1 \in DOMAIN s
        /\ <<>> \o Tail(s) = Tail(s) /\ Tail(s) \in Seq(Ops) /\ Len(Tail(s)) = Len(s) - 1
    BY <2>1, <2>2, TailFacts, HeadTailProperties
  <2>5. RaisesLast(s)
    BY DEF JoinInv
  <2>6. Len(s) = 1
    BY <2>1, <2>4, <2>5 DEF RaisesLast
  <2>7. Tail(s) = <<>>
    <3>1. PICK t \in Seq(Ops) : t = Tail(s)
      BY <2>4
    <3>2. Len(t) = 0
      BY <2>4, <2>6, <3>1
    <3>3. t = <<>>
      BY <3>2, EmptySeq
    <3> QED
      BY <3>1, <3>3
  <2>8. \A c : ~JoinsLeft(s, c)
    BY <2>1, <2>4, <2>6 DEF JoinsLeft
  <2>9. todo'["handler"] = <<>> /\ \A b \in Agents : b # "handler" => todo'[b] = todo[b]
    BY <1>0, <1>1, <2>1, <2>4, <2>7
  <2>10. \A c \in Channels : todo'[c] = <<>> \/ c = victim'
    BY <1>0, <2>1, <2>3, <2>8, <2>9 DEF JoinInv
  <2>11. RaisesLast(todo["handler"])'
    BY <2>9 DEF RaisesLast
  <2> QED
    BY <2>1, <2>3, <2>9, <2>10, <2>11 DEF JoinInv
<1>7. CASE SyncTimer
  <2>1. ~raced /\ UNCHANGED <<victim, dead>> /\ todo' = [todo EXCEPT !["loop"] = SyncLoop]
    BY <1>7 DEF SyncTimer, Running
  <2>2. \A b \in Agents : b # "loop" => todo'[b] = todo[b]
    BY <1>1, <2>1
  <2> QED
    BY <1>0, <2>1, <2>2, JoinRests
<1>8. ASSUME NEW t \in Victims, Signal(t) PROVE JoinInv'
  <2>1. ~raced /\ ~dead' /\ todo' = [todo EXCEPT !["handler"] = CoredumpHandler]
    BY <1>8 DEF Signal, Running
  <2>2. todo'["handler"] = CoredumpHandler
    BY <1>0, <1>1, <2>1
  <2>3. RaisesLast(todo["handler"])' /\ \A c \in Channels : JoinsLeft(todo["handler"], c)'
    BY <2>2, HandlerJoins DEF RaisesLast, JoinsLeft
  <2> QED
    BY <2>1, <2>3 DEF JoinInv
<1>9. ASSUME NEW u \in Users, NEW c \in Channels, LogCall(u, c) PROVE JoinInv'
  <2>1. ~raced /\ UNCHANGED <<victim, dead>>
        /\ (todo' = todo \/ todo' = [todo EXCEPT ![u] = PushLog(c)])
    BY <1>9 DEF LogCall, Running
  <2>2. \A b \in Agents : b # u => todo'[b] = todo[b]
    BY <1>1, <2>1
  <2> QED
    BY <1>0, <2>1, <2>2, JoinRests
<1>10. CASE \E u \in Users : Sections(u)
  BY <1>0, <1>3, <1>10
<1>11. CASE Sections("loop") \/ Sections("handler")
  BY <1>0, <1>3, <1>11
<1>12. CASE \E c \in Channels : Writer(c)
  BY <1>4, <1>12
<1>13. CASE \E t \in Victims : Signal(t)
  BY <1>8, <1>13
<1>14. CASE \E u \in Users, c \in Channels : LogCall(u, c)
  BY <1>9, <1>14
<1> QED
  BY <1>2, <1>5, <1>6, <1>7, <1>10, <1>11, <1>12, <1>13, <1>14 DEF Next, Handler

\* However a signal and the writers interleave, the process ends only when both writers
\* have returned, or the one the signal interrupted cannot.
THEOREM EndsAfterWriters == Spec => []WritersJoined
<1>1. Init => JoinInv
  <2> SUFFICES ASSUME Init PROVE JoinInv
    OBVIOUS
  <2>1. victim = None /\ ~dead
    BY DEF Init
  <2>2. todo["handler"] = <<>>
    BY InitGood, <2>1 DEF Good, LoggerInv
  <2> QED
    BY <2>1, <2>2 DEF JoinInv, RaisesLast
<1>2. JoinInv => WritersJoined
  BY DEF JoinInv, JoinsLeft, WritersJoined
<1> QED
  BY <1>1, <1>2, JoinStep, AlwaysSound, PTL DEF Spec

=============================================================================
