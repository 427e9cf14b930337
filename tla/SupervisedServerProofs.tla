----------------------- MODULE SupervisedServerProofs -----------------------
(***************************************************************************)
(* Theorems about SupervisedServer, for any set of requests, any sizes of  *)
(* packages and kernel buffers, and any number of restarts.                *)
(***************************************************************************)
EXTENDS SupervisedServer, SequenceTheorems, WellFoundedInduction, TLAPS

(***************************************************************************)
(* Where start() is tells whether a server may run: none does before the   *)
(* fork and after the wait, and only the last one may in between.  A       *)
(* supervisor that was interrupted is gone, and so forks no more.          *)
(***************************************************************************)
ServerInv ==
  /\ starts \in Nat
  /\ live \subseteq {starts}
  /\ sup \in {"boot", "ready", "reaped"} => live = {}
  /\ ended = "interrupted" => live = {} /\ sup = "gone"

\* No server runs before start().
LEMMA SupInitInv == Sup!Init => ServerInv
BY DEF Sup!Init, ServerInv

\* Every step of the supervisor, of a signal and of a server preserves it.
LEMMA SupNextInv == ServerInv /\ Sup!Next => ServerInv'
<1> SUFFICES ASSUME ServerInv, Sup!Next PROVE ServerInv'
  OBVIOUS
<1> USE DEF ServerInv
<1>1. CASE Sup!Start
  BY <1>1 DEF Sup!Start, Sup!UsedUp, Sup!End
<1>2. CASE Sup!Fork
  <2>1. live = {} /\ sup = "ready" /\ ended # "interrupted" /\ starts \in Nat
    BY <1>2 DEF Sup!Fork
  <2>2. CASE Sup!End("failed") /\ UNCHANGED <<starts, live>>
    BY <2>1, <2>2 DEF Sup!End
  <2>3. CASE /\ sup' = "forked" /\ starts' = starts + 1
             /\ live' = live \cup {starts + 1}
             /\ UNCHANGED <<zombie, ended>>
    <3>1. live' = {starts'} /\ starts' \in Nat
      BY <2>1, <2>3
    <3> QED
      BY <2>1, <2>3, <3>1
  <2> QED
    BY <1>2, <2>2, <2>3 DEF Sup!Fork
<1>3. CASE Sup!InstallHandler
  BY <1>3 DEF Sup!InstallHandler
<1>4. CASE Sup!WaitChild
  BY <1>4 DEF Sup!WaitChild
<1>5. CASE Sup!Exec
  BY <1>5 DEF Sup!Exec, Sup!End
<1>6. CASE Sup!SigChld
  BY <1>6 DEF Sup!SigChld
<1>7. CASE Sup!SigInt
  BY <1>7 DEF Sup!SigInt, Sup!End
<1>8. CASE Sup!Killed
  BY <1>8 DEF Sup!Killed, Sup!End
<1>9. ASSUME NEW i \in live, Sup!ServerEnds(i) PROVE ServerInv'
  BY <1>9 DEF Sup!ServerEnds
<1> QED
  BY <1>1, <1>2, <1>3, <1>4, <1>5, <1>6, <1>7, <1>8, <1>9
     DEF Sup!Next, Sup!Steps

\* Neither the client nor a server that runs changes the supervisor.
LEMMA StepInv == ServerInv /\ [SupervisedNext]_allVars => ServerInv'
<1> SUFFICES ASSUME ServerInv, [SupervisedNext]_allVars PROVE ServerInv'
  OBVIOUS
<1>1. CASE Supervises(Sup!Next)
  BY <1>1, SupNextInv DEF Supervises
<1>2. CASE UNCHANGED supVars
  BY <1>2 DEF supVars, ServerInv
<1>3. ASSUME NEW m \in Requests, Call(m) PROVE UNCHANGED supVars
  BY <1>3 DEF Call
<1>4. CASE Sends \/ Reads \/ ConnectionLost \/ ServerReads \/ ServerWrites
  <2>1. UNCHANGED supVars
    BY <1>4 DEF Sends, Reads, ConnectionLost, ServerReads, ServerWrites, supVars
  <2> QED
    BY <2>1, <1>2
<1>5. CASE UNCHANGED allVars
  BY <1>5, <1>2 DEF allVars
<1> QED
  BY <1>1, <1>2, <1>3, <1>4, <1>5 DEF SupervisedNext

\* The invariant holds throughout.
LEMMA ServerInvHolds == SupervisedSpec => []ServerInv
<1>1. SupervisedInit => ServerInv
  BY SupInitInv DEF SupervisedInit
<1> QED
  BY <1>1, StepInv, PTL DEF SupervisedSpec

\* HighAvai::start never has two servers at once, and leaves none behind when
\* handle_sigint ends it, for every restart_count_.
THEOREM NeverTwoServers == SupervisedSpec => []OneServer
<1>1. ServerInv => OneServer
  BY DEF ServerInv, OneServer, Sup!OneServer
<1> QED
  BY <1>1, ServerInvHolds, PTL

(***************************************************************************)
(* The cells of a sequence of packages                                     *)
(***************************************************************************)

\* A set of natural numbers that is not empty has a least element.
LEMMA LeastNatural ==
  ASSUME NEW T, T \subseteq Nat, T # {}
  PROVE  \E x \in T : \A y \in T : x <= y
<1> DEFINE R == {ss \in Nat \X Nat : ss[1] < ss[2]}
<1>1. IsWellFoundedOn(R, Nat)
  BY NatLessThanWellFounded DEF OpToRel
<1>2. \A x, y \in Nat : y < x => <<y, x>> \in R
  OBVIOUS
<1> HIDE DEF R
<1>3. PICK x \in T : \A y \in T : <<y, x>> \notin R
  BY <1>1, WFMin
<1>4. \A y \in T : ~(y < x)
  BY <1>2, <1>3
<1>5. \A y \in T : x <= y
  BY <1>4
<1> QED
  BY <1>5

\* The first m values of the function that FlattenSeq defines.
Flattens(g, q, m) ==
  g = [i \in 1..m |-> IF i = 1 THEN q[i] ELSE g[i - 1] \o q[i]]

\* There is such a function for every m: no m is the least for which there is none.
LEMMA FlattenExists ==
  ASSUME NEW q, NEW n \in Nat
  PROVE  \E g : Flattens(g, q, n)
<1> DEFINE Bad == {m \in Nat : ~ \E g : Flattens(g, q, m)}
<1>1. SUFFICES ASSUME Bad # {} PROVE FALSE
  OBVIOUS
<1>2. PICK m \in Bad : \A k \in Bad : m <= k
  <2>1. Bad \subseteq Nat
    OBVIOUS
  <2> HIDE DEF Bad
  <2> QED
    BY <1>1, <2>1, LeastNatural
<1>3. CASE m = 0
  <2> DEFINE e == [i \in 1..0 |-> 0]
  <2>1. e = [i \in 1..0 |-> IF i = 1 THEN q[i] ELSE e[i - 1] \o q[i]]
    OBVIOUS
  <2> QED
    BY <1>2, <1>3, <2>1 DEF Flattens
<1>4. CASE m # 0
  <2>1. m - 1 \in Nat /\ m - 1 \notin Bad /\ m \in Nat
    BY <1>2, <1>4
  <2>2. PICK g : Flattens(g, q, m - 1)
    BY <2>1
  <2> DEFINE h == [i \in 1..m |-> IF i < m THEN g[i]
                                  ELSE IF i = 1 THEN q[i] ELSE g[i - 1] \o q[i]]
  <2>3. ASSUME NEW i \in 1..m
        PROVE  h[i] = IF i = 1 THEN q[i] ELSE h[i - 1] \o q[i]
    <3>1. CASE i < m
      <4>1. i \in 1..(m - 1)
        BY <2>1, <3>1
      <4>2. g[i] = IF i = 1 THEN q[i] ELSE g[i - 1] \o q[i]
        BY <2>2, <4>1 DEF Flattens
      <4>3. i # 1 => i - 1 \in 1..m /\ i - 1 < m
        BY <2>1
      <4> QED
        BY <3>1, <4>2, <4>3
    <3>2. CASE ~(i < m)
      <4>1. i # 1 => i - 1 \in 1..m /\ i - 1 < m
        BY <2>1
      <4> QED
        BY <3>2, <4>1
    <3> QED
      BY <3>1, <3>2
  <2>4. h = [i \in 1..m |-> h[i]]
    OBVIOUS
  <2> HIDE DEF h
  <2>5. h = [i \in 1..m |-> IF i = 1 THEN q[i] ELSE h[i - 1] \o q[i]]
    BY <2>3, <2>4
  <2> QED
    BY <1>2, <2>5 DEF Flattens
<1> QED
  BY <1>3, <1>4

\* FlattenSeq is the last value of that function.
LEMMA FlattenLast ==
  ASSUME NEW q, Len(q) \in Nat, Len(q) # 0
  PROVE  \E g : Flattens(g, q, Len(q)) /\ FlattenSeq(q) = g[Len(q)]
<1> DEFINE n == Len(q)
           g == CHOOSE g : Flattens(g, q, n)
<1>1. Flattens(g, q, n)
  BY FlattenExists
<1>2. FlattenSeq(q) = g[n]
  BY DEF FlattenSeq, Flattens
<1> QED
  BY <1>1, <1>2

\* A package has Parts cells of its request.
LEMMA PackageFacts ==
  ASSUME NEW m \in Requests
  PROVE  /\ Package(m, "request") \in Seq(Cells)
         /\ Len(Package(m, "request")) = Parts
         /\ Package(m, "request")[Parts].msg = m
         /\ Parts \in Nat /\ Parts >= 1
<1> DEFINE c(i) == [msg |-> m, status |-> "request", part |-> i]
<1>1. Parts \in Nat /\ Parts >= 1 /\ Parts \in 1..Parts
  BY TcpExchangeAssumption
<1>2. \A i \in 1..Parts : c(i) \in Cells /\ c(i).msg = m
  BY DEF Cells
<1>3. Package(m, "request") = [i \in 1..Parts |-> c(i)]
  BY DEF Package
<1> HIDE DEF c
<1> QED
  BY <1>1, <1>2, <1>3

\* No request, no cell.
LEMMA EncodeNothing == Encode(<<>>, "request") = <<>>
<1> DEFINE q == [i \in DOMAIN <<>> |-> Package(<<>>[i], "request")]
<1>1. q = <<>>
  OBVIOUS
<1>2. Encode(<<>>, "request") = FlattenSeq(q)
  BY DEF Encode
<1> HIDE DEF q
<1>3. FlattenSeq(<<>>) = <<>>
  BY DEF FlattenSeq
<1> QED
  BY <1>1, <1>2, <1>3

\* The cells of s are those of a function that adds a package at a time.
LEMMA EncodeBySteps ==
  ASSUME NEW s \in Seq(Requests), s # <<>>
  PROVE  \E g : /\ Encode(s, "request") = g[Len(s)]
                /\ \A i \in 1..Len(s) :
                     g[i] = IF i = 1 THEN Package(s[i], "request")
                                     ELSE g[i - 1] \o Package(s[i], "request")
<1> DEFINE n == Len(s)
           q == [i \in DOMAIN s |-> Package(s[i], "request")]
<1>1. n \in Nat /\ n # 0 /\ DOMAIN s = 1..n
  OBVIOUS
<1>2. Len(q) = n /\ \A i \in 1..n : q[i] = Package(s[i], "request")
  BY <1>1
<1>3. Encode(s, "request") = FlattenSeq(q)
  BY DEF Encode
<1> HIDE DEF q, n
<1>4. PICK g : Flattens(g, q, n) /\ FlattenSeq(q) = g[n]
  BY <1>1, <1>2, FlattenLast
<1>5. ASSUME NEW i \in 1..n
      PROVE  g[i] = IF i = 1 THEN Package(s[i], "request")
                             ELSE g[i - 1] \o Package(s[i], "request")
  <2> DEFINE T(j) == IF j = 1 THEN q[j] ELSE g[j - 1] \o q[j]
  <2>1. g = [j \in 1..n |-> T(j)]
    BY <1>4 DEF Flattens
  <2> HIDE DEF T
  <2>2. g[i] = T(i)
    BY <2>1
  <2>3. q[i] = Package(s[i], "request")
    BY <1>2
  <2> QED
    BY <2>2, <2>3, Zenon DEF T
<1> QED
  BY <1>3, <1>4, <1>5 DEF n

\* How many cells there are, and where each package ends.
LEMMA EncodeFacts ==
  ASSUME NEW s \in Seq(Requests)
  PROVE  /\ Encode(s, "request") \in Seq(Cells)
         /\ Len(Encode(s, "request")) = Len(s) * Parts
         /\ \A k \in 1..Len(s) : Encode(s, "request")[k * Parts].msg = s[k]
<1> DEFINE n == Len(s)
<1>0. Parts \in Nat /\ Parts >= 1 /\ n \in Nat /\ \A i \in 1..n : s[i] \in Requests
  BY TcpExchangeAssumption
<1>1. CASE s = <<>>
  <2>1. Encode(s, "request") = <<>> /\ Len(s) = 0
    BY <1>1, EncodeNothing
  <2>2. <<>> \in Seq(Cells) /\ Len(<<>>) = 0 /\ 0 * Parts = 0
    BY <1>0
  <2>3. 1..Len(s) = {}
    BY <2>1
  <2> QED
    BY <2>1, <2>2, <2>3, Zenon
<1>2. CASE s # <<>>
  <2>1. PICK g : /\ Encode(s, "request") = g[n]
                 /\ \A i \in 1..n : g[i] = IF i = 1 THEN Package(s[i], "request")
                                           ELSE g[i - 1] \o Package(s[i], "request")
    BY <1>2, EncodeBySteps
  <2>2. n # 0 /\ n \in 1..n
    BY <1>2
  <2> HIDE DEF n
  <2> DEFINE Good(i) == /\ g[i] \in Seq(Cells) /\ Len(g[i]) = i * Parts
                        /\ \A k \in 1..i : g[i][k * Parts].msg = s[k]
             Bad == {i \in 1..n : ~Good(i)}
  <2>3. CASE Bad = {}
    <3>1. Good(n)
      <4> HIDE DEF Good
      <4> QED
        BY <2>2, <2>3
    <3> QED
      BY <2>1, <3>1 DEF n
  <2>4. CASE Bad # {}
    <3>1. PICK i \in Bad : \A k \in Bad : i <= k
      <4>1. Bad \subseteq Nat
        BY <1>0
      <4> HIDE DEF Bad
      <4> QED
        BY <2>4, <4>1, LeastNatural
    <3>2. i \in 1..n /\ ~Good(i)
      BY <3>1
    <3> DEFINE p == Package(s[i], "request")
    <3>3. p \in Seq(Cells) /\ Len(p) = Parts /\ p[Parts].msg = s[i]
      BY <1>0, <3>2, PackageFacts
    <3> HIDE DEF p
    <3>4. CASE i = 1
      <4>1. g[i] = p
        BY <2>1, <3>2, <3>4 DEF p
      <4>2. i * Parts = Parts /\ \A k \in 1..i : k = 1 /\ k * Parts = Parts
        BY <1>0, <3>4
      <4>3. Good(i)
        BY <3>3, <3>4, <4>1, <4>2
      <4> QED
        BY <3>2, <4>3
    <3>5. CASE i # 1
      <4> DEFINE a == g[i - 1]
                 j == i - 1
      <4>1. j \in 1..n /\ ~(i <= j) /\ j \in Nat /\ i = j + 1
        BY <1>0, <3>2, <3>5
      <4>2. Good(j)
        <5> HIDE DEF Good
        <5> QED
          BY <3>1, <4>1
      <4>3. a \in Seq(Cells) /\ Len(a) = j * Parts /\ \A k \in 1..j : a[k * Parts].msg = s[k]
        BY <4>2
      <4>4. g[i] = a \o p
        BY <2>1, <3>2, <3>5 DEF p
      <4> HIDE DEF a, j, Good
      <4>5. /\ a \o p \in Seq(Cells) /\ Len(a \o p) = Len(a) + Len(p)
            /\ \A x \in 1..(Len(a) + Len(p)) :
                 (a \o p)[x] = IF x <= Len(a) THEN a[x] ELSE p[x - Len(a)]
        BY <3>3, <4>3, ConcatProperties
      <4>6. i * Parts = j * Parts + Parts /\ j * Parts \in Nat
        BY <1>0, <4>1
      <4>7. Len(g[i]) = i * Parts
        BY <3>3, <4>3, <4>4, <4>5, <4>6
      <4>8. ASSUME NEW k \in 1..i PROVE g[i][k * Parts].msg = s[k]
        <5>1. CASE k \in 1..j
          <6>1. k * Parts \in Nat /\ k * Parts >= 1 /\ k * Parts <= j * Parts
            BY <1>0, <4>1, <5>1
          <6>2. k * Parts \in 1..(Len(a) + Len(p)) /\ k * Parts <= Len(a)
            BY <1>0, <3>3, <4>3, <4>6, <6>1
          <6>3. (a \o p)[k * Parts] = a[k * Parts]
            BY <4>5, <6>2
          <6> QED
            BY <4>3, <4>4, <5>1, <6>3
        <5>2. CASE k = i
          <6>1. /\ k * Parts \in 1..(Len(a) + Len(p)) /\ ~(k * Parts <= Len(a))
                /\ k * Parts - Len(a) = Parts
            BY <1>0, <3>3, <4>3, <4>6, <5>2
          <6>2. (a \o p)[k * Parts] = p[Parts]
            BY <4>5, <6>1
          <6> QED
            BY <3>3, <4>4, <5>2, <6>2
        <5>3. k \in 1..j \/ k = i
          BY <4>1
        <5> QED
          BY <5>1, <5>2, <5>3
      <4>9. Good(i)
        BY <4>4, <4>5, <4>7, <4>8 DEF Good
      <4> QED
        BY <3>2, <4>9
    <3> QED
      BY <3>4, <3>5
  <2> QED
    BY <2>3, <2>4
<1> QED
  BY <1>1, <1>2

\* One more request is one more package at the end.
LEMMA EncodeAppend ==
  ASSUME NEW s \in Seq(Requests), NEW m \in Requests
  PROVE  Encode(Append(s, m), "request") = Encode(s, "request") \o Package(m, "request")
<1> DEFINE n == Len(s)
           t == Append(s, m)
           P(r) == Package(r, "request")
<1>1. n \in Nat /\ t \in Seq(Requests) /\ t # <<>> /\ Len(t) = n + 1 /\ t[n + 1] = m
      /\ \A i \in 1..n : t[i] = s[i]
  OBVIOUS
<1>2. PICK h : /\ Encode(t, "request") = h[n + 1]
               /\ \A i \in 1..(n + 1) : h[i] = IF i = 1 THEN P(t[i]) ELSE h[i - 1] \o P(t[i])
  <2>1. PICK h : /\ Encode(t, "request") = h[Len(t)]
                 /\ \A i \in 1..Len(t) : h[i] = IF i = 1 THEN P(t[i])
                                                ELSE h[i - 1] \o P(t[i])
    <3> HIDE DEF t
    <3> QED
      BY <1>1, EncodeBySteps
  <2>2. Len(t) = n + 1
    BY <1>1
  <2> HIDE DEF t, n, P
  <2> QED
    BY <2>1, <2>2
<1>3. n + 1 \in 1..(n + 1) /\ (n + 1) - 1 = n
  BY <1>1
<1>4. CASE s = <<>>
  <2>1. n = 0 /\ n + 1 = 1
    BY <1>4
  <2>2. Encode(t, "request") = P(m)
    BY <1>1, <1>2, <1>3, <2>1
  <2>3. Encode(s, "request") = <<>>
    BY <1>4, EncodeNothing
  <2>4. P(m) \in Seq(Cells)
    BY PackageFacts
  <2> QED
    BY <2>2, <2>3, <2>4, ConcatEmptySeq
<1>5. CASE s # <<>>
  <2>1. PICK g : /\ Encode(s, "request") = g[n]
                 /\ \A i \in 1..n : g[i] = IF i = 1 THEN P(s[i]) ELSE g[i - 1] \o P(s[i])
    BY <1>5, EncodeBySteps
  <2>2. n # 0 /\ n + 1 # 1
    BY <1>1, <1>5
  <2> HIDE DEF n, t, P
  <2> DEFINE Bad == {i \in 1..n : g[i] # h[i]}
  <2>3. CASE Bad = {}
    <3>1. g[n] = h[n]
      BY <1>1, <2>2, <2>3
    <3>2. h[n + 1] = h[n] \o P(m)
      <4>1. h[n + 1] = h[(n + 1) - 1] \o P(t[n + 1])
        BY <1>2, <1>3, <2>2
      <4> QED
        BY <1>1, <1>3, <4>1
    <3> QED
      BY <1>2, <2>1, <3>1, <3>2, Zenon DEF P, t
  <2>4. CASE Bad # {}
    <3>1. PICK i \in Bad : \A k \in Bad : i <= k
      <4>1. Bad \subseteq Nat
        BY <1>1
      <4> HIDE DEF Bad
      <4> QED
        BY <2>4, <4>1, LeastNatural
    <3>2. i \in 1..n /\ i \in 1..(n + 1) /\ g[i] # h[i] /\ t[i] = s[i]
      BY <1>1, <3>1
    <3>3. /\ g[i] = IF i = 1 THEN P(s[i]) ELSE g[i - 1] \o P(s[i])
          /\ h[i] = IF i = 1 THEN P(s[i]) ELSE h[i - 1] \o P(s[i])
      BY <1>2, <2>1, <3>2
    <3>4. i # 1 => g[i - 1] = h[i - 1]
      <4>1. i # 1 => i - 1 \in 1..n /\ ~(i <= i - 1)
        BY <1>1, <3>2
      <4> QED
        BY <3>1, <4>1
    <3> QED
      BY <3>2, <3>3, <3>4, Zenon
  <2> QED
    BY <2>3, <2>4
<1> QED
  BY <1>4, <1>5

\* The order that OutputIntact reads off the cells is the order of the requests.
LEMMA OrderIsSent ==
  ASSUME NEW s \in Seq(Requests), NEW q, q = Encode(s, "request")
  PROVE  [i \in 1..(Len(q) \div Parts) |-> q[i * Parts].msg] = s
<1> DEFINE n == Len(s)
           order == [i \in 1..(Len(q) \div Parts) |-> q[i * Parts].msg]
<1>1. n \in Nat /\ Parts \in Nat /\ Parts >= 1
  BY TcpExchangeAssumption
<1>2. Len(q) = n * Parts /\ \A k \in 1..n : q[k * Parts].msg = s[k]
  BY EncodeFacts
<1>3. (n * Parts) \div Parts = n
  <2> HIDE DEF n
  <2> QED
    BY <1>1
<1>4. Len(q) \div Parts = n
  BY <1>2, <1>3
<1>5. order = [i \in 1..n |-> q[i * Parts].msg]
  BY <1>4
<1>6. order = [i \in 1..n |-> s[i]]
  BY <1>2, <1>5
<1>7. s = [i \in 1..n |-> s[i]]
  OBVIOUS
<1> QED
  BY <1>6, <1>7

(***************************************************************************)
(* What the client has sent and has still to send                          *)
(***************************************************************************)

\* The fields of a TcpConnection, and the histories.
ClientTypes ==
  /\ DOMAIN client = {"in", "out", "want", "wdones", "rdones"}
  /\ DOMAIN answers = Requests
  /\ client.out \in Seq(Cells)
  /\ handed \in Seq(Cells)
  /\ written \in Seq(Requests)

\* The message that is stored waits for its answer and nobody reads it yet: RpcChannel
\* stores no other one beside it.
StoredInv ==
  /\ client.wdones = <<>> \/ \E m \in Requests : client.wdones = <<m>>
  /\ \A m \in Requests : client.wdones = <<m>> =>
       Contains(written, m) /\ answers[m] = {} /\ m \notin client.rdones

\* Only a request that was made is read for, or has ended.
KnownInv ==
  \A m \in Requests : answers[m] # {} \/ m \in client.rdones => Contains(written, m)

\* The requests s are those of which cells have been sent or wait to be.  A stored
\* message is among them just when it has been encoded, so that it is not encoded twice.
SentInv(s) ==
  /\ handed \o client.out = Encode(s, "request")
  /\ IsInjective(s)
  /\ \A i \in 1..Len(s) : Contains(written, s[i])
  /\ client.out # <<>> => client.wdones # <<>>
  /\ client.out = <<>> => \A i \in 1..Len(s) : client.wdones # <<s[i]>>

OutputInv ==
  /\ ClientTypes
  /\ StoredInv
  /\ KnownInv
  /\ \E s \in Seq(Requests) : SentInv(s)

\* It says that nothing sent is torn or repeated.
LEMMA OutputInvImplies == OutputInv => OutputIntact
<1> SUFFICES ASSUME OutputInv PROVE OutputIntact
  OBVIOUS
<1>1. PICK s \in Seq(Requests) : SentInv(s)
  BY DEF OutputInv
<1> DEFINE q == handed \o client.out
           order == [i \in 1..(Len(q) \div Parts) |-> q[i * Parts].msg]
<1>2. q = Encode(s, "request") /\ IsInjective(s)
  BY <1>1 DEF SentInv
<1>3. order = s
  <2> HIDE DEF q
  <2> QED
    BY <1>2, OrderIsSent
<1> HIDE DEF order
<1>4. q = Encode(order, "request") /\ IsInjective(order)
  BY <1>2, <1>3, Zenon
<1> QED
  BY <1>4, Zenon DEF OutputIntact, order

\* A connection on which nothing has been sent.
LEMMA FreshOutput ==
  ASSUME client' = Fresh({}), handed' = <<>>, DOMAIN (answers') = Requests,
         written' \in Seq(Requests),
         \A m \in Requests : answers'[m] # {} => Contains(written', m)
  PROVE  OutputInv'
<1>1. /\ DOMAIN (client') = {"in", "out", "want", "wdones", "rdones"}
      /\ client'.out = <<>> /\ client'.wdones = <<>> /\ client'.rdones = {}
  BY DEF Fresh
<1>2. <<>> \in Seq(Cells) /\ <<>> \in Seq(Requests)
  OBVIOUS
<1>3. ClientTypes'
  BY <1>1, <1>2 DEF ClientTypes
<1>4. StoredInv'
  <2>0. \A m : <<>> # <<m>>
    OBVIOUS
  <2>1. \A m : client'.wdones # <<m>>
    BY <1>1, <2>0, Zenon
  <2> QED
    BY <1>1, <2>1 DEF StoredInv
<1>5. SentInv(<<>>)'
  <2>1. <<>> \o <<>> = <<>> /\ 1..Len(<<>>) = {} /\ IsInjective(<<>>)
    BY DEF IsInjective
  <2>2. handed' \o client'.out = Encode(<<>>, "request")
    BY <1>1, <2>1, EncodeNothing
  <2> QED
    BY <1>1, <2>1, <2>2 DEF SentInv
<1>6. KnownInv'
  BY <1>1 DEF KnownInv
<1> QED
  BY <1>2, <1>3, <1>4, <1>5, <1>6 DEF OutputInv

\* At first.
LEMMA InitOutput == SupervisedInit => OutputInv
<1> SUFFICES ASSUME Init PROVE OutputInv
  BY DEF SupervisedInit
<1>0. client = Fresh({}) /\ handed = <<>> /\ written = <<>> /\ answers = [m \in Requests |-> {}]
  BY DEF Init
<1>1. /\ DOMAIN client = {"in", "out", "want", "wdones", "rdones"}
      /\ client.out = <<>> /\ client.wdones = <<>> /\ client.rdones = {}
  BY <1>0 DEF Fresh
<1>2. <<>> \in Seq(Cells) /\ <<>> \in Seq(Requests)
  OBVIOUS
<1>3. ClientTypes
  BY <1>0, <1>1, <1>2 DEF ClientTypes
<1>4. StoredInv
  <2>1. \A m : client.wdones # <<m>>
    BY <1>1
  <2> QED
    BY <1>1, <2>1 DEF StoredInv
<1>5. SentInv(<<>>)
  <2>1. <<>> \o <<>> = <<>> /\ 1..Len(<<>>) = {} /\ IsInjective(<<>>)
    BY DEF IsInjective
  <2>2. handed \o client.out = Encode(<<>>, "request")
    BY <1>0, <1>1, <2>1, EncodeNothing
  <2> QED
    BY <1>1, <2>1, <2>2 DEF SentInv
<1>6. KnownInv
  BY <1>0, <1>1 DEF KnownInv
<1> QED
  BY <1>2, <1>3, <1>4, <1>5, <1>6 DEF OutputInv

\* A step that leaves the client's side alone.
LEMMA QuietOutput ==
  ASSUME OutputInv, UNCHANGED <<client, handed, written, answers>>
  PROVE  OutputInv'
BY DEF OutputInv, ClientTypes, StoredInv, KnownInv, SentInv

\* What one more request changes.
LEMMA ContainsAppend ==
  ASSUME NEW s \in Seq(Requests), NEW m \in Requests, NEW x
  PROVE  Contains(Append(s, m), x) <=> Contains(s, x) \/ x = m
<1> DEFINE n == Len(s)
<1>1. n \in Nat /\ Len(Append(s, m)) = n + 1 /\ Append(s, m)[n + 1] = m
      /\ \A i \in 1..n : Append(s, m)[i] = s[i]
  OBVIOUS
<1>2. \A i : i \in 1..(n + 1) <=> i \in 1..n \/ i = n + 1
  BY <1>1
<1> HIDE DEF n
<1> QED
  BY <1>1, <1>2 DEF Contains, n

\* writeMessage: the message before has its answer, so nothing is stored.
LEMMA WriteMessageOutput ==
  ASSUME OutputInv, NEW m \in Requests, WriteMessage(m)
  PROVE  OutputInv'
<1>1. /\ ~Contains(written, m) /\ \A i \in DOMAIN written : answers[written[i]] # {}
      /\ written' = Append(written, m) /\ UNCHANGED <<handed, answers>>
      /\ client' = [client EXCEPT !.wdones = Append(client.wdones, m),
                                  !.want = client.want \cup {"OUT"}]
  BY DEF WriteMessage
<1>2. /\ DOMAIN client = {"in", "out", "want", "wdones", "rdones"}
      /\ DOMAIN answers = Requests
      /\ client.out \in Seq(Cells) /\ handed \in Seq(Cells) /\ written \in Seq(Requests)
  BY DEF OutputInv, ClientTypes
<1>3. client.wdones = <<>>
  <2>1. ASSUME NEW x \in Requests, client.wdones = <<x>> PROVE FALSE
    <3>1. Contains(written, x) /\ answers[x] = {}
      BY <2>1 DEF OutputInv, StoredInv
    <3>2. PICK i \in 1..Len(written) : written[i] = x
      BY <3>1 DEF Contains
    <3>3. i \in DOMAIN written
      BY <1>2
    <3> QED
      BY <1>1, <3>1, <3>2, <3>3
  <2> QED
    BY <2>1 DEF OutputInv, StoredInv
<1>4. PICK s \in Seq(Requests) : SentInv(s)
  BY DEF OutputInv
<1>5. client.out = <<>>
  BY <1>3, <1>4 DEF SentInv
<1>6. /\ DOMAIN (client') = {"in", "out", "want", "wdones", "rdones"}
      /\ client'.out = client.out /\ client'.rdones = client.rdones
      /\ client'.wdones = <<m>>
  <2>1. Append(client.wdones, m) = <<m>>
    BY <1>3
  <2> DEFINE w == client.want \cup {"OUT"}
  <2>2. client' = [client EXCEPT !.wdones = <<m>>, !.want = w]
    BY <1>1, <2>1, Zenon
  <2> HIDE DEF w
  <2> QED
    BY <1>2, <2>2
<1>7. /\ written' \in Seq(Requests)
      /\ \A x : Contains(written, x) => Contains(written', x)
      /\ Contains(written', m)
  BY <1>1, <1>2, ContainsAppend
<1>8. ClientTypes'
  BY <1>1, <1>2, <1>6, <1>7 DEF ClientTypes
<1>9. answers[m] = {} /\ m \notin client.rdones
  BY <1>1 DEF OutputInv, KnownInv
<1>10. StoredInv'
  <2>1. \A x : client'.wdones = <<x>> => x = m
    BY <1>6
  <2>2. client'.wdones = <<m>> /\ answers' = answers /\ client'.rdones = client.rdones
    BY <1>1, <1>6
  <2> QED
    BY <1>7, <1>9, <2>1, <2>2 DEF StoredInv
<1>11. KnownInv'
  BY <1>1, <1>6, <1>7 DEF OutputInv, KnownInv
<1>12. SentInv(s)'
  <2>1. /\ handed' \o client'.out = Encode(s, "request") /\ IsInjective(s)
        /\ \A i \in 1..Len(s) : Contains(written, s[i])
    BY <1>1, <1>4, <1>6 DEF SentInv
  <2>2. client'.wdones # <<>>
    BY <1>6
  <2>3. ASSUME NEW i \in 1..Len(s) PROVE client'.wdones # <<s[i]>>
    <3>1. s[i] # m
      BY <1>1, <2>1
    <3> QED
      BY <1>6, <3>1
  <2> QED
    BY <1>7, <2>1, <2>2, <2>3 DEF SentInv
<1> QED
  BY <1>8, <1>10, <1>11, <1>12 DEF OutputInv

\* A call that is refused stores nothing.
LEMMA RefusedOutput ==
  ASSUME OutputInv, NEW m \in Requests, Refused(m)
  PROVE  OutputInv'
<1>1. /\ ~Contains(written, m) /\ written' = Append(written, m)
      /\ answers' = [answers EXCEPT ![m] = {"refused"}]
      /\ UNCHANGED <<client, handed>>
  BY DEF Refused
<1>2. DOMAIN answers = Requests /\ written \in Seq(Requests)
  BY DEF OutputInv, ClientTypes
<1>3. /\ written' \in Seq(Requests)
      /\ \A x : Contains(written, x) => Contains(written', x)
      /\ Contains(written', m)
  BY <1>1, <1>2, ContainsAppend
<1>4. /\ DOMAIN (answers') = Requests
      /\ \A x \in Requests : x # m => answers'[x] = answers[x]
  BY <1>1, <1>2
<1>5. ClientTypes'
  BY <1>1, <1>3, <1>4 DEF OutputInv, ClientTypes
<1>6. StoredInv'
  <2>1. ASSUME NEW x \in Requests, client.wdones = <<x>>
        PROVE  Contains(written', x) /\ answers'[x] = {} /\ x \notin client.rdones
    <3>1. Contains(written, x) /\ answers[x] = {} /\ x \notin client.rdones
      BY <2>1 DEF OutputInv, StoredInv
    <3> QED
      BY <1>1, <1>3, <1>4, <3>1
  <2> QED
    BY <1>1, <2>1 DEF OutputInv, StoredInv
<1>7. KnownInv'
  BY <1>1, <1>3, <1>4 DEF OutputInv, KnownInv
<1>8. PICK s \in Seq(Requests) : SentInv(s)
  BY DEF OutputInv
<1>9. SentInv(s)'
  BY <1>1, <1>3, <1>8 DEF SentInv
<1> QED
  BY <1>5, <1>6, <1>7, <1>9 DEF OutputInv

\* onRead: a stored message is not one that is read for.
LEMMA ClientOnReadOutput ==
  ASSUME OutputInv, ClientOnRead
  PROVE  OutputInv'
<1>1. PICK k \in 1..Len(toClient) :
       LET q    == client.in \o SubSeq(toClient, 1, k)
           hits == {c \in ToSet(Decode(q)) : c.msg \in client.rdones}
       IN /\ answers' = [m \in Requests |->
                answers[m] \cup {c.status : c \in {h \in hits : h.msg = m}}]
          /\ client' = [client EXCEPT !.in = Undecoded(q),
                                      !.rdones = client.rdones \ {c.msg : c \in hits}]
  BY DEF ClientOnRead
<1> DEFINE q == client.in \o SubSeq(toClient, 1, k)
           hits == {c \in ToSet(Decode(q)) : c.msg \in client.rdones}
           u == Undecoded(q)
           r == client.rdones \ {c.msg : c \in hits}
           got(m) == {c.status : c \in {h \in hits : h.msg = m}}
<1>2. answers' = [m \in Requests |-> answers[m] \cup got(m)]
  BY <1>1, Zenon
<1>3. client' = [client EXCEPT !.in = u, !.rdones = r]
  BY <1>1, Zenon
<1>4. UNCHANGED <<written, handed>>
  BY DEF ClientOnRead
<1>5. r \subseteq client.rdones /\ \A m : m \notin client.rdones => got(m) = {}
  OBVIOUS
<1> HIDE DEF q, hits, u, r, got
<1>6. /\ DOMAIN client = {"in", "out", "want", "wdones", "rdones"}
      /\ DOMAIN answers = Requests
  BY DEF OutputInv, ClientTypes
<1>7. /\ DOMAIN (client') = {"in", "out", "want", "wdones", "rdones"}
      /\ client'.out = client.out /\ client'.wdones = client.wdones /\ client'.rdones = r
  BY <1>3, <1>6
<1>8. /\ DOMAIN (answers') = Requests
      /\ \A m \in Requests : m \notin client.rdones => answers'[m] = answers[m]
  BY <1>2, <1>5
<1>9. ClientTypes'
  BY <1>4, <1>7, <1>8 DEF OutputInv, ClientTypes
<1>10. StoredInv'
  <2>1. ASSUME NEW x \in Requests, client.wdones = <<x>>
        PROVE  Contains(written', x) /\ answers'[x] = {} /\ x \notin client'.rdones
    <3>1. Contains(written, x) /\ answers[x] = {} /\ x \notin client.rdones
      BY <2>1 DEF OutputInv, StoredInv
    <3> QED
      BY <1>4, <1>5, <1>7, <1>8, <3>1
  <2> QED
    BY <1>7, <2>1 DEF OutputInv, StoredInv
<1>11. KnownInv'
  <2>1. ASSUME NEW m \in Requests, answers'[m] # {} \/ m \in client'.rdones
        PROVE  Contains(written', m)
    <3>1. answers[m] # {} \/ m \in client.rdones
      BY <1>5, <1>7, <1>8, <2>1
    <3> QED
      BY <1>4, <3>1 DEF OutputInv, KnownInv
  <2> QED
    BY <2>1 DEF KnownInv
<1>12. PICK s \in Seq(Requests) : SentInv(s)
  BY DEF OutputInv
<1>13. SentInv(s)'
  BY <1>4, <1>7, <1>12 DEF SentInv
<1> QED
  BY <1>9, <1>10, <1>11, <1>13 DEF OutputInv

\* A sequence that is cut in two is not changed.
LEMMA CutInTwo ==
  ASSUME NEW h \in Seq(Cells), NEW q \in Seq(Cells), NEW n \in 0..Len(q)
  PROVE  /\ SubSeq(q, 1, n) \in Seq(Cells) /\ SubSeq(q, n + 1, Len(q)) \in Seq(Cells)
         /\ h \o SubSeq(q, 1, n) \in Seq(Cells)
         /\ (h \o SubSeq(q, 1, n)) \o SubSeq(q, n + 1, Len(q)) = h \o q
<1> DEFINE a == SubSeq(q, 1, n)
           b == SubSeq(q, n + 1, Len(q))
<1>1. a \in Seq(Cells) /\ b \in Seq(Cells)
  OBVIOUS
<1>2. a \o b = q
  <2>1. /\ 1 \in 1..(Len(q) + 1) /\ n \in (1 - 1)..Len(q) /\ Len(q) \in n..Len(q)
        /\ SubSeq(q, 1, Len(q)) = q
    OBVIOUS
  <2>2. SubSeq(q, 1, n) \o SubSeq(q, n + 1, Len(q)) = SubSeq(q, 1, Len(q))
    BY <2>1, ConcatAdjacentSubSeq
  <2> QED
    BY <2>1, <2>2
<1> HIDE DEF a, b
<1>3. (h \o a) \o b = h \o (a \o b)
  BY <1>1, ConcatAssociative
<1>4. h \o a \in Seq(Cells)
  BY <1>1, ConcatProperties
<1> QED
  BY <1>1, <1>2, <1>3, <1>4 DEF a, b

\* onWrite: what is left over is sent before anything is encoded, and a stored message
\* is encoded once.
LEMMA ClientOnWriteOutput ==
  ASSUME OutputInv, ClientOnWrite
  PROVE  OutputInv'
<1> DEFINE q == Outgoing(client)
           out == client.out
           stored == client.wdones
<1>1. PICK n \in Taken(q, toServer) :
        LET rest == SubSeq(q, n + 1, Len(q))
            idle == [client EXCEPT !.out = <<>>, !.want = client.want \ {"OUT"}]
        IN /\ handed' = handed \o SubSeq(q, 1, n)
           /\ client' = IF rest = <<>> THEN RunWriteDones(idle)
                        ELSE [client EXCEPT !.out = rest]
  BY DEF ClientOnWrite
<1> DEFINE rest == SubSeq(q, n + 1, Len(q))
           w == client.want \ {"OUT"}
           idle == [client EXCEPT !.out = <<>>, !.want = w]
<1>2. /\ handed' = handed \o SubSeq(q, 1, n)
      /\ client' = IF rest = <<>> THEN RunWriteDones(idle) ELSE [client EXCEPT !.out = rest]
      /\ UNCHANGED <<written, answers>>
  BY <1>1 DEF ClientOnWrite
<1>3. /\ DOMAIN client = {"in", "out", "want", "wdones", "rdones"}
      /\ DOMAIN answers = Requests
      /\ out \in Seq(Cells) /\ handed \in Seq(Cells) /\ written \in Seq(Requests)
  BY DEF OutputInv, ClientTypes
<1>4. stored = <<>> \/ \E m \in Requests : stored = <<m>>
  BY DEF OutputInv, StoredInv
<1>5. PICK s \in Seq(Requests) : SentInv(s)
  BY DEF OutputInv
<1>6. /\ handed \o out = Encode(s, "request") /\ IsInjective(s)
      /\ \A i \in 1..Len(s) : Contains(written, s[i])
      /\ out # <<>> => stored # <<>>
      /\ out = <<>> => \A i \in 1..Len(s) : stored # <<s[i]>>
  BY <1>5 DEF SentInv
<1>7. /\ q \in Seq(Cells)
      /\ \E t \in Seq(Requests) :
           /\ handed \o q = Encode(t, "request") /\ IsInjective(t)
           /\ \A i \in 1..Len(t) : Contains(written, t[i])
      /\ q # <<>> => stored # <<>>
  <2>1. CASE out # <<>>
    <3>1. q = out
      BY <2>1 DEF Outgoing
    <3> QED
      BY <1>3, <1>6, <2>1, <3>1
  <2>2. CASE out = <<>> /\ stored = <<>>
    <3>1. q = <<>>
      BY <2>2, EncodeNothing DEF Outgoing
    <3>2. <<>> \in Seq(Cells)
      OBVIOUS
    <3> QED
      BY <1>6, <2>2, <3>1, <3>2
  <2>3. ASSUME out = <<>>, NEW m \in Requests, stored = <<m>>
        PROVE  /\ q \in Seq(Cells)
               /\ \E t \in Seq(Requests) :
                    /\ handed \o q = Encode(t, "request") /\ IsInjective(t)
                    /\ \A i \in 1..Len(t) : Contains(written, t[i])
               /\ stored # <<>>
    <3> DEFINE t == Append(s, m)
               k == Len(s)
    <3>1. q = Package(m, "request") /\ q \in Seq(Cells)
      <4>1. <<>> \in Seq(Requests) /\ Append(<<>>, m) = <<m>>
        OBVIOUS
      <4>2. Encode(<<m>>, "request") = <<>> \o Package(m, "request")
        BY <4>1, EncodeAppend, EncodeNothing
      <4>3. Package(m, "request") \in Seq(Cells)
        BY PackageFacts
      <4>4. q = Encode(<<m>>, "request")
        BY <2>3 DEF Outgoing
      <4> QED
        BY <4>2, <4>3, <4>4, ConcatEmptySeq
    <3>2. t \in Seq(Requests) /\ Len(t) = k + 1 /\ t[k + 1] = m /\ k \in Nat
          /\ DOMAIN t = 1..(k + 1) /\ \A i \in 1..k : t[i] = s[i]
      OBVIOUS
    <3>3. handed = Encode(s, "request")
      BY <1>3, <1>6, <2>3, ConcatEmptySeq
    <3>4. handed \o q = Encode(t, "request")
      BY <3>1, <3>3, EncodeAppend
    <3>5. Contains(written, m)
      BY <2>3 DEF OutputInv, StoredInv
    <3>6. \A i \in 1..k : s[i] # m
      BY <1>6, <2>3
    <3>7. \A i, j \in 1..k : s[i] = s[j] => i = j
      <4>1. DOMAIN s = 1..k
        OBVIOUS
      <4> QED
        BY <1>6, <4>1 DEF IsInjective
    <3> HIDE DEF t, k
    <3>8. \A i \in 1..(k + 1) : i \in 1..k \/ i = k + 1
      BY <3>2
    <3>9. \A i \in 1..(k + 1) : Contains(written, t[i])
      BY <1>6, <3>2, <3>5, <3>8 DEF k
    <3>10. IsInjective(t)
      BY <3>2, <3>6, <3>7, <3>8 DEF IsInjective
    <3>11. stored # <<>>
      BY <2>3
    <3>12. \A i \in 1..Len(t) : Contains(written, t[i])
      BY <3>2, <3>9
    <3> QED
      BY <3>1, <3>2, <3>4, <3>10, <3>11, <3>12, Zenon
  <2> QED
    BY <1>4, <2>1, <2>2, <2>3
<1>8. PICK t \in Seq(Requests) :
        /\ handed \o q = Encode(t, "request") /\ IsInjective(t)
        /\ \A i \in 1..Len(t) : Contains(written, t[i])
  BY <1>7
<1> HIDE DEF q
<1>9. n \in 0..Len(q)
  BY <1>1, <1>7 DEF Taken
<1>10. /\ rest \in Seq(Cells) /\ handed' \in Seq(Cells)
       /\ handed' \o rest = handed \o q
  BY <1>2, <1>3, <1>7, <1>9, CutInTwo
<1>11. q = <<>> => rest = <<>>
  BY <1>7, <1>9
<1> HIDE DEF rest, w
<1>12. CASE rest = <<>>
  <2> DEFINE r == client.rdones \cup ToSet(stored)
             v == IF stored = <<>> THEN w ELSE w \cup {"IN"}
  <2>1. /\ DOMAIN idle = {"in", "out", "want", "wdones", "rdones"}
        /\ idle.out = <<>> /\ idle.want = w /\ idle.wdones = stored
        /\ idle.rdones = client.rdones
    BY <1>3
  <2>2. client' = [idle EXCEPT !.wdones = <<>>, !.rdones = r, !.want = v]
    <3>1. client' = RunWriteDones(idle)
      BY <1>2, <1>12
    <3>2. RunWriteDones(idle) =
            [idle EXCEPT !.wdones = <<>>, !.rdones = idle.rdones \cup ToSet(idle.wdones),
                         !.want = IF idle.wdones = <<>> THEN idle.want
                                                        ELSE idle.want \cup {"IN"}]
      BY DEF RunWriteDones
    <3> HIDE DEF idle
    <3> QED
      BY <2>1, <3>1, <3>2, Zenon
  <2> HIDE DEF idle, v
  <2>3. /\ DOMAIN (client') = {"in", "out", "want", "wdones", "rdones"}
        /\ client'.out = <<>> /\ client'.wdones = <<>> /\ client'.rdones = r
    <3> HIDE DEF r
    <3> QED
      BY <2>1, <2>2
  <2>4. <<>> \in Seq(Cells) /\ \A m : <<>> # <<m>>
    OBVIOUS
  <2>5. ClientTypes'
    BY <1>2, <1>3, <1>10, <2>3, <2>4 DEF ClientTypes
  <2>6. StoredInv'
    BY <2>3, <2>4, Zenon DEF StoredInv
  <2>7. KnownInv'
    <3>1. ASSUME NEW m \in Requests, m \in r PROVE m \in client.rdones \/ stored = <<m>>
      BY <1>4, <3>1 DEF ToSet
    <3>2. ASSUME NEW m \in Requests, answers[m] # {} \/ m \in r PROVE Contains(written, m)
      BY <3>1, <3>2 DEF OutputInv, KnownInv, StoredInv
    <3> QED
      BY <1>2, <2>3, <3>2 DEF KnownInv
  <2>8. SentInv(t)'
    <3>1. handed' \o client'.out = Encode(t, "request")
      BY <1>8, <1>10, <1>12, <2>3
    <3> QED
      BY <1>2, <1>8, <2>3, <2>4, <3>1, Zenon DEF SentInv
  <2> QED
    BY <2>5, <2>6, <2>7, <2>8 DEF OutputInv
<1>13. CASE rest # <<>>
  <2>1. client' = [client EXCEPT !.out = rest]
    BY <1>2, <1>13
  <2>2. /\ DOMAIN (client') = {"in", "out", "want", "wdones", "rdones"}
        /\ client'.out = rest /\ client'.wdones = stored /\ client'.rdones = client.rdones
    BY <1>3, <2>1
  <2>3. ClientTypes'
    BY <1>2, <1>3, <1>10, <2>2 DEF ClientTypes
  <2>4. StoredInv' /\ KnownInv'
    BY <1>2, <2>2 DEF OutputInv, StoredInv, KnownInv
  <2>5. SentInv(t)'
    <3>1. handed' \o client'.out = Encode(t, "request")
      BY <1>8, <1>10, <2>2
    <3>2. client'.out # <<>> /\ client'.wdones # <<>>
      BY <1>7, <1>11, <1>13, <2>2
    <3> QED
      BY <1>2, <1>8, <3>1, <3>2, Zenon DEF SentInv
  <2> QED
    BY <2>3, <2>4, <2>5 DEF OutputInv
<1> QED
  BY <1>12, <1>13

\* Every step of the client, its connection, the servers and the supervisor.
LEMMA NextOutput == OutputInv /\ [SupervisedNext]_allVars => OutputInv'
<1> SUFFICES ASSUME OutputInv, [SupervisedNext]_allVars PROVE OutputInv'
  OBVIOUS
<1>1. ASSUME NEW m \in Requests, Call(m) PROVE OutputInv'
  <2>1. Refused(m) \/ WriteMessage(m)
    BY <1>1 DEF Call
  <2> QED
    BY <2>1, RefusedOutput, WriteMessageOutput
<1>2. CASE Sends
  BY <1>2, ClientOnWriteOutput DEF Sends
<1>3. CASE Reads
  BY <1>3, ClientOnReadOutput DEF Reads
<1>4. CASE ConnectionLost
  <2>1. /\ client' = Fresh({}) /\ handed' = <<>> /\ written' = written
        /\ answers' = [m \in Requests |-> IF m \in Outstanding THEN {"lost"} ELSE answers[m]]
    BY <1>4 DEF ConnectionLost
  <2>2. written \in Seq(Requests)
    BY DEF OutputInv, ClientTypes
  <2>3. \A m \in Outstanding : Contains(written, m)
    BY <2>2 DEF Outstanding, ToSet, Contains
  <2>4. ASSUME NEW m \in Requests, answers'[m] # {} PROVE Contains(written', m)
    <3>1. m \in Outstanding \/ answers[m] # {}
      BY <2>1, <2>4
    <3> QED
      BY <2>1, <2>3, <3>1 DEF OutputInv, KnownInv
  <2> QED
    BY <2>1, <2>2, <2>4, FreshOutput
<1>5. CASE UNCHANGED <<client, handed, written, answers>>
  BY <1>5, QuietOutput
<1>6. CASE ServerReads \/ ServerWrites
  BY <1>5, <1>6 DEF ServerReads, ServerWrites, ServerOnRead, ServerOnWrite
<1>7. CASE Supervises(Sup!Next)
  BY <1>5, <1>7 DEF Supervises, Breaks, vars
<1>8. CASE UNCHANGED allVars
  BY <1>5, <1>8 DEF allVars, vars
<1> QED
  BY <1>1, <1>2, <1>3, <1>4, <1>6, <1>7, <1>8 DEF SupervisedNext

\* docs/known-regressions.md, BUG-TCP-001: for any sizes of packages and kernel buffers,
\* and through every restart, onWrite sends whole packages, each request once: what a
\* partial write left over is neither lost nor encoded again.
THEOREM PartialWritesLoseNothing == SupervisedSpec => []OutputIntact
<1> QED
  BY InitOutput, NextOutput, OutputInvImplies, PTL DEF SupervisedSpec

(***************************************************************************)
(* How often the server is restarted                                       *)
(***************************************************************************)

\* HighAvai::start: there are never more servers than the first one and restart_count_
\* others, and a supervisor that gives up has started them all.
RestartsCounted ==
  /\ starts <= RestartCount + 1
  /\ ended = "limit" => starts = RestartCount + 1

\* The counter in the argument is the number of servers forked before, until the fork.
RestartsInv ==
  /\ count \in Nat /\ starts \in Nat
  /\ sup = "boot" => starts = count /\ count <= RestartCount + 1
  /\ sup = "ready" => starts = count /\ count <= RestartCount
  /\ sup \in {"forked", "waiting", "reaped"} => starts = count + 1 /\ count <= RestartCount
  /\ RestartsCounted

\* Every step of start(), of a signal and of a server keeps the count.
LEMMA RestartsStep == RestartsInv /\ [SupervisedNext]_allVars => RestartsInv'
<1> SUFFICES ASSUME RestartsInv, [SupervisedNext]_allVars PROVE RestartsInv'
  OBVIOUS
<1>0. RestartCount \in Nat /\ count \in Nat /\ starts \in Nat
  BY SupervisedAssumption DEF RestartsInv
<1> USE DEF RestartsInv, RestartsCounted
<1>1. CASE UNCHANGED supVars
  BY <1>1 DEF supVars
<1>2. ASSUME NEW m \in Requests, Call(m) PROVE UNCHANGED supVars
  BY <1>2 DEF Call
<1>3. CASE Sends \/ Reads \/ ConnectionLost \/ ServerReads \/ ServerWrites \/ UNCHANGED allVars
  <2>1. UNCHANGED supVars
    BY <1>3 DEF Sends, Reads, ConnectionLost, ServerReads, ServerWrites, supVars, allVars
  <2> QED
    BY <2>1, <1>1
<1>4. CASE Sup!Start
  BY <1>0, <1>4 DEF Sup!Start, Sup!UsedUp, Sup!End
<1>5. CASE Sup!Fork
  BY <1>0, <1>5 DEF Sup!Fork, Sup!End
<1>6. CASE Sup!InstallHandler \/ Sup!WaitChild
  BY <1>0, <1>6 DEF Sup!InstallHandler, Sup!WaitChild
<1>7. CASE Sup!Exec
  BY <1>0, <1>7 DEF Sup!Exec, Sup!End
<1>8. CASE Sup!SigChld \/ Sup!SigInt \/ Sup!Killed \/ \E i \in live : Sup!ServerEnds(i)
  BY <1>0, <1>8 DEF Sup!SigChld, Sup!SigInt, Sup!Killed, Sup!ServerEnds, Sup!End
<1>9. CASE Supervises(Sup!Next)
  BY <1>4, <1>5, <1>6, <1>7, <1>8, <1>9 DEF Supervises, Sup!Next, Sup!Steps
<1> QED
  BY <1>1, <1>2, <1>3, <1>9 DEF SupervisedNext

\* README.md: the service is restarted restart_count_ times.  The safety half of
\* ServiceComesBack: never more often, and the supervisor does not give up before.
THEOREM RestartsAreCounted == SupervisedSpec => []RestartsCounted
<1>1. SupervisedInit => RestartsInv
  BY SupervisedAssumption DEF SupervisedInit, Sup!Init, RestartsInv, RestartsCounted
<1>2. RestartsInv => RestartsCounted
  BY DEF RestartsInv
<1> QED
  BY <1>1, <1>2, RestartsStep, PTL DEF SupervisedSpec

(***************************************************************************)
(* What a request ends with                                                *)
(***************************************************************************)

\* The status dispatch() gives the response of a request, if there is one.
Outcome(m) == IF Flaw[m] = "none" THEN "ok" ELSE "error"

\* What clear(), excute() and the restarts leave of a request: no answer yet, or one, which
\* is its own response, or "lost" if the first server has ended, or "refused".
AnsweredOneWay ==
  \A m \in Requests :
    \/ answers[m] = {}
    \/ answers[m] = {Outcome(m)} /\ Flaw[m] \in {"none", "response"}
    \/ answers[m] = {"lost"} /\ 1 \notin live
    \/ answers[m] = {"refused"}

\* An answer is final: no later response, end of a server or call changes it.
AnswersStand ==
  [][\A m \in Requests : answers[m] # {} => answers'[m] = answers[m]]_allVars

\* A cell of a response says what dispatch() found of its request.
Replies == {c \in Cells : c.status = Outcome(c.msg) /\ Flaw[c.msg] \in {"none", "response"}}

ReplyInv ==
  /\ DOMAIN server = {"in", "out", "want", "wdones", "rdones"}
  /\ server.in \in Seq(Cells) /\ toServer \in Seq(Cells)
  /\ server.out \in Seq(Replies) /\ toClient \in Seq(Replies)
  /\ client.in \in Seq(Replies)

\* The first server is gone, for good.
FirstGone == starts >= 1 /\ 1 \notin live

\* Nobody reads for what has ended, and a connection is broken by the end of a server.
AnswerInv ==
  /\ AnsweredOneWay
  /\ \A m \in client.rdones : m \in Requests /\ answers[m] = {}
  /\ live # {} => starts >= 1
  /\ link = "broken" => FirstGone
  /\ \A m \in Requests : answers[m] = {"lost"} => FirstGone

\* The values of the function behind FlattenSeq are sequences over the same set.
LEMMA FlattensType ==
  ASSUME NEW S, NEW q \in Seq(Seq(S)), NEW g, NEW n \in 1..Len(q), Flattens(g, q, Len(q))
  PROVE  g[n] \in Seq(S)
<1> DEFINE Bad == {i \in 1..Len(q) : g[i] \notin Seq(S)}
<1>1. SUFFICES ASSUME Bad # {} PROVE FALSE
  OBVIOUS
<1>2. Bad \subseteq Nat
  OBVIOUS
<1>3. PICK i \in Bad : \A k \in Bad : i <= k
  <2> HIDE DEF Bad
  <2> QED
    BY <1>1, <1>2, LeastNatural
<1>4. g[i] = IF i = 1 THEN q[i] ELSE g[i - 1] \o q[i]
  BY <1>3 DEF Flattens
<1>5. q[i] \in Seq(S)
  BY <1>3
<1>6. CASE i = 1
  BY <1>3, <1>4, <1>5, <1>6
<1>7. CASE i # 1
  <2>1. i - 1 \in 1..Len(q) /\ i - 1 \notin Bad
    BY <1>3, <1>7
  <2>2. g[i - 1] \o q[i] \in Seq(S)
    BY <1>5, <2>1, ConcatProperties
  <2> QED
    BY <1>3, <1>4, <1>7, <2>2
<1> QED
  BY <1>6, <1>7

\* So is what FlattenSeq gives.
LEMMA FlattenType ==
  ASSUME NEW S, NEW q \in Seq(Seq(S))
  PROVE  FlattenSeq(q) \in Seq(S)
<1>1. CASE q = <<>>
  <2>1. FlattenSeq(<<>>) = <<>>
    BY DEF FlattenSeq
  <2>2. <<>> \in Seq(S)
    BY EmptySeq
  <2> QED
    BY <1>1, <2>1, <2>2
<1>2. CASE q # <<>>
  <2>1. Len(q) \in Nat /\ Len(q) # 0 /\ Len(q) \in 1..Len(q)
    BY <1>2, EmptySeq
  <2>2. PICK g : Flattens(g, q, Len(q)) /\ FlattenSeq(q) = g[Len(q)]
    BY <2>1, FlattenLast
  <2> QED
    BY <2>1, <2>2, FlattensType
<1> QED
  BY <1>1, <1>2

\* decode() finds cells that came, and leaves cells that came.
LEMMA DecodeType ==
  ASSUME NEW S, NEW q \in Seq(S)
  PROVE  Decode(q) \in Seq(S) /\ Undecoded(q) \in Seq(S)
<1> DEFINE n == Len(q)
           d == n \div Parts
<1>1. n \in Nat /\ Parts \in Nat /\ Parts >= 1
  BY TcpExchangeAssumption
<1>2. d \in Nat /\ d * Parts <= n
  <2> HIDE DEF n
  <2> QED
    BY <1>1
<1>3. d * Parts \in Nat
  <2> HIDE DEF d
  <2> QED
    BY <1>1, <1>2
<1>4. ASSUME NEW i \in 1..d PROVE q[i * Parts] \in S
  <2> HIDE DEF d
  <2>1. i * Parts \in Nat /\ i * Parts >= 1 /\ i * Parts <= d * Parts
    BY <1>1, <1>2
  <2>2. i * Parts \in 1..n
    BY <1>1, <1>2, <1>3, <2>1
  <2> QED
    BY <2>2
<1>5. Decode(q) = [i \in 1..d |-> q[i * Parts]] /\ Undecoded(q) = SubSeq(q, d * Parts + 1, n)
  BY DEF Decode, Undecoded, Complete
<1> HIDE DEF d
<1>6. Decode(q) \in Seq(S)
  BY <1>2, <1>4, <1>5
<1>7. SubSeq(q, d * Parts + 1, n) \in Seq(S)
  <2> DEFINE e == d * Parts
  <2>1. e \in Nat /\ e <= n
    BY <1>2, <1>3
  <2> HIDE DEF e
  <2> QED
    BY <1>1, <2>1 DEF e
<1> QED
  BY <1>5, <1>6, <1>7

\* Every cell of a reply is of the request and of its outcome.
LEMMA DispatchType ==
  ASSUME NEW m \in Requests
  PROVE  Dispatch(m) \in Seq(Replies)
<1>1. /\ Flaw[m] \in {"none", "name", "service", "method", "request", "response"}
      /\ Parts \in Nat
  BY TcpExchangeAssumption
<1>2. <<>> \in Seq(Replies)
  BY EmptySeq
<1>3. CASE Flaw[m] \in {"none", "response"}
  <2> DEFINE c(i) == [msg |-> m, status |-> Outcome(m), part |-> i]
  <2>1. Dispatch(m) = Package(m, Outcome(m))
    BY <1>3 DEF Dispatch, Outcome
  <2>2. \A i \in 1..Parts : c(i) \in Replies
    BY <1>3 DEF Replies, Cells, Outcome
  <2>3. Package(m, Outcome(m)) = [i \in 1..Parts |-> c(i)]
    BY DEF Package
  <2> HIDE DEF c
  <2> QED
    BY <1>1, <2>1, <2>2, <2>3
<1>4. CASE Flaw[m] \notin {"none", "response"}
  <2>1. Dispatch(m) = <<>>
    BY <1>1, <1>4 DEF Dispatch
  <2> QED
    BY <1>2, <2>1
<1> QED
  BY <1>3, <1>4

\* A queue that is cut, and one that grows, keep their kind of cells.
LEMMA CutType ==
  ASSUME NEW S, NEW p \in Seq(S), NEW q \in Seq(S), NEW n \in 0..Len(q)
  PROVE  /\ SubSeq(q, 1, n) \in Seq(S) /\ SubSeq(q, n + 1, Len(q)) \in Seq(S)
         /\ p \o SubSeq(q, 1, n) \in Seq(S)
<1>1. SubSeq(q, 1, n) \in Seq(S) /\ SubSeq(q, n + 1, Len(q)) \in Seq(S)
  OBVIOUS
<1> QED
  BY <1>1, ConcatProperties

\* What goes to the server is cells, and what comes back are replies.
LEMMA ReplyStep == OutputInv /\ ReplyInv /\ [SupervisedNext]_allVars => ReplyInv'
<1> SUFFICES ASSUME OutputInv, ReplyInv, [SupervisedNext]_allVars PROVE ReplyInv'
  OBVIOUS
<1>0. /\ DOMAIN client = {"in", "out", "want", "wdones", "rdones"}
      /\ DOMAIN server = {"in", "out", "want", "wdones", "rdones"}
      /\ server.in \in Seq(Cells) /\ toServer \in Seq(Cells)
      /\ server.out \in Seq(Replies) /\ toClient \in Seq(Replies)
      /\ client.in \in Seq(Replies)
  BY DEF OutputInv, ClientTypes, ReplyInv
<1>1. /\ DOMAIN Fresh({"IN"}) = {"in", "out", "want", "wdones", "rdones"}
      /\ Fresh({"IN"}).in \in Seq(Cells) /\ Fresh({"IN"}).out \in Seq(Replies)
      /\ Fresh({}).in \in Seq(Replies)
      /\ <<>> \in Seq(Cells) /\ <<>> \in Seq(Replies)
  BY DEF Fresh
<1>2. CASE client'.in = client.in /\ UNCHANGED <<server, toServer, toClient>>
  BY <1>0, <1>2 DEF ReplyInv
<1>3. ASSUME NEW m \in Requests, Call(m) PROVE ReplyInv'
  <2>1. UNCHANGED <<server, toServer, toClient>>
    BY <1>3 DEF Call, Refused, WriteMessage
  <2>2. client'.in = client.in
    BY <1>0, <1>3 DEF Call, Refused, WriteMessage
  <2> QED
    BY <1>2, <2>1, <2>2
<1>4. CASE Sends
  <2> DEFINE q == Outgoing(client)
  <2>1. PICK n \in Taken(q, toServer) :
          LET rest == SubSeq(q, n + 1, Len(q))
              idle == [client EXCEPT !.out = <<>>, !.want = client.want \ {"OUT"}]
          IN /\ toServer' = toServer \o SubSeq(q, 1, n)
             /\ client' = IF rest = <<>> THEN RunWriteDones(idle)
                          ELSE [client EXCEPT !.out = rest]
    BY <1>4 DEF Sends, ClientOnWrite
  <2>2. q \in Seq(Cells)
    <3>0. <<>> \in Seq(Requests) /\ \A m \in Requests : <<m>> \in Seq(Requests)
      OBVIOUS
    <3>1. client.out \in Seq(Cells) /\ client.wdones \in Seq(Requests)
      BY <3>0 DEF OutputInv, ClientTypes, StoredInv
    <3>2. Encode(client.wdones, "request") \in Seq(Cells)
      BY <3>1, EncodeFacts
    <3> QED
      BY <3>1, <3>2 DEF Outgoing
  <2> HIDE DEF q
  <2>3. n \in 0..Len(q)
    BY <2>2 DEF Taken
  <2>4. toServer' \in Seq(Cells)
    BY <1>0, <2>1, <2>2, <2>3, CutType
  <2>5. client'.in = client.in
    <3> DEFINE rest == SubSeq(q, n + 1, Len(q))
               w == client.want \ {"OUT"}
               idle == [client EXCEPT !.out = <<>>, !.want = w]
    <3>1. client' = RunWriteDones(idle) \/ client' = [client EXCEPT !.out = rest]
      BY <2>1
    <3>2. idle.in = client.in /\ DOMAIN idle = DOMAIN client
      BY <1>0
    <3> HIDE DEF rest, idle
    <3>3. RunWriteDones(idle).in = idle.in
      BY <1>0, <3>2 DEF RunWriteDones
    <3>4. [client EXCEPT !.out = rest].in = client.in
      BY <1>0
    <3> QED
      BY <3>1, <3>2, <3>3, <3>4
  <2>6. UNCHANGED <<server, toClient>>
    BY <1>4 DEF Sends, ClientOnWrite
  <2> QED
    BY <1>0, <2>4, <2>5, <2>6 DEF ReplyInv
<1>5. CASE Reads
  <2>1. PICK k \in 1..Len(toClient) :
          LET q == client.in \o SubSeq(toClient, 1, k)
          IN /\ toClient' = SubSeq(toClient, k + 1, Len(toClient))
             /\ \E r : client' = [client EXCEPT !.in = Undecoded(q), !.rdones = r]
    BY <1>5 DEF Reads, ClientOnRead
  <2> DEFINE q == client.in \o SubSeq(toClient, 1, k)
             u == Undecoded(q)
  <2>2. k \in 0..Len(toClient)
    BY <1>0
  <2>3. q \in Seq(Replies) /\ toClient' \in Seq(Replies)
    BY <1>0, <2>1, <2>2, CutType
  <2>4. PICK r : client' = [client EXCEPT !.in = u, !.rdones = r]
    BY <2>1
  <2>5. u \in Seq(Replies)
    <3> HIDE DEF q
    <3> QED
      BY <2>3, DecodeType
  <2> HIDE DEF u
  <2>6. client'.in = u
    BY <1>0, <2>4
  <2>7. UNCHANGED <<server, toServer>>
    BY <1>5 DEF Reads, ClientOnRead
  <2> QED
    BY <1>0, <2>3, <2>5, <2>6, <2>7 DEF ReplyInv
<1>6. CASE ConnectionLost
  <2>1. /\ client' = Fresh({}) /\ server' = Fresh({"IN"})
        /\ toServer' = <<>> /\ toClient' = <<>>
    BY <1>6 DEF ConnectionLost
  <2> QED
    BY <1>1, <2>1, Zenon DEF ReplyInv
<1>7. CASE ServerReads
  <2> DEFINE Q(k) == server.in \o SubSeq(toServer, 1, k)
             D(k) == Decode(Q(k))
             R(k) == FlattenSeq([i \in DOMAIN D(k) |-> Dispatch(D(k)[i].msg)])
  <2>1. PICK k \in 1..Len(toServer) :
          /\ toServer' = SubSeq(toServer, k + 1, Len(toServer))
          /\ server' = [server EXCEPT !.in = Undecoded(Q(k)), !.out = server.out \o R(k),
                          !.want = IF R(k) = <<>> THEN server.want ELSE server.want \cup {"OUT"}]
    BY <1>7, Zenon DEF ServerReads, ServerOnRead
  <2>2. k \in 0..Len(toServer)
    BY <1>0
  <2>3. Q(k) \in Seq(Cells) /\ toServer' \in Seq(Cells)
    BY <1>0, <2>1, <2>2, CutType
  <2>4. D(k) \in Seq(Cells) /\ Undecoded(Q(k)) \in Seq(Cells)
    <3> HIDE DEF Q
    <3> QED
      BY <2>3, DecodeType
  <2>5. R(k) \in Seq(Replies)
    <3> HIDE DEF D
    <3> DEFINE w == [i \in DOMAIN D(k) |-> Dispatch(D(k)[i].msg)]
    <3>0. \A c \in Cells : c.msg \in Requests
      BY DEF Cells
    <3>1. \A i \in DOMAIN D(k) : D(k)[i].msg \in Requests
      <4>1. \A i \in DOMAIN D(k) : D(k)[i] \in Cells
        BY <2>4, ElementOfSeq
      <4> QED
        BY <3>0, <4>1
    <3>2. \A i \in DOMAIN D(k) : Dispatch(D(k)[i].msg) \in Seq(Replies)
      BY <3>1, DispatchType
    <3>3. Len(D(k)) \in Nat /\ DOMAIN D(k) = 1..Len(D(k))
      BY <2>4
    <3>4. w \in Seq(Seq(Replies))
      BY <3>2, <3>3
    <3> HIDE DEF w
    <3>5. FlattenSeq(w) \in Seq(Replies)
      BY <3>4, FlattenType
    <3> QED
      BY <3>5 DEF w
  <2> DEFINE o == server.out \o R(k)
             u == Undecoded(Q(k))
             w == IF R(k) = <<>> THEN server.want ELSE server.want \cup {"OUT"}
  <2>6. o \in Seq(Replies)
    <3> HIDE DEF R
    <3> QED
      BY <1>0, <2>5, ConcatProperties
  <2>7. u \in Seq(Cells) /\ server' = [server EXCEPT !.in = u, !.out = o, !.want = w]
    BY <2>1, <2>4
  <2> HIDE DEF o, u, w
  <2>8. /\ server'.in = u /\ server'.out = o
        /\ DOMAIN (server') = {"in", "out", "want", "wdones", "rdones"}
    BY <1>0, <2>7
  <2>9. UNCHANGED <<client, toClient>>
    BY <1>7 DEF ServerReads, ServerOnRead
  <2> QED
    BY <1>0, <2>3, <2>6, <2>7, <2>8, <2>9 DEF ReplyInv
<1>8. CASE ServerWrites
  <2>1. PICK n \in Taken(server.out, toClient) :
          LET rest == SubSeq(server.out, n + 1, Len(server.out))
          IN /\ toClient' = toClient \o SubSeq(server.out, 1, n)
             /\ server' = [server EXCEPT !.out = rest,
                            !.want = IF rest = <<>> THEN server.want \ {"OUT"} ELSE server.want]
    BY <1>8 DEF ServerWrites, ServerOnWrite
  <2> DEFINE rest == SubSeq(server.out, n + 1, Len(server.out))
             w == IF rest = <<>> THEN server.want \ {"OUT"} ELSE server.want
  <2>2. n \in 0..Len(server.out)
    BY <1>0 DEF Taken
  <2>3. toClient' \in Seq(Replies) /\ rest \in Seq(Replies)
    BY <1>0, <2>1, <2>2, CutType
  <2>4. server' = [server EXCEPT !.out = rest, !.want = w]
    BY <2>1
  <2> HIDE DEF rest, w
  <2>5. /\ server'.in = server.in /\ server'.out = rest
        /\ DOMAIN (server') = {"in", "out", "want", "wdones", "rdones"}
    BY <1>0, <2>4
  <2>6. UNCHANGED <<client, toServer>>
    BY <1>8 DEF ServerWrites, ServerOnWrite
  <2> QED
    BY <1>0, <2>3, <2>5, <2>6 DEF ReplyInv
<1>9. CASE Supervises(Sup!Next)
  <2>1. CASE Breaks
    <3>1. server' = Fresh({"IN"}) /\ toServer' = <<>> /\ UNCHANGED <<client, toClient>>
      BY <2>1 DEF Breaks
    <3>2. server'.in \in Seq(Cells) /\ server'.out \in Seq(Replies) /\ toServer' \in Seq(Cells)
          /\ DOMAIN (server') = {"in", "out", "want", "wdones", "rdones"}
      BY <1>1, <3>1, Zenon
    <3> QED
      BY <1>0, <3>1, <3>2 DEF ReplyInv
  <2>2. CASE UNCHANGED <<vars, link>>
    BY <1>2, <2>2 DEF vars
  <2> QED
    BY <1>9, <2>1, <2>2 DEF Supervises
<1>10. CASE UNCHANGED allVars
  BY <1>2, <1>10 DEF allVars, vars
<1> QED
  BY <1>3, <1>4, <1>5, <1>6, <1>7, <1>8, <1>9, <1>10 DEF SupervisedNext

\* onRead on the client: who is not read for keeps what it has, and who is gets its own
\* outcome or nothing, and is read for no more in the first case.
LEMMA ReadGives ==
  ASSUME OutputInv, ReplyInv, ClientOnRead, NEW m \in Requests
  PROVE  /\ m \notin client.rdones => answers'[m] = answers[m]
         /\ \/ answers'[m] = answers[m]
            \/ /\ m \notin client'.rdones /\ Flaw[m] \in {"none", "response"}
               /\ answers'[m] = answers[m] \cup {Outcome(m)}
         /\ client'.rdones \subseteq client.rdones
<1> DEFINE Q(k) == client.in \o SubSeq(toClient, 1, k)
           H(k) == {c \in ToSet(Decode(Q(k))) : c.msg \in client.rdones}
           G(k, x) == {c.status : c \in {h \in H(k) : h.msg = x}}
           L(k) == client.rdones \ {c.msg : c \in H(k)}
<1>1. PICK k \in 1..Len(toClient) :
        /\ answers' = [x \in Requests |-> answers[x] \cup G(k, x)]
        /\ client' = [client EXCEPT !.in = Undecoded(Q(k)), !.rdones = L(k)]
  BY Zenon DEF ClientOnRead
<1>2. /\ DOMAIN client = {"in", "out", "want", "wdones", "rdones"}
      /\ client.in \in Seq(Replies) /\ toClient \in Seq(Replies)
  BY DEF OutputInv, ClientTypes, ReplyInv
<1>3. k \in 0..Len(toClient)
  BY <1>2
<1>4. Q(k) \in Seq(Replies)
  BY <1>2, <1>3, CutType
<1>5. Decode(Q(k)) \in Seq(Replies)
  <2> HIDE DEF Q
  <2> QED
    BY <1>4, DecodeType
<1>6. \A c \in H(k) : c \in Replies /\ c.msg \in client.rdones
  <2> DEFINE d == Decode(Q(k))
  <2>1. \A c \in ToSet(d) : c \in Replies
    <3> HIDE DEF d
    <3>1. DOMAIN d = 1..Len(d) /\ \A i \in 1..Len(d) : d[i] \in Replies
      BY <1>5, ElementOfSeq DEF d
    <3> QED
      BY <3>1 DEF ToSet
  <2> QED
    BY <2>1
<1>7. \A c \in Replies : c.status = Outcome(c.msg) /\ Flaw[c.msg] \in {"none", "response"}
  BY DEF Replies
<1>8. /\ m \notin client.rdones => G(k, m) = {}
      /\ \/ G(k, m) = {}
         \/ G(k, m) = {Outcome(m)} /\ m \notin L(k) /\ Flaw[m] \in {"none", "response"}
      /\ L(k) \subseteq client.rdones
  <2> HIDE DEF H
  <2> QED
    BY <1>6, <1>7
<1>9. answers'[m] = answers[m] \cup G(k, m)
  BY <1>1
<1>10. client'.rdones = L(k)
  <2> DEFINE l == L(k)
             u == Undecoded(Q(k))
  <2>1. client' = [client EXCEPT !.in = u, !.rdones = l]
    BY <1>1
  <2> HIDE DEF l, u
  <2>2. client'.rdones = l
    BY <1>2, <2>1
  <2> QED
    BY <2>2 DEF l
<1> HIDE DEF G, L
<1> QED
  BY <1>8, <1>9, <1>10

\* onWrite on the client reads for no one but who was stored.
LEMMA WriteReads ==
  ASSUME OutputInv, ClientOnWrite
  PROVE  client'.rdones \subseteq client.rdones \cup ToSet(client.wdones)
<1>1. PICK rest : \/ client' = RunWriteDones([client EXCEPT !.out = <<>>,
                                                            !.want = client.want \ {"OUT"}])
                  \/ client' = [client EXCEPT !.out = rest]
  BY DEF ClientOnWrite
<1>2. DOMAIN client = {"in", "out", "want", "wdones", "rdones"}
  BY DEF OutputInv, ClientTypes
<1> DEFINE w == client.want \ {"OUT"}
           idle == [client EXCEPT !.out = <<>>, !.want = w]
<1>3. DOMAIN idle = DOMAIN client /\ idle.rdones = client.rdones /\ idle.wdones = client.wdones
  BY <1>2
<1>4. client' = RunWriteDones(idle) \/ client' = [client EXCEPT !.out = rest]
  BY <1>1
<1> HIDE DEF idle
<1>5. RunWriteDones(idle).rdones = idle.rdones \cup ToSet(idle.wdones)
  BY <1>2, <1>3 DEF RunWriteDones
<1>6. [client EXCEPT !.out = rest].rdones = client.rdones
  BY <1>2
<1> QED
  BY <1>3, <1>4, <1>5, <1>6

\* The first server does not come back.
LEMMA FirstStaysGone ==
  ASSUME ServerInv, Sup!Next
  PROVE  /\ starts' \in Nat /\ starts' >= starts
         /\ \A i \in live' : i \in live \/ i = starts + 1
         /\ (live # {} => starts >= 1) => (live' # {} => starts' >= 1)
<1>0. starts \in Nat /\ live \subseteq {starts}
  BY DEF ServerInv
<1>1. CASE Sup!Fork
  BY <1>0, <1>1 DEF Sup!Fork, Sup!End
<1>2. CASE Sup!Start \/ Sup!InstallHandler \/ Sup!WaitChild \/ Sup!Exec \/ Sup!SigChld
           \/ Sup!SigInt \/ Sup!Killed \/ \E i \in live : Sup!ServerEnds(i)
  <2>1. starts' = starts /\ live' \subseteq live
    BY <1>2 DEF Sup!Start, Sup!InstallHandler, Sup!WaitChild, Sup!Exec, Sup!SigChld,
       Sup!SigInt, Sup!Killed, Sup!ServerEnds, Sup!End
  <2>2. starts' \in Nat /\ starts' >= starts
    BY <1>0, <2>1
  <2>3. ASSUME live # {} => starts >= 1, live' # {} PROVE starts' >= 1
    BY <2>1, <2>3
  <2> QED
    BY <2>1, <2>2, <2>3
<1> QED
  BY <1>1, <1>2 DEF Sup!Next, Sup!Steps

\* One step: no answer is changed, and a new one is one of the four.
LEMMA AnswerStep ==
  ASSUME ServerInv, OutputInv, ReplyInv, AnswerInv, [SupervisedNext]_allVars
  PROVE  /\ AnswerInv'
         /\ \A m \in Requests : answers[m] # {} => answers'[m] = answers[m]
<1> DEFINE Kept == \A m \in Requests : answers[m] # {} => answers'[m] = answers[m]
<1>0. /\ DOMAIN client = {"in", "out", "want", "wdones", "rdones"}
      /\ DOMAIN answers = Requests /\ written \in Seq(Requests)
  BY DEF OutputInv, ClientTypes
<1>1. CASE UNCHANGED <<client, answers, link, starts, live>>
  BY <1>1 DEF AnswerInv, AnsweredOneWay, FirstGone
<1>2. ASSUME NEW m \in Requests, Call(m) PROVE AnswerInv' /\ Kept
  <2>1. UNCHANGED <<starts, live>>
    BY <1>2 DEF Call, supVars
  <2>2. link' = "broken" => link = "broken"
    BY <1>2 DEF Call, Refused
  <2>3. CASE WriteMessage(m)
    <3>1. UNCHANGED answers /\ client'.rdones = client.rdones
      BY <1>0, <2>3 DEF WriteMessage
    <3> QED
      BY <2>1, <2>2, <3>1 DEF AnswerInv, AnsweredOneWay, FirstGone
  <2>4. CASE Refused(m)
    <3>1. /\ ~Contains(written, m) /\ client' = client
          /\ answers' = [answers EXCEPT ![m] = {"refused"}]
      BY <2>4 DEF Refused
    <3>2. answers[m] = {} /\ m \notin client.rdones
      BY <3>1 DEF OutputInv, KnownInv
    <3>3. answers'[m] = {"refused"} /\ \A x \in Requests : x # m => answers'[x] = answers[x]
      BY <1>0, <3>1
    <3>4. {"refused"} # {"lost"}
      OBVIOUS
    <3>5. AnsweredOneWay'
      <4> SUFFICES ASSUME NEW x \in Requests, x # m
                   PROVE  \/ answers'[x] = {}
                          \/ answers'[x] = {Outcome(x)} /\ Flaw[x] \in {"none", "response"}
                          \/ answers'[x] = {"lost"} /\ 1 \notin live'
                          \/ answers'[x] = {"refused"}
        BY <3>3 DEF AnsweredOneWay, Outcome
      <4> QED
        BY <2>1, <3>3 DEF AnswerInv, AnsweredOneWay
    <3>6. \A x \in Requests : answers'[x] = {"lost"} => answers[x] = {"lost"}
      BY <3>3, <3>4
    <3>7. \A x \in client'.rdones : x \in Requests /\ answers'[x] = {}
      BY <3>1, <3>2, <3>3 DEF AnswerInv
    <3> QED
      BY <2>1, <2>2, <3>2, <3>3, <3>5, <3>6, <3>7 DEF AnswerInv, FirstGone
  <2> QED
    BY <1>2, <2>3, <2>4 DEF Call
<1>3. CASE Sends
  <2>1. UNCHANGED <<answers, link, starts, live>>
    BY <1>3 DEF Sends, ClientOnWrite, supVars
  <2>2. \A x \in ToSet(client.wdones) : x \in Requests /\ answers[x] = {}
    <3>1. client.wdones = <<>> \/ \E x \in Requests : client.wdones = <<x>>
      BY DEF OutputInv, StoredInv
    <3>2. ToSet(<<>>) = {} /\ \A x : ToSet(<<x>>) = {x}
      BY DEF ToSet
    <3> QED
      BY <3>1, <3>2 DEF OutputInv, StoredInv
  <2>3. client'.rdones \subseteq client.rdones \cup ToSet(client.wdones)
    BY <1>3, WriteReads DEF Sends
  <2>4. \A x \in client'.rdones : x \in Requests /\ answers'[x] = {}
    BY <2>1, <2>2, <2>3 DEF AnswerInv
  <2> QED
    BY <2>1, <2>4 DEF AnswerInv, AnsweredOneWay, FirstGone
<1>4. CASE Reads
  <2>1. UNCHANGED <<link, starts, live>> /\ ClientOnRead
    BY <1>4 DEF Reads, supVars
  <2>2. ASSUME NEW m \in Requests
        PROVE  /\ answers[m] # {} => answers'[m] = answers[m]
               /\ answers'[m] = {"lost"} => answers[m] = {"lost"}
               /\ m \in client'.rdones => answers'[m] = {}
               /\ \/ answers'[m] = {}
                  \/ answers'[m] = {Outcome(m)} /\ Flaw[m] \in {"none", "response"}
                  \/ answers'[m] = {"lost"} /\ 1 \notin live'
                  \/ answers'[m] = {"refused"}
    <3>1. m \in client.rdones => answers[m] = {}
      BY DEF AnswerInv
    <3>2. /\ m \notin client.rdones => answers'[m] = answers[m]
          /\ \/ answers'[m] = answers[m]
             \/ /\ m \notin client'.rdones /\ Flaw[m] \in {"none", "response"}
                /\ answers'[m] = answers[m] \cup {Outcome(m)}
          /\ client'.rdones \subseteq client.rdones
      BY <2>1, ReadGives
    <3>3. Outcome(m) \in {"ok", "error"}
      BY DEF Outcome
    <3>4. {Outcome(m)} # {"lost"}
      BY <3>3
    <3>5. CASE answers'[m] = answers[m]
      BY <2>1, <3>1, <3>2, <3>5 DEF AnswerInv, AnsweredOneWay
    <3>6. CASE answers'[m] # answers[m]
      <4>1. answers[m] = {} /\ answers'[m] = {Outcome(m)}
        BY <3>1, <3>2, <3>6
      <4> QED
        BY <3>2, <3>4, <3>6, <4>1
    <3> QED
      BY <3>5, <3>6
  <2>3. client'.rdones \subseteq client.rdones
    <3>1. CASE Requests = {}
      <4>1. client.rdones = {}
        BY <3>1 DEF AnswerInv
      <4>2. PICK k, u, d : client' = [client EXCEPT !.in = u, !.rdones = client.rdones \ d]
        BY <2>1 DEF ClientOnRead
      <4> QED
        BY <1>0, <4>2
    <3>2. CASE Requests # {}
      BY <2>1, <3>2, ReadGives
    <3> QED
      BY <3>1, <3>2
  <2>4. AnsweredOneWay' /\ \A x \in client'.rdones : x \in Requests /\ answers'[x] = {}
    <3>1. \A x \in client'.rdones : x \in Requests
      BY <2>3 DEF AnswerInv
    <3>2. AnsweredOneWay'
      BY <2>2 DEF AnsweredOneWay, Outcome
    <3> QED
      BY <2>2, <3>1, <3>2
  <2>5. Kept
    BY <2>2
  <2> QED
    BY <2>1, <2>2, <2>4, <2>5 DEF AnswerInv, FirstGone
<1>5. CASE ConnectionLost
  <2>1. /\ link = "broken" /\ link' = "none" /\ client' = Fresh({})
        /\ answers' = [m \in Requests |-> IF m \in Outstanding THEN {"lost"} ELSE answers[m]]
        /\ UNCHANGED <<starts, live>>
    BY <1>5 DEF ConnectionLost, supVars
  <2>2. FirstGone /\ FirstGone'
    BY <2>1 DEF AnswerInv, FirstGone
  <2>3. client'.rdones = {}
    BY <2>1 DEF Fresh
  <2>4. \A m \in Requests : \/ answers'[m] = answers[m]
                            \/ answers[m] = {} /\ answers'[m] = {"lost"}
    BY <2>1 DEF Outstanding
  <2>5. AnsweredOneWay'
    <3> SUFFICES ASSUME NEW x \in Requests
                 PROVE  \/ answers'[x] = {}
                        \/ answers'[x] = {Outcome(x)} /\ Flaw[x] \in {"none", "response"}
                        \/ answers'[x] = {"lost"} /\ 1 \notin live'
                        \/ answers'[x] = {"refused"}
      BY DEF AnsweredOneWay, Outcome
    <3> QED
      BY <2>1, <2>2, <2>4 DEF AnswerInv, AnsweredOneWay, FirstGone
  <2> QED
    BY <2>1, <2>2, <2>3, <2>4, <2>5 DEF AnswerInv
<1>6. CASE ServerReads \/ ServerWrites
  BY <1>1, <1>6 DEF ServerReads, ServerWrites, ServerOnRead, ServerOnWrite, supVars
<1>7. CASE Supervises(Sup!Next)
  <2>0. starts \in Nat /\ live \subseteq {starts}
    BY DEF ServerInv
  <2>1. UNCHANGED <<client, answers>>
    BY <1>7 DEF Supervises, Breaks, vars
  <2>2. /\ starts' \in Nat /\ starts' >= starts
        /\ \A i \in live' : i \in live \/ i = starts + 1
        /\ (live # {} => starts >= 1) => (live' # {} => starts' >= 1)
    BY <1>7, FirstStaysGone DEF Supervises
  <2>3. FirstGone => FirstGone'
    BY <2>0, <2>2 DEF FirstGone
  <2>4. link' = "broken" => link = "broken" \/ ~(live \subseteq live')
    BY <1>7 DEF Supervises
  <2>5. ~(live \subseteq live') => FirstGone'
    <3> SUFFICES ASSUME ~(live \subseteq live') PROVE FirstGone'
      OBVIOUS
    <3>1. starts \in live /\ starts \notin live' /\ starts >= 1
      BY <2>0 DEF AnswerInv
    <3>2. 1 \notin live'
      BY <2>0, <2>2, <3>1
    <3> QED
      BY <2>0, <2>2, <3>1, <3>2 DEF FirstGone
  <2>6. link' = "broken" => FirstGone'
    BY <2>3, <2>4, <2>5 DEF AnswerInv
  <2>7. \A m \in Requests : answers'[m] = {"lost"} => FirstGone'
    BY <2>1, <2>3 DEF AnswerInv
  <2>8. AnsweredOneWay'
    <3> SUFFICES ASSUME NEW x \in Requests
                 PROVE  \/ answers'[x] = {}
                        \/ answers'[x] = {Outcome(x)} /\ Flaw[x] \in {"none", "response"}
                        \/ answers'[x] = {"lost"} /\ 1 \notin live'
                        \/ answers'[x] = {"refused"}
      BY DEF AnsweredOneWay, Outcome
    <3> QED
      BY <2>1, <2>7 DEF AnswerInv, AnsweredOneWay, FirstGone
  <2> QED
    BY <2>1, <2>2, <2>6, <2>7, <2>8 DEF AnswerInv
<1>8. CASE UNCHANGED allVars
  BY <1>1, <1>8 DEF allVars, vars, supVars
<1> QED
  BY <1>2, <1>3, <1>4, <1>5, <1>6, <1>7, <1>8 DEF SupervisedNext

\* The invariants hold together.
LEMMA AnswersInvariant ==
  SupervisedSpec => [](ServerInv /\ OutputInv /\ ReplyInv /\ AnswerInv)
<1>1. SupervisedInit => ReplyInv /\ AnswerInv
  <2> SUFFICES ASSUME SupervisedInit PROVE ReplyInv /\ AnswerInv
    OBVIOUS
  <2>1. /\ client = Fresh({}) /\ server = Fresh({"IN"}) /\ toServer = <<>> /\ toClient = <<>>
        /\ answers = [m \in Requests |-> {}] /\ link = "none" /\ live = {}
    BY DEF SupervisedInit, Init, Sup!Init
  <2>2. <<>> \in Seq(Cells) /\ <<>> \in Seq(Replies)
    BY EmptySeq
  <2>3. /\ DOMAIN server = {"in", "out", "want", "wdones", "rdones"}
        /\ server.in = <<>> /\ server.out = <<>> /\ client.in = <<>> /\ client.rdones = {}
    BY <2>1 DEF Fresh
  <2>4. ReplyInv
    BY <2>1, <2>2, <2>3, Zenon DEF ReplyInv
  <2>5. AnswerInv
    BY <2>1, <2>3 DEF AnswerInv, AnsweredOneWay
  <2> QED
    BY <2>4, <2>5
<1>2. ServerInv /\ OutputInv /\ ReplyInv /\ AnswerInv /\ [SupervisedNext]_allVars => AnswerInv'
  BY AnswerStep
<1> QED
  BY <1>1, <1>2, ServerInvHolds, InitOutput, NextOutput, ReplyStep, PTL DEF SupervisedSpec

\* The safety half of EndsOneWay, for any requests, sizes and restart count: a request has
\* one answer at most, and that is its own response, or that it was lost with a server
\* that ended, or that it was refused.
THEOREM RequestsEndOneWay == SupervisedSpec => []AnsweredOneWay
<1>1. AnswerInv => AnsweredOneWay
  BY DEF AnswerInv
<1> QED
  BY <1>1, AnswersInvariant, PTL

\* No response that is late, no restart and no later call changes what a request ended
\* with.
THEOREM AnswersAreFinal == SupervisedSpec => AnswersStand
<1>1. /\ ServerInv /\ OutputInv /\ ReplyInv /\ AnswerInv
      /\ [SupervisedNext]_allVars
      => [\A m \in Requests : answers[m] # {} => answers'[m] = answers[m]]_allVars
  BY AnswerStep
<1> QED
  BY <1>1, AnswersInvariant, PTL DEF SupervisedSpec, AnswersStand

=============================================================================
