-------------------------- MODULE TcpServerProofs --------------------------
(***************************************************************************)
(* Theorems about TcpServer, for any number of IO threads, connections and *)
(* descriptors.                                                            *)
(***************************************************************************)
EXTENDS TcpServer, FiniteSetTheorems, WellFoundedInduction, TLAPS

USE TcpServerAssumption

(***************************************************************************)
(* The inductive invariant                                                 *)
(***************************************************************************)

\* The tasks that may be queued now: an error callback only of a connection that
\* its client has closed.
Tasks ==
  [op : {"drain", "call"}, arg : {None}] \cup [op : {"add"}, arg : Fds]
  \cup [op : {"read"}, arg : Conns] \cup [op : {"clear"}, arg : ended]

\* Frames and IO threads whose tasks are in T.
FramesOf(T) ==
  [at : {"swap", "run", "close", "serve"}, todo : Seq(T),
   conn : Conns \cup {None}, fd : Fds \cup {None}]

ThreadsOf(T) ==
  [thread : {"none", "init", "wait", "loop", "exited"}, sem : Nat,
   started : BOOLEAN, stop : BOOLEAN, looping : BOOLEAN, wake : BOOLEAN,
   queue : Seq(T), frames : Seq(FramesOf(T)), listed : SUBSET Fds,
   call : {"none", "waiting", "due", "done"}]

Points == {"create", "created", "ready", "start", "serve", "stop", "join",
           "clear", "delete", "gone"}

TypeOK ==
  /\ main \in [at : Points, w : Workers]
  /\ io \in [Workers -> ThreadsOf(Tasks)]
  /\ next \in Workers
  /\ conn \in [Conns -> {"new", "Connected", "Closed"}]
  /\ fd \in [Conns -> Fds \cup {None}]
  /\ asked \in [Conns -> {"no", "sent", "read"}]
  /\ ended \subseteq Conns
  /\ clients \subseteq Conns
  /\ owner \in [Fds -> Conns \cup {None}]
  /\ open \subseteq Fds
  /\ watched \in [Fds -> SUBSET Workers]

\* A thread has frames only while it runs its loop, all but the innermost in a
\* service method.
FramesInv ==
  /\ \A w \in Workers : io[w].frames # <<>> => io[w].thread = "loop"
  /\ \A w \in Workers : \A i \in 2..Len(io[w].frames) : io[w].frames[i].at = "serve"

\* The owner creates threads that are not there yet, and has joined the threads
\* that it is past.
OwnerInv ==
  /\ main.at = "create" => \A w \in main.w..NumWorkers : io[w].thread = "none"
  /\ main.at = "created" => \A w \in (main.w + 1)..NumWorkers : io[w].thread = "none"
  /\ main.at = "join" => \A w \in 1..(main.w - 1) : io[w].thread = "exited"
  /\ main.at \in {"clear", "delete", "gone"} =>
       \A w \in Workers : io[w].thread = "exited"

ThreadInv == FramesInv /\ OwnerInv

\* The thread is between the two halves of clear() of the connection on f.
Closes(w, f) == At(w, "close") /\ Top(w).fd = f

\* Every open descriptor belongs to one connection, which is connected or is
\* being closed by one thread, and its Fd_Event is that connection's.
ConnInv ==
  /\ \A c \in Conns : conn[c] = "Connected" =>
       fd[c] \in open /\ owner[fd[c]] = c /\ c \in clients
  /\ \A w \in Workers : At(w, "close") => Top(w).fd \in open
  /\ \A w \in Workers : \A f \in Fds : Closes(w, f) =>
       owner[f] \in Conns /\ conn[owner[f]] = "Closed"
  /\ \A v, w \in Workers : \A f \in Fds : Closes(v, f) /\ Closes(w, f) => v = w
  /\ \A f \in open : \/ \E c \in Conns : conn[c] = "Connected" /\ fd[c] = f
                     \/ \E w \in Workers : Closes(w, f)
  /\ \A f \in Fds : watched[f] # {} => f \in open
  /\ main.at \in {"delete", "gone"} => open = {}

(***************************************************************************)
(* Operators of the libraries                                              *)
(***************************************************************************)

\* Every set of naturals that is not empty has a least member.
LEMMA LeastNatural ==
  ASSUME NEW T, T \subseteq Nat, T # {}
  PROVE  \E x \in T : \A y \in T : x <= y
<1> DEFINE R == {ss \in Nat \X Nat : ss[1] < ss[2]}
<1>1. IsWellFoundedOn(R, Nat)
  BY NatLessThanWellFounded DEF OpToRel
<1>2. \A x, y \in Nat : y < x => <<y, x>> \in R
  OBVIOUS
<1> HIDE DEF R
<1>3. PICK x \in T : \A y \in T : <<y, x>> \notin R
  BY <1>1, WFMin
<1>4. \A y \in T : ~(y < x)
  BY <1>2, <1>3
<1>5. \A y \in T : x <= y
  BY <1>4
<1> QED
  BY <1>5

\* The descriptor that accept() returns is not open.
LEMMA FreeFd ==
  ASSUME Fds \ open # {}
  PROVE  Min(Fds \ open) \in Fds /\ Min(Fds \ open) \notin open
<1>1. Fds \ open \subseteq Nat
  BY DEF Fds
<1>2. \E x \in Fds \ open : \A y \in Fds \ open : x <= y
  BY <1>1, LeastNatural
<1> QED
  BY <1>2 DEF Min

\* The elements of SetToSeqs(S) are sequences over S.
LEMMA ListedType ==
  ASSUME NEW S, IsFiniteSet(S), NEW q \in SetToSeqs(S)
  PROVE  q \in Seq(S)
<1>1. Cardinality(S) \in Nat
  BY FS_CardinalityType
<1>2. q \in [1..Cardinality(S) -> S]
  BY DEF SetToSeqs
<1> QED
  BY <1>1, <1>2

\* The first m values of the function that FlattenSeq defines.
Flattens(g, q, m) ==
  g = [i \in 1..m |-> IF i = 1 THEN q[i] ELSE g[i - 1] \o q[i]]

\* There is such a function for every m: no m is the least for which there is none.
LEMMA FlattenExists ==
  ASSUME NEW q, NEW n \in Nat
  PROVE  \E g : Flattens(g, q, n)
<1> DEFINE Bad == {m \in Nat : ~ \E g : Flattens(g, q, m)}
<1>1. SUFFICES ASSUME Bad # {} PROVE FALSE
  OBVIOUS
<1>2. PICK m \in Bad : \A k \in Bad : m <= k
  <2>1. Bad \subseteq Nat
    OBVIOUS
  <2> HIDE DEF Bad
  <2> QED
    BY <1>1, <2>1, LeastNatural
<1>3. CASE m = 0
  <2> DEFINE e == [i \in 1..0 |-> 0]
  <2>1. e = [i \in 1..0 |-> IF i = 1 THEN q[i] ELSE e[i - 1] \o q[i]]
    OBVIOUS
  <2> QED
    BY <1>2, <1>3, <2>1 DEF Flattens
<1>4. CASE m # 0
  <2>1. m - 1 \in Nat /\ m - 1 \notin Bad /\ m \in Nat
    BY <1>2, <1>4
  <2>2. PICK g : Flattens(g, q, m - 1)
    BY <2>1
  <2> DEFINE h == [i \in 1..m |-> IF i < m THEN g[i]
                                  ELSE IF i = 1 THEN q[i] ELSE g[i - 1] \o q[i]]
  <2>3. ASSUME NEW i \in 1..m
        PROVE  h[i] = IF i = 1 THEN q[i] ELSE h[i - 1] \o q[i]
    <3>1. CASE i < m
      <4>1. i \in 1..(m - 1)
        BY <2>1, <3>1
      <4>2. g[i] = IF i = 1 THEN q[i] ELSE g[i - 1] \o q[i]
        BY <2>2, <4>1 DEF Flattens
      <4>3. i # 1 => i - 1 \in 1..m /\ i - 1 < m
        BY <2>1
      <4> QED
        BY <3>1, <4>2, <4>3
    <3>2. CASE ~(i < m)
      <4>1. i # 1 => i - 1 \in 1..m /\ i - 1 < m
        BY <2>1
      <4> QED
        BY <3>2, <4>1
    <3> QED
      BY <3>1, <3>2
  <2>4. h = [i \in 1..m |-> h[i]]
    OBVIOUS
  <2> HIDE DEF h
  <2>5. h = [i \in 1..m |-> IF i = 1 THEN q[i] ELSE h[i - 1] \o q[i]]
    BY <2>3, <2>4
  <2> QED
    BY <1>2, <2>5 DEF Flattens
<1> QED
  BY <1>3, <1>4

\* FlattenSeq of sequences over T is a sequence over T.
LEMMA FlattenType ==
  ASSUME NEW T, NEW q \in Seq(Seq(T))
  PROVE  FlattenSeq(q) \in Seq(T)
<1> DEFINE n == Len(q)
           g == CHOOSE g : Flattens(g, q, n)
<1>1. n \in Nat
  OBVIOUS
<1>2. Flattens(g, q, n)
  BY <1>1, FlattenExists
<1>3. FlattenSeq(q) = IF n = 0 THEN q ELSE g[n]
  BY DEF FlattenSeq, Flattens
<1>4. CASE n = 0
  <2>1. q = <<>>
    BY <1>4
  <2> QED
    BY <1>3, <1>4, <2>1
<1>5. CASE n # 0
  <2> DEFINE Bad == {i \in 1..n : g[i] \notin Seq(T)}
  <2>1. CASE Bad = {}
    <3>1. n \in 1..n
      BY <1>1, <1>5
    <3> HIDE DEF g, n
    <3> QED
      BY <1>3, <1>5, <2>1, <3>1
  <2>2. CASE Bad # {}
    <3>1. Bad \subseteq Nat
      BY <1>1
    <3>2. PICK i \in Bad : \A k \in Bad : i <= k
      <4> HIDE DEF Bad
      <4> QED
        BY <2>2, <3>1, LeastNatural
    <3> HIDE DEF g
    <3>3. g[i] = IF i = 1 THEN q[i] ELSE g[i - 1] \o q[i]
      BY <1>2, <3>2 DEF Flattens
    <3>4. q[i] \in Seq(T)
      BY <3>2
    <3>5. i # 1 => g[i - 1] \in Seq(T)
      <4>1. i # 1 => i - 1 \in 1..n /\ ~(i <= i - 1)
        BY <1>1, <3>2
      <4> QED
        BY <3>2, <4>1
    <3>6. \A s, t \in Seq(T) : s \o t \in Seq(T)
      OBVIOUS
    <3>7. g[i] \in Seq(T)
      BY <3>3, <3>4, <3>5, <3>6
    <3> QED
      BY <3>2, <3>7
  <2> QED
    BY <2>1, <2>2
<1> QED
  BY <1>4, <1>5

(***************************************************************************)
(* What the operations on an IO thread return                              *)
(***************************************************************************)

\* s is an IO thread that is where r is.
StaysAt(s, r, T) ==
  /\ s \in ThreadsOf(T)
  /\ s.frames = r.frames
  /\ s.thread = r.thread

\* Stops, posts, queued tasks and the end of a call move no thread.
LEMMA FlagOps ==
  ASSUME NEW T, NEW r \in ThreadsOf(T)
  PROVE  /\ StaysAt(Stop(r), r, T)
         /\ StaysAt(PostStart(r), r, T)
         /\ \A tasks \in Seq(T), wakeup \in BOOLEAN :
              StaysAt(AddTasks(r, tasks, wakeup), r, T)
         /\ StaysAt(FinishCall(r), r, T)
<1>0. ASSUME NEW s \in ThreadsOf(T) PROVE StaysAt(Stop(s), s, T)
  BY DEF ThreadsOf, StaysAt, Stop
<1>1. StaysAt(PostStart(r), r, T)
  <2> DEFINE n == r.sem + 1
  <2>1. n \in Nat
    BY DEF ThreadsOf
  <2>2. PostStart(r) = IF r.started THEN r
                       ELSE [r EXCEPT !.started = TRUE, !.sem = n]
    BY DEF PostStart
  <2> HIDE DEF n
  <2> QED
    BY <2>1, <2>2 DEF ThreadsOf, StaysAt
<1>2. ASSUME NEW tasks \in Seq(T), NEW wakeup \in BOOLEAN
      PROVE  StaysAt(AddTasks(r, tasks, wakeup), r, T)
  <2>1. r.queue \o tasks \in Seq(T)
    <3>1. r.queue \in Seq(T)
      BY DEF ThreadsOf
    <3> QED
      BY <3>1
  <2>2. (r.wake \/ wakeup) \in BOOLEAN
    OBVIOUS
  <2> DEFINE q == r.queue \o tasks
             b == (r.wake \/ wakeup)
  <2>3. AddTasks(r, tasks, wakeup) =
          IF r.stop THEN r ELSE [r EXCEPT !.queue = q, !.wake = b]
    BY DEF AddTasks
  <2> HIDE DEF q, b
  <2> QED
    BY <2>1, <2>2, <2>3 DEF ThreadsOf, StaysAt, q, b
<1>3. StaysAt(FinishCall(r), r, T)
  <2>1. StaysAt([r EXCEPT !.call = "done"], r, T)
    BY DEF ThreadsOf, StaysAt
  <2>2. StaysAt(Stop([r EXCEPT !.call = "done"]), r, T)
    BY <1>0, <2>1 DEF StaysAt
  <2> QED
    BY <2>1, <2>2 DEF FinishCall
<1> QED
  BY <1>0, <1>1, <1>2, <1>3

\* loop() is entered on top of what runs, or returns at once.
LEMMA EnterLoopOp ==
  ASSUME NEW T, NEW r \in ThreadsOf(T)
  PROVE  /\ EnterLoop(r) \in ThreadsOf(T)
         /\ EnterLoop(r).thread = r.thread
         /\ \/ EnterLoop(r).frames = r.frames
            \/ EnterLoop(r).frames = <<Loop("swap", <<>>)>> \o r.frames
<1>1. Loop("swap", <<>>) \in FramesOf(T)
  BY DEF Loop, Frame, FramesOf
<1>2. <<Loop("swap", <<>>)>> \o r.frames \in Seq(FramesOf(T))
  <2>1. r.frames \in Seq(FramesOf(T))
    BY DEF ThreadsOf
  <2> QED
    BY <1>1, <2>1
<1> DEFINE s == <<Loop("swap", <<>>)>> \o r.frames
<1>3. EnterLoop(r) = IF r.stop THEN [r EXCEPT !.looping = FALSE]
                     ELSE [r EXCEPT !.looping = TRUE, !.frames = s]
  BY DEF EnterLoop
<1> HIDE DEF s
<1>4. s \in Seq(FramesOf(T))
  BY <1>2 DEF s
<1>5. CASE r.stop
  BY <1>3, <1>5 DEF ThreadsOf
<1>6. CASE ~r.stop
  <2>1. EnterLoop(r) \in ThreadsOf(T) /\ EnterLoop(r).thread = r.thread
        /\ EnterLoop(r).frames = s
    BY <1>3, <1>4, <1>6 DEF ThreadsOf
  <2> QED
    BY <2>1 DEF s
<1> QED
  BY <1>5, <1>6

\* loop() returns to what was running before; the thread ends if nothing was.
LEMMA LeaveLoopOp ==
  ASSUME NEW T, NEW r \in ThreadsOf(T), r.frames # <<>>
  PROVE  /\ LeaveLoop(r) \in ThreadsOf(T)
         /\ LeaveLoop(r).frames = Tail(r.frames)
         /\ LeaveLoop(r).thread = r.thread
<1> DEFINE s == Tail(r.frames)
<1>1. s \in Seq(FramesOf(T))
  <2>1. r.frames \in Seq(FramesOf(T))
    BY DEF ThreadsOf
  <2> QED
    BY <2>1
<1>2. LeaveLoop(r) = [r EXCEPT !.looping = FALSE, !.frames = s]
  BY DEF LeaveLoop
<1> HIDE DEF s
<1>3. LeaveLoop(r) \in ThreadsOf(T) /\ LeaveLoop(r).frames = s
      /\ LeaveLoop(r).thread = r.thread
  BY <1>1, <1>2 DEF ThreadsOf
<1> QED
  BY <1>3 DEF s

\* A thread with no frame left has ended, another one is as it was.
LEMMA ExitOp ==
  ASSUME NEW T, NEW r \in ThreadsOf(T)
  PROVE  /\ ExitIfDone(r) \in ThreadsOf(T)
         /\ ExitIfDone(r).frames = r.frames
         /\ ExitIfDone(r).thread = IF r.frames = <<>> THEN "exited" ELSE r.thread
BY DEF ThreadsOf, ExitIfDone

\* The innermost frame of r is now x.
SetTop(r, x) == [r EXCEPT !.frames[1] = x]

\* So r has moved within its innermost frame, to x.
MovesTo(s, r, x, T) ==
  /\ s \in ThreadsOf(T)
  /\ s.frames = [r.frames EXCEPT ![1] = x]
  /\ s.thread = r.thread

\* Setting the innermost frame moves the thread there.
LEMMA SetTopOp ==
  ASSUME NEW T, NEW r \in ThreadsOf(T), r.frames # <<>>, NEW x \in FramesOf(T)
  PROVE  MovesTo(SetTop(r, x), r, x, T)
<1>1. r.frames \in Seq(FramesOf(T))
  BY DEF ThreadsOf
<1>2. [r.frames EXCEPT ![1] = x] \in Seq(FramesOf(T))
  BY <1>1
<1> DEFINE s == [r.frames EXCEPT ![1] = x]
<1>3. SetTop(r, x) = [r EXCEPT !.frames = s]
  BY DEF SetTop
<1> HIDE DEF s
<1>4. [r EXCEPT !.frames = s] \in ThreadsOf(T)
  BY <1>2 DEF ThreadsOf, s
<1>5. [r EXCEPT !.frames = s].frames = s /\ [r EXCEPT !.frames = s].thread = r.thread
  BY DEF ThreadsOf
<1> QED
  BY <1>3, <1>4, <1>5 DEF MovesTo, s

(***************************************************************************)
(* What the steps do to the threads                                        *)
(***************************************************************************)

\* One step changes one thread.
LEMMA OneThread ==
  ASSUME TypeOK, NEW w \in Workers, NEW s \in ThreadsOf(Tasks),
         io' = [io EXCEPT ![w] = s]
  PROVE  /\ io' \in [Workers -> ThreadsOf(Tasks)]
         /\ io'[w] = s
         /\ \A v \in Workers \ {w} : io'[v] = io[v]
BY DEF TypeOK

\* The innermost frame and its tasks.
LEMMA TopType ==
  ASSUME TypeOK, NEW w \in Workers, io[w].frames # <<>>
  PROVE  /\ io[w] \in ThreadsOf(Tasks)
         /\ Top(w) \in FramesOf(Tasks)
         /\ Top(w).todo \in Seq(Tasks)
         /\ Loop("run", Top(w).todo) \in FramesOf(Tasks)
<1>1. io[w] \in ThreadsOf(Tasks)
  BY DEF TypeOK
<1>2. io[w].frames \in Seq(FramesOf(Tasks))
  BY <1>1 DEF ThreadsOf
<1>3. Top(w) \in FramesOf(Tasks)
  BY <1>2 DEF Top
<1>4. Top(w).todo \in Seq(Tasks)
  BY <1>3 DEF FramesOf
<1>5. Loop("run", Top(w).todo) \in FramesOf(Tasks)
  BY <1>4 DEF FramesOf, Loop, Frame
<1> QED
  BY <1>1, <1>3, <1>4, <1>5

\* A thread about to run a task is in its loop, and the task has its kind of argument: a
\* connection that is cleared has ended.
LEMMA NextTaskType ==
  ASSUME TypeOK, NEW w \in Workers, NEW op, NextTask(w, op)
  PROVE  /\ io[w].frames # <<>>
         /\ Top(w).at = "run"
         /\ Tail(Top(w).todo) \in Seq(Tasks)
         /\ Rest(w) \in FramesOf(Tasks)
         /\ op = "add" => Arg(w) \in Fds
         /\ op = "read" => Arg(w) \in Conns
         /\ op = "clear" => Arg(w) \in ended
<1>1. io[w].frames # <<>> /\ Top(w).at = "run"
  BY DEF NextTask, At
<1>2. Top(w).todo \in Seq(Tasks) /\ Top(w).todo # <<>>
  BY <1>1, TopType DEF NextTask
<1>3. Tail(Top(w).todo) \in Seq(Tasks) /\ Head(Top(w).todo) \in Tasks
  BY <1>2
<1>4. Rest(w) \in FramesOf(Tasks)
  BY <1>3 DEF Rest, Loop, Frame, FramesOf
<1>5. Head(Top(w).todo).op = op
  BY DEF NextTask
<1>6. /\ op = "add" => Arg(w) \in Fds
      /\ op = "read" => Arg(w) \in Conns
      /\ op = "clear" => Arg(w) \in ended
  BY <1>3, <1>5 DEF Tasks, Arg
<1> QED
  BY <1>1, <1>3, <1>4, <1>6

\* Thread w changes, where it is or its innermost frame to x.
Stays(w) ==
  /\ io' \in [Workers -> ThreadsOf(Tasks)]
  /\ StaysAt(io'[w], io[w], Tasks)
  /\ \A v \in Workers \ {w} : io'[v] = io[v]

Moves(w, x) ==
  /\ io[w].frames # <<>>
  /\ io' \in [Workers -> ThreadsOf(Tasks)]
  /\ MovesTo(io'[w], io[w], x, Tasks)
  /\ \A v \in Workers \ {w} : io'[v] = io[v]

\* A step that only sets the innermost frame and, perhaps, flags, queue or list.
LEMMA SetTopMoves ==
  ASSUME TypeOK, NEW w \in Workers, io[w].frames # <<>>,
         NEW r, StaysAt(r, io[w], Tasks), NEW x \in FramesOf(Tasks),
         io' = [io EXCEPT ![w] = SetTop(r, x)]
  PROVE  Moves(w, x)
<1>1. MovesTo(SetTop(r, x), r, x, Tasks)
  BY SetTopOp DEF StaysAt
<1>2. MovesTo(SetTop(r, x), io[w], x, Tasks)
  BY <1>1 DEF StaysAt, MovesTo
<1>3. SetTop(r, x) \in ThreadsOf(Tasks)
  BY <1>2 DEF MovesTo
<1> DEFINE s == SetTop(r, x)
<1> HIDE DEF s
<1>4. s \in ThreadsOf(Tasks) /\ io' = [io EXCEPT ![w] = s]
  BY <1>3 DEF s
<1>5. /\ io' \in [Workers -> ThreadsOf(Tasks)]
      /\ io'[w] = s
      /\ \A v \in Workers \ {w} : io'[v] = io[v]
  BY <1>4, OneThread
<1> QED
  BY <1>2, <1>5 DEF Moves, s

\* A thread that nobody touches is where it was.
LEMMA StaysSame ==
  ASSUME TypeOK, NEW w \in Workers
  PROVE  StaysAt(io[w], io[w], Tasks)
BY DEF TypeOK, StaysAt

\* The owner starts and stops a thread, or queues a registration, where it is.
LEMMA OwnerStays ==
  ASSUME TypeOK
  PROVE  /\ StartThread \/ StopThread => Stays(main.w)
         /\ \A c \in Conns : OnAccept(c) => Stays(next)
<1>1. main.w \in Workers /\ next \in Workers
  BY DEF TypeOK
<1>2. io[main.w] \in ThreadsOf(Tasks) /\ io[next] \in ThreadsOf(Tasks)
  BY <1>1 DEF TypeOK
<1>3. ASSUME StartThread PROVE Stays(main.w)
  <2>1. StaysAt(PostStart(io[main.w]), io[main.w], Tasks)
    BY <1>2, FlagOps
  <2>2. io' = [io EXCEPT ![main.w] = PostStart(io[main.w])]
    BY <1>3 DEF StartThread
  <2> QED
    BY <1>1, <2>1, <2>2, OneThread DEF Stays, StaysAt
<1>4. ASSUME StopThread PROVE Stays(main.w)
  <2>1. StaysAt(Stop(io[main.w]), io[main.w], Tasks)
    BY <1>2, FlagOps
  <2>2. StaysAt(PostStart(Stop(io[main.w])), Stop(io[main.w]), Tasks)
    BY <2>1, FlagOps DEF StaysAt
  <2>3. StaysAt(PostStart(Stop(io[main.w])), io[main.w], Tasks)
    BY <2>1, <2>2 DEF StaysAt
  <2>4. io' = [io EXCEPT ![main.w] = PostStart(Stop(io[main.w]))]
    BY <1>4 DEF StopThread
  <2> QED
    BY <1>1, <2>3, <2>4, OneThread DEF Stays, StaysAt
<1>5. ASSUME NEW c \in Conns, OnAccept(c) PROVE Stays(next)
  <2> DEFINE f == Min(Fds \ open)
             tasks == <<Task("add", f)>>
  <2>1. f \in Fds
    BY <1>5, FreeFd DEF OnAccept
  <2> HIDE DEF f
  <2>2. Task("add", f) \in Tasks
    BY <2>1 DEF Task, Tasks
  <2>3. tasks \in Seq(Tasks)
    BY <2>2
  <2>4. io' = [io EXCEPT ![next] = AddTasks(io[next], tasks, TRUE)]
    BY <1>5 DEF OnAccept, f
  <2> HIDE DEF tasks
  <2>5. StaysAt(AddTasks(io[next], tasks, TRUE), io[next], Tasks)
    BY <1>2, <2>3, FlagOps
  <2> QED
    BY <1>1, <2>4, <2>5, OneThread DEF Stays, StaysAt
<1> QED
  BY <1>3, <1>4, <1>5

\* What Poll puts in order is a finite set of batches of tasks; the error callback
\* that it finds on a descriptor is that of the connection whose client has closed.
LEMMA HandlersType ==
  ASSUME TypeOK, ConnInv, NEW f \in Fds
  PROVE  Handlers(f) \in Seq(Tasks)
<1>1. CASE owner[f] = None
  BY <1>1 DEF Handlers
<1>2. CASE owner[f] # None
  <2>1. owner[f] \in Conns
    BY <1>2 DEF TypeOK
  <2>2. Task("read", owner[f]) \in Tasks
    BY <2>1 DEF Task, Tasks
  <2>3. CASE Terminal(f)
    <3>1. PICK c \in ended : conn[c] = "Connected" /\ fd[c] = f
      BY <2>3 DEF Terminal
    <3>2. owner[f] = c
      BY <3>1 DEF TypeOK, ConnInv
    <3>3. Task("clear", owner[f]) \in Tasks
      BY <3>1, <3>2 DEF Task, Tasks
    <3>4. Handlers(f) = <<Task("read", owner[f]), Task("clear", owner[f])>>
      BY <1>2, <2>3 DEF Handlers
    <3> QED
      BY <2>2, <3>3, <3>4
  <2>4. CASE ~Terminal(f)
    BY <1>2, <2>2, <2>4 DEF Handlers
  <2> QED
    BY <2>3, <2>4
<1> QED
  BY <1>1, <1>2

\* What epoll_wait reports, in any order, gives a batch of tasks.
LEMMA PolledType ==
  ASSUME TypeOK, ConnInv, NEW fds \in SUBSET Fds, NEW b1 \in BOOLEAN, NEW b2 \in BOOLEAN,
         NEW q \in SetToSeqs((IF b1 THEN {<<Task("drain", None)>>} ELSE {})
                             \cup (IF b2 THEN {<<Task("call", None)>>} ELSE {})
                             \cup {Handlers(f) : f \in fds})
  PROVE  FlattenSeq(q) \in Seq(Tasks)
<1> DEFINE A == IF b1 THEN {<<Task("drain", None)>>} ELSE {}
           B == IF b2 THEN {<<Task("call", None)>>} ELSE {}
           C == {Handlers(f) : f \in fds}
<1>1. A \in SUBSET Seq(Tasks) /\ B \in SUBSET Seq(Tasks)
  <2>1. Task("drain", None) \in Tasks /\ Task("call", None) \in Tasks
    BY DEF Task, Tasks
  <2> QED
    BY <2>1
<1>2. C \in SUBSET Seq(Tasks)
  BY HandlersType
<1>3. IsFiniteSet(A) /\ IsFiniteSet(B)
  <2>1. /\ IsFiniteSet({<<Task("drain", None)>>}) /\ IsFiniteSet({<<Task("call", None)>>})
        /\ IsFiniteSet({})
    BY FS_Singleton, FS_EmptySet
  <2> QED
    BY <2>1
<1>4. IsFiniteSet(C)
  <2>1. IsFiniteSet(1..NumFds)
    <3>1. 1 \in Int /\ NumFds \in Int
      OBVIOUS
    <3> QED
      BY <3>1, FS_Interval
  <2>2. IsFiniteSet(fds)
    BY <2>1, FS_Subset DEF Fds
  <2> DEFINE h == [f \in fds |-> Handlers(f)]
  <2>3. h \in Surjection(fds, C)
    BY DEF Surjection
  <2> HIDE DEF h, C
  <2> QED
    BY <2>2, <2>3, FS_Surjection
<1> HIDE DEF A, B, C
<1>5. IsFiniteSet(A \cup B \cup C)
  <2>1. IsFiniteSet(A \cup B)
    BY <1>3, FS_Union
  <2> QED
    BY <1>4, <2>1, FS_Union
<1>6. q \in SetToSeqs(A \cup B \cup C)
  BY DEF A, B, C
<1>7. q \in Seq(A \cup B \cup C)
  BY <1>5, <1>6, ListedType
<1>8. A \cup B \cup C \subseteq Seq(Tasks)
  BY <1>1, <1>2
<1>9. q \in Seq(Seq(Tasks))
  BY <1>7, <1>8
<1> QED
  BY <1>9, FlattenType

\* The steps that move within the innermost frame, which none leaves for "close".
LEMMA WorkerMoves ==
  ASSUME TypeOK, ConnInv, NEW w \in Workers,
         \/ (LoopSwap(w) /\ ~io[w].stop) \/ Poll(w) \/ RunDrain(w) \/ RunAdd(w)
         \/ RunCall(w) \/ ServeReturns(w)
  PROVE  /\ Top(w).at # "close"
         /\ \E x \in FramesOf(Tasks) : x.at # "close" /\ Moves(w, x)
<1>0. io[w] \in ThreadsOf(Tasks) /\ StaysAt(io[w], io[w], Tasks)
  BY StaysSame DEF TypeOK
<1>1. CASE LoopSwap(w) /\ ~io[w].stop
  <2> DEFINE x == Loop("run", io[w].queue)
  <2>1. x \in FramesOf(Tasks) /\ x.at = "run"
    BY <1>0 DEF Loop, Frame, FramesOf, ThreadsOf
  <2>2. StaysAt([io[w] EXCEPT !.queue = <<>>], io[w], Tasks)
    <3> DEFINE e == <<>>
    <3>1. e \in Seq(Tasks)
      OBVIOUS
    <3> HIDE DEF e
    <3>2. StaysAt([io[w] EXCEPT !.queue = e], io[w], Tasks)
      BY <1>0, <3>1 DEF StaysAt, ThreadsOf
    <3> QED
      BY <3>2 DEF e
  <2>3. io' = [io EXCEPT ![w] = SetTop([io[w] EXCEPT !.queue = <<>>], x)]
    BY <1>1 DEF LoopSwap, SetTop
  <2>4. io[w].frames # <<>> /\ Top(w).at = "swap"
    BY <1>1 DEF LoopSwap, At
  <2> HIDE DEF x
  <2>5. Moves(w, x)
    BY <2>1, <2>2, <2>3, <2>4, SetTopMoves
  <2> QED
    BY <2>1, <2>4, <2>5
<1>2. CASE Poll(w)
  <2> DEFINE fds == {f \in Fds : w \in watched[f] /\ Readable(f)}
             over == {f \in fds : Terminal(f)}
             x == Loop("swap", <<>>)
  <2>1. PICK q \in SetToSeqs(((IF io[w].wake THEN {<<Task("drain", None)>>} ELSE {})
                  \cup (IF io[w].call = "due" THEN {<<Task("call", None)>>} ELSE {}))
                  \cup {Handlers(f) : f \in fds}) :
             io' = [io EXCEPT ![w] =
                      AddTasks([io[w] EXCEPT !.frames[1] = x, !.listed = @ \ over],
                               FlattenSeq(q), FALSE)]
    BY <1>2, Zenon DEF Poll
  <2>2. fds \in SUBSET Fds /\ over \in SUBSET Fds
    OBVIOUS
  <2>3. x \in FramesOf(Tasks) /\ x.at = "swap"
    BY DEF Loop, Frame, FramesOf
  <2> HIDE DEF x, fds, over
  <2>4. FlattenSeq(q) \in Seq(Tasks)
    <3>1. io[w].wake \in BOOLEAN /\ (io[w].call = "due") \in BOOLEAN
      BY <1>0 DEF ThreadsOf
    <3> QED
      BY <2>1, <2>2, <3>1, PolledType
  <2>5. io[w].frames # <<>> /\ Top(w).at = "run"
    BY <1>2 DEF Poll, At
  <2> DEFINE t == FlattenSeq(q)
             l == io[w].listed \ over
             r == [io[w] EXCEPT !.listed = l]
             s == SetTop(r, x)
  <2>6. l \in SUBSET Fds
    BY <1>0 DEF ThreadsOf
  <2> HIDE DEF l
  <2>7. StaysAt(r, io[w], Tasks)
    BY <1>0, <2>6 DEF StaysAt, ThreadsOf
  <2>8. MovesTo(s, io[w], x, Tasks)
    <3>1. r \in ThreadsOf(Tasks) /\ r.frames = io[w].frames /\ r.thread = io[w].thread
      BY <2>7 DEF StaysAt
    <3> HIDE DEF r
    <3>2. MovesTo(s, r, x, Tasks)
      BY <2>3, <2>5, <3>1, SetTopOp
    <3> QED
      BY <3>1, <3>2 DEF MovesTo
  <2>9. s = [io[w] EXCEPT !.frames[1] = x, !.listed = @ \ over]
    BY <1>0 DEF SetTop, l, ThreadsOf
  <2> HIDE DEF t, s
  <2>10. io' = [io EXCEPT ![w] = AddTasks(s, t, FALSE)]
    BY <2>1, <2>9 DEF t
  <2>11. StaysAt(AddTasks(s, t, FALSE), s, Tasks)
    BY <2>4, <2>8, FlagOps DEF MovesTo, t
  <2>12. MovesTo(AddTasks(s, t, FALSE), io[w], x, Tasks)
    BY <2>8, <2>11 DEF MovesTo, StaysAt
  <2>13. Moves(w, x)
    BY <2>5, <2>10, <2>12, OneThread DEF Moves, MovesTo
  <2> QED
    BY <2>3, <2>5, <2>13
<1>3. CASE RunDrain(w)
  <2>1. io[w].frames # <<>> /\ Top(w).at = "run" /\ Rest(w) \in FramesOf(Tasks)
    BY <1>3, NextTaskType DEF RunDrain
  <2>2. StaysAt([io[w] EXCEPT !.wake = FALSE], io[w], Tasks)
    BY <1>0 DEF StaysAt, ThreadsOf
  <2>3. io' = [io EXCEPT ![w] = SetTop([io[w] EXCEPT !.wake = FALSE], Rest(w))]
    BY <1>3 DEF RunDrain, SetTop
  <2>4. Moves(w, Rest(w))
    BY <2>1, <2>2, <2>3, SetTopMoves
  <2>5. Rest(w).at = "run"
    BY DEF Rest, Loop, Frame
  <2> QED
    BY <2>1, <2>4, <2>5
<1>4. CASE RunAdd(w)
  <2> DEFINE l == io[w].listed \cup {Arg(w)}
  <2>1. io[w].frames # <<>> /\ Top(w).at = "run" /\ Rest(w) \in FramesOf(Tasks)
        /\ Arg(w) \in Fds
    BY <1>4, NextTaskType DEF RunAdd
  <2>2. l \in SUBSET Fds
    BY <1>0, <2>1 DEF ThreadsOf
  <2>3. io' = [io EXCEPT ![w] = SetTop([io[w] EXCEPT !.listed = l], Rest(w))]
    <3>1. io' = [io EXCEPT ![w] = [io[w] EXCEPT !.listed = io[w].listed \cup {Arg(w)},
                                                !.frames[1] = Rest(w)]]
      BY <1>4 DEF RunAdd
    <3> QED
      BY <3>1 DEF SetTop
  <2> HIDE DEF l
  <2>4. StaysAt([io[w] EXCEPT !.listed = l], io[w], Tasks)
    BY <1>0, <2>2 DEF StaysAt, ThreadsOf
  <2>5. Moves(w, Rest(w))
    BY <2>1, <2>3, <2>4, SetTopMoves
  <2>6. Rest(w).at = "run"
    BY DEF Rest, Loop, Frame
  <2> QED
    BY <2>1, <2>5, <2>6
<1>5. CASE RunCall(w)
  <2>1. io[w].frames # <<>> /\ Top(w).at = "run" /\ Rest(w) \in FramesOf(Tasks)
    BY <1>5, NextTaskType DEF RunCall
  <2> DEFINE s == SetTop(io[w], Rest(w))
  <2>2. MovesTo(s, io[w], Rest(w), Tasks)
    BY <1>0, <2>1, SetTopOp
  <2>3. io' = [io EXCEPT ![w] = FinishCall(s)]
    BY <1>5 DEF RunCall, SetTop
  <2> HIDE DEF s
  <2>4. StaysAt(FinishCall(s), s, Tasks)
    BY <2>2, FlagOps DEF MovesTo
  <2>5. MovesTo(FinishCall(s), io[w], Rest(w), Tasks)
    BY <2>2, <2>4 DEF MovesTo, StaysAt
  <2>6. Moves(w, Rest(w))
    BY <2>1, <2>3, <2>5, OneThread DEF Moves, MovesTo
  <2>7. Rest(w).at = "run"
    BY DEF Rest, Loop, Frame
  <2> QED
    BY <2>1, <2>6, <2>7
<1>6. CASE ServeReturns(w)
  <2> DEFINE x == Loop("run", Top(w).todo)
  <2>1. io[w].frames # <<>> /\ Top(w).at = "serve"
    BY <1>6 DEF ServeReturns, At
  <2>2. x \in FramesOf(Tasks) /\ x.at = "run"
    BY <2>1, TopType DEF Loop, Frame
  <2>3. io' = [io EXCEPT ![w] = SetTop(io[w], x)]
    BY <1>6 DEF ServeReturns, SetTop, Top
  <2> HIDE DEF x
  <2>4. Moves(w, x)
    BY <1>0, <2>1, <2>2, <2>3, SetTopMoves
  <2> QED
    BY <2>1, <2>2, <2>4
<1> QED
  BY <1>1, <1>2, <1>3, <1>4, <1>5, <1>6

\* The handlers of a connection: it is passed by, closed, or served.
LEMMA SkipMoves ==
  ASSUME TypeOK, NEW w \in Workers, NEW op, NextTask(w, op), Skip(w)
  PROVE  Rest(w).at = "run" /\ Moves(w, Rest(w))
<1>1. io[w].frames # <<>> /\ Rest(w) \in FramesOf(Tasks)
  BY NextTaskType
<1>2. io' = [io EXCEPT ![w] = SetTop(io[w], Rest(w))]
  BY DEF Skip, SetTop
<1>3. Moves(w, Rest(w))
  BY <1>1, <1>2, StaysSame, SetTopMoves
<1> QED
  BY <1>3 DEF Rest, Loop, Frame

\* The first half of clear() leaves the thread before the second, which is to close the
\* descriptor the connection had.
LEMMA ClearMoves ==
  ASSUME TypeOK, NEW w \in Workers, NEW op, NextTask(w, op), NEW c \in Conns,
         Clear(w, c)
  PROVE  Moves(w, Frame("close", Tail(Top(w).todo), c, fd[c]))
<1> DEFINE x == Frame("close", Tail(Top(w).todo), c, fd[c])
           l == io[w].listed \ {fd[c]}
<1>0. io[w] \in ThreadsOf(Tasks)
  BY DEF TypeOK
<1>1. io[w].frames # <<>> /\ Tail(Top(w).todo) \in Seq(Tasks)
  BY NextTaskType
<1>2. x \in FramesOf(Tasks)
  <2>1. fd[c] \in Fds \cup {None}
    BY DEF TypeOK
  <2> QED
    BY <1>1, <2>1 DEF Frame, FramesOf
<1>3. io' = [io EXCEPT ![w] = SetTop([io[w] EXCEPT !.listed = l], x)]
  <2>1. io' = [io EXCEPT ![w] =
                 [io[w] EXCEPT !.listed = @ \ {fd[c]},
                               !.frames[1] = Frame("close", Tail(@.todo), c, fd[c])]]
    BY DEF Clear
  <2>2. [io[w] EXCEPT !.listed = l].frames = io[w].frames
    BY <1>0 DEF ThreadsOf
  <2> QED
    BY <2>1, <2>2 DEF SetTop, Top
<1>4. l \in SUBSET Fds
  BY <1>0 DEF ThreadsOf
<1> HIDE DEF x, l
<1>5. StaysAt([io[w] EXCEPT !.listed = l], io[w], Tasks)
  BY <1>0, <1>4 DEF StaysAt, ThreadsOf
<1>6. Moves(w, x)
  BY <1>1, <1>2, <1>3, <1>5, SetTopMoves
<1> QED
  BY <1>6 DEF x

\* The second half goes back to the batch.
LEMMA CloseMoves ==
  ASSUME TypeOK, NEW w \in Workers, CloseFd(w)
  PROVE  Moves(w, Loop("run", Top(w).todo))
<1>1. io[w].frames # <<>>
  BY DEF CloseFd, At
<1>2. Loop("run", Top(w).todo) \in FramesOf(Tasks)
  BY <1>1, TopType
<1>3. io' = [io EXCEPT ![w] = SetTop(io[w], Loop("run", Top(w).todo))]
  BY DEF CloseFd, SetTop, Top
<1> QED
  BY <1>1, <1>2, <1>3, StaysSame, SetTopMoves

\* A request is dispatched.
Dispatch(w, c) ==
  /\ asked' = [asked EXCEPT ![c] = "read"]
  /\ io' = [io EXCEPT ![w].frames[1] = Frame("serve", Tail(@.todo), c, None)]
  /\ UNCHANGED connVars

\* A request takes the thread from its batch into the service method.
LEMMA DispatchMoves ==
  ASSUME TypeOK, NEW w \in Workers, NEW op, NextTask(w, op), NEW c \in Conns,
         Dispatch(w, c)
  PROVE  Moves(w, Frame("serve", Tail(Top(w).todo), c, None))
<1> DEFINE x == Frame("serve", Tail(Top(w).todo), c, None)
<1>1. io[w].frames # <<>> /\ Tail(Top(w).todo) \in Seq(Tasks)
  BY NextTaskType
<1>2. x \in FramesOf(Tasks)
  BY <1>1 DEF Frame, FramesOf
<1>3. io' = [io EXCEPT ![w] = SetTop(io[w], x)]
  BY DEF Dispatch, SetTop, Top
<1> HIDE DEF x
<1>4. Moves(w, x)
  BY <1>1, <1>2, <1>3, StaysSame, SetTopMoves
<1> QED
  BY <1>4 DEF x

\* The cases of onRead and of the error callback.
LEMMA HandlerCases ==
  ASSUME TypeOK, NEW w \in Workers, RunRead(w) \/ RunClear(w)
  PROVE  /\ UNCHANGED <<main, next, ended, clients>>
         /\ \E op \in {"read", "clear"} : NextTask(w, op)
         /\ \/ Skip(w) /\ UNCHANGED asked
            \/ \E c \in ended : conn[c] = "Connected" /\ Clear(w, c) /\ UNCHANGED asked
            \/ \E c \in Conns : Dispatch(w, c)
<1>1. CASE RunRead(w)
  <2>1. NextTask(w, "read") /\ UNCHANGED <<main, next, ended, clients>>
    BY <1>1 DEF RunRead
  <2>2. Arg(w) \in Conns
    BY <2>1, NextTaskType
  <2>3. CASE ~Usable(Arg(w)) \/ (asked[Arg(w)] # "sent" /\ Arg(w) \notin ended)
    BY <1>1, <2>1, <2>3 DEF RunRead
  <2>4. CASE ~(~Usable(Arg(w)) \/ (asked[Arg(w)] # "sent" /\ Arg(w) \notin ended))
    <3>1. \/ Arg(w) \in ended /\ Clear(w, Arg(w)) /\ UNCHANGED asked
          \/ Dispatch(w, Arg(w))
      BY <1>1, <2>4 DEF RunRead, Dispatch
    <3>2. conn[Arg(w)] = "Connected"
      BY <2>4 DEF Usable
    <3> QED
      BY <2>1, <2>2, <3>1, <3>2
  <2> QED
    BY <2>3, <2>4
<1>2. CASE RunClear(w)
  <2>1. NextTask(w, "clear") /\ UNCHANGED <<main, next, ended, clients, asked>>
    BY <1>2 DEF RunClear, kernelVars
  <2>2. Arg(w) \in ended
    BY <2>1, NextTaskType
  <2>3. CASE Usable(Arg(w))
    BY <1>2, <2>1, <2>2, <2>3 DEF RunClear, Usable
  <2>4. CASE ~Usable(Arg(w))
    BY <1>2, <2>1, <2>4 DEF RunClear
  <2> QED
    BY <2>3, <2>4
<1> QED
  BY <1>1, <1>2

\* Thread w enters a loop on top of what it runs, or leaves its innermost one.
Pushes(w) ==
  /\ io' \in [Workers -> ThreadsOf(Tasks)]
  /\ io'[w].frames = <<Loop("swap", <<>>)>> \o io[w].frames
  /\ io'[w].thread = "loop"
  /\ \A v \in Workers \ {w} : io'[v] = io[v]

Pops(w) ==
  /\ io[w].frames # <<>>
  /\ io' \in [Workers -> ThreadsOf(Tasks)]
  /\ io'[w].frames = Tail(io[w].frames)
  /\ io'[w].thread = IF Tail(io[w].frames) = <<>> THEN "exited" ELSE io[w].thread
  /\ \A v \in Workers \ {w} : io'[v] = io[v]

\* Thread w is now at t, with no frames as before.
Becomes(w, t) ==
  /\ io' \in [Workers -> ThreadsOf(Tasks)]
  /\ io'[w].frames = io[w].frames
  /\ io'[w].thread = t
  /\ \A v \in Workers \ {w} : io'[v] = io[v]

\* A call of a service method leaves the thread in the method, or runs a loop inside it.
LEMMA CallSteps ==
  ASSUME TypeOK, ThreadInv, NEW w \in Workers
  PROVE  /\ CallIsDue(w) => Stays(w)
         /\ \A outcome \in Outcomes : MakeCall(w, outcome) =>
              io[w].frames # <<>> /\ Top(w).at = "serve" /\ (Stays(w) \/ Pushes(w))
<1>0. io[w] \in ThreadsOf(Tasks)
  BY DEF TypeOK
<1>1. ASSUME CallIsDue(w) PROVE Stays(w)
  <2> DEFINE s == [io[w] EXCEPT !.call = "due"]
  <2>1. StaysAt(s, io[w], Tasks)
    BY <1>0 DEF StaysAt, ThreadsOf
  <2>2. io' = [io EXCEPT ![w] = s]
    BY <1>1 DEF CallIsDue
  <2> HIDE DEF s
  <2> QED
    BY <2>1, <2>2, OneThread DEF Stays, StaysAt
<1>2. ASSUME NEW outcome \in Outcomes, MakeCall(w, outcome)
      PROVE  io[w].frames # <<>> /\ Top(w).at = "serve" /\ (Stays(w) \/ Pushes(w))
  <2> DEFINE b       == (io[w].looping /\ ~io[w].stop)
             new     == [io[w] EXCEPT !.stop = FALSE, !.looping = b]
             waiting == [new EXCEPT !.call = "waiting"]
  <2>1. io[w].frames # <<>> /\ Top(w).at = "serve"
    BY <1>2 DEF MakeCall, At
  <2>2. io[w].thread = "loop"
    BY <2>1 DEF ThreadInv, FramesInv
  <2>3. io' = [io EXCEPT ![w] =
                 IF outcome = "failed" THEN FinishCall(new)
                 ELSE IF outcome = "waits" /\ ~new.looping THEN EnterLoop(waiting)
                 ELSE waiting]
    BY <1>2, Zenon DEF MakeCall
  <2>4. b \in BOOLEAN
    OBVIOUS
  <2> HIDE DEF b
  <2>5. StaysAt(new, io[w], Tasks)
    BY <1>0, <2>4 DEF StaysAt, ThreadsOf
  <2>6. StaysAt(waiting, io[w], Tasks)
    <3>1. new \in ThreadsOf(Tasks) /\ new.frames = io[w].frames /\ new.thread = io[w].thread
      BY <2>5 DEF StaysAt
    <3> HIDE DEF new
    <3>2. waiting \in ThreadsOf(Tasks) /\ waiting.frames = new.frames
          /\ waiting.thread = new.thread
      BY <3>1 DEF ThreadsOf
    <3> QED
      BY <3>1, <3>2 DEF StaysAt
  <2> HIDE DEF new, waiting
  <2>7. CASE outcome = "failed"
    <3>1. io' = [io EXCEPT ![w] = FinishCall(new)]
      BY <2>3, <2>7
    <3>2. StaysAt(FinishCall(new), new, Tasks)
      BY <2>5, FlagOps DEF StaysAt
    <3>3. StaysAt(FinishCall(new), io[w], Tasks)
      BY <2>5, <3>2 DEF StaysAt
    <3>4. Stays(w)
      BY <3>1, <3>3, OneThread DEF Stays, StaysAt
    <3> QED
      BY <2>1, <3>4
  <2>8. CASE outcome # "failed" /\ outcome = "waits" /\ ~new.looping
    <3> DEFINE s == EnterLoop(waiting)
    <3>1. io' = [io EXCEPT ![w] = s]
      BY <2>3, <2>8
    <3>2. /\ s \in ThreadsOf(Tasks)
          /\ s.thread = waiting.thread
          /\ \/ s.frames = waiting.frames
             \/ s.frames = <<Loop("swap", <<>>)>> \o waiting.frames
      BY <2>6, EnterLoopOp DEF StaysAt
    <3> HIDE DEF s
    <3>3. /\ io' \in [Workers -> ThreadsOf(Tasks)]
          /\ io'[w] = s
          /\ \A v \in Workers \ {w} : io'[v] = io[v]
      BY <3>1, <3>2, OneThread
    <3>4. waiting.frames = io[w].frames /\ waiting.thread = io[w].thread
      BY <2>6 DEF StaysAt
    <3>5. Stays(w) \/ Pushes(w)
      BY <2>2, <3>2, <3>3, <3>4 DEF Stays, Pushes, StaysAt
    <3> QED
      BY <2>1, <3>5
  <2>9. CASE outcome # "failed" /\ ~(outcome = "waits" /\ ~new.looping)
    <3>1. io' = [io EXCEPT ![w] = waiting]
      BY <2>3, <2>9
    <3>2. Stays(w)
      BY <2>6, <3>1, OneThread DEF Stays, StaysAt
    <3> QED
      BY <2>1, <3>2
  <2> QED
    BY <2>7, <2>8, <2>9
<1> QED
  BY <1>1, <1>2

\* A thread is made, waits, runs its loop and ends.
LEMMA ThreadSteps ==
  ASSUME TypeOK, ThreadInv, NEW w \in Workers
  PROVE  /\ CreateThread => Becomes(main.w, "init")
         /\ InitThread(w) => Becomes(w, "wait")
         /\ EnterThread(w) => Pushes(w) \/ Becomes(w, "exited")
         /\ LoopSwap(w) /\ io[w].stop => Pops(w)
<1>0. /\ main.w \in Workers /\ io[main.w] \in ThreadsOf(Tasks)
      /\ io[w] \in ThreadsOf(Tasks)
  BY DEF TypeOK
<1>1. ASSUME NEW v \in Workers, NEW t \in {"init", "wait"},
             io' = [io EXCEPT ![v].thread = t]
      PROVE  Becomes(v, t)
  <2> DEFINE s == [io[v] EXCEPT !.thread = t]
  <2>0. io[v] \in ThreadsOf(Tasks)
    BY DEF TypeOK
  <2>1. s \in ThreadsOf(Tasks) /\ s.frames = io[v].frames /\ s.thread = t
    BY <2>0 DEF ThreadsOf
  <2>2. io' = [io EXCEPT ![v] = s]
    BY <1>1
  <2> HIDE DEF s
  <2> QED
    BY <2>1, <2>2, OneThread DEF Becomes
<1>2. CreateThread => Becomes(main.w, "init")
  BY <1>0, <1>1 DEF CreateThread
<1>3. InitThread(w) => Becomes(w, "wait")
  BY <1>1 DEF InitThread
<1>4. ASSUME EnterThread(w) PROVE Pushes(w) \/ Becomes(w, "exited")
  <2>1. io[w].frames = <<>>
    BY <1>4 DEF ThreadInv, FramesInv, EnterThread
  <2> DEFINE n == io[w].sem - 1
             r == [io[w] EXCEPT !.thread = "loop", !.sem = n]
             s == EnterLoop(r)
             e == ExitIfDone(s)
  <2>2. n \in Nat
    BY <1>0, <1>4 DEF EnterThread, ThreadsOf
  <2>3. io' = [io EXCEPT ![w] = ExitIfDone(EnterLoop(r))]
    BY <1>4 DEF EnterThread
  <2> HIDE DEF n
  <2>4. r \in ThreadsOf(Tasks) /\ r.frames = io[w].frames /\ r.thread = "loop"
    BY <1>0, <2>2 DEF ThreadsOf
  <2> HIDE DEF r
  <2>5. /\ s \in ThreadsOf(Tasks) /\ s.thread = "loop"
        /\ \/ s.frames = io[w].frames
           \/ s.frames = <<Loop("swap", <<>>)>> \o io[w].frames
    BY <2>4, EnterLoopOp
  <2> HIDE DEF s
  <2>6. /\ e \in ThreadsOf(Tasks) /\ e.frames = s.frames
        /\ e.thread = IF s.frames = <<>> THEN "exited" ELSE s.thread
    BY <2>5, ExitOp
  <2>7. io' = [io EXCEPT ![w] = e]
    BY <2>3 DEF s
  <2> HIDE DEF e
  <2>8. /\ io' \in [Workers -> ThreadsOf(Tasks)]
        /\ io'[w] = e
        /\ \A v \in Workers \ {w} : io'[v] = io[v]
    BY <2>6, <2>7, OneThread
  <2>9. CASE s.frames = io[w].frames
    BY <2>1, <2>6, <2>8, <2>9 DEF Becomes
  <2>10. CASE s.frames = <<Loop("swap", <<>>)>> \o io[w].frames
    <3>1. s.frames # <<>>
      BY <2>1, <2>10
    <3> QED
      BY <2>5, <2>6, <2>8, <2>10, <3>1 DEF Pushes
  <2> QED
    BY <2>5, <2>9, <2>10
<1>5. ASSUME LoopSwap(w), io[w].stop PROVE Pops(w)
  <2> DEFINE s == LeaveLoop(io[w])
             e == ExitIfDone(s)
  <2>1. io[w].frames # <<>>
    BY <1>5 DEF LoopSwap, At
  <2>2. /\ s \in ThreadsOf(Tasks) /\ s.frames = Tail(io[w].frames)
        /\ s.thread = io[w].thread
    BY <1>0, <2>1, LeaveLoopOp
  <2>3. io' = [io EXCEPT ![w] = e]
    BY <1>5 DEF LoopSwap
  <2> HIDE DEF s
  <2>4. /\ e \in ThreadsOf(Tasks) /\ e.frames = s.frames
        /\ e.thread = IF s.frames = <<>> THEN "exited" ELSE s.thread
    BY <2>2, ExitOp
  <2> HIDE DEF e
  <2>5. /\ io' \in [Workers -> ThreadsOf(Tasks)]
        /\ io'[w] = e
        /\ \A v \in Workers \ {w} : io'[v] = io[v]
    BY <2>3, <2>4, OneThread
  <2> QED
    BY <2>1, <2>2, <2>4, <2>5 DEF Pops
<1> QED
  BY <1>2, <1>3, <1>4, <1>5

(***************************************************************************)
(* Type correctness                                                        *)
(***************************************************************************)

\* More closed connections, more tasks that may be queued.
LEMMA TasksGrow ==
  ASSUME TypeOK, ended \subseteq ended'
  PROVE  io \in [Workers -> ThreadsOf(Tasks')]
<1>1. Tasks \subseteq Tasks'
  BY DEF Tasks
<1>2. ASSUME NEW S, NEW T, S \subseteq T PROVE ThreadsOf(S) \subseteq ThreadsOf(T)
  <2>1. Seq(S) \subseteq Seq(T)
    BY <1>2
  <2>2. FramesOf(S) \subseteq FramesOf(T)
    BY <2>1 DEF FramesOf
  <2>3. Seq(FramesOf(S)) \subseteq Seq(FramesOf(T))
    BY <2>2
  <2> QED
    BY <2>1, <2>3, Zenon DEF ThreadsOf
<1>3. ThreadsOf(Tasks) \subseteq ThreadsOf(Tasks')
  BY <1>1, <1>2
<1> QED
  BY <1>3 DEF TypeOK

\* The owner goes on to a point of its program.
LEMMA OnwardType ==
  ASSUME TypeOK, NEW at \in Points, NEW then \in Points, Onward(at, then)
  PROVE  main' \in [at : Points, w : Workers]
BY DEF TypeOK, Onward, Main, Workers

\* The server starts with no thread and no connection.
LEMMA InitTypeOK == Init => TypeOK
<1> SUFFICES ASSUME Init PROVE TypeOK
  OBVIOUS
<1>1. NewIOThread \in ThreadsOf(Tasks)
  <2> DEFINE e == <<>>
  <2>1. e \in Seq(Tasks) /\ e \in Seq(FramesOf(Tasks))
    OBVIOUS
  <2> HIDE DEF e
  <2>2. [thread |-> "none", sem |-> 0, started |-> FALSE, stop |-> FALSE,
         looping |-> FALSE, wake |-> FALSE, queue |-> e, frames |-> e,
         listed |-> {}, call |-> "none"] \in ThreadsOf(Tasks)
    BY <2>1 DEF ThreadsOf
  <2> QED
    BY <2>2 DEF NewIOThread, e
<1>2. io \in [Workers -> ThreadsOf(Tasks)]
  BY <1>1 DEF Init
<1>3. main \in [at : Points, w : Workers] /\ next \in Workers
  BY DEF Init, Main, Points, Workers
<1> QED
  BY <1>2, <1>3 DEF Init, TypeOK

\* No step of the owner, of a thread or of a client breaks the types.
LEMMA NextTypeOK == TypeOK /\ ThreadInv /\ ConnInv /\ [Next]_vars => TypeOK'
<1> SUFFICES ASSUME TypeOK, ThreadInv, ConnInv, [Next]_vars PROVE TypeOK'
  OBVIOUS
<1>0. ASSUME UNCHANGED ended, io' \in [Workers -> ThreadsOf(Tasks)]
      PROVE  io' \in [Workers -> ThreadsOf(Tasks')] /\ ended' \subseteq Conns
  BY <1>0 DEF Tasks, TypeOK
<1>1. ASSUME UNCHANGED io, UNCHANGED ended
      PROVE  io' \in [Workers -> ThreadsOf(Tasks')] /\ ended' \subseteq Conns
  BY <1>0, <1>1 DEF TypeOK
<1>2. ASSUME NEW w, NEW x,
             \/ Stays(w) \/ Moves(w, x) \/ Pushes(w) \/ Pops(w)
             \/ \E t : Becomes(w, t)
      PROVE  io' \in [Workers -> ThreadsOf(Tasks)]
  BY <1>2 DEF Stays, Moves, Pushes, Pops, Becomes
<1> USE DEF connVars, kernelVars
<1>3. CASE CreateThread
  <2>1. io' \in [Workers -> ThreadsOf(Tasks)]
    <3>1. main.w \in Workers
      BY DEF TypeOK
    <3>2. Becomes(main.w, "init")
      BY <1>3, <3>1, ThreadSteps
    <3> QED
      BY <1>2, <3>2
  <2>2. main' \in [at : Points, w : Workers]
    BY <1>3 DEF CreateThread, Main, TypeOK, Points
  <2> QED
    BY <1>0, <1>3, <2>1, <2>2 DEF CreateThread, TypeOK
<1>4. CASE ThreadCreated \/ JoinThread
  <2>1. main' \in [at : Points, w : Workers]
    BY <1>4, OnwardType DEF ThreadCreated, JoinThread, Points
  <2> QED
    BY <1>1, <1>4, <2>1 DEF ThreadCreated, JoinThread, TypeOK
<1>5. CASE StartOrDestroy \/ LeaveServing \/ DeleteThreads
  <2>1. main' \in [at : Points, w : Workers]
    BY <1>5 DEF StartOrDestroy, LeaveServing, DeleteThreads, Main, Points, Workers
  <2> QED
    BY <1>1, <1>5, <2>1 DEF StartOrDestroy, LeaveServing, DeleteThreads, TypeOK
<1>6. CASE StartThread \/ StopThread
  <2>1. main' \in [at : Points, w : Workers]
    BY <1>6, OnwardType DEF StartThread, StopThread, Points
  <2>2. io' \in [Workers -> ThreadsOf(Tasks)]
    BY <1>2, <1>6, OwnerStays
  <2> QED
    BY <1>0, <1>6, <2>1, <2>2 DEF StartThread, StopThread, TypeOK
<1>7. CASE ClearClientTimerFunc
  BY <1>1, <1>7 DEF ClearClientTimerFunc, TypeOK
<1>8. CASE ClearClients
  <2>1. main' \in [at : Points, w : Workers]
    BY <1>8 DEF ClearClients, Main, Points, Workers
  <2> QED
    BY <1>1, <1>8, <2>1 DEF ClearClients, TypeOK
<1>9. CASE Finished \/ UNCHANGED vars
  BY <1>1, <1>9 DEF Finished, vars, TypeOK
<1>10. ASSUME NEW c \in Conns, OnAccept(c) PROVE TypeOK'
  <2> DEFINE f == Min(Fds \ open)
  <2>1. f \in Fds
    BY <1>10, FreeFd DEF OnAccept
  <2>2. fd' = [fd EXCEPT ![c] = f] /\ open' = open \cup {f} /\ owner' = [owner EXCEPT ![f] = c]
    BY <1>10 DEF OnAccept
  <2>3. io' \in [Workers -> ThreadsOf(Tasks)]
    BY <1>2, <1>10, OwnerStays
  <2>4. next' \in Workers
    BY <1>10 DEF OnAccept, GetIOThread, TypeOK, Workers
  <2> HIDE DEF f
  <2>5. /\ fd' \in [Conns -> Fds \cup {None}]
        /\ owner' \in [Fds -> Conns \cup {None}]
        /\ open' \subseteq Fds
    BY <2>1, <2>2 DEF TypeOK
  <2>6. /\ conn' \in [Conns -> {"new", "Connected", "Closed"}]
        /\ clients' \subseteq Conns
        /\ UNCHANGED <<main, asked, ended, watched>>
    BY <1>10 DEF OnAccept, TypeOK
  <2> QED
    BY <1>0, <2>3, <2>4, <2>5, <2>6 DEF TypeOK
<1>11. ASSUME NEW c \in Conns, SendRequest(c) PROVE TypeOK'
  BY <1>1, <1>11 DEF SendRequest, TypeOK
<1>12. ASSUME NEW c \in Conns, CloseByClient(c) PROVE TypeOK'
  <2>1. io \in [Workers -> ThreadsOf(Tasks')]
    BY <1>12, TasksGrow DEF CloseByClient
  <2> QED
    BY <1>12, <2>1 DEF CloseByClient, TypeOK
<1>13. ASSUME NEW w \in Workers,
              \/ InitThread(w) \/ EnterThread(w) \/ LoopSwap(w) \/ RunDrain(w)
              \/ RunCall(w) \/ ServeReturns(w) \/ CallIsDue(w)
              \/ \E outcome \in Outcomes : MakeCall(w, outcome)
       PROVE  TypeOK'
  <2>1. io' \in [Workers -> ThreadsOf(Tasks)]
    BY <1>2, <1>13, ThreadSteps, CallSteps, WorkerMoves
  <2>2. UNCHANGED <<main, next, conn, fd, owner, open, watched, asked, ended, clients>>
    BY <1>13 DEF InitThread, EnterThread, LoopSwap, RunDrain, RunCall, ServeReturns,
                 CallIsDue, MakeCall
  <2> QED
    BY <1>0, <2>1, <2>2 DEF TypeOK
<1>14. ASSUME NEW w \in Workers, Poll(w) \/ RunAdd(w) PROVE TypeOK'
  <2>1. io' \in [Workers -> ThreadsOf(Tasks)]
    BY <1>2, <1>14, WorkerMoves
  <2>2. UNCHANGED <<main, next, conn, fd, owner, open, asked, ended, clients>>
    BY <1>14 DEF Poll, RunAdd
  <2>3. watched' \in [Fds -> SUBSET Workers]
    <3>1. CASE Poll(w)
      <4> DEFINE over == {f \in {g \in Fds : w \in watched[g] /\ Readable(g)} : Terminal(f)}
      <4>1. watched' = [f \in Fds |-> IF f \in over THEN watched[f] \ {w} ELSE watched[f]]
        BY <3>1, Zenon DEF Poll
      <4> HIDE DEF over
      <4> QED
        BY <4>1 DEF TypeOK
    <3>2. CASE RunAdd(w)
      <4>1. watched' = [watched EXCEPT ![Arg(w)] =
                          IF Arg(w) \in open /\ Arg(w) \notin io[w].listed THEN @ \cup {w}
                          ELSE @]
        BY <3>2 DEF RunAdd
      <4> QED
        BY <4>1 DEF TypeOK
    <3> QED
      BY <1>14, <3>1, <3>2
  <2> QED
    BY <1>0, <2>1, <2>2, <2>3 DEF TypeOK
<1>15. ASSUME NEW w \in Workers, CloseFd(w) PROVE TypeOK'
  <2>1. io' \in [Workers -> ThreadsOf(Tasks)]
    BY <1>2, <1>15, CloseMoves
  <2> QED
    BY <1>0, <1>15, <2>1 DEF CloseFd, TypeOK
<1>16. ASSUME NEW w \in Workers, RunRead(w) \/ RunClear(w) PROVE TypeOK'
  <2>0. UNCHANGED <<main, next, ended, clients>>
    BY <1>16, HandlerCases
  <2>1. PICK op : NextTask(w, op)
    BY <1>16, HandlerCases
  <2>2. CASE Skip(w) /\ UNCHANGED asked
    <3>1. io' \in [Workers -> ThreadsOf(Tasks)]
      BY <1>2, <2>1, <2>2, SkipMoves
    <3> QED
      BY <1>0, <2>0, <2>2, <3>1 DEF Skip, TypeOK
  <2>3. ASSUME NEW c \in ended, Clear(w, c), UNCHANGED asked PROVE TypeOK'
    <3>0. c \in Conns
      BY DEF TypeOK
    <3>1. io' \in [Workers -> ThreadsOf(Tasks)]
      BY <1>2, <2>1, <2>3, <3>0, ClearMoves
    <3>2. watched' \in [Fds -> SUBSET Workers]
      BY <2>3 DEF Clear, TypeOK
    <3>3. conn' \in [Conns -> {"new", "Connected", "Closed"}] /\ fd' \in [Conns -> Fds \cup {None}]
      BY <2>3, <3>0 DEF Clear, TypeOK
    <3> QED
      BY <1>0, <2>0, <2>3, <3>1, <3>2, <3>3 DEF Clear, TypeOK
  <2>4. ASSUME NEW c \in Conns, Dispatch(w, c) PROVE TypeOK'
    <3>1. io' \in [Workers -> ThreadsOf(Tasks)]
      BY <1>2, <2>1, <2>4, DispatchMoves
    <3> QED
      BY <1>0, <2>0, <2>4, <3>1 DEF Dispatch, TypeOK
  <2> QED
    BY <1>16, <2>2, <2>3, <2>4, HandlerCases
<1> QED
  BY <1>3, <1>4, <1>5, <1>6, <1>7, <1>8, <1>9, <1>10, <1>11, <1>12, <1>13, <1>14,
     <1>15, <1>16 DEF Next, Owner, Worker

(***************************************************************************)
(* The threads                                                             *)
(***************************************************************************)

\* No step wakes a thread that is not there yet or has ended.
KeepsIdle ==
  \A v \in Workers :
    io[v].thread \in {"none", "exited"} => io'[v].thread = io[v].thread

\* Where a thread may go without breaking FramesInv.
GoesOn(w) ==
  \/ Stays(w)
  \/ \E x \in FramesOf(Tasks) : Moves(w, x)
  \/ Pushes(w) /\ io[w].frames = <<>> /\ io[w].thread = "wait"
  \/ Pushes(w) /\ io[w].frames # <<>> /\ Top(w).at = "serve"
  \/ Pops(w)
  \/ \E t : Becomes(w, t) /\ io[w].frames = <<>> /\ io[w].thread \in {"init", "wait"}

\* A thread that goes so has frames only while it runs, and no idle thread wakes.
LEMMA GoesOnInv ==
  ASSUME TypeOK, FramesInv, NEW w \in Workers, GoesOn(w)
  PROVE  FramesInv' /\ KeepsIdle
<1>0. io[w] \in ThreadsOf(Tasks) /\ io[w].frames \in Seq(FramesOf(Tasks))
  BY DEF TypeOK, ThreadsOf
<1>1. \A v \in Workers \ {w} : io'[v] = io[v]
  BY DEF GoesOn, Stays, Moves, Pushes, Pops, Becomes
<1>2. SUFFICES /\ io'[w].frames # <<>> => io'[w].thread = "loop"
               /\ \A i \in 2..Len(io'[w].frames) : io'[w].frames[i].at = "serve"
               /\ io[w].thread \in {"none", "exited"} => io'[w].thread = io[w].thread
  BY <1>1 DEF FramesInv, KeepsIdle
<1>3. CASE Stays(w)
  BY <1>3 DEF Stays, StaysAt, FramesInv
<1>4. CASE \E x \in FramesOf(Tasks) : Moves(w, x)
  <2>1. PICK x \in FramesOf(Tasks) : Moves(w, x)
    BY <1>4
  <2>2. io'[w].frames = [io[w].frames EXCEPT ![1] = x] /\ io'[w].thread = io[w].thread
        /\ io[w].frames # <<>>
    BY <2>1 DEF Moves, MovesTo
  <2>3. /\ Len(io'[w].frames) = Len(io[w].frames)
        /\ \A i \in 2..Len(io[w].frames) : io'[w].frames[i] = io[w].frames[i]
    BY <1>0, <2>2
  <2> QED
    BY <2>2, <2>3 DEF FramesInv
<1>5. CASE Pushes(w) /\ (\/ io[w].frames = <<>> /\ io[w].thread = "wait"
                         \/ io[w].frames # <<>> /\ Top(w).at = "serve")
  <2> DEFINE s == io[w].frames
             t == <<Loop("swap", <<>>)>> \o s
  <2>1. io'[w].frames = t /\ io'[w].thread = "loop"
    BY <1>5 DEF Pushes
  <2>2. io[w].thread \notin {"none", "exited"}
    BY <1>5 DEF FramesInv
  <2>3. Len(t) = Len(s) + 1 /\ \A i \in 2..Len(t) : t[i] = s[i - 1] /\ i - 1 \in 1..Len(s)
    BY <1>0
  <2>4. \A i \in 1..Len(s) : s[i].at = "serve"
    <3>1. Len(s) > 0 => s[1].at = "serve"
      BY <1>0, <1>5 DEF Top
    <3>2. \A i \in 2..Len(s) : s[i].at = "serve"
      BY DEF FramesInv
    <3>3. \A i \in 1..Len(s) : i = 1 \/ i \in 2..Len(s)
      BY <1>0
    <3> QED
      BY <1>0, <3>1, <3>2, <3>3
  <2> HIDE DEF s, t
  <2> QED
    BY <2>1, <2>2, <2>3, <2>4
<1>6. CASE Pops(w)
  <2> DEFINE s == io[w].frames
             t == Tail(s)
  <2>1. io'[w].frames = t /\ s # <<>>
        /\ io'[w].thread = IF t = <<>> THEN "exited" ELSE io[w].thread
    BY <1>6 DEF Pops
  <2>2. io[w].thread = "loop"
    BY <2>1 DEF FramesInv
  <2>3. \A i \in 2..Len(t) : t[i] = s[i + 1] /\ i + 1 \in 2..Len(s)
    BY <1>0, <2>1
  <2>4. \A i \in 2..Len(s) : s[i].at = "serve"
    BY DEF FramesInv
  <2> HIDE DEF s, t
  <2> QED
    BY <2>1, <2>2, <2>3, <2>4
<1>7. CASE \E t : Becomes(w, t) /\ io[w].frames = <<>> /\ io[w].thread \in {"init", "wait"}
  <2>1. io'[w].frames = <<>> /\ io[w].thread \in {"init", "wait"}
    BY <1>7 DEF Becomes
  <2> QED
    BY <2>1
<1> QED
  BY <1>3, <1>4, <1>5, <1>6, <1>7 DEF GoesOn

\* The steps in which one thread goes on.
LEMMA ThreadsGoOn ==
  ASSUME TypeOK, ThreadInv, ConnInv, NEW w \in Workers
  PROVE  /\ Worker(w) \/ CallIsDue(w) \/ (\E outcome \in Outcomes : MakeCall(w, outcome))
              => GoesOn(w) /\ UNCHANGED main
         /\ StartThread \/ StopThread => GoesOn(main.w)
         /\ \A c \in Conns : OnAccept(c) => GoesOn(next)
<1>1. ASSUME InitThread(w) PROVE GoesOn(w) /\ UNCHANGED main
  BY <1>1, ThreadSteps DEF InitThread, GoesOn, ThreadInv, FramesInv
<1>2. ASSUME EnterThread(w) PROVE GoesOn(w) /\ UNCHANGED main
  <2>1. io[w].thread = "wait" /\ io[w].frames = <<>> /\ UNCHANGED main
    BY <1>2 DEF EnterThread, ThreadInv, FramesInv
  <2> QED
    BY <1>2, <2>1, ThreadSteps DEF GoesOn
<1>3. ASSUME LoopSwap(w), io[w].stop PROVE GoesOn(w) /\ UNCHANGED main
  BY <1>3, ThreadSteps DEF LoopSwap, GoesOn
<1>4. ASSUME \/ (LoopSwap(w) /\ ~io[w].stop) \/ Poll(w) \/ RunDrain(w) \/ RunAdd(w)
             \/ RunCall(w) \/ ServeReturns(w)
      PROVE  GoesOn(w) /\ UNCHANGED main
  <2>1. \E x \in FramesOf(Tasks) : Moves(w, x)
    BY <1>4, WorkerMoves
  <2>2. UNCHANGED main
    BY <1>4 DEF LoopSwap, Poll, RunDrain, RunAdd, RunCall, ServeReturns
  <2> QED
    BY <2>1, <2>2 DEF GoesOn
<1>5. ASSUME RunRead(w) \/ RunClear(w) PROVE GoesOn(w) /\ UNCHANGED main
  <2>1. PICK op : NextTask(w, op)
    BY <1>5, HandlerCases
  <2>2. \E x : Moves(w, x)
    <3>1. \A c \in ended : c \in Conns
      BY DEF TypeOK
    <3> QED
      BY <1>5, <2>1, <3>1, HandlerCases, SkipMoves, ClearMoves, DispatchMoves
  <2>3. PICK x : Moves(w, x)
    BY <2>2
  <2>4. x \in FramesOf(Tasks)
    <3>1. /\ io'[w] \in ThreadsOf(Tasks) /\ io[w] \in ThreadsOf(Tasks)
          /\ io[w].frames # <<>> /\ io'[w].frames = [io[w].frames EXCEPT ![1] = x]
      BY <2>3 DEF Moves, MovesTo, TypeOK
    <3>2. io'[w].frames \in Seq(FramesOf(Tasks)) /\ io[w].frames \in Seq(FramesOf(Tasks))
      BY <3>1 DEF ThreadsOf
    <3>3. io'[w].frames[1] = x /\ 1 \in 1..Len(io'[w].frames)
      BY <3>1, <3>2
    <3> QED
      BY <3>2, <3>3
  <2> QED
    BY <1>5, <2>3, <2>4, HandlerCases DEF GoesOn
<1>6. ASSUME CloseFd(w) PROVE GoesOn(w) /\ UNCHANGED main
  <2>1. io[w].frames # <<>> /\ UNCHANGED main
    BY <1>6 DEF CloseFd, At
  <2>2. Loop("run", Top(w).todo) \in FramesOf(Tasks)
    BY <2>1, TopType
  <2> QED
    BY <1>6, <2>1, <2>2, CloseMoves DEF GoesOn
<1>7. ASSUME CallIsDue(w) PROVE GoesOn(w) /\ UNCHANGED main
  BY <1>7, CallSteps DEF CallIsDue, GoesOn
<1>8. ASSUME NEW outcome \in Outcomes, MakeCall(w, outcome) PROVE GoesOn(w) /\ UNCHANGED main
  BY <1>8, CallSteps DEF MakeCall, GoesOn
<1>9. StartThread \/ StopThread => GoesOn(main.w)
  BY OwnerStays DEF GoesOn
<1>10. \A c \in Conns : OnAccept(c) => GoesOn(next)
  BY OwnerStays DEF GoesOn
<1> QED
  BY <1>1, <1>2, <1>3, <1>4, <1>5, <1>6, <1>7, <1>8, <1>9, <1>10 DEF Worker

\* No step takes a thread to where the owner's progress does not allow it.
LEMMA NextThreadInv == TypeOK /\ ThreadInv /\ ConnInv /\ [Next]_vars => ThreadInv'
<1> SUFFICES ASSUME TypeOK, ThreadInv, ConnInv, [Next]_vars PROVE ThreadInv'
  OBVIOUS
<1>0. main.w \in Workers /\ next \in Workers /\ main \in [at : Points, w : Workers]
  BY DEF TypeOK
<1>1. ASSUME NEW w \in Workers, GoesOn(w) PROVE FramesInv' /\ KeepsIdle
  BY <1>1, GoesOnInv DEF ThreadInv
<1>2. ASSUME KeepsIdle, UNCHANGED main PROVE OwnerInv'
  <2>1. ASSUME main.at = "create" PROVE \A w \in main.w..NumWorkers : io'[w].thread = "none"
    BY <1>0, <1>2, <2>1 DEF ThreadInv, OwnerInv, KeepsIdle, Workers
  <2>2. ASSUME main.at = "created"
        PROVE  \A w \in (main.w + 1)..NumWorkers : io'[w].thread = "none"
    BY <1>0, <1>2, <2>2 DEF ThreadInv, OwnerInv, KeepsIdle, Workers
  <2>3. ASSUME main.at = "join" PROVE \A w \in 1..(main.w - 1) : io'[w].thread = "exited"
    BY <1>0, <1>2, <2>3 DEF ThreadInv, OwnerInv, KeepsIdle, Workers
  <2>4. ASSUME main.at \in {"clear", "delete", "gone"}
        PROVE  \A w \in Workers : io'[w].thread = "exited"
    BY <1>2, <2>4 DEF ThreadInv, OwnerInv, KeepsIdle
  <2> QED
    BY <1>2, <2>1, <2>2, <2>3, <2>4 DEF OwnerInv
<1>3. ASSUME UNCHANGED io PROVE FramesInv' /\ KeepsIdle
  BY <1>3 DEF ThreadInv, FramesInv, KeepsIdle
<1>4. CASE CreateThread
  <2>1. io[main.w].thread = "none" /\ main.at = "create"
    BY <1>0, <1>4 DEF CreateThread, ThreadInv, OwnerInv, Workers
  <2>2. io[main.w].frames = <<>>
    BY <1>0, <2>1 DEF ThreadInv, FramesInv
  <2>3. Becomes(main.w, "init")
    BY <1>0, <1>4, ThreadSteps
  <2>4. FramesInv'
    <3>1. \A v \in Workers : io'[v].frames = <<>> \/ io'[v] = io[v]
      BY <2>2, <2>3 DEF Becomes
    <3> QED
      BY <3>1 DEF ThreadInv, FramesInv
  <2>5. \A w \in (main.w + 1)..NumWorkers : io'[w].thread = "none"
    <3>1. \A w \in (main.w + 1)..NumWorkers : w \in Workers \ {main.w} /\ w \in main.w..NumWorkers
      BY <1>0 DEF Workers
    <3> QED
      BY <2>1, <2>3, <3>1 DEF Becomes, ThreadInv, OwnerInv
  <2>6. main'.at = "created" /\ main'.w = main.w
    BY <1>4 DEF CreateThread, Main
  <2> QED
    BY <2>4, <2>5, <2>6 DEF ThreadInv, OwnerInv
<1>5. CASE ThreadCreated
  <2>1. UNCHANGED io /\ main.at = "created"
    BY <1>5 DEF ThreadCreated
  <2>2. \/ main'.at = "ready"
        \/ main'.at = "create" /\ main'.w = main.w + 1
    BY <1>5 DEF ThreadCreated, Onward, Main
  <2> QED
    BY <1>3, <2>1, <2>2 DEF ThreadInv, OwnerInv
<1>6. CASE StartOrDestroy \/ LeaveServing
  <2>1. UNCHANGED io /\ main'.at \in {"start", "stop"}
    BY <1>6 DEF StartOrDestroy, LeaveServing, Main
  <2> QED
    BY <1>3, <2>1 DEF ThreadInv, OwnerInv
<1>7. CASE StartThread \/ StopThread
  <2>1. FramesInv'
    BY <1>0, <1>1, <1>7, ThreadsGoOn
  <2>2. \/ main'.at \in {"start", "serve", "stop"}
        \/ main'.at = "join" /\ main'.w = 1
    BY <1>7 DEF StartThread, StopThread, Onward, Main
  <2> QED
    BY <2>1, <2>2 DEF ThreadInv, OwnerInv
<1>8. CASE JoinThread
  <2>1. UNCHANGED io /\ main.at = "join" /\ io[main.w].thread = "exited"
    BY <1>8 DEF JoinThread
  <2>2. \A w \in 1..main.w : io[w].thread = "exited"
    BY <1>0, <2>1 DEF ThreadInv, OwnerInv, Workers
  <2>3. CASE main.w = NumWorkers
    <3>1. main'.at = "clear"
      BY <1>8, <2>3 DEF JoinThread, Onward, Main
    <3> QED
      BY <1>3, <2>1, <2>2, <2>3, <3>1 DEF ThreadInv, OwnerInv, Workers
  <2>4. CASE main.w # NumWorkers
    <3>1. main'.at = "join" /\ main'.w = main.w + 1
      BY <1>8, <2>4 DEF JoinThread, Onward, Main
    <3>2. main'.w - 1 = main.w
      BY <1>0, <3>1 DEF Workers
    <3> QED
      BY <1>3, <2>1, <2>2, <3>1, <3>2 DEF ThreadInv, OwnerInv
  <2> QED
    BY <2>3, <2>4
<1>9. CASE ClearClients \/ DeleteThreads
  <2>1. UNCHANGED io /\ main.at \in {"clear", "delete"} /\ main'.at \in {"delete", "gone"}
    BY <1>9 DEF ClearClients, DeleteThreads, Main
  <2> QED
    BY <1>3, <2>1 DEF ThreadInv, OwnerInv
<1>10. CASE ClearClientTimerFunc \/ Finished \/ UNCHANGED vars
            \/ \E c \in Conns : SendRequest(c) \/ CloseByClient(c)
  <2>1. UNCHANGED <<io, main>>
    BY <1>10 DEF ClearClientTimerFunc, Finished, vars, SendRequest, CloseByClient
  <2> QED
    BY <1>2, <1>3, <2>1 DEF ThreadInv
<1>11. CASE \E c \in Conns : OnAccept(c)
  <2>1. UNCHANGED main
    BY <1>11 DEF OnAccept
  <2>2. FramesInv' /\ KeepsIdle
    BY <1>0, <1>1, <1>11, ThreadsGoOn
  <2> QED
    BY <1>2, <2>1, <2>2 DEF ThreadInv
<1>12. ASSUME NEW w \in Workers,
              Worker(w) \/ CallIsDue(w) \/ \E outcome \in Outcomes : MakeCall(w, outcome)
       PROVE  ThreadInv'
  <2>1. GoesOn(w) /\ UNCHANGED main
    BY <1>12, ThreadsGoOn
  <2> QED
    BY <1>1, <1>2, <2>1 DEF ThreadInv
<1> QED
  BY <1>4, <1>5, <1>6, <1>7, <1>8, <1>9, <1>10, <1>11, <1>12 DEF Next, Owner

(***************************************************************************)
(* Connections and descriptors                                             *)
(***************************************************************************)

\* The same threads are between the two halves of clear(), for the same descriptors.
SameClosers ==
  \A v \in Workers : /\ At(v, "close")' <=> At(v, "close")
                     /\ At(v, "close") => Top(v)'.fd = Top(v).fd

\* Thread w neither begins nor ends to close one.
LEMMA NoCloser ==
  ASSUME TypeOK, NEW w \in Workers, ~At(w, "close"), ~At(w, "close")',
         \A v \in Workers \ {w} : io'[v] = io[v]
  PROVE  SameClosers
BY DEF SameClosers, At, Top

\* Nor does a step that leaves all frames alone.
LEMMA FramesSameClosers ==
  ASSUME \A v \in Workers : io'[v].frames = io[v].frames
  PROVE  SameClosers
BY DEF SameClosers, At, Top

\* Nor do the ways threads go on, other than the two halves of clear().
LEMMA GoesOnClosers ==
  ASSUME TypeOK, ThreadInv, NEW w \in Workers
  PROVE  /\ Stays(w) => SameClosers
         /\ \A x : Moves(w, x) /\ Top(w).at # "close" /\ x.at # "close" => SameClosers
         /\ Pushes(w) /\ (io[w].frames # <<>> => Top(w).at = "serve") => SameClosers
         /\ Pops(w) /\ Top(w).at = "swap" => SameClosers
         /\ \A t : Becomes(w, t) => SameClosers
<1>0. io[w].frames \in Seq(FramesOf(Tasks))
  BY DEF TypeOK, ThreadsOf
<1>1. Stays(w) => SameClosers
  <2>1. ASSUME Stays(w) PROVE \A v \in Workers : io'[v].frames = io[v].frames
    BY <2>1 DEF Stays, StaysAt
  <2> QED
    BY <2>1, FramesSameClosers
<1>2. ASSUME NEW x, Moves(w, x), Top(w).at # "close", x.at # "close" PROVE SameClosers
  <2>1. io'[w].frames = [io[w].frames EXCEPT ![1] = x] /\ io[w].frames # <<>>
        /\ \A v \in Workers \ {w} : io'[v] = io[v]
    BY <1>2 DEF Moves, MovesTo
  <2>2. io'[w].frames[1] = x
    BY <1>0, <2>1
  <2>3. ~At(w, "close") /\ ~At(w, "close")'
    BY <1>2, <2>2 DEF At, Top
  <2> QED
    BY <2>1, <2>3, NoCloser
<1>3. ASSUME Pushes(w), io[w].frames # <<>> => Top(w).at = "serve" PROVE SameClosers
  <2>1. io'[w].frames[1] = Loop("swap", <<>>)
    BY <1>0, <1>3 DEF Pushes
  <2>2. ~At(w, "close") /\ ~At(w, "close")'
    BY <1>3, <2>1 DEF At, Top, Loop, Frame
  <2> QED
    BY <1>3, <2>2, NoCloser DEF Pushes
<1>4. ASSUME Pops(w), Top(w).at = "swap" PROVE SameClosers
  <2>1. io'[w].frames = Tail(io[w].frames) /\ io[w].frames # <<>>
    BY <1>4 DEF Pops
  <2>2. io'[w].frames = <<>> \/ io'[w].frames[1].at = "serve"
    <3>1. Tail(io[w].frames) = <<>>
          \/ (Tail(io[w].frames)[1] = io[w].frames[2] /\ 2 \in 2..Len(io[w].frames))
      BY <1>0, <2>1
    <3> QED
      BY <2>1, <3>1 DEF ThreadInv, FramesInv
  <2>3. ~At(w, "close") /\ ~At(w, "close")'
    BY <1>4, <2>2 DEF At, Top
  <2> QED
    BY <1>4, <2>3, NoCloser DEF Pops
<1>5. ASSUME NEW t, Becomes(w, t) PROVE SameClosers
  <2>1. \A v \in Workers : io'[v].frames = io[v].frames
    BY <1>5 DEF Becomes
  <2> QED
    BY <2>1, FramesSameClosers
<1> QED
  BY <1>1, <1>2, <1>3, <1>4, <1>5

\* A step that leaves connections, descriptors and closers alone.
LEMMA QuietConnInv ==
  ASSUME TypeOK, ConnInv, SameClosers, UNCHANGED <<conn, fd, owner, open, clients>>,
         \A f \in Fds : watched'[f] # {} => f \in open,
         main'.at \in {"delete", "gone"} => main.at \in {"delete", "gone"}
  PROVE  ConnInv'
<1>1. \A v \in Workers : \A f \in Fds : Closes(v, f)' <=> Closes(v, f)
  BY DEF SameClosers, Closes
<1>2. \A v \in Workers : At(v, "close")' => Top(v)'.fd \in open'
  BY DEF SameClosers, ConnInv
<1>3. \A w \in Workers : \A f \in Fds : Closes(w, f)' =>
         owner'[f] \in Conns /\ conn'[owner'[f]] = "Closed"
  BY <1>1 DEF ConnInv
<1>4. \A v, w \in Workers : \A f \in Fds : Closes(v, f)' /\ Closes(w, f)' => v = w
  BY <1>1 DEF ConnInv
<1>5. \A f \in open' : \/ \E c \in Conns : conn'[c] = "Connected" /\ fd'[c] = f
                       \/ \E w \in Workers : Closes(w, f)'
  BY <1>1 DEF ConnInv, TypeOK
<1> HIDE DEF Closes
<1> QED
  BY <1>2, <1>3, <1>4, <1>5 DEF ConnInv

\* accept(): the descriptor is not open, so it is nobody's.
LEMMA AcceptConnInv ==
  ASSUME TypeOK, ThreadInv, ConnInv, NEW c \in Conns, OnAccept(c)
  PROVE  ConnInv'
<1> DEFINE f == Min(Fds \ open)
<1>1. f \in Fds /\ f \notin open
  BY FreeFd DEF OnAccept
<1>2. /\ fd' = [fd EXCEPT ![c] = f] /\ open' = open \cup {f}
      /\ owner' = [owner EXCEPT ![f] = c] /\ conn' = [conn EXCEPT ![c] = "Connected"]
      /\ clients' = clients \cup {c} /\ UNCHANGED <<main, watched>>
      /\ conn[c] = "new" /\ main.at = "serve"
  BY DEF OnAccept
<1> HIDE DEF f
<1>3. SameClosers
  <2>1. next \in Workers
    BY DEF TypeOK
  <2> QED
    BY <2>1, OwnerStays, GoesOnClosers
<1>4. \A v \in Workers : \A g \in Fds : Closes(v, g)' <=> Closes(v, g)
  BY <1>3 DEF SameClosers, Closes
<1>5. \A v \in Workers : \A g \in Fds : Closes(v, g) => g \in open /\ g # f
  BY <1>1 DEF ConnInv, Closes
<1>6. \A d \in Conns : conn'[d] = "Connected" =>
         fd'[d] \in open' /\ owner'[fd'[d]] = d /\ d \in clients'
  <2>1. ASSUME NEW d \in Conns, d # c, conn'[d] = "Connected"
        PROVE  fd'[d] \in open' /\ owner'[fd'[d]] = d /\ d \in clients'
    <3>1. conn[d] = "Connected" /\ fd'[d] = fd[d]
      BY <1>2, <2>1 DEF TypeOK
    <3>2. fd[d] \in open /\ owner[fd[d]] = d /\ d \in clients
      BY <3>1 DEF ConnInv
    <3>3. fd[d] # f /\ fd[d] \in Fds
      BY <1>1, <3>2 DEF TypeOK
    <3> QED
      BY <1>2, <3>1, <3>2, <3>3 DEF TypeOK
  <2>2. fd'[c] \in open' /\ owner'[fd'[c]] = c /\ c \in clients'
    BY <1>1, <1>2 DEF TypeOK
  <2> QED
    BY <2>1, <2>2
<1>7. \A v \in Workers : At(v, "close")' => Top(v)'.fd \in open'
  BY <1>2, <1>3 DEF SameClosers, ConnInv
<1>8. ASSUME NEW v \in Workers, NEW g \in Fds, Closes(v, g)'
      PROVE  owner'[g] \in Conns /\ conn'[owner'[g]] = "Closed"
  <2>1. Closes(v, g) /\ g # f
    BY <1>4, <1>5, <1>8
  <2>2. owner[g] \in Conns /\ conn[owner[g]] = "Closed"
    BY <2>1 DEF ConnInv
  <2>3. owner'[g] = owner[g] /\ owner[g] # c
    BY <1>2, <2>1, <2>2 DEF TypeOK
  <2> QED
    BY <1>2, <2>2, <2>3 DEF TypeOK
<1>9. \A v, w \in Workers : \A g \in Fds : Closes(v, g)' /\ Closes(w, g)' => v = w
  BY <1>4 DEF ConnInv
<1>10. ASSUME NEW g \in open'
       PROVE  \/ \E d \in Conns : conn'[d] = "Connected" /\ fd'[d] = g
              \/ \E w \in Workers : Closes(w, g)'
  <2>1. CASE g = f
    BY <1>2, <2>1 DEF TypeOK
  <2>2. CASE g # f
    <3>1. g \in open /\ g \in Fds
      BY <1>2, <2>2 DEF TypeOK
    <3>2. CASE \E d \in Conns : conn[d] = "Connected" /\ fd[d] = g
      <4>1. PICK d \in Conns : conn[d] = "Connected" /\ fd[d] = g
        BY <3>2
      <4>2. d # c
        BY <1>2, <4>1
      <4> QED
        BY <1>2, <4>1, <4>2 DEF TypeOK
    <3>3. CASE \E w \in Workers : Closes(w, g)
      BY <1>4, <3>1, <3>3
    <3> QED
      BY <3>1, <3>2, <3>3 DEF ConnInv
  <2> QED
    BY <2>1, <2>2
<1>11. \A g \in Fds : watched'[g] # {} => g \in open'
  BY <1>2 DEF ConnInv
<1>12. main'.at \notin {"delete", "gone"}
  BY <1>2
<1> HIDE DEF Closes
<1> QED
  BY <1>6, <1>7, <1>8, <1>9, <1>10, <1>11, <1>12 DEF ConnInv

\* The first half of clear(): the descriptor stays open, and the thread's own.
LEMMA ClearConnInv ==
  ASSUME TypeOK, ThreadInv, ConnInv, NEW w \in Workers, NEW op, NextTask(w, op),
         NEW c \in Conns, conn[c] = "Connected", Clear(w, c),
         UNCHANGED <<main, clients>>
  PROVE  ConnInv'
<1> DEFINE f == fd[c]
           x == Frame("close", Tail(Top(w).todo), c, f)
<1>1. f \in open /\ owner[f] = c /\ f \in Fds
  BY DEF ConnInv, TypeOK
<1>2. /\ conn' = [conn EXCEPT ![c] = "Closed"] /\ fd' = [fd EXCEPT ![c] = None]
      /\ UNCHANGED <<owner, open>>
      /\ \A g \in Fds : watched'[g] \subseteq watched[g]
  BY DEF Clear, TypeOK
<1>3. Moves(w, x) /\ x.at = "close" /\ x.fd = f
  BY ClearMoves DEF Frame
<1> HIDE DEF f, x
<1>4. At(w, "close")' /\ Top(w)'.fd = f /\ ~At(w, "close")
      /\ \A v \in Workers \ {w} : io'[v] = io[v]
  <2>1. io'[w].frames = [io[w].frames EXCEPT ![1] = x] /\ io[w].frames # <<>>
        /\ \A v \in Workers \ {w} : io'[v] = io[v]
    BY <1>3 DEF Moves, MovesTo
  <2>2. io[w].frames \in Seq(FramesOf(Tasks))
    BY DEF TypeOK, ThreadsOf
  <2>3. io'[w].frames[1] = x /\ io'[w].frames # <<>>
    BY <2>1, <2>2
  <2>4. ~At(w, "close")
    BY NextTaskType DEF At
  <2> QED
    BY <1>3, <2>1, <2>3, <2>4 DEF At, Top
<1>5. \A v \in Workers : \A g \in Fds :
         Closes(v, g)' <=> IF v = w THEN g = f ELSE Closes(v, g)
  BY <1>4 DEF Closes, At, Top
<1>6. \A v \in Workers : ~Closes(v, f)
  BY <1>1 DEF ConnInv
<1>7. \A d \in Conns : conn'[d] = "Connected" =>
         fd'[d] \in open' /\ owner'[fd'[d]] = d /\ d \in clients'
  <2>1. \A d \in Conns : conn'[d] = "Connected" => conn[d] = "Connected" /\ fd'[d] = fd[d]
    BY <1>2 DEF TypeOK
  <2> QED
    BY <1>2, <2>1 DEF ConnInv
<1>8. \A v \in Workers : At(v, "close")' => Top(v)'.fd \in open'
  <2>1. \A v \in Workers \ {w} : (At(v, "close")' <=> At(v, "close")) /\ Top(v)' = Top(v)
    BY <1>4 DEF At, Top
  <2> QED
    BY <1>1, <1>2, <1>4, <2>1 DEF ConnInv
<1>9. ASSUME NEW v \in Workers, NEW g \in Fds, Closes(v, g)'
      PROVE  owner'[g] \in Conns /\ conn'[owner'[g]] = "Closed"
  <2>1. CASE v = w
    <3>1. g = f
      BY <1>5, <1>9, <2>1
    <3> QED
      BY <1>1, <1>2, <3>1 DEF TypeOK
  <2>2. CASE v # w
    <3>1. Closes(v, g)
      BY <1>5, <1>9, <2>2
    <3>2. owner[g] \in Conns /\ conn[owner[g]] = "Closed"
      BY <3>1 DEF ConnInv
    <3> QED
      BY <1>2, <3>2 DEF TypeOK
  <2> QED
    BY <2>1, <2>2
<1>10. \A v, u \in Workers : \A g \in Fds : Closes(v, g)' /\ Closes(u, g)' => v = u
  BY <1>5, <1>6 DEF ConnInv
<1>11. ASSUME NEW g \in open'
       PROVE  \/ \E d \in Conns : conn'[d] = "Connected" /\ fd'[d] = g
              \/ \E v \in Workers : Closes(v, g)'
  <2>1. g \in open /\ g \in Fds
    BY <1>2 DEF TypeOK
  <2>2. CASE g = f
    BY <1>5, <2>1, <2>2
  <2>3. CASE g # f
    <3>1. CASE \E d \in Conns : conn[d] = "Connected" /\ fd[d] = g
      <4>1. PICK d \in Conns : conn[d] = "Connected" /\ fd[d] = g
        BY <3>1
      <4>2. d # c
        BY <2>3, <4>1 DEF f
      <4> QED
        BY <1>2, <4>1, <4>2 DEF TypeOK
    <3>2. CASE \E v \in Workers : Closes(v, g)
      <4>1. PICK v \in Workers : Closes(v, g)
        BY <3>2
      <4>2. v # w
        BY <1>4, <4>1 DEF Closes
      <4> QED
        BY <1>5, <2>1, <4>1, <4>2
    <3> QED
      BY <2>1, <3>1, <3>2 DEF ConnInv
  <2> QED
    BY <2>2, <2>3
<1>12. \A g \in Fds : watched'[g] # {} => g \in open'
  BY <1>2 DEF ConnInv
<1>13. main'.at \in {"delete", "gone"} => open' = {}
  BY <1>2 DEF ConnInv
<1> HIDE DEF Closes
<1> QED
  BY <1>7, <1>8, <1>9, <1>10, <1>11, <1>12, <1>13 DEF ConnInv

\* The second half: the descriptor was this thread's alone.
LEMMA CloseConnInv ==
  ASSUME TypeOK, ThreadInv, ConnInv, NEW w \in Workers, CloseFd(w)
  PROVE  ConnInv'
<1> DEFINE f == Top(w).fd
           x == Loop("run", Top(w).todo)
<1>1. At(w, "close") /\ f \in open /\ f \in Fds
  BY DEF CloseFd, ConnInv, TypeOK
<1>2. Closes(w, f)
  BY <1>1 DEF Closes
<1>3. /\ owner' = [owner EXCEPT ![f] = None] /\ open' = open \ {f}
      /\ watched' = [watched EXCEPT ![f] = {}]
      /\ UNCHANGED <<main, conn, fd, clients>>
  BY DEF CloseFd
<1>4. Moves(w, x) /\ x.at = "run"
  BY CloseMoves DEF Loop, Frame
<1> HIDE DEF f, x
<1>5. ~At(w, "close")' /\ \A v \in Workers \ {w} : io'[v] = io[v]
  <2>1. io'[w].frames = [io[w].frames EXCEPT ![1] = x] /\ io[w].frames # <<>>
        /\ \A v \in Workers \ {w} : io'[v] = io[v]
    BY <1>4 DEF Moves, MovesTo
  <2>2. io[w].frames \in Seq(FramesOf(Tasks))
    BY DEF TypeOK, ThreadsOf
  <2>3. io'[w].frames[1] = x
    BY <2>1, <2>2
  <2> QED
    BY <1>4, <2>1, <2>3 DEF At, Top
<1>6. \A v \in Workers : \A g \in Fds : Closes(v, g)' <=> (v # w /\ Closes(v, g))
  BY <1>5 DEF Closes, At, Top
<1>7. \A v \in Workers \ {w} : ~Closes(v, f)
  BY <1>1, <1>2 DEF ConnInv
<1>8. owner[f] \in Conns /\ conn[owner[f]] = "Closed"
  BY <1>1, <1>2 DEF ConnInv
<1>9. ASSUME NEW d \in Conns, conn'[d] = "Connected"
      PROVE  fd'[d] \in open' /\ owner'[fd'[d]] = d /\ d \in clients'
  <2>1. fd[d] \in open /\ owner[fd[d]] = d /\ d \in clients /\ conn[d] = "Connected"
    BY <1>3, <1>9 DEF ConnInv
  <2>2. fd[d] # f /\ fd[d] \in Fds
    BY <1>8, <2>1 DEF TypeOK
  <2> QED
    BY <1>3, <2>1, <2>2 DEF TypeOK
<1>10. ASSUME NEW v \in Workers, At(v, "close")' PROVE Top(v)'.fd \in open'
  <2>1. v # w /\ At(v, "close") /\ Top(v)' = Top(v)
    BY <1>5, <1>10 DEF At, Top
  <2>2. Top(v).fd \in open /\ Top(v).fd \in Fds
    BY <2>1 DEF ConnInv, TypeOK
  <2>3. Top(v).fd # f
    BY <1>7, <2>1 DEF Closes
  <2> QED
    BY <1>3, <2>1, <2>2, <2>3
<1>11. ASSUME NEW v \in Workers, NEW g \in Fds, Closes(v, g)'
       PROVE  owner'[g] \in Conns /\ conn'[owner'[g]] = "Closed"
  <2>1. v # w /\ Closes(v, g) /\ g # f
    BY <1>6, <1>7, <1>11
  <2>2. owner[g] \in Conns /\ conn[owner[g]] = "Closed"
    BY <2>1 DEF ConnInv
  <2> QED
    BY <1>3, <2>1, <2>2 DEF TypeOK
<1>12. \A v, u \in Workers : \A g \in Fds : Closes(v, g)' /\ Closes(u, g)' => v = u
  BY <1>6 DEF ConnInv
<1>13. ASSUME NEW g \in open'
       PROVE  \/ \E d \in Conns : conn'[d] = "Connected" /\ fd'[d] = g
              \/ \E v \in Workers : Closes(v, g)'
  <2>1. g \in open /\ g # f /\ g \in Fds
    BY <1>3 DEF TypeOK
  <2>2. CASE \E d \in Conns : conn[d] = "Connected" /\ fd[d] = g
    BY <1>3, <2>2
  <2>3. CASE \E v \in Workers : Closes(v, g)
    <3>1. PICK v \in Workers : Closes(v, g)
      BY <2>3
    <3>2. v # w
      BY <2>1, <3>1 DEF Closes, f
    <3> QED
      BY <1>6, <2>1, <3>1, <3>2
  <2> QED
    BY <2>1, <2>2, <2>3 DEF ConnInv
<1>14. \A g \in Fds : watched'[g] # {} => g \in open'
  BY <1>1, <1>3 DEF ConnInv, TypeOK
<1>15. main'.at \in {"delete", "gone"} => open' = {}
  BY <1>3 DEF ConnInv
<1> HIDE DEF Closes
<1> QED
  BY <1>9, <1>10, <1>11, <1>12, <1>13, <1>14, <1>15 DEF ConnInv

\* m_client.clear(): every thread has ended, so nothing is half closed and every
\* open descriptor is that of a client.
LEMMA ClearClientsConnInv ==
  ASSUME TypeOK, ThreadInv, ConnInv, ClearClients
  PROVE  ConnInv'
<1> DEFINE left == {fd[c] : c \in {d \in clients : conn[d] = "Connected"}}
<1>1. /\ open' = open \ left
      /\ watched' = [f \in Fds |-> IF f \in left THEN {} ELSE watched[f]]
      /\ conn' = [c \in Conns |-> IF c \in clients THEN "Closed" ELSE conn[c]]
      /\ UNCHANGED io /\ main.at = "clear"
  BY DEF ClearClients
<1>2. \A v \in Workers : io[v].frames = <<>>
  BY <1>1 DEF ThreadInv, FramesInv, OwnerInv
<1>3. \A v \in Workers : ~At(v, "close") /\ ~At(v, "close")'
  BY <1>1, <1>2 DEF At
<1>4. open' = {}
  <2>1. ASSUME NEW f \in open PROVE f \in left
    <3>1. PICK c \in Conns : conn[c] = "Connected" /\ fd[c] = f
      BY <1>3 DEF ConnInv, Closes
    <3>2. c \in clients
      BY <3>1 DEF ConnInv
    <3> QED
      BY <3>1, <3>2
  <2> QED
    BY <1>1, <2>1
<1>5. \A c \in Conns : conn'[c] # "Connected"
  BY <1>1 DEF ConnInv
<1>6. \A f \in Fds : watched'[f] = {}
  <2>1. \A f \in Fds : watched[f] # {} => f \in left
    BY <1>1, <1>4 DEF ConnInv
  <2> HIDE DEF left
  <2> QED
    BY <1>1, <2>1
<1> QED
  BY <1>3, <1>4, <1>5, <1>6 DEF ConnInv, Closes

\* No step breaks the ownership of descriptors: accept gives out a closed one, clear() takes
\* its callbacks off before the number is closed, and only the thread in between closes it.
LEMMA NextConnInv == TypeOK /\ ThreadInv /\ ConnInv /\ [Next]_vars => ConnInv'
<1> SUFFICES ASSUME TypeOK, ThreadInv, ConnInv, [Next]_vars PROVE ConnInv'
  OBVIOUS
<1>0. \A f \in Fds : watched[f] # {} => f \in open
  BY DEF ConnInv
<1>1. ASSUME SameClosers, UNCHANGED <<main, clients, connVars>> PROVE ConnInv'
  BY <1>0, <1>1, QuietConnInv DEF connVars
<1>2. ASSUME UNCHANGED io PROVE SameClosers
  BY <1>2, FramesSameClosers
<1>3. main.w \in Workers
  BY DEF TypeOK
<1>4. CASE CreateThread \/ StartThread \/ StopThread
  <2>1. SameClosers
    BY <1>3, <1>4, ThreadSteps, OwnerStays, GoesOnClosers
  <2>2. main'.at \notin {"delete", "gone"}
    BY <1>4 DEF CreateThread, StartThread, StopThread, Onward, Main
  <2>3. UNCHANGED <<clients, connVars>>
    BY <1>4 DEF CreateThread, StartThread, StopThread
  <2> QED
    BY <1>0, <2>1, <2>2, <2>3, QuietConnInv DEF connVars
<1>5. CASE ThreadCreated \/ StartOrDestroy \/ LeaveServing \/ JoinThread \/ DeleteThreads
  <2>1. UNCHANGED <<io, clients, connVars>>
    BY <1>5 DEF ThreadCreated, StartOrDestroy, LeaveServing, JoinThread, DeleteThreads
  <2>2. main'.at \in {"delete", "gone"} => main.at \in {"delete", "gone"}
    BY <1>5 DEF ThreadCreated, StartOrDestroy, LeaveServing, JoinThread, DeleteThreads,
                Onward, Main
  <2> QED
    BY <1>0, <1>2, <2>1, <2>2, QuietConnInv DEF connVars
<1>6. CASE ClearClientTimerFunc
  <2>1. /\ UNCHANGED <<main, io, connVars>>
        /\ clients' = {c \in clients : conn[c] # "Closed"}
    BY <1>6 DEF ClearClientTimerFunc
  <2>2. \A v \in Workers : /\ At(v, "close")' <=> At(v, "close")
                           /\ Top(v)' = Top(v)
                           /\ \A f \in Fds : Closes(v, f)' <=> Closes(v, f)
    BY <2>1 DEF At, Top, Closes
  <2>3. \A c \in Conns : conn[c] = "Connected" => c \in clients'
    BY <2>1 DEF ConnInv
  <2>4. UNCHANGED <<main, conn, fd, owner, open, watched>>
    BY <2>1 DEF connVars
  <2>5. \A c \in Conns : conn'[c] = "Connected" =>
           fd'[c] \in open' /\ owner'[fd'[c]] = c /\ c \in clients'
    BY <2>3, <2>4 DEF ConnInv
  <2>6. \A v \in Workers : At(v, "close")' => Top(v)'.fd \in open'
    BY <2>2, <2>4 DEF ConnInv
  <2>7. \A v \in Workers : \A f \in Fds : Closes(v, f)' =>
           owner'[f] \in Conns /\ conn'[owner'[f]] = "Closed"
    BY <2>2, <2>4 DEF ConnInv
  <2>8. \A u, v \in Workers : \A f \in Fds : Closes(u, f)' /\ Closes(v, f)' => u = v
    BY <2>2 DEF ConnInv
  <2>9. \A f \in open' : \/ \E c \in Conns : conn'[c] = "Connected" /\ fd'[c] = f
                         \/ \E v \in Workers : Closes(v, f)'
    BY <2>2, <2>4 DEF ConnInv, TypeOK
  <2> HIDE DEF Closes
  <2> QED
    BY <2>4, <2>5, <2>6, <2>7, <2>8, <2>9 DEF ConnInv
<1>7. CASE ClearClients
  BY <1>7, ClearClientsConnInv
<1>8. CASE Finished \/ UNCHANGED vars \/ \E c \in Conns : SendRequest(c) \/ CloseByClient(c)
  <2>1. UNCHANGED <<main, io, clients, connVars>>
    BY <1>8 DEF Finished, vars, connVars, SendRequest, CloseByClient
  <2> QED
    BY <1>1, <1>2, <2>1
<1>9. ASSUME NEW c \in Conns, OnAccept(c) PROVE ConnInv'
  BY <1>9, AcceptConnInv
<1>10. ASSUME NEW w \in Workers, InitThread(w) \/ EnterThread(w) PROVE ConnInv'
  <2>1. io[w].frames # <<>> => Top(w).at = "serve"
    BY <1>10 DEF InitThread, EnterThread, ThreadInv, FramesInv
  <2>2. SameClosers
    BY <1>10, <2>1, ThreadSteps, GoesOnClosers
  <2>3. UNCHANGED <<main, clients, connVars>>
    BY <1>10 DEF InitThread, EnterThread
  <2> QED
    BY <1>1, <2>2, <2>3
<1>11. ASSUME NEW w \in Workers, LoopSwap(w), io[w].stop PROVE ConnInv'
  <2>1. Pops(w) /\ Top(w).at = "swap"
    BY <1>11, ThreadSteps DEF LoopSwap, At
  <2> QED
    BY <1>1, <1>11, <2>1, GoesOnClosers DEF LoopSwap
<1>12. ASSUME NEW w \in Workers,
              \/ (LoopSwap(w) /\ ~io[w].stop) \/ RunDrain(w) \/ RunCall(w)
              \/ ServeReturns(w)
       PROVE  ConnInv'
  <2>1. SameClosers
    BY <1>12, WorkerMoves, GoesOnClosers
  <2>2. UNCHANGED <<main, clients, connVars>>
    BY <1>12 DEF LoopSwap, RunDrain, RunCall, ServeReturns
  <2> QED
    BY <1>1, <2>1, <2>2
<1>13. ASSUME NEW w \in Workers, Poll(w) \/ RunAdd(w) PROVE ConnInv'
  <2>1. SameClosers
    BY <1>13, WorkerMoves, GoesOnClosers
  <2>2. UNCHANGED <<main, clients, conn, fd, owner, open>>
    BY <1>13 DEF Poll, RunAdd
  <2>3. \A f \in Fds : watched'[f] # {} => f \in open
    <3>1. CASE Poll(w)
      <4> DEFINE over == {f \in {g \in Fds : w \in watched[g] /\ Readable(g)} : Terminal(f)}
      <4>1. watched' = [f \in Fds |-> IF f \in over THEN watched[f] \ {w} ELSE watched[f]]
        BY <3>1, Zenon DEF Poll
      <4> HIDE DEF over
      <4> QED
        BY <1>0, <4>1
    <3>2. CASE RunAdd(w)
      <4>1. watched' = [watched EXCEPT ![Arg(w)] =
                          IF Arg(w) \in open /\ Arg(w) \notin io[w].listed THEN @ \cup {w}
                          ELSE @]
        BY <3>2 DEF RunAdd
      <4> QED
        BY <1>0, <4>1 DEF TypeOK
    <3> QED
      BY <1>13, <3>1, <3>2
  <2> QED
    BY <2>1, <2>2, <2>3, QuietConnInv
<1>14. ASSUME NEW w \in Workers, RunRead(w) \/ RunClear(w) PROVE ConnInv'
  <2>0. UNCHANGED <<main, clients>>
    BY <1>14, HandlerCases
  <2>1. PICK op : NextTask(w, op)
    BY <1>14, HandlerCases
  <2>2. Top(w).at # "close"
    BY <2>1, NextTaskType
  <2>3. CASE Skip(w)
    <3>1. SameClosers
      BY <2>1, <2>2, <2>3, SkipMoves, GoesOnClosers
    <3> QED
      BY <1>1, <2>0, <2>3, <3>1 DEF Skip
  <2>4. ASSUME NEW c \in ended, conn[c] = "Connected", Clear(w, c) PROVE ConnInv'
    <3>1. c \in Conns
      BY DEF TypeOK
    <3> QED
      BY <2>0, <2>1, <2>4, <3>1, ClearConnInv
  <2>5. ASSUME NEW c \in Conns, Dispatch(w, c) PROVE ConnInv'
    <3>1. Frame("serve", Tail(Top(w).todo), c, None).at # "close"
      BY DEF Frame
    <3>2. SameClosers
      BY <2>1, <2>2, <2>5, <3>1, DispatchMoves, GoesOnClosers
    <3> QED
      BY <1>1, <2>0, <2>5, <3>2 DEF Dispatch
  <2> QED
    BY <1>14, <2>3, <2>4, <2>5, HandlerCases
<1>15. ASSUME NEW w \in Workers, CloseFd(w) PROVE ConnInv'
  BY <1>15, CloseConnInv
<1>16. ASSUME NEW w \in Workers,
              CallIsDue(w) \/ \E outcome \in Outcomes : MakeCall(w, outcome)
       PROVE  ConnInv'
  <2>1. SameClosers
    BY <1>16, CallSteps, GoesOnClosers
  <2>2. UNCHANGED <<main, clients, connVars>>
    BY <1>16 DEF CallIsDue, MakeCall
  <2> QED
    BY <1>1, <2>1, <2>2
<1> QED
  BY <1>4, <1>5, <1>6, <1>7, <1>8, <1>9, <1>10, <1>11, <1>12, <1>13, <1>14, <1>15,
     <1>16 DEF Next, Owner, Worker

(***************************************************************************)
(* The theorems                                                            *)
(***************************************************************************)
ServerInv == TypeOK /\ ThreadInv /\ ConnInv

\* Before the threads are created nothing is open.
LEMMA InitServerInv == Init => ServerInv
<1> SUFFICES ASSUME Init PROVE ServerInv
  OBVIOUS
<1>1. TypeOK
  BY InitTypeOK
<1>2. \A w \in Workers : io[w].frames = <<>> /\ io[w].thread = "none"
  BY DEF Init, NewIOThread
<1>3. main.at = "create" /\ main.w = 1
  BY DEF Init, Main
<1>4. FramesInv
  BY <1>2 DEF FramesInv
<1>5. OwnerInv
  BY <1>2, <1>3 DEF OwnerInv, Workers
<1>6. ConnInv
  BY <1>2, <1>3 DEF Init, ConnInv, Closes, At
<1> QED
  BY <1>1, <1>4, <1>5, <1>6 DEF ServerInv, ThreadInv

\* The invariant of threads, connections and descriptors holds throughout.
LEMMA ServerInvHolds == Spec => []ServerInv
<1>1. ServerInv /\ [Next]_vars => ServerInv'
  BY NextTypeOK, NextThreadInv, NextConnInv DEF ServerInv
<1> QED
  BY <1>1, InitServerInv, PTL DEF Spec

\* However the IO threads close descriptors and accept hands them out again, a
\* connection keeps an open descriptor of its own with its callbacks in the Fd_Event,
\* and no loop watches a closed one.
THEOREM DescriptorsAreOurs == Spec => []FdEventIsOurs
<1>1. ServerInv => FdEventIsOurs
  BY DEF ServerInv, ConnInv, FdEventIsOurs
<1> QED
  BY <1>1, ServerInvHolds, PTL

\* When the owner destroys what its threads use, all of them have ended, started or
\* not; when it is gone, no descriptor is left open.
THEOREM NothingIsLeftBehind == Spec => []NothingOutlivesServer
<1>1. ServerInv => NothingOutlivesServer
  BY DEF ServerInv, ThreadInv, OwnerInv, ConnInv, NothingOutlivesServer
<1> QED
  BY <1>1, ServerInvHolds, PTL

\* The step of NoStrayClose: a connection is closed by clear(), for a client that
\* has closed, or with the server.
LEMMA NextNoStrayClose == ServerInv /\ NoStrayClose /\ [Next]_vars => NoStrayClose'
<1> SUFFICES ASSUME ServerInv, NoStrayClose, [Next]_vars PROVE NoStrayClose'
  OBVIOUS
<1>0. TypeOK /\ ThreadInv /\ ConnInv
  BY DEF ServerInv
<1>1. ended \subseteq ended'
  <2>1. ASSUME NEW w \in Workers, RunRead(w) \/ RunClear(w) PROVE UNCHANGED ended
    BY <1>0, <2>1, HandlerCases
  <2> QED
    BY <2>1 DEF Next, Owner, Worker, CreateThread, ThreadCreated, StartOrDestroy,
       StartThread, ClearClientTimerFunc, StopThread, JoinThread, ClearClients,
       DeleteThreads, LeaveServing, Finished, vars, kernelVars, InitThread, EnterThread,
       LoopSwap, Poll, RunDrain, RunAdd, RunCall, CloseFd, ServeReturns, CallIsDue,
       MakeCall, OnAccept, SendRequest, CloseByClient
<1>2. main.at \in {"delete", "gone"} => main'.at \in {"delete", "gone"}
  <2>1. ASSUME NEW w \in Workers,
               Worker(w) \/ CallIsDue(w) \/ \E outcome \in Outcomes : MakeCall(w, outcome)
        PROVE  UNCHANGED main
    BY <1>0, <2>1, ThreadsGoOn
  <2>2. ASSUME main.at \in {"delete", "gone"}, Owner \/ LeaveServing
        PROVE  main'.at = "gone" \/ UNCHANGED main
    BY <2>2 DEF Owner, CreateThread, ThreadCreated, StartOrDestroy, StartThread,
       ClearClientTimerFunc, StopThread, JoinThread, ClearClients, DeleteThreads,
       LeaveServing, Main
  <2>3. ASSUME \/ Finished \/ UNCHANGED vars
               \/ \E c \in Conns : OnAccept(c) \/ SendRequest(c) \/ CloseByClient(c)
        PROVE  UNCHANGED main
    BY <2>3 DEF Finished, vars, OnAccept, SendRequest, CloseByClient
  <2> QED
    BY <2>1, <2>2, <2>3 DEF Next
<1>3. ASSUME UNCHANGED conn PROVE NoStrayClose'
  BY <1>1, <1>2, <1>3 DEF NoStrayClose
<1>4. CASE ClearClients
  BY <1>4 DEF ClearClients, Main, NoStrayClose
<1>5. CASE \E c \in Conns : OnAccept(c)
  <2>1. \A c \in Conns : conn'[c] = "Closed" => conn[c] = "Closed"
    BY <1>0, <1>5 DEF OnAccept, TypeOK
  <2> QED
    BY <1>1, <1>2, <2>1 DEF NoStrayClose
<1>6. ASSUME NEW w \in Workers, RunRead(w) \/ RunClear(w) PROVE NoStrayClose'
  <2>1. CASE Skip(w) \/ \E c \in Conns : Dispatch(w, c)
    BY <1>3, <2>1 DEF Skip, Dispatch, connVars
  <2>2. ASSUME NEW c \in ended, Clear(w, c) PROVE NoStrayClose'
    <3>1. \A d \in Conns : conn'[d] = "Closed" => d = c \/ conn[d] = "Closed"
      BY <1>0, <2>2 DEF Clear, TypeOK
    <3> QED
      BY <1>1, <1>2, <3>1 DEF NoStrayClose
  <2> QED
    BY <1>0, <1>6, <2>1, <2>2, HandlerCases
<1> QED
  BY <1>3, <1>4, <1>5, <1>6 DEF Next, Owner, Worker, CreateThread, ThreadCreated,
     StartOrDestroy, StartThread, ClearClientTimerFunc, StopThread, JoinThread,
     DeleteThreads, LeaveServing, Finished, vars, connVars, InitThread, EnterThread,
     LoopSwap, Poll, RunDrain, RunAdd, RunCall, CloseFd, ServeReturns, CallIsDue,
     MakeCall, SendRequest, CloseByClient

\* No error callback that is left over from another connection closes a connection
\* whose client is still there, although queues and batches outlive the connections
\* that their tasks were queued for.
THEOREM ClosedForAReason == Spec => []NoStrayClose
<1>1. Init => NoStrayClose
  BY DEF Init, NoStrayClose
<1> QED
  BY <1>1, NextNoStrayClose, ServerInvHolds, PTL DEF Spec

=============================================================================
