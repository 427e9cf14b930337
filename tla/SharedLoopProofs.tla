-------------------------- MODULE SharedLoopProofs --------------------------
(***************************************************************************)
(* Theorems about SharedLoop, for any number of calls.                     *)
(***************************************************************************)
EXTENDS SharedLoop, FiniteSetTheorems, TLAPS

USE SharedLoopAssumption

(***************************************************************************)
(* The call stack as a sequence                                            *)
(***************************************************************************)

\* TopGoes replaces the first frame and keeps the others.
LEMMA GoesShape ==
  ASSUME NEW S, NEW s \in Seq(S), s # <<>>, NEW x \in S, NEW t, t = <<x>> \o Tail(s)
  PROVE  /\ t \in Seq(S) /\ Len(t) = Len(s) /\ t[1] = x
         /\ \A i \in 2..Len(s) : t[i] = s[i]
OBVIOUS

\* TopCalls puts a frame before it.
LEMMA CallsShape ==
  ASSUME NEW S, NEW s \in Seq(S), s # <<>>, NEW x \in S, NEW y \in S,
         NEW t, t = <<x, y>> \o Tail(s)
  PROVE  /\ t \in Seq(S) /\ Len(t) = Len(s) + 1 /\ t[1] = x /\ t[2] = y
         /\ \A i \in 3..Len(t) : t[i] = s[i - 1]
OBVIOUS

\* Return takes it off.
LEMMA ReturnShape ==
  ASSUME NEW S, NEW s \in Seq(S), s # <<>>, NEW t, t = Tail(s)
  PROVE  /\ t \in Seq(S) /\ Len(t) = Len(s) - 1
         /\ \A i \in 1..Len(t) : t[i] = s[i + 1]
OBVIOUS

(***************************************************************************)
(* The closure of each call                                                *)
(***************************************************************************)
OnceInv ==
  /\ call \in [Calls -> {"new", "connecting", "connected", "completed"}]
  /\ runs \in [Calls -> Nat]
  /\ EachClosureAtMostOnce

\* The closure of each call runs at most once, and has run exactly for the
\* calls that ended (RequestState::finish), however many calls share the loop.
THEOREM ClosuresRunOnce == Spec => []EachClosureAtMostOnce
<1>1. Init => OnceInv
  BY DEF Init, OnceInv, EachClosureAtMostOnce
<1>2. ASSUME OnceInv, [Next]_vars PROVE OnceInv'
  <2> USE <1>2 DEF OnceInv, EachClosureAtMostOnce, Waiting
  <2>1. ASSUME NEW c \in Calls, MakeCall(c) PROVE OnceInv'
    BY <2>1 DEF MakeCall, MayMakeCall
  <2>2. ASSUME NEW c \in Calls, MakeFailingCall(c) PROVE OnceInv'
    BY <2>2 DEF MakeFailingCall, MayMakeCall
  <2>3. ASSUME NEW c \in Calls, DeadlinePasses(c) \/ SocketReady(c) PROVE OnceInv'
    BY <2>3 DEF DeadlinePasses, SocketReady
  <2>4. CASE LeaveFrame \/ LoopSwap \/ BatchEnd \/ Poll \/ RunHost \/ RunTimer
             \/ UserIdles \/ UNCHANGED vars
    BY <2>4 DEF LeaveFrame, LoopSwap, BatchEnd, Poll, RunHost, RunTimer, UserIdles, vars
  <2>5. ASSUME NEW c \in Waiting, NEW todo, Finish(c, looping, todo) PROVE OnceInv'
    BY <2>5 DEF Finish
  <2>6. CASE RunConnect
    <3>1. CASE UNCHANGED <<call, runs>>
      BY <3>1
    <3>2. ASSUME NEW c \in Waiting, call' = [call EXCEPT ![c] = "connected"],
                 UNCHANGED runs
          PROVE  OnceInv'
      BY <3>2
    <3> QED
      BY <2>5, <2>6, <3>1, <3>2 DEF RunConnect
  <2>7. CASE RunSocket \/ RunDeadline
    <3>1. CASE UNCHANGED <<call, runs>>
      BY <3>1
    <3> QED
      BY <2>5, <2>7, <3>1 DEF RunSocket, RunDeadline
  <2> QED
    BY <2>1, <2>2, <2>3, <2>4, <2>6, <2>7 DEF Next, Thread
<1>3. OnceInv => EachClosureAtMostOnce
  BY DEF OnceInv
<1> QED
  BY <1>1, <1>2, <1>3, PTL DEF Spec

(***************************************************************************)
(* The call stack.  A thread that is not an IO thread has its user code at *)
(* the bottom and no service method; those and onTimer run in a loop.      *)
(***************************************************************************)
NoHostTask(tasks) == \A i \in 1..Len(tasks) : tasks[i].kind # "host"

StackInv ==
  /\ \A i \in 1..Len(stack) :
       /\ stack[i].kind = "user" => ~Hosted /\ i = Len(stack)
       /\ stack[i].kind \in {"timers", "host"} =>
            i < Len(stack) /\ stack[i + 1].kind = "loop"
       /\ ~Hosted => stack[i].kind # "host" /\ NoHostTask(stack[i].todo)
  /\ ~Hosted => NoHostTask(pending)

(***************************************************************************)
(* A thread that is not an IO thread makes one call at a time.  While one  *)
(* waits, a loop runs and nobody has stopped it; where the next call may   *)
(* be made, no loop would take it over.                                    *)
(***************************************************************************)
HasLoop == \E i \in 1..Len(stack) : stack[i].kind = "loop"

OneCallInv ==
  ~Hosted =>
    /\ \A c, d \in Waiting : c = d
    /\ Waiting # {} => looping /\ ~stop
    /\ (stack # <<>> /\ Top.kind \in {"user", "closure"}) => ~looping \/ stop
    /\ looping => HasLoop

(***************************************************************************)
(* On a thread where no connect fails at once, the loop stays stopped from *)
(* the end of a call until a closure makes another.  So the loop that gets *)
(* the thread back drops its batch, or nothing has ended since it began:   *)
(* the connects it has still to run are for calls that wait.               *)
(***************************************************************************)
ForWaiting(tasks) ==
  \A i \in 1..Len(tasks) : tasks[i].kind = "connect" => tasks[i].call \in Waiting

Runnable(i) ==
  /\ stack[i].kind = "loop"
  /\ i = 1 \/ (i = 2 /\ Top.kind \in {"timers", "host"})

FlagInv ==
  /\ ~stop => looping \/ (Len(stack) = 1 /\ Top.kind = "user")
  /\ (stack # <<>> /\ Top.kind = "closure") => stop
  /\ \A i \in 1..Len(stack) : stack[i].kind = "host" => i = 1 /\ ~stop

TasksInv ==
  /\ pending # <<>> => TopIs("loop", "swap") /\ ~stop
  /\ ForWaiting(pending)
  /\ ~stop => \A i \in 1..Len(stack) : Runnable(i) => ForWaiting(stack[i].todo)

BatchInv == thread # "failing" => ~crashed /\ FlagInv /\ TasksInv

(***************************************************************************)
(* Types                                                                   *)
(***************************************************************************)
LEMMA FrameType ==
  ASSUME NEW kind \in {"user", "host", "closure", "loop", "timers"},
         NEW at \in {"-", "swap", "run", "poll"}, NEW todo \in Seq(Tasks)
  PROVE  Frame(kind, at, todo) \in Frames
BY DEF Frame, Frames

\* The order in which epoll or onTimer lists a finite set of tasks.
LEMMA ListedType ==
  ASSUME NEW S, IsFiniteSet(S), NEW q \in SetToSeqs(S)
  PROVE  q \in Seq(S)
<1>1. Cardinality(S) \in Nat
  BY FS_CardinalityType
<1>2. q \in [1..Cardinality(S) -> S]
  BY DEF SetToSeqs
<1> QED
  BY <1>1, <1>2

\* epoll reports finitely many events: there is one task a call.
LEMMA CallTasksFinite ==
  ASSUME NEW C \in SUBSET Calls, NEW kind
  PROVE  IsFiniteSet({Task(kind, c) : c \in C}) /\ IsFiniteSet({Task(kind, NoCall) : c \in C})
<1>1. IsFiniteSet(C)
  <2>1. IsFiniteSet(1..MaxCalls)
    <3>1. 1 \in Int /\ MaxCalls \in Int
      OBVIOUS
    <3> QED
      BY <3>1, FS_Interval
  <2> QED
    BY <2>1, FS_Subset DEF Calls
<1>2. IsFiniteSet({Task(kind, c) : c \in C})
  <2> DEFINE T == {Task(kind, c) : c \in C}
             f == [c \in C |-> Task(kind, c)]
  <2>1. f \in Surjection(C, T)
    BY DEF Surjection
  <2> HIDE DEF T, f
  <2> QED
    BY <1>1, <2>1, FS_Surjection DEF T
<1>3. {Task(kind, NoCall) : c \in C} \subseteq {Task(kind, NoCall)}
  OBVIOUS
<1>4. IsFiniteSet({Task(kind, NoCall)})
  BY FS_Singleton
<1> QED
  BY <1>2, <1>3, <1>4, FS_Subset

\* What Poll and RunTimer put in order is a finite set of tasks.
LEMMA ReadyTasksType ==
  ASSUME TypeOK
  PROVE  /\ ReadyTasks \subseteq Tasks /\ IsFiniteSet(ReadyTasks)
         /\ Requests \subseteq Tasks /\ IsFiniteSet(Requests)
         /\ {Task("timer", c) : c \in Expired} \subseteq Tasks
         /\ IsFiniteSet({Task("timer", c) : c \in Expired})
<1> DEFINE A == {Task("timer", NoCall) : c \in Expired}
           B == {Task("connect", c) : c \in {d \in ready : call[d] = "connecting"}}
           C == {Task("socket", c) : c \in {d \in ready : call[d] = "connected"}}
           D == {Task("host", NoCall) : c \in {d \in Calls : Hosted /\ call[d] = "new"}}
           E == {Task("timer", c) : c \in Expired}
<1>1. /\ Expired \in SUBSET Calls
      /\ {d \in ready : call[d] = "connecting"} \in SUBSET Calls
      /\ {d \in ready : call[d] = "connected"} \in SUBSET Calls
      /\ {d \in Calls : Hosted /\ call[d] = "new"} \in SUBSET Calls
  BY DEF TypeOK, Expired, Waiting
<1>2. A \subseteq Tasks /\ B \subseteq Tasks /\ C \subseteq Tasks /\ D \subseteq Tasks
      /\ E \subseteq Tasks
  BY <1>1 DEF Task, Tasks
<1>3. /\ IsFiniteSet(A) /\ IsFiniteSet(B) /\ IsFiniteSet(C) /\ IsFiniteSet(D)
      /\ IsFiniteSet(E)
  BY <1>1, CallTasksFinite
<1>4. ReadyTasks = A \cup B \cup C /\ Requests \subseteq D
  BY DEF ReadyTasks, Requests
<1> HIDE DEF A, B, C, D
<1>5. IsFiniteSet(A \cup B \cup C)
  <2>1. IsFiniteSet(A \cup B)
    BY <1>3, FS_Union
  <2> QED
    BY <1>3, <2>1, FS_Union
<1>6. IsFiniteSet(Requests)
  BY <1>3, <1>4, FS_Subset
<1> QED
  BY <1>2, <1>3, <1>4, <1>5, <1>6

\* The batches that Poll and RunTimer make are sequences of tasks.
LEMMA PolledType ==
  ASSUME TypeOK, NEW request \in SUBSET Requests,
         NEW q \in SetToSeqs(ReadyTasks \cup request)
  PROVE  q \in Seq(ReadyTasks \cup request) /\ q \in Seq(Tasks)
<1>1. IsFiniteSet(request)
  BY ReadyTasksType, FS_Subset
<1>2. IsFiniteSet(ReadyTasks \cup request) /\ ReadyTasks \cup request \subseteq Tasks
  BY <1>1, ReadyTasksType, FS_Union
<1>3. q \in Seq(ReadyTasks \cup request)
  BY <1>2, ListedType
<1> QED
  BY <1>2, <1>3

\* The timer events that are due, in some order, are a list of tasks.
LEMMA TimersType ==
  ASSUME TypeOK, NEW q \in SetToSeqs({Task("timer", c) : c \in Expired})
  PROVE  /\ q \in Seq({Task("timer", c) : c \in Expired})
         /\ q \in Seq(Tasks)
<1> DEFINE T == {Task("timer", c) : c \in Expired}
<1>1. IsFiniteSet(T) /\ T \subseteq Tasks
  BY ReadyTasksType
<1> HIDE DEF T
<1>2. q \in Seq(T)
  BY <1>1, ListedType DEF T
<1> QED
  BY <1>1, <1>2 DEF T

(***************************************************************************)
(* What the three ways to change the stack do to a well-typed one          *)
(***************************************************************************)
LEMMA TopType ==
  ASSUME TypeOK, stack # <<>>
  PROVE  /\ Top \in Frames /\ stack[1] = Top /\ Len(stack) \in Nat /\ Len(stack) >= 1
         /\ Top.kind \in {"user", "host", "closure", "loop", "timers"}
         /\ Top.at \in {"-", "swap", "run", "poll"} /\ Top.todo \in Seq(Tasks)
         /\ Top.todo # <<>> => Tail(Top.todo) \in Seq(Tasks) /\ Top.todo[1] \in Tasks
<1>1. Top \in Frames /\ stack[1] = Top /\ Len(stack) \in Nat /\ Len(stack) >= 1
  BY DEF TypeOK, Top
<1>2. /\ Top.kind \in {"user", "host", "closure", "loop", "timers"}
      /\ Top.at \in {"-", "swap", "run", "poll"} /\ Top.todo \in Seq(Tasks)
  BY <1>1 DEF Frames
<1> QED
  BY <1>1, <1>2

\* The stack after the innermost frame has gone on: only that frame differs.
LEMMA AfterTopGoes ==
  ASSUME TypeOK, stack # <<>>, NEW at \in {"-", "swap", "run", "poll"},
         NEW todo \in Seq(Tasks), TopGoes(at, todo)
  PROVE  /\ stack' \in Seq(Frames) /\ Len(stack') = Len(stack)
         /\ stack'[1] = Frame(Top.kind, at, todo)
         /\ \A i \in 2..Len(stack) : stack'[i] = stack[i]
<1>1. Frame(Top.kind, at, todo) \in Frames
  BY TopType, FrameType
<1>2. stack \in Seq(Frames) /\ stack' = <<Frame(Top.kind, at, todo)>> \o Tail(stack)
  BY DEF TypeOK, TopGoes
<1> QED
  BY <1>1, <1>2, GoesShape

\* The stack after the innermost frame has called: one frame more, the others one place down.
LEMMA AfterTopCalls ==
  ASSUME TypeOK, stack # <<>>, NEW todo \in Seq(Tasks), NEW frame \in Frames,
         TopCalls(todo, frame)
  PROVE  /\ stack' \in Seq(Frames) /\ Len(stack') = Len(stack) + 1
         /\ stack'[1] = frame /\ stack'[2] = Frame(Top.kind, Top.at, todo)
         /\ \A i \in 3..Len(stack') : stack'[i] = stack[i - 1]
<1>1. Frame(Top.kind, Top.at, todo) \in Frames
  BY TopType, FrameType
<1>2. /\ stack \in Seq(Frames)
      /\ stack' = <<frame, Frame(Top.kind, Top.at, todo)>> \o Tail(stack)
  BY DEF TypeOK, TopCalls
<1> QED
  BY <1>1, <1>2, CallsShape

\* The stack after the innermost frame has returned: the others one place up.
LEMMA AfterReturn ==
  ASSUME TypeOK, stack # <<>>, Return
  PROVE  /\ stack' \in Seq(Frames) /\ Len(stack') = Len(stack) - 1
         /\ \A i \in 1..Len(stack') : stack'[i] = stack[i + 1]
<1>1. stack \in Seq(Frames) /\ stack' = Tail(stack)
  BY DEF TypeOK, Return
<1> QED
  BY <1>1, ReturnShape

\* The frames that the actions push.
LEMMA NewFrames ==
  ASSUME NEW q \in Seq(Tasks)
  PROVE  /\ <<>> \in Seq(Tasks)
         /\ Frame("closure", "-", <<>>) \in Frames /\ Frame("host", "-", <<>>) \in Frames
         /\ Frame("loop", "swap", <<>>) \in Frames /\ Frame("user", "-", <<>>) \in Frames
         /\ Frame("timers", "-", q) \in Frames
<1>1. <<>> \in Seq(Tasks)
  OBVIOUS
<1> QED
  BY <1>1, FrameType

\* The thread starts with one frame and no calls.
LEMMA InitTypeOK == Init => TypeOK
<1> SUFFICES ASSUME Init PROVE TypeOK
  OBVIOUS
<1>1. <<>> \in Seq(Tasks)
  OBVIOUS
<1>2. stack \in Seq(Frames)
  <2>1. Frame("loop", "swap", <<>>) \in Frames /\ Frame("user", "-", <<>>) \in Frames
    BY <1>1, NewFrames
  <2>2. \A x \in Frames : <<x>> \in Seq(Frames)
    OBVIOUS
  <2> QED
    BY <2>1, <2>2 DEF Init
<1>3. stop \in BOOLEAN /\ looping \in BOOLEAN /\ crashed \in BOOLEAN
  BY DEF Init, Hosted
<1> QED
  BY <1>1, <1>2, <1>3 DEF Init, TypeOK

\* Ending a call, from a loop or from onTimer.
LEMMA FinishTypeOK ==
  ASSUME TypeOK, stack # <<>>, NEW c \in Calls, NEW todo \in Seq(Tasks),
         Finish(c, looping, todo), UNCHANGED <<thread, due, pending, looping, crashed, ready>>
  PROVE  TypeOK'
<1>1. stack' \in Seq(Frames)
  <2>1. Frame("closure", "-", <<>>) \in Frames
    BY NewFrames
  <2> QED
    BY <2>1, AfterTopCalls DEF Finish
<1>2. stop' \in BOOLEAN
  BY DEF Finish, TypeOK
<1> QED
  BY <1>1, <1>2 DEF Finish, TypeOK

\* No step breaks the types, each variable in turn.
LEMMA NextTypeOK == TypeOK /\ [Next]_vars => TypeOK'
<1> SUFFICES ASSUME TypeOK, [Next]_vars PROVE TypeOK'
  OBVIOUS
<1>0. <<>> \in Seq(Tasks) /\ Waiting \subseteq Calls
  BY DEF Waiting
<1>1. ASSUME NEW c \in Calls, MakeCall(c) PROVE TypeOK'
  <2>1. stack # <<>>
    BY <1>1 DEF MakeCall, MayMakeCall
  <2>2. stack' \in Seq(Frames)
    <3>1. CASE LoopingAfterNew
      BY <1>1, <3>1 DEF MakeCall, TypeOK
    <3>2. CASE ~LoopingAfterNew
      <4>1. Frame("loop", "swap", <<>>) \in Frames /\ Top.todo \in Seq(Tasks)
        BY <1>0, <2>1, NewFrames, TopType
      <4> QED
        BY <1>1, <2>1, <3>2, <4>1, AfterTopCalls DEF MakeCall
    <3> QED
      BY <3>1, <3>2
  <2> QED
    BY <1>1, <2>2 DEF MakeCall, TypeOK
<1>2. ASSUME NEW c \in Calls, MakeFailingCall(c) PROVE TypeOK'
  <2>1. stack # <<>>
    BY <1>2 DEF MakeFailingCall, MayMakeCall
  <2>2. stack' \in Seq(Frames)
    <3>1. Frame("closure", "-", <<>>) \in Frames /\ Top.todo \in Seq(Tasks)
      BY <1>0, <2>1, NewFrames, TopType
    <3> QED
      BY <1>2, <2>1, <3>1, AfterTopCalls DEF MakeFailingCall
  <2>3. stop' \in BOOLEAN /\ looping' \in BOOLEAN
    BY <1>2 DEF MakeFailingCall, LoopingAfterNew, TypeOK
  <2> QED
    BY <1>2, <2>2, <2>3 DEF MakeFailingCall, TypeOK
<1>3. ASSUME NEW c \in Calls, DeadlinePasses(c) \/ SocketReady(c) PROVE TypeOK'
  BY <1>3 DEF DeadlinePasses, SocketReady, TypeOK
<1>4. CASE LeaveFrame
  BY <1>4, AfterReturn DEF LeaveFrame, TypeOK
<1>5. CASE LoopSwap
  <2>1. stack # <<>>
    BY <1>5 DEF LoopSwap, TopIs
  <2>2. stack' \in Seq(Frames)
    <3>1. CASE stop
      BY <1>5, <2>1, <3>1, AfterReturn DEF LoopSwap
    <3>2. CASE ~stop
      <4>1. pending \in Seq(Tasks)
        BY DEF TypeOK
      <4> QED
        BY <1>5, <2>1, <3>2, <4>1, AfterTopGoes DEF LoopSwap
    <3> QED
      BY <3>1, <3>2
  <2>3. pending' \in Seq(Tasks) /\ looping' \in BOOLEAN
    BY <1>0, <1>5 DEF LoopSwap, TypeOK
  <2> QED
    BY <1>5, <2>2, <2>3 DEF LoopSwap, TypeOK
<1>6. CASE BatchEnd
  <2>1. stack' \in Seq(Frames)
    BY <1>0, <1>6, AfterTopGoes DEF BatchEnd, TopIs
  <2> QED
    BY <1>6, <2>1 DEF BatchEnd, TypeOK
<1>7. CASE Poll
  <2>1. stack' \in Seq(Frames)
    BY <1>0, <1>7, AfterTopGoes DEF Poll, TopIs
  <2>2. pending' \in Seq(Tasks)
    <3>0. PICK request \in SUBSET Requests :
            \E q \in SetToSeqs(ReadyTasks \cup request) :
              pending' = IF stop THEN pending ELSE pending \o q
      BY <1>7 DEF Poll
    <3>1. PICK q \in SetToSeqs(ReadyTasks \cup request) :
            pending' = IF stop THEN pending ELSE pending \o q
      BY <3>0
    <3>2. q \in Seq(Tasks) /\ pending \in Seq(Tasks)
      BY PolledType DEF TypeOK
    <3> QED
      BY <3>1, <3>2
  <2> QED
    BY <1>7, <2>1, <2>2 DEF Poll, TypeOK
<1>8. CASE RunHost
  <2>1. stack # <<>> /\ Top.todo # <<>>
    BY <1>8 DEF RunHost, NextTask, TopIs
  <2>2. Tail(Top.todo) \in Seq(Tasks) /\ Frame("host", "-", <<>>) \in Frames
    BY <1>0, <2>1, TopType, NewFrames
  <2>3. stack' \in Seq(Frames)
    BY <1>8, <2>1, <2>2, AfterTopCalls DEF RunHost
  <2> QED
    BY <1>8, <2>3 DEF RunHost, TypeOK
<1>9. CASE RunTimer
  <2>1. stack # <<>> /\ Top.todo # <<>>
    BY <1>9 DEF RunTimer, NextTask, TopIs
  <2>2. PICK q \in SetToSeqs({Task("timer", c) : c \in Expired}) :
          TopCalls(Tail(Top.todo), Frame("timers", "-", q))
    BY <1>9 DEF RunTimer
  <2>3. Tail(Top.todo) \in Seq(Tasks) /\ Frame("timers", "-", q) \in Frames
    BY <2>1, TopType, TimersType, NewFrames
  <2>4. stack' \in Seq(Frames)
    BY <2>1, <2>2, <2>3, AfterTopCalls
  <2> QED
    BY <1>9, <2>4 DEF RunTimer, TypeOK
<1>10. CASE RunConnect
  <2>1. stack # <<>> /\ Top.todo # <<>>
    BY <1>10 DEF RunConnect, NextTask, TopIs
  <2>2. Tail(Top.todo) \in Seq(Tasks)
    BY <2>1, TopType
  <2> DEFINE c == Top.todo[1].call
  <2>3. CASE c \in Waiting /\ Finish(c, looping, Tail(Top.todo)) /\ UNCHANGED <<ready, crashed>>
    BY <1>0, <1>10, <2>1, <2>2, <2>3, FinishTypeOK DEF RunConnect
  <2>4. CASE TopGoes("run", Tail(Top.todo)) /\ UNCHANGED <<runs, stop>>
             /\ (\/ call' = call /\ ready' = ready /\ crashed' = TRUE
                 \/ /\ c \in Waiting /\ call' = [call EXCEPT ![c] = "connected"]
                    /\ ready' = ready \ {c} /\ crashed' = crashed)
    <3>1. stack' \in Seq(Frames)
      BY <2>1, <2>2, <2>4, AfterTopGoes
    <3> QED
      BY <1>0, <1>10, <2>4, <3>1 DEF RunConnect, TypeOK
  <2> QED
    BY <1>10, <2>3, <2>4 DEF RunConnect
<1>11. CASE RunSocket
  <2>1. stack # <<>> /\ Top.todo # <<>>
    BY <1>11 DEF RunSocket, NextTask, TopIs
  <2>2. Tail(Top.todo) \in Seq(Tasks)
    BY <2>1, TopType
  <2>3. CASE Top.todo[1].call \in Waiting
    BY <1>0, <1>11, <2>1, <2>2, <2>3, FinishTypeOK DEF RunSocket
  <2>4. CASE Top.todo[1].call \notin Waiting
    <3>1. stack' \in Seq(Frames)
      BY <1>11, <2>1, <2>2, <2>4, AfterTopGoes DEF RunSocket
    <3> QED
      BY <1>11, <2>4, <3>1 DEF RunSocket, TypeOK
  <2> QED
    BY <2>3, <2>4
<1>12. CASE RunDeadline
  <2>1. stack # <<>>
    BY <1>12 DEF RunDeadline, TopIs
  <2>2. CASE Top.todo = <<>>
    BY <1>12, <2>1, <2>2, AfterReturn DEF RunDeadline, TypeOK
  <2>3. CASE Top.todo # <<>> /\ Top.todo[1].call \in Waiting
    <3>1. Tail(Top.todo) \in Seq(Tasks)
      BY <2>1, <2>3, TopType
    <3> QED
      BY <1>0, <1>12, <2>1, <2>3, <3>1, FinishTypeOK DEF RunDeadline
  <2>4. CASE Top.todo # <<>> /\ Top.todo[1].call \notin Waiting
    <3>1. Tail(Top.todo) \in Seq(Tasks)
      BY <2>1, <2>4, TopType
    <3>2. stack' \in Seq(Frames)
      BY <1>12, <2>1, <2>4, <3>1, AfterTopGoes DEF RunDeadline
    <3> QED
      BY <1>12, <2>4, <3>2 DEF RunDeadline, TypeOK
  <2> QED
    BY <2>2, <2>3, <2>4
<1>13. CASE UserIdles \/ UNCHANGED vars
  BY <1>13 DEF UserIdles, vars, TypeOK
<1> QED
  BY <1>1, <1>2, <1>3, <1>4, <1>5, <1>6, <1>7, <1>8, <1>9, <1>10, <1>11, <1>12,
     <1>13 DEF Next, Thread

(***************************************************************************)
(* The shape of the stack is kept                                          *)
(***************************************************************************)
PendingOK == ~Hosted => NoHostTask(pending)

\* The tasks of the top frame are among those StackInv speaks of.
LEMMA TodoHasNoHost ==
  ASSUME TypeOK, StackInv, stack # <<>>, ~Hosted
  PROVE  /\ Top.kind # "host" /\ NoHostTask(Top.todo)
         /\ Top.todo # <<>> => NoHostTask(Tail(Top.todo)) /\ Top.todo[1].kind # "host"
<1>1. Top.kind # "host" /\ NoHostTask(Top.todo) /\ Top.todo \in Seq(Tasks)
  BY TopType DEF StackInv
<1>2. ASSUME Top.todo # <<>> PROVE NoHostTask(Tail(Top.todo)) /\ Top.todo[1].kind # "host"
  BY <1>1, <1>2 DEF NoHostTask
<1> QED
  BY <1>1, <1>2

\* A frame that goes on keeps the stack in shape,
LEMMA GoesStackInv ==
  ASSUME TypeOK, StackInv, stack # <<>>, NEW at \in {"-", "swap", "run", "poll"},
         NEW todo \in Seq(Tasks), TopGoes(at, todo), ~Hosted => NoHostTask(todo),
         UNCHANGED thread, PendingOK'
  PROVE  StackInv'
<1>1. /\ Len(stack') = Len(stack) /\ Len(stack) \in Nat /\ Len(stack) >= 1
      /\ stack'[1] = Frame(Top.kind, at, todo)
      /\ \A i \in 2..Len(stack) : stack'[i] = stack[i]
  BY AfterTopGoes, TopType
<1>2. stack'[1].kind = stack[1].kind /\ stack'[1].todo = todo
  BY <1>1 DEF Frame, Top
<1>3. ASSUME NEW i \in 1..Len(stack') PROVE stack'[i].kind = stack[i].kind
  BY <1>1, <1>2
<1>4. ASSUME NEW i \in 1..Len(stack')
      PROVE /\ stack'[i].kind = "user" => ~Hosted' /\ i = Len(stack')
            /\ stack'[i].kind \in {"timers", "host"} =>
                 i < Len(stack') /\ stack'[i + 1].kind = "loop"
            /\ ~Hosted' => stack'[i].kind # "host"
  BY <1>1, <1>3 DEF StackInv, Hosted
<1>5. ASSUME NEW i \in 1..Len(stack'), ~Hosted' PROVE NoHostTask(stack'[i].todo)
  BY <1>1, <1>2, <1>5 DEF StackInv, Hosted
<1> QED
  BY <1>4, <1>5 DEF StackInv, PendingOK, NoHostTask

\* so does a call of a frame that may stand where it is pushed,
LEMMA CallsStackInv ==
  ASSUME TypeOK, StackInv, stack # <<>>, NEW todo \in Seq(Tasks), NEW frame \in Frames,
         TopCalls(todo, frame), ~Hosted => NoHostTask(todo),
         frame.kind \in {"timers", "host"} => Top.kind = "loop",
         frame.kind # "user",
         ~Hosted => frame.kind # "host" /\ NoHostTask(frame.todo),
         UNCHANGED thread, PendingOK'
  PROVE  StackInv'
<1>1. /\ Len(stack') = Len(stack) + 1 /\ Len(stack) \in Nat /\ Len(stack) >= 1
      /\ stack'[1] = frame /\ stack'[2] = Frame(Top.kind, Top.at, todo)
      /\ \A i \in 3..Len(stack') : stack'[i] = stack[i - 1]
  BY AfterTopCalls, TopType
<1>2. stack'[2].kind = stack[1].kind /\ stack'[2].todo = todo /\ stack[1] = Top
  BY <1>1 DEF Frame, Top
<1>3. ASSUME NEW i \in 2..Len(stack') PROVE stack'[i].kind = stack[i - 1].kind
  BY <1>1, <1>2
<1>4. ASSUME NEW i \in 1..Len(stack')
      PROVE /\ stack'[i].kind = "user" => ~Hosted' /\ i = Len(stack')
            /\ stack'[i].kind \in {"timers", "host"} =>
                 i < Len(stack') /\ stack'[i + 1].kind = "loop"
            /\ ~Hosted' => stack'[i].kind # "host"
  <2>1. CASE i = 1
    BY <1>1, <1>2, <2>1 DEF Hosted
  <2>2. CASE i # 1
    <3>1. i \in 2..Len(stack') /\ i - 1 \in 1..Len(stack) /\ (i - 1) + 1 = i
      BY <1>1, <2>2
    <3>2. i < Len(stack') => i + 1 \in 2..Len(stack') /\ (i + 1) - 1 = i
      BY <1>1, <3>1
    <3>3. /\ stack[i - 1].kind = "user" => ~Hosted /\ i - 1 = Len(stack)
          /\ stack[i - 1].kind \in {"timers", "host"} =>
               i - 1 < Len(stack) /\ stack[i].kind = "loop"
          /\ ~Hosted => stack[i - 1].kind # "host"
      BY <3>1 DEF StackInv
    <3>4. i < Len(stack') => stack'[i + 1].kind = stack[i].kind
      BY <1>3, <3>2
    <3> QED
      BY <1>1, <1>3, <3>1, <3>3, <3>4 DEF Hosted
  <2> QED
    BY <2>1, <2>2
<1>5. ASSUME NEW i \in 1..Len(stack'), ~Hosted' PROVE NoHostTask(stack'[i].todo)
  <2>1. CASE i \in {1, 2}
    BY <1>1, <1>2, <1>5, <2>1 DEF Hosted
  <2>2. CASE i \notin {1, 2}
    <3>1. i \in 3..Len(stack') /\ i - 1 \in 1..Len(stack)
      BY <1>1, <2>2
    <3> QED
      BY <1>1, <1>5, <3>1 DEF StackInv, Hosted
  <2> QED
    BY <2>1, <2>2
<1> QED
  BY <1>4, <1>5 DEF StackInv, PendingOK, NoHostTask

\* and so does a return.
LEMMA ReturnStackInv ==
  ASSUME TypeOK, StackInv, stack # <<>>, Return, UNCHANGED thread, PendingOK'
  PROVE  StackInv'
<1>1. /\ Len(stack') = Len(stack) - 1 /\ Len(stack) \in Nat /\ Len(stack) >= 1
      /\ \A i \in 1..Len(stack') : stack'[i] = stack[i + 1]
  BY AfterReturn, TopType
<1>2. ASSUME NEW i \in 1..Len(stack')
      PROVE  /\ stack'[i].kind = "user" => ~Hosted' /\ i = Len(stack')
             /\ stack'[i].kind \in {"timers", "host"} =>
                 i < Len(stack') /\ stack'[i + 1].kind = "loop"
             /\ ~Hosted' => stack'[i].kind # "host" /\ NoHostTask(stack'[i].todo)
  <2>1. i + 1 \in 1..Len(stack) /\ stack'[i] = stack[i + 1]
    BY <1>1
  <2>2. i < Len(stack') => i + 1 \in 1..Len(stack') /\ stack'[i + 1] = stack[(i + 1) + 1]
    BY <1>1
  <2> QED
    BY <1>1, <2>1, <2>2 DEF StackInv, Hosted
<1> QED
  BY <1>2 DEF StackInv, PendingOK, NoHostTask

\* A thread starts in user code, or in its own loop.
LEMMA InitStackInv == Init => StackInv
<1> SUFFICES ASSUME Init PROVE StackInv
  OBVIOUS
<1>1. Len(stack) = 1 /\ Len(pending) = 0
  BY DEF Init
<1>2. /\ stack[1].kind = (IF Hosted THEN "loop" ELSE "user")
      /\ stack[1].todo = <<>>
  BY DEF Init, Frame
<1> QED
  BY <1>1, <1>2 DEF StackInv, NoHostTask

\* No step breaks the shape of the stack.
LEMMA NextStackInv == TypeOK /\ StackInv /\ [Next]_vars => StackInv'
<1> SUFFICES ASSUME TypeOK, StackInv, [Next]_vars PROVE StackInv'
  OBVIOUS
<1>0. /\ NoHostTask(<<>>) /\ <<>> \in Seq(Tasks) /\ PendingOK
      /\ UNCHANGED <<thread, pending>> => PendingOK'
  BY DEF NoHostTask, StackInv, PendingOK, Hosted
<1>00. ASSUME UNCHANGED <<thread, pending, stack>> PROVE StackInv'
  BY <1>00 DEF StackInv, NoHostTask, Hosted
\* A call of a closure or a loop, which have no tasks yet.
<1>000. ASSUME stack # <<>>, UNCHANGED <<thread, pending>>,
               NEW kind \in {"closure", "loop"}, NEW at \in {"-", "swap"},
               NEW todo \in Seq(Tasks),
               todo = Top.todo \/ (Top.todo # <<>> /\ todo = Tail(Top.todo)),
               TopCalls(todo, Frame(kind, at, <<>>))
        PROVE  StackInv'
  <2>1. /\ Frame(kind, at, <<>>) \in Frames
        /\ Frame(kind, at, <<>>).kind = kind /\ Frame(kind, at, <<>>).todo = <<>>
    BY <1>0, FrameType DEF Frame
  <2>2. ~Hosted => NoHostTask(todo)
    BY <1>000, TodoHasNoHost
  <2> QED
    BY <1>0, <1>000, <2>1, <2>2, CallsStackInv
<1>1. ASSUME NEW c \in Calls, MakeCall(c) PROVE StackInv'
  <2>1. stack # <<>> /\ UNCHANGED <<thread, pending>>
    BY <1>1 DEF MakeCall, MayMakeCall
  <2>2. Top.todo \in Seq(Tasks)
    BY <2>1, TopType
  <2> QED
    BY <1>1, <1>00, <1>000, <2>1, <2>2 DEF MakeCall
<1>2. ASSUME NEW c \in Calls, MakeFailingCall(c) PROVE StackInv'
  <2>1. stack # <<>> /\ UNCHANGED <<thread, pending>>
    BY <1>2 DEF MakeFailingCall, MayMakeCall
  <2>2. Top.todo \in Seq(Tasks)
    BY <2>1, TopType
  <2> QED
    BY <1>2, <1>000, <2>1, <2>2 DEF MakeFailingCall
<1>3. ASSUME NEW c \in Calls, DeadlinePasses(c) \/ SocketReady(c) PROVE StackInv'
  BY <1>3, <1>00 DEF DeadlinePasses, SocketReady
<1>4. CASE LeaveFrame
  BY <1>0, <1>4, ReturnStackInv DEF LeaveFrame
<1>5. CASE LoopSwap
  <2>1. stack # <<>> /\ UNCHANGED thread /\ pending \in Seq(Tasks)
    BY <1>5 DEF LoopSwap, TopIs, TypeOK
  <2>2. CASE stop
    BY <1>0, <1>5, <2>1, <2>2, ReturnStackInv DEF LoopSwap
  <2>3. CASE ~stop
    <3>1. TopGoes("run", pending) /\ pending' = <<>>
      BY <1>5, <2>3 DEF LoopSwap
    <3>2. PendingOK'
      BY <1>0, <3>1 DEF PendingOK, NoHostTask
    <3>3. ~Hosted => NoHostTask(pending)
      BY DEF StackInv
    <3> QED
      BY <2>1, <3>1, <3>2, <3>3, GoesStackInv
  <2> QED
    BY <2>2, <2>3
<1>6. CASE BatchEnd
  BY <1>0, <1>6, GoesStackInv DEF BatchEnd, TopIs
<1>7. CASE Poll
  <2>1. stack # <<>> /\ UNCHANGED thread /\ TopGoes("swap", <<>>)
    BY <1>7 DEF Poll, TopIs
  <2>2. PICK request \in SUBSET Requests :
          \E q \in SetToSeqs(ReadyTasks \cup request) :
            pending' = IF stop THEN pending ELSE pending \o q
    BY <1>7 DEF Poll
  <2>3. PICK q \in SetToSeqs(ReadyTasks \cup request) :
          pending' = IF stop THEN pending ELSE pending \o q
    BY <2>2
  <2>4. q \in Seq(ReadyTasks \cup request) /\ pending \in Seq(Tasks)
    BY PolledType DEF TypeOK
  <2>5. ASSUME ~Hosted PROVE NoHostTask(pending')
    <3>1. request = {}
      BY <2>5 DEF Requests
    <3>2. \A t \in ReadyTasks : t.kind # "host"
      BY DEF ReadyTasks, Task
    <3>3. q \in Seq(ReadyTasks)
      BY <2>4, <3>1
    <3>4. NoHostTask(q) /\ NoHostTask(pending)
      BY <2>5, <3>2, <3>3 DEF NoHostTask, StackInv
    <3>5. ASSUME NEW j \in 1..Len(pending \o q) PROVE (pending \o q)[j].kind # "host"
      <4>1. CASE j <= Len(pending)
        BY <2>4, <3>3, <3>4, <4>1 DEF NoHostTask
      <4>2. CASE ~(j <= Len(pending))
        <5>1. j - Len(pending) \in 1..Len(q) /\ (pending \o q)[j] = q[j - Len(pending)]
          BY <2>4, <3>3, <4>2
        <5> QED
          BY <3>4, <5>1 DEF NoHostTask
      <4> QED
        BY <4>1, <4>2
    <3> QED
      BY <2>3, <3>4, <3>5 DEF NoHostTask
  <2>6. PendingOK'
    BY <2>1, <2>5 DEF PendingOK, Hosted, NoHostTask
  <2> QED
    BY <1>0, <2>1, <2>6, GoesStackInv
<1>8. CASE RunHost
  <2>1. stack # <<>> /\ Top.todo # <<>> /\ Top.kind = "loop" /\ Top.todo[1].kind = "host"
    BY <1>8 DEF RunHost, NextTask, TopIs
  <2>2. /\ Tail(Top.todo) \in Seq(Tasks) /\ Frame("host", "-", <<>>) \in Frames
        /\ Frame("host", "-", <<>>).kind = "host"
    BY <1>0, <2>1, TopType, NewFrames DEF Frame
  <2>3. Hosted
    BY <2>1, TodoHasNoHost
  <2> QED
    BY <1>0, <1>8, <2>1, <2>2, <2>3, CallsStackInv DEF RunHost
<1>9. CASE RunTimer
  <2>1. stack # <<>> /\ Top.todo # <<>> /\ Top.kind = "loop"
    BY <1>9 DEF RunTimer, NextTask, TopIs
  <2>2. PICK q \in SetToSeqs({Task("timer", c) : c \in Expired}) :
          TopCalls(Tail(Top.todo), Frame("timers", "-", q))
    BY <1>9 DEF RunTimer
  <2>3. /\ q \in Seq({Task("timer", c) : c \in Expired}) /\ q \in Seq(Tasks)
        /\ Tail(Top.todo) \in Seq(Tasks)
    BY <2>1, TopType, TimersType
  <2>4. /\ Frame("timers", "-", q) \in Frames
        /\ Frame("timers", "-", q).kind = "timers" /\ Frame("timers", "-", q).todo = q
    BY <2>3, NewFrames DEF Frame
  <2>5. NoHostTask(q)
    <3>1. \A t \in {Task("timer", c) : c \in Expired} : t.kind # "host"
      BY DEF Task
    <3> QED
      BY <2>3, <3>1 DEF NoHostTask
  <2>6. ~Hosted => NoHostTask(Tail(Top.todo))
    BY <2>1, TodoHasNoHost
  <2> QED
    BY <1>0, <1>9, <2>1, <2>2, <2>3, <2>4, <2>5, <2>6, CallsStackInv DEF RunTimer
<1>10. ASSUME NEW c, stack # <<>>, Top.todo # <<>>, Finish(c, looping, Tail(Top.todo)),
              UNCHANGED <<thread, pending>>
       PROVE  StackInv'
  <2>1. Tail(Top.todo) \in Seq(Tasks)
    BY <1>10, TopType
  <2> QED
    BY <1>000, <1>10, <2>1 DEF Finish
<1>11. ASSUME stack # <<>>, Top.todo # <<>>, UNCHANGED <<thread, pending>>,
              NEW at \in {"-", "run"}, TopGoes(at, Tail(Top.todo))
       PROVE  StackInv'
  <2>1. Tail(Top.todo) \in Seq(Tasks)
    BY <1>11, TopType
  <2> QED
    BY <1>0, <1>11, <2>1, TodoHasNoHost, GoesStackInv
<1>12. CASE RunConnect
  BY <1>10, <1>11, <1>12 DEF RunConnect, NextTask, TopIs
<1>13. CASE RunSocket
  BY <1>10, <1>11, <1>13 DEF RunSocket, NextTask, TopIs
<1>14. CASE RunDeadline
  <2>1. CASE Top.todo = <<>>
    BY <1>0, <1>14, <2>1, ReturnStackInv DEF RunDeadline, TopIs
  <2>2. CASE Top.todo # <<>>
    BY <1>10, <1>11, <1>14, <2>2 DEF RunDeadline, TopIs
  <2> QED
    BY <2>1, <2>2
<1>15. CASE UserIdles \/ UNCHANGED vars
  BY <1>00, <1>15 DEF UserIdles, vars
<1> QED
  BY <1>1, <1>2, <1>3, <1>4, <1>5, <1>6, <1>7, <1>8, <1>9, <1>12, <1>13, <1>14,
     <1>15 DEF Next, Thread

(***************************************************************************)
(* One call at a time                                                      *)
(***************************************************************************)

\* How the set of waiting calls changes with a call.
LEMMA WaitingChanges ==
  ASSUME TypeOK, NEW c \in Calls
  PROVE  /\ call' = [call EXCEPT ![c] = "connecting"] => Waiting' = Waiting \cup {c}
         /\ call' = [call EXCEPT ![c] = "completed"] => Waiting' = Waiting \ {c}
         /\ (call' = [call EXCEPT ![c] = "connected"] /\ c \in Waiting) => Waiting' = Waiting
         /\ call' = call => Waiting' = Waiting
BY DEF TypeOK, Waiting

\* The frame on top and the loops on the stack after each kind of change.
LEMMA KindsAfterGoes ==
  ASSUME TypeOK, stack # <<>>, NEW at \in {"-", "swap", "run", "poll"},
         NEW todo \in Seq(Tasks), TopGoes(at, todo)
  PROVE  stack' # <<>> /\ Top'.kind = Top.kind /\ (HasLoop => HasLoop')
<1>1. /\ Len(stack') = Len(stack) /\ Len(stack) \in Nat /\ Len(stack) >= 1
      /\ stack'[1] = Frame(Top.kind, at, todo) /\ stack' \in Seq(Frames)
      /\ \A i \in 2..Len(stack) : stack'[i] = stack[i]
  BY AfterTopGoes, TopType
<1>2. stack'[1].kind = Top.kind /\ stack[1] = Top /\ stack'[1] = Top'
  BY <1>1 DEF Frame, Top
<1>3. \A i \in 1..Len(stack) : stack'[i].kind = stack[i].kind
  BY <1>1, <1>2
<1> QED
  BY <1>1, <1>2, <1>3 DEF HasLoop

\* A call puts its frame on top and takes no loop away.
LEMMA KindsAfterCalls ==
  ASSUME TypeOK, stack # <<>>, NEW todo \in Seq(Tasks), NEW frame \in Frames,
         TopCalls(todo, frame)
  PROVE  stack' # <<>> /\ Top' = frame /\ (HasLoop \/ frame.kind = "loop" => HasLoop')
<1>1. /\ Len(stack') = Len(stack) + 1 /\ Len(stack) \in Nat /\ Len(stack) >= 1
      /\ stack'[1] = frame /\ stack'[2] = Frame(Top.kind, Top.at, todo)
      /\ \A i \in 3..Len(stack') : stack'[i] = stack[i - 1]
      /\ stack' \in Seq(Frames)
  BY AfterTopCalls, TopType
<1>2. stack'[2].kind = stack[1].kind /\ stack'[1] = Top'
  BY <1>1 DEF Frame, Top
<1>3. ASSUME HasLoop PROVE HasLoop'
  <2>1. PICK i \in 1..Len(stack) : stack[i].kind = "loop"
    BY <1>3 DEF HasLoop
  <2>2. i + 1 \in 1..Len(stack') /\ stack'[i + 1].kind = "loop"
    BY <1>1, <1>2, <2>1
  <2> QED
    BY <2>2 DEF HasLoop
<1> QED
  BY <1>1, <1>2, <1>3 DEF HasLoop

\* A return shows the frame below, and takes a loop away only if it leaves one.
LEMMA KindsAfterReturn ==
  ASSUME TypeOK, stack # <<>>, Return
  PROVE  /\ stack' # <<>> => Len(stack) >= 2 /\ Top' = stack[2]
         /\ (HasLoop /\ Top.kind # "loop" => HasLoop')
<1>1. /\ Len(stack') = Len(stack) - 1 /\ Len(stack) \in Nat /\ Len(stack) >= 1
      /\ \A i \in 1..Len(stack') : stack'[i] = stack[i + 1]
      /\ stack' \in Seq(Frames) /\ stack[1] = Top
  BY AfterReturn, TopType
<1>2. ASSUME HasLoop, Top.kind # "loop" PROVE HasLoop'
  <2>1. PICK i \in 1..Len(stack) : stack[i].kind = "loop"
    BY <1>2 DEF HasLoop
  <2>2. i - 1 \in 1..Len(stack') /\ (i - 1) + 1 = i
    BY <1>1, <1>2, <2>1
  <2>3. stack'[i - 1].kind = "loop"
    BY <1>1, <2>1, <2>2
  <2> QED
    BY <2>2, <2>3 DEF HasLoop
<1>3. ASSUME stack' # <<>> PROVE Len(stack) >= 2 /\ Top' = stack[2]
  <2>1. Len(stack') >= 1 /\ 1 \in 1..Len(stack')
    BY <1>1, <1>3
  <2> QED
    BY <1>1, <2>1 DEF Top
<1> QED
  BY <1>2, <1>3

\* On a user's thread a second call begins only when the first has ended: user code and
\* closures run while no loop does, or while the loop is told to stop.
LEMMA NextOneCallInv == TypeOK /\ StackInv /\ OneCallInv /\ [Next]_vars => OneCallInv'
<1> SUFFICES ASSUME TypeOK, StackInv, OneCallInv, [Next]_vars, ~Hosted'
             PROVE  /\ \A c, d \in Waiting' : c = d
                    /\ Waiting' # {} => looping' /\ ~stop'
                    /\ (stack' # <<>> /\ Top'.kind \in {"user", "closure"})
                         => ~looping' \/ stop'
                    /\ looping' => HasLoop'
  BY DEF OneCallInv
<1> DEFINE Goal == /\ \A c, d \in Waiting' : c = d
                   /\ Waiting' # {} => looping' /\ ~stop'
                   /\ (stack' # <<>> /\ Top'.kind \in {"user", "closure"})
                        => ~looping' \/ stop'
                   /\ looping' => HasLoop'
<1>0. ~Hosted
  BY DEF Hosted, Next, Thread, vars, MakeCall, MakeFailingCall, DeadlinePasses,
         SocketReady, LeaveFrame, LoopSwap, BatchEnd, Poll, RunHost, RunConnect,
         RunSocket, RunTimer, RunDeadline, UserIdles
<1>00. /\ \A c, d \in Waiting : c = d
       /\ Waiting # {} => looping /\ ~stop
       /\ (stack # <<>> /\ Top.kind \in {"user", "closure"}) => ~looping \/ stop
       /\ looping => HasLoop
       /\ Waiting \subseteq Calls /\ <<>> \in Seq(Tasks)
       /\ looping \in BOOLEAN /\ stop \in BOOLEAN
  BY <1>0 DEF OneCallInv, Waiting, TypeOK
<1>000. Frame("closure", "-", <<>>) \in Frames /\ Frame("loop", "swap", <<>>) \in Frames
        /\ Frame("closure", "-", <<>>).kind = "closure"
        /\ Frame("loop", "swap", <<>>).kind = "loop"
  BY <1>00, NewFrames DEF Frame
\* The loop goes on to its next point or task: kinds, calls and flags stay.
<1>1. ASSUME stack # <<>>, NEW at \in {"-", "swap", "run", "poll"}, NEW todo \in Seq(Tasks),
             TopGoes(at, todo), Waiting' = Waiting, UNCHANGED <<looping, stop>>
      PROVE  Goal
  BY <1>00, <1>1, KindsAfterGoes
\* The waiting call ends: nothing waits, and the loop is stopped.
<1>2. ASSUME NEW c \in Waiting, stack # <<>>, NEW todo \in Seq(Tasks),
             Finish(c, looping, todo), UNCHANGED looping
      PROVE  Goal
  <2>1. Waiting' = {}
    BY <1>00, <1>2, WaitingChanges DEF Finish
  <2>2. stop'
    BY <1>00, <1>2 DEF Finish
  <2>3. HasLoop => HasLoop'
    BY <1>000, <1>2, KindsAfterCalls DEF Finish
  <2> QED
    BY <1>00, <1>2, <2>1, <2>2, <2>3
<1>3. ASSUME NEW c \in Calls, MakeCall(c) PROVE Goal
  <2>1. stack # <<>> /\ Top.kind \in {"user", "closure"}
    BY <1>0, <1>3, TodoHasNoHost DEF MakeCall, MayMakeCall
  <2>2. Waiting' = {c}
    BY <1>00, <1>3, <2>1, WaitingChanges DEF MakeCall
  <2>3. TopCalls(Top.todo, Frame("loop", "swap", <<>>)) /\ looping' /\ ~stop'
    BY <1>00, <1>3, <2>1 DEF MakeCall, LoopingAfterNew
  <2>4. Top.todo \in Seq(Tasks)
    BY <2>1, TopType
  <2>5. Top'.kind = "loop" /\ HasLoop'
    BY <1>000, <2>1, <2>3, <2>4, KindsAfterCalls
  <2> QED
    BY <2>2, <2>3, <2>5
<1>4. ASSUME NEW c \in Calls, MakeFailingCall(c) PROVE Goal
  <2>1. stack # <<>> /\ Top.kind \in {"user", "closure"}
    BY <1>0, <1>4, TodoHasNoHost DEF MakeFailingCall, MayMakeCall
  <2>2. Waiting' = {}
    BY <1>00, <1>4, <2>1, WaitingChanges DEF MakeFailingCall
  <2>3. ~looping'
    BY <1>00, <1>4, <2>1 DEF MakeFailingCall, LoopingAfterNew
  <2> QED
    BY <2>2, <2>3
<1>5. ASSUME UNCHANGED <<call, stack, looping, stop>> PROVE Goal
  BY <1>00, <1>5 DEF Waiting, Top, HasLoop
<1>6. CASE LeaveFrame
  <2>1. stack # <<>> /\ Top.kind = "closure" /\ Return /\ UNCHANGED <<call, looping, stop>>
    BY <1>0, <1>6, TodoHasNoHost DEF LeaveFrame
  <2>2. HasLoop => HasLoop'
    BY <2>1, KindsAfterReturn
  <2>3. Waiting' = Waiting
    BY <2>1 DEF Waiting
  <2> QED
    BY <1>00, <2>1, <2>2, <2>3
<1>7. CASE LoopSwap
  <2>1. stack # <<>> /\ Waiting' = Waiting /\ pending \in Seq(Tasks)
    BY <1>7 DEF LoopSwap, TopIs, Waiting, TypeOK
  <2>2. CASE stop
    BY <1>00, <1>7, <2>1, <2>2 DEF LoopSwap
  <2>3. CASE ~stop
    BY <1>1, <1>7, <2>1, <2>3 DEF LoopSwap
  <2> QED
    BY <2>2, <2>3
<1>8. CASE BatchEnd \/ Poll
  <2>1. /\ stack # <<>> /\ Waiting' = Waiting /\ UNCHANGED <<looping, stop>>
        /\ \E at \in {"swap", "poll"} : TopGoes(at, <<>>)
    BY <1>8 DEF BatchEnd, Poll, TopIs, Waiting
  <2> QED
    BY <1>00, <1>1, <2>1
<1>9. ~RunHost
  BY <1>0, TodoHasNoHost DEF RunHost, NextTask, TopIs
<1>10. CASE RunTimer
  <2>1. stack # <<>> /\ Top.todo # <<>> /\ UNCHANGED <<call, looping, stop>>
    BY <1>10 DEF RunTimer, NextTask, TopIs
  <2>2. PICK q \in SetToSeqs({Task("timer", c) : c \in Expired}) :
          TopCalls(Tail(Top.todo), Frame("timers", "-", q))
    BY <1>10 DEF RunTimer
  <2>3. /\ Tail(Top.todo) \in Seq(Tasks) /\ Frame("timers", "-", q) \in Frames
        /\ Frame("timers", "-", q).kind = "timers"
    BY <2>1, TopType, TimersType, NewFrames DEF Frame
  <2>4. Top'.kind = "timers" /\ (HasLoop => HasLoop')
    BY <2>1, <2>2, <2>3, KindsAfterCalls
  <2>5. Waiting' = Waiting
    BY <2>1 DEF Waiting
  <2> QED
    BY <1>00, <2>1, <2>4, <2>5
<1>11. CASE RunConnect
  <2>1. stack # <<>> /\ Top.todo # <<>> /\ UNCHANGED looping
    BY <1>11 DEF RunConnect, NextTask, TopIs
  <2>2. Tail(Top.todo) \in Seq(Tasks)
    BY <2>1, TopType
  <2>3. CASE UNCHANGED stop /\ TopGoes("run", Tail(Top.todo)) /\ Waiting' = Waiting
    BY <1>1, <2>1, <2>2, <2>3
  <2> DEFINE c == Top.todo[1].call
  <2>4. CASE UNCHANGED <<call, stop>> /\ TopGoes("run", Tail(Top.todo))
    BY <2>3, <2>4 DEF Waiting
  <2>5. CASE /\ c \in Waiting /\ call' = [call EXCEPT ![c] = "connected"]
             /\ UNCHANGED stop /\ TopGoes("run", Tail(Top.todo))
    BY <1>00, <2>3, <2>5, WaitingChanges
  <2>6. CASE c \in Waiting /\ Finish(c, looping, Tail(Top.todo))
    BY <1>2, <2>1, <2>2, <2>6
  <2> QED
    BY <1>11, <2>4, <2>5, <2>6 DEF RunConnect
<1>12. CASE RunSocket
  <2>1. stack # <<>> /\ Top.todo # <<>> /\ UNCHANGED looping
    BY <1>12 DEF RunSocket, NextTask, TopIs
  <2>2. Tail(Top.todo) \in Seq(Tasks)
    BY <2>1, TopType
  <2> QED
    BY <1>1, <1>2, <1>12, <2>1, <2>2 DEF RunSocket, Waiting
<1>13. CASE RunDeadline
  <2>1. stack # <<>> /\ Top.kind = "timers" /\ UNCHANGED looping
    BY <1>13 DEF RunDeadline, TopIs
  <2>2. CASE Top.todo = <<>>
    <3>1. Return /\ UNCHANGED <<call, stop>>
      BY <1>13, <2>2 DEF RunDeadline
    <3>2. stack[2].kind = "loop"
      BY <2>1, TopType DEF StackInv
    <3>3. (stack' # <<>> => Top'.kind = "loop") /\ (HasLoop => HasLoop')
      BY <2>1, <3>1, <3>2, KindsAfterReturn
    <3>4. Waiting' = Waiting
      BY <3>1 DEF Waiting
    <3> QED
      BY <1>00, <2>1, <3>1, <3>3, <3>4
  <2>3. CASE Top.todo # <<>>
    <3>1. Tail(Top.todo) \in Seq(Tasks)
      BY <2>1, <2>3, TopType
    <3> QED
      BY <1>1, <1>2, <1>13, <2>1, <2>3, <3>1 DEF RunDeadline, Waiting
  <2> QED
    BY <2>2, <2>3
<1>14. CASE UserIdles \/ UNCHANGED vars
  BY <1>5, <1>14 DEF UserIdles, vars
<1>15. ASSUME NEW c \in Calls, DeadlinePasses(c) \/ SocketReady(c) PROVE Goal
  BY <1>5, <1>15 DEF DeadlinePasses, SocketReady
<1> QED
  BY <1>3, <1>4, <1>6, <1>7, <1>8, <1>9, <1>10, <1>11, <1>12, <1>13, <1>14, <1>15
  DEF Next, Thread

\* CallMethod is synchronous for user code: when the thread is back in it, no
\* call waits and no loop claims to run, whatever calls the closures made.
THEOREM UserCodeSeesNoCallWaiting == Spec => []ReturnMeansComplete
<1>1. Init => OneCallInv
  BY DEF Init, OneCallInv, Waiting, Hosted, Top
<1>2. TypeOK /\ StackInv /\ OneCallInv => ReturnMeansComplete
  <2> SUFFICES ASSUME TypeOK, StackInv, OneCallInv, TopIs("user", "-")
               PROVE  Waiting = {} /\ ~looping
    BY DEF ReturnMeansComplete
  <2>1. stack # <<>> /\ Top.kind = "user" /\ stack[1] = Top /\ Len(stack) >= 1
        /\ Len(stack) \in Nat
    BY TopType DEF TopIs
  <2>2. ~Hosted /\ Len(stack) = 1
    <3>1. 1 \in 1..Len(stack) /\ stack[1].kind = "user"
      BY <2>1
    <3>2. ~Hosted /\ 1 = Len(stack)
      BY <3>1 DEF StackInv
    <3> QED
      BY <3>2
  <2>3. ~HasLoop
    BY <2>1, <2>2 DEF HasLoop
  <2> QED
    BY <2>2, <2>3 DEF OneCallInv
<1> QED
  BY <1>1, <1>2, InitTypeOK, NextTypeOK, InitStackInv, NextStackInv, NextOneCallInv, PTL
  DEF Spec

(***************************************************************************)
(* No connect of a call that ended                                         *)
(***************************************************************************)

\* A batch is for waiting calls as long as none ends.
LEMMA ForWaitingKept ==
  ASSUME NEW tasks \in Seq(Tasks), ForWaiting(tasks), Waiting \subseteq Waiting'
  PROVE  ForWaiting(tasks)'
BY DEF ForWaiting

\* What is left of a batch for waiting calls is one.
LEMMA ForWaitingTail ==
  ASSUME NEW tasks \in Seq(Tasks), tasks # <<>>, ForWaiting(tasks)
  PROVE  ForWaiting(Tail(tasks))
BY DEF ForWaiting

\* Unless a connect may fail at once, a batch that could run the connect callback of a call
\* that has ended is not run to that point: the end of a call stops the loop before it.
LEMMA NextBatchInv == TypeOK /\ StackInv /\ BatchInv /\ [Next]_vars => BatchInv'
<1> SUFFICES ASSUME TypeOK, StackInv, BatchInv, [Next]_vars, thread' # "failing"
             PROVE  ~crashed' /\ FlagInv' /\ TasksInv'
  BY DEF BatchInv
<1> DEFINE Goal == ~crashed' /\ FlagInv' /\ TasksInv'
<1>0. thread # "failing" /\ ~crashed /\ FlagInv /\ TasksInv
  <2>1. thread' = thread
    BY DEF Next, Thread, vars, MakeCall, MakeFailingCall, DeadlinePasses,
           SocketReady, LeaveFrame, LoopSwap, BatchEnd, Poll, RunHost, RunConnect,
           RunSocket, RunTimer, RunDeadline, UserIdles
  <2> QED
    BY <2>1 DEF BatchInv
<1>00. /\ Waiting \subseteq Calls /\ <<>> \in Seq(Tasks) /\ pending \in Seq(Tasks)
       /\ looping \in BOOLEAN /\ stop \in BOOLEAN
       /\ ForWaiting(<<>>) /\ ForWaiting(<<>>)'
       /\ ~TopIs("loop", "swap") => pending = <<>>
  BY <1>0 DEF Waiting, TypeOK, ForWaiting, TasksInv
<1>000. /\ Frame("closure", "-", <<>>) \in Frames /\ Frame("loop", "swap", <<>>) \in Frames
        /\ Frame("host", "-", <<>>) \in Frames
  BY <1>00, NewFrames
\* The loop or onTimer goes on.
<1>1. ASSUME stack # <<>>, NEW at \in {"-", "swap", "run", "poll"}, NEW todo \in Seq(Tasks),
             TopGoes(at, todo), UNCHANGED <<looping, stop, crashed>>, Top.kind # "user",
             Waiting \subseteq Waiting',
             (~stop /\ Top.kind = "loop") => ForWaiting(todo),
             ForWaiting(pending)',
             pending' # <<>> => Top.kind = "loop" /\ at = "swap" /\ ~stop
      PROVE  Goal
  <2>1. /\ Len(stack') = Len(stack) /\ Len(stack) \in Nat /\ Len(stack) >= 1
        /\ stack'[1] = Frame(Top.kind, at, todo) /\ stack' \in Seq(Frames)
        /\ \A i \in 2..Len(stack) : stack'[i] = stack[i]
    BY <1>1, AfterTopGoes, TopType
  <2>2. /\ stack'[1].kind = Top.kind /\ stack'[1].todo = todo /\ stack'[1].at = at
        /\ stack[1] = Top /\ stack'[1] = Top' /\ stack' # <<>>
    BY <2>1 DEF Frame, Top
  <2>3. \A i \in 1..Len(stack) : stack'[i].kind = stack[i].kind
    BY <2>1, <2>2
  <2>4. FlagInv'
    BY <1>0, <1>1, <2>1, <2>2, <2>3 DEF FlagInv
  <2>5. ASSUME ~stop', NEW i \in 1..Len(stack'), Runnable(i)'
        PROVE  ForWaiting(stack[i].todo)'
    <3>1. Runnable(i)
      BY <2>1, <2>2, <2>3, <2>5 DEF Runnable
    <3>2. CASE i = 1
      <4>1. ForWaiting(todo)'
        BY <1>1, <2>2, <2>5, <3>1, <3>2, ForWaitingKept DEF Runnable
      <4> QED
        BY <2>2, <3>2, <4>1 DEF ForWaiting
    <3>3. CASE i = 2
      <4>1. ForWaiting(stack[i].todo) /\ stack'[i] = stack[i]
        BY <1>0, <1>1, <2>1, <2>5, <3>1, <3>3 DEF TasksInv
      <4> QED
        BY <1>1, <2>1, <4>1 DEF ForWaiting
    <3> QED
      BY <3>1, <3>2, <3>3 DEF Runnable
  <2>6. pending' # <<>> => TopIs("loop", "swap")' /\ ~stop'
    BY <1>1, <2>2 DEF TopIs
  <2> QED
    BY <1>0, <1>1, <2>4, <2>5, <2>6 DEF TasksInv
\* The stack is as it was, and nothing has ended.
<1>2. ASSUME UNCHANGED <<stack, pending, crashed>>, Waiting \subseteq Waiting',
             stop' = stop, looping' = looping
      PROVE  Goal
  <2>1. FlagInv'
    BY <1>0, <1>2 DEF FlagInv, Top
  <2>2. ForWaiting(pending)'
    BY <1>0, <1>2 DEF TasksInv, ForWaiting
  <2>3. pending' # <<>> => TopIs("loop", "swap")' /\ ~stop'
    BY <1>0, <1>2 DEF TasksInv, TopIs, Top
  <2>4. ASSUME ~stop', NEW i \in 1..Len(stack'), Runnable(i)'
        PROVE  ForWaiting(stack[i].todo)'
    <3>1. ForWaiting(stack[i].todo)
      BY <1>0, <1>2, <2>4 DEF TasksInv, Runnable, Top
    <3> QED
      BY <1>2, <3>1 DEF ForWaiting
  <2> QED
    BY <1>0, <1>2, <2>1, <2>2, <2>3, <2>4 DEF TasksInv
\* A call ends: the loop is stopped under the closure.
<1>3. ASSUME stack # <<>>, Top.kind \in {"loop", "timers"}, ~TopIs("loop", "swap"),
             NEW c, NEW todo \in Seq(Tasks), Finish(c, looping, todo),
             UNCHANGED <<pending, crashed>>
      PROVE  Goal
  <2>1. stop'
    BY <1>0, <1>3 DEF Finish, FlagInv
  <2>2. TopCalls(todo, Frame("closure", "-", <<>>))
    BY <1>3 DEF Finish
  <2>3. /\ Len(stack') = Len(stack) + 1 /\ Len(stack) \in Nat /\ Len(stack) >= 1
        /\ stack'[1] = Frame("closure", "-", <<>>)
        /\ stack'[2] = Frame(Top.kind, Top.at, todo)
        /\ \A i \in 3..Len(stack') : stack'[i] = stack[i - 1]
    BY <1>000, <1>3, <2>2, AfterTopCalls, TopType
  <2>4. stack'[1].kind = "closure" /\ stack'[2].kind = Top.kind
    BY <2>3 DEF Frame
  <2>5. ASSUME NEW i \in 1..Len(stack') PROVE stack'[i].kind # "host"
    <3>1. CASE i \in {1, 2}
      BY <1>3, <2>4, <3>1
    <3>2. CASE i \notin {1, 2}
      <4>1. i \in 3..Len(stack') /\ i - 1 \in 1..Len(stack) /\ i - 1 # 1
        BY <2>3, <3>2
      <4>2. stack[i - 1].kind # "host"
        BY <1>0, <4>1 DEF FlagInv
      <4> QED
        BY <2>3, <4>1, <4>2
    <3> QED
      BY <3>1, <3>2
  <2>6. FlagInv'
    BY <2>1, <2>5 DEF FlagInv
  <2>7. pending' = <<>> /\ ForWaiting(pending)'
    BY <1>00, <1>3 DEF ForWaiting
  <2> QED
    BY <1>0, <1>3, <2>1, <2>6, <2>7 DEF TasksInv
\* A service method or onTimer begins; the loop keeps the rest of its batch.
<1>4. ASSUME stack # <<>>, Top.todo # <<>>, TopIs("loop", "run"), ~stop,
             NEW frame \in Frames, frame.kind \in {"timers", "host"},
             TopCalls(Tail(Top.todo), frame),
             UNCHANGED <<call, pending, looping, stop, crashed>>
      PROVE  Goal
  <2>0. Top.kind = "loop" /\ Top.todo \in Seq(Tasks) /\ Tail(Top.todo) \in Seq(Tasks)
    BY <1>4, TopType DEF TopIs
  <2>1. /\ Len(stack') = Len(stack) + 1 /\ Len(stack) \in Nat /\ Len(stack) >= 1
        /\ stack'[1] = frame /\ stack'[2] = Frame(Top.kind, Top.at, Tail(Top.todo))
        /\ \A i \in 3..Len(stack') : stack'[i] = stack[i - 1]
    BY <1>4, <2>0, AfterTopCalls, TopType
  <2>2. /\ stack'[2].kind = "loop" /\ stack'[2].todo = Tail(Top.todo)
        /\ Top' = frame
    BY <2>0, <2>1 DEF Frame, Top
  <2>3. looping
    BY <1>0, <1>4, <2>0 DEF FlagInv
  <2>4. ASSUME NEW i \in 1..Len(stack'), i # 1 PROVE stack'[i].kind # "host"
    <3>1. CASE i = 2
      BY <2>2, <3>1
    <3>2. CASE i # 2
      <4>1. i \in 3..Len(stack') /\ i - 1 \in 1..Len(stack) /\ i - 1 # 1
        BY <2>1, <2>4, <3>2
      <4>2. stack[i - 1].kind # "host"
        BY <1>0, <4>1 DEF FlagInv
      <4> QED
        BY <2>1, <4>1, <4>2
    <3> QED
      BY <3>1, <3>2
  <2>5. FlagInv'
    BY <1>4, <2>2, <2>3, <2>4 DEF FlagInv
  <2>6. ForWaiting(Tail(Top.todo))
    <3>1. 1 \in 1..Len(stack) /\ stack[1] = Top /\ Runnable(1)
      BY <1>4, <2>0, <2>1, TopType DEF Runnable
    <3>2. ForWaiting(Top.todo)
      BY <1>0, <1>4, <3>1 DEF TasksInv
    <3> QED
      BY <1>4, <2>0, <3>2, ForWaitingTail
  <2>7. Waiting' = Waiting
    BY <1>4 DEF Waiting
  <2>8. ASSUME NEW i \in 1..Len(stack'), Runnable(i)' PROVE ForWaiting(stack[i].todo)'
    <3>1. i = 2
      BY <1>4, <2>1, <2>8 DEF Runnable
    <3> QED
      BY <2>2, <2>6, <2>7, <3>1 DEF ForWaiting
  <2>9. pending' = <<>> /\ ForWaiting(pending)'
    BY <1>00, <1>4 DEF ForWaiting, TopIs
  <2> QED
    BY <1>0, <1>4, <2>5, <2>8, <2>9 DEF TasksInv
\* A service method or onTimer returns to its loop, which goes on.
<1>5. ASSUME stack # <<>>, Top.kind \in {"timers", "host"}, Return,
             UNCHANGED <<call, pending, looping, stop, crashed>>
      PROVE  Goal
  <2>1. /\ Len(stack') = Len(stack) - 1 /\ Len(stack) \in Nat /\ Len(stack) >= 1
        /\ \A i \in 1..Len(stack') : stack'[i] = stack[i + 1]
        /\ stack' \in Seq(Frames) /\ stack[1] = Top
    BY <1>5, AfterReturn, TopType
  <2>2. 1 < Len(stack) /\ stack[2].kind = "loop"
    <3>1. 1 \in 1..Len(stack)
      BY <2>1
    <3>2. 1 < Len(stack) /\ stack[1 + 1].kind = "loop"
      BY <1>5, <2>1, <3>1 DEF StackInv
    <3> QED
      BY <3>2
  <2>3. 1 \in 1..Len(stack') /\ 2 \in 1..Len(stack) /\ stack'[1] = stack[2] /\ Top' = stack[2]
    BY <2>1, <2>2 DEF Top
  <2>4. ASSUME NEW i \in 1..Len(stack') PROVE stack'[i].kind # "host"
    <3>1. i + 1 \in 1..Len(stack) /\ i + 1 # 1 /\ stack'[i] = stack[i + 1]
      BY <2>1
    <3> QED
      BY <1>0, <3>1 DEF FlagInv
  <2>5. FlagInv'
    <3>1. ~stop => looping
      BY <1>0, <1>5 DEF FlagInv
    <3> QED
      BY <1>5, <2>2, <2>3, <2>4, <3>1 DEF FlagInv
  <2>6. Waiting' = Waiting
    BY <1>5 DEF Waiting
  <2>7. ASSUME ~stop', NEW i \in 1..Len(stack'), Runnable(i)'
        PROVE  ForWaiting(stack[i].todo)'
    <3>1. i = 1
      BY <2>2, <2>3, <2>7 DEF Runnable
    <3>2. ForWaiting(stack[2].todo)
      BY <1>0, <1>5, <2>2, <2>3, <2>7 DEF TasksInv, Runnable
    <3> QED
      BY <2>3, <2>6, <3>1, <3>2 DEF ForWaiting
  <2>8. pending' = <<>> /\ ForWaiting(pending)'
    BY <1>00, <1>5 DEF ForWaiting, TopIs
  <2> QED
    BY <1>0, <1>5, <2>5, <2>7, <2>8 DEF TasksInv
\* A closure ends, or a stopped loop: whoever is below finds the loop stopped.
<1>6. ASSUME stack # <<>>, stop, Return, stop' = stop, UNCHANGED <<pending, crashed>>
      PROVE  Goal
  <2>1. /\ Len(stack') = Len(stack) - 1 /\ Len(stack) \in Nat /\ Len(stack) >= 1
        /\ \A i \in 1..Len(stack') : stack'[i] = stack[i + 1]
    BY <1>6, AfterReturn, TopType
  <2>2. ASSUME NEW i \in 1..Len(stack') PROVE stack'[i].kind # "host"
    <3>1. i + 1 \in 1..Len(stack) /\ i + 1 # 1 /\ stack'[i] = stack[i + 1]
      BY <2>1
    <3> QED
      BY <1>0, <3>1 DEF FlagInv
  <2>3. pending' = <<>> /\ ForWaiting(pending)'
    BY <1>0, <1>6 DEF ForWaiting, TasksInv
  <2> QED
    BY <1>0, <1>6, <2>2, <2>3 DEF FlagInv, TasksInv
<1>7. ASSUME NEW c \in Calls, MakeCall(c) PROVE Goal
  <2>1. /\ stack # <<>> /\ Top.kind \in {"user", "host", "closure"}
        /\ looping' /\ ~stop' /\ UNCHANGED <<pending, crashed>>
    BY <1>7 DEF MakeCall, MayMakeCall
  <2>2. Waiting \subseteq Waiting' /\ pending = <<>>
    BY <1>00, <1>7, <2>1, WaitingChanges DEF MakeCall, TopIs
  <2>3. CASE LoopingAfterNew
    <3>1. stop' = stop /\ looping' = looping /\ UNCHANGED stack
      BY <1>00, <1>7, <2>1, <2>3 DEF MakeCall, LoopingAfterNew
    <3> QED
      BY <1>2, <2>1, <2>2, <3>1
  <2>4. CASE ~LoopingAfterNew
    <3>1. TopCalls(Top.todo, Frame("loop", "swap", <<>>)) /\ Top.todo \in Seq(Tasks)
      BY <1>7, <2>1, <2>4, TopType DEF MakeCall
    <3>2. /\ Len(stack') = Len(stack) + 1 /\ Len(stack) \in Nat /\ Len(stack) >= 1
          /\ stack'[1] = Frame("loop", "swap", <<>>)
          /\ stack'[2] = Frame(Top.kind, Top.at, Top.todo)
          /\ \A i \in 3..Len(stack') : stack'[i] = stack[i - 1]
      BY <1>000, <2>1, <3>1, AfterTopCalls, TopType
    <3>3. /\ stack'[1].kind = "loop" /\ stack'[1].todo = <<>> /\ Top' = stack'[1]
          /\ stack'[2].kind = Top.kind /\ stack[1] = Top
      BY <3>2 DEF Frame, Top
    <3>4. Top.kind # "host"
      <4>1. Top.kind = "host" => ~stop
        BY <1>0, <3>2, <3>3 DEF FlagInv
      <4> QED
        BY <1>0, <2>4, <4>1 DEF FlagInv, LoopingAfterNew
    <3>5. ASSUME NEW i \in 1..Len(stack') PROVE stack'[i].kind # "host"
      <4>1. CASE i \in {1, 2}
        BY <3>3, <3>4, <4>1
      <4>2. CASE i \notin {1, 2}
        <5>1. i \in 3..Len(stack') /\ i - 1 \in 1..Len(stack) /\ i - 1 # 1
          BY <3>2, <4>2
        <5>2. stack[i - 1].kind # "host"
          BY <1>0, <5>1 DEF FlagInv
        <5> QED
          BY <3>2, <5>1, <5>2
      <4> QED
        BY <4>1, <4>2
    <3>6. FlagInv'
      BY <2>1, <3>3, <3>5 DEF FlagInv
    <3>7. ASSUME NEW i \in 1..Len(stack'), Runnable(i)' PROVE ForWaiting(stack[i].todo)'
      <4>1. i = 1
        BY <3>3, <3>7 DEF Runnable
      <4> QED
        BY <3>3, <4>1 DEF ForWaiting
    <3> QED
      BY <1>0, <1>00, <2>1, <2>2, <3>6, <3>7 DEF TasksInv, ForWaiting
  <2> QED
    BY <2>3, <2>4
<1>8. ASSUME NEW c \in Calls, DeadlinePasses(c) \/ SocketReady(c) PROVE Goal
  BY <1>2, <1>8 DEF DeadlinePasses, SocketReady, Waiting
<1>9. CASE UserIdles \/ UNCHANGED vars
  BY <1>2, <1>9 DEF UserIdles, vars, Waiting
<1>10. CASE LeaveFrame
  <2>1. CASE Top.kind = "host"
    BY <1>5, <1>10, <2>1 DEF LeaveFrame
  <2>2. CASE Top.kind = "closure"
    BY <1>0, <1>6, <1>10, <2>2 DEF LeaveFrame, FlagInv
  <2> QED
    BY <1>10, <2>1, <2>2 DEF LeaveFrame
<1>11. CASE LoopSwap
  <2>1. stack # <<>> /\ Top.kind = "loop" /\ UNCHANGED <<stop, crashed>> /\ Waiting' = Waiting
    BY <1>11 DEF LoopSwap, TopIs, Waiting
  <2>2. CASE stop
    BY <1>6, <1>11, <2>1, <2>2 DEF LoopSwap
  <2>3. CASE ~stop
    <3>1. TopGoes("run", pending) /\ pending' = <<>> /\ UNCHANGED looping
      BY <1>11, <2>3 DEF LoopSwap
    <3>2. ForWaiting(pending) /\ ForWaiting(pending)'
      BY <1>0, <3>1 DEF TasksInv, ForWaiting
    <3> QED
      BY <1>00, <1>1, <2>1, <3>1, <3>2
  <2> QED
    BY <2>2, <2>3
<1>12. CASE BatchEnd
  <2>1. /\ stack # <<>> /\ Top.kind = "loop" /\ UNCHANGED <<pending, looping, stop, crashed>>
        /\ Waiting' = Waiting /\ TopGoes("poll", <<>>) /\ pending = <<>>
    BY <1>00, <1>12 DEF BatchEnd, TopIs, Waiting
  <2>2. ForWaiting(pending)'
    BY <2>1 DEF ForWaiting
  <2> QED
    BY <1>00, <1>1, <2>1, <2>2
<1>13. CASE Poll
  <2>1. /\ stack # <<>> /\ Top.kind = "loop" /\ UNCHANGED <<looping, stop, crashed>>
        /\ Waiting' = Waiting /\ TopGoes("swap", <<>>) /\ pending = <<>>
    BY <1>00, <1>13 DEF Poll, TopIs, Waiting
  <2>2. PICK request \in SUBSET Requests :
          \E q \in SetToSeqs(ReadyTasks \cup request) :
            pending' = IF stop THEN pending ELSE pending \o q
    BY <1>13 DEF Poll
  <2>3. PICK q \in SetToSeqs(ReadyTasks \cup request) :
          pending' = IF stop THEN pending ELSE pending \o q
    BY <2>2
  <2>4. q \in Seq(ReadyTasks \cup request)
    BY PolledType
  <2>5. \A t \in ReadyTasks \cup request : t.kind = "connect" => t.call \in Waiting
    <3>1. \A t \in ReadyTasks : t.kind = "connect" => t.call \in Waiting
      BY DEF ReadyTasks, Task, Waiting, TypeOK
    <3>2. \A t \in request : t.kind # "connect"
      BY DEF Requests, Task
    <3> QED
      BY <3>1, <3>2
  <2>6. ForWaiting(q)
    BY <2>4, <2>5 DEF ForWaiting
  <2>7. pending' = (IF stop THEN <<>> ELSE q)
    BY <2>1, <2>3, <2>4
  <2>8. ForWaiting(pending)'
    BY <2>1, <2>6, <2>7 DEF ForWaiting
  <2> QED
    BY <1>00, <1>1, <2>1, <2>7, <2>8
<1>14. CASE RunHost
  <2>1. Frame("host", "-", <<>>).kind = "host"
    BY DEF Frame
  <2> QED
    BY <1>000, <1>4, <1>14, <2>1 DEF RunHost, NextTask, TopIs
<1>15. CASE RunTimer
  <2>1. stack # <<>> /\ Top.todo # <<>> /\ TopIs("loop", "run") /\ ~stop
    BY <1>15 DEF RunTimer, NextTask, TopIs
  <2>2. PICK q \in SetToSeqs({Task("timer", c) : c \in Expired}) :
          TopCalls(Tail(Top.todo), Frame("timers", "-", q))
    BY <1>15 DEF RunTimer
  <2>3. Frame("timers", "-", q) \in Frames /\ Frame("timers", "-", q).kind = "timers"
    BY TimersType, NewFrames DEF Frame
  <2> QED
    BY <1>4, <1>15, <2>1, <2>2, <2>3 DEF RunTimer
\* A task of the batch that does not end its call.
<1>16. ASSUME stack # <<>>, Top.todo # <<>>, TopIs("loop", "run"), ~stop,
              Waiting' = Waiting, TopGoes("run", Tail(Top.todo)),
              UNCHANGED <<pending, looping, stop, crashed>>
       PROVE  Goal
  <2>1. Top.kind = "loop" /\ Top.todo \in Seq(Tasks) /\ Tail(Top.todo) \in Seq(Tasks)
        /\ stack[1] = Top /\ 1 \in 1..Len(stack)
    BY <1>16, TopType DEF TopIs
  <2>2. ForWaiting(Tail(Top.todo))
    BY <1>0, <1>16, <2>1, ForWaitingTail DEF TasksInv, Runnable
  <2>3. pending' = <<>> /\ ForWaiting(pending)'
    BY <1>00, <1>16 DEF ForWaiting, TopIs
  <2> QED
    BY <1>1, <1>16, <2>1, <2>2, <2>3
<1>17. CASE RunConnect
  <2>1. /\ stack # <<>> /\ Top.todo # <<>> /\ TopIs("loop", "run") /\ ~stop
        /\ Top.todo[1].kind = "connect" /\ Top.kind = "loop"
    BY <1>17 DEF RunConnect, NextTask, TopIs
  <2>2. Top.todo \in Seq(Tasks) /\ Tail(Top.todo) \in Seq(Tasks)
        /\ stack[1] = Top /\ 1 \in 1..Len(stack)
    BY <2>1, TopType
  <2> DEFINE c == Top.todo[1].call
  <2>3. c \in Waiting
    <3>1. ForWaiting(Top.todo)
      BY <1>0, <2>1, <2>2 DEF TasksInv, Runnable
    <3>2. 1 \in 1..Len(Top.todo)
      BY <2>1, <2>2
    <3> QED
      BY <2>1, <3>1, <3>2 DEF ForWaiting
  <2>4. CASE /\ call' = [call EXCEPT ![c] = "connected"]
             /\ TopGoes("run", Tail(Top.todo)) /\ UNCHANGED <<stop, crashed>>
    <3>1. Waiting' = Waiting
      BY <1>00, <2>3, <2>4, WaitingChanges
    <3> QED
      BY <1>16, <1>17, <2>1, <2>4, <3>1 DEF RunConnect
  <2>5. CASE Finish(c, looping, Tail(Top.todo)) /\ UNCHANGED crashed
    BY <1>3, <1>17, <2>1, <2>2, <2>5 DEF RunConnect, TopIs
  <2> QED
    BY <1>17, <2>3, <2>4, <2>5 DEF RunConnect
<1>18. CASE RunSocket
  <2>1. stack # <<>> /\ Top.todo # <<>> /\ TopIs("loop", "run") /\ ~stop /\ Top.kind = "loop"
    BY <1>18 DEF RunSocket, NextTask, TopIs
  <2>2. Tail(Top.todo) \in Seq(Tasks)
    BY <2>1, TopType
  <2>3. CASE Top.todo[1].call \in Waiting
    BY <1>3, <1>18, <2>1, <2>2, <2>3 DEF RunSocket, TopIs
  <2>4. CASE Top.todo[1].call \notin Waiting
    <3>1. Waiting' = Waiting
      BY <1>18, <2>4 DEF RunSocket, Waiting
    <3> QED
      BY <1>16, <1>18, <2>1, <2>4, <3>1 DEF RunSocket
  <2> QED
    BY <2>3, <2>4
<1>19. CASE RunDeadline
  <2>1. /\ stack # <<>> /\ Top.kind = "timers" /\ ~TopIs("loop", "swap")
        /\ UNCHANGED <<pending, looping, crashed>>
    BY <1>19 DEF RunDeadline, TopIs
  <2>2. CASE Top.todo = <<>>
    BY <1>5, <1>19, <2>1, <2>2 DEF RunDeadline
  <2>3. CASE Top.todo # <<>> /\ Top.todo[1].call \in Waiting
    <3>1. Tail(Top.todo) \in Seq(Tasks)
      BY <2>1, <2>3, TopType
    <3> QED
      BY <1>3, <1>19, <2>1, <2>3, <3>1 DEF RunDeadline
  <2>4. CASE Top.todo # <<>> /\ Top.todo[1].call \notin Waiting
    <3>1. Tail(Top.todo) \in Seq(Tasks)
      BY <2>1, <2>4, TopType
    <3>2. TopGoes("-", Tail(Top.todo)) /\ UNCHANGED <<call, stop>>
      BY <1>19, <2>4 DEF RunDeadline
    <3>3. Waiting' = Waiting /\ pending' = <<>> /\ ForWaiting(pending)'
      BY <1>00, <2>1, <3>2 DEF Waiting, ForWaiting
    <3> QED
      BY <1>1, <2>1, <3>1, <3>2, <3>3
  <2> QED
    BY <2>2, <2>3, <2>4
<1>20. ~\E c \in Calls : MakeFailingCall(c)
  BY <1>0 DEF MakeFailingCall
<1> QED
  BY <1>7, <1>8, <1>9, <1>10, <1>11, <1>12, <1>13, <1>14, <1>15, <1>17, <1>18, <1>19,
     <1>20 DEF Next, Thread

\* connect_callback of TcpClient never runs for a call that ended and has a null
\* m_fd_event, unless a connect failed without waiting.
THEOREM NullFdEventIsNeverUsed == Spec => []NoNullFdEvent
<1>1. Init => BatchInv
  <2> SUFFICES ASSUME Init PROVE ~crashed /\ FlagInv /\ TasksInv
    BY DEF BatchInv
  <2>1. Len(stack) = 1 /\ pending = <<>> /\ ~crashed /\ ~stop /\ looping = Hosted
    BY DEF Init
  <2>2. stack[1].kind = (IF Hosted THEN "loop" ELSE "user") /\ stack[1].todo = <<>>
        /\ Top = stack[1]
    BY DEF Init, Frame, Top
  <2> QED
    BY <2>1, <2>2 DEF FlagInv, TasksInv, ForWaiting, Runnable
<1>2. BatchInv => NoNullFdEvent
  BY DEF BatchInv, NoNullFdEvent
<1> QED
  BY <1>1, <1>2, InitTypeOK, NextTypeOK, InitStackInv, NextStackInv, NextBatchInv, PTL
  DEF Spec
=============================================================================
