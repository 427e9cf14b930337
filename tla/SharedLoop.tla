----------------------------- MODULE SharedLoop -----------------------------
(***************************************************************************)
(* Several calls on one thread and its one Eventloop.                      *)
(*                                                                         *)
(* RpcChannel shows one call that has a loop to itself.  A thread has only *)
(* one Eventloop (GetCurrentEventLoop is thread-local), and finishing any  *)
(* call stops it.  This module keeps of a call what matters to the loop it *)
(* shares with others, and keeps the thread's call stack: a call made by   *)
(* user code or by the closure of another call runs the loop inside        *)
(* connect(); a call made by a task of a running loop (a service method on *)
(* an IO thread) leaves it to that loop.                                   *)
(*                                                                         *)
(* One action is one uninterrupted piece of the thread's work; nothing     *)
(* else changes these variables but the kernel and the clock.              *)
(***************************************************************************)
EXTENDS Naturals, Sequences, SequencesExt

CONSTANTS
  Threads,   \* the kinds of thread considered
  MaxCalls   \* bound: how many calls a thread makes

(***************************************************************************)
(* A "user" thread runs the loop for its calls only.  An "io" thread's     *)
(* loop runs from the start, and its tasks make the calls.  On a "failing" *)
(* one, a user thread, connect(2) may also fail without waiting.           *)
(***************************************************************************)
ASSUME SharedLoopAssumption ==
  Threads \subseteq {"user", "io", "failing"} /\ MaxCalls \in Nat

VARIABLES
  thread,   \* the kind of thread; never changes
  call,     \* the state of each call
  runs,     \* how often the closure of each call has run
  due,      \* calls whose deadline has passed
  ready,    \* calls whose socket has something to report
  pending,  \* Eventloop::m_pending_tasks
  stop,     \* Eventloop::m_stop_flag
  looping,  \* Eventloop::m_is_looping
  stack,    \* the thread's call stack, top first
  crashed   \* a null m_fd_event was used

vars == <<thread, call, runs, due, ready, pending, stop, looping, stack, crashed>>

\* Calls are numbered in the order they are made; a task may be for none.
Calls == 1..MaxCalls
NoCall == 0

Hosted == thread = "io"

(***************************************************************************)
(* A task is its kind and the call it is for.                              *)
(* A frame is what the thread is in: "user" code, "host" (a task that is a *)
(* service method), the "closure" of a call, a run of "loop" at one of its *)
(* three points with its batch, or onTimer with the "timers" left to run.  *)
(***************************************************************************)
Task(kind, c) == [kind |-> kind, call |-> c]
Frame(kind, at, todo) == [kind |-> kind, at |-> at, todo |-> todo]

Waiting == {c \in Calls : call[c] \in {"connecting", "connected"}}
Tasks == [kind : {"host", "timer", "connect", "socket"}, call : Calls \cup {NoCall}]
Frames == [kind : {"user", "host", "closure", "loop", "timers"},
           at : {"-", "swap", "run", "poll"}, todo : Seq(Tasks)]

TypeOK ==
  /\ thread \in Threads
  /\ call \in [Calls -> {"new", "connecting", "connected", "completed"}]
  /\ runs \in [Calls -> Nat]
  /\ due \subseteq Calls /\ ready \subseteq Calls
  /\ pending \in Seq(Tasks)
  /\ stop \in BOOLEAN /\ looping \in BOOLEAN /\ crashed \in BOOLEAN
  /\ stack \in Seq(Frames)

Init ==
  /\ thread \in Threads
  /\ call = [c \in Calls |-> "new"]
  /\ runs = [c \in Calls |-> 0]
  /\ due = {} /\ ready = {}
  /\ pending = <<>>
  /\ stop = FALSE /\ looping = Hosted /\ crashed = FALSE
  /\ stack = IF Hosted THEN <<Frame("loop", "swap", <<>>)>>
             ELSE <<Frame("user", "-", <<>>)>>

Top == stack[1]
TopIs(kind, at) == stack # <<>> /\ Top.kind = kind /\ Top.at = at

\* Replace the top frame, possibly under a new one.
TopGoes(at, todo) == stack' = <<Frame(Top.kind, at, todo)>> \o Tail(stack)
TopCalls(todo, frame) ==
  stack' = <<frame, Frame(Top.kind, Top.at, todo)>> \o Tail(stack)
Return == stack' = Tail(stack)

(***************************************************************************)
(* CallMethod                                                              *)
(***************************************************************************)

\* Faulty finish: the loop is not stopped.
FinishWithoutStop(c, isLooping, todo) ==
  /\ call' = [call EXCEPT ![c] = "completed"]
  /\ runs' = [runs EXCEPT ![c] = @ + 1]
  /\ TopCalls(todo, Frame("closure", "-", <<>>))
  /\ UNCHANGED stop

\* RequestState::finish as the loop sees it: stop() on a running loop, then
\* the closure, from the frame the thread was in.
Finish(c, isLooping, todo) ==
  /\ call' = [call EXCEPT ![c] = "completed"]
  /\ runs' = [runs EXCEPT ![c] = @ + 1]
  /\ stop' = (isLooping \/ stop)
  /\ TopCalls(todo, Frame("closure", "-", <<>>))

MayMakeCall(c) ==
  /\ stack # <<>> /\ Top.kind \in {"user", "host", "closure"}
  /\ call[c] = "new" /\ \A d \in 1..(c - 1) : call[d] # "new"

\* The TcpClient constructor puts a stopped loop back to work.
LoopingAfterNew == looping /\ ~stop

\* The connect is under way, the lookup in the service centre having returned;
\* the loop is run here unless it is running.
MakeCall(c) ==
  /\ MayMakeCall(c)
  /\ call' = [call EXCEPT ![c] = "connecting"]
  /\ stop' = FALSE
  /\ looping' = TRUE
  /\ IF LoopingAfterNew THEN UNCHANGED stack
     ELSE TopCalls(Top.todo, Frame("loop", "swap", <<>>))
  /\ UNCHANGED <<thread, runs, due, ready, pending, crashed>>

\* The connect fails at once, so finish runs inside CallMethod.
MakeFailingCall(c) ==
  /\ thread = "failing" /\ MayMakeCall(c)
  /\ call' = [call EXCEPT ![c] = "completed"]
  /\ runs' = [runs EXCEPT ![c] = @ + 1]
  /\ stop' = LoopingAfterNew
  /\ looping' = LoopingAfterNew
  /\ TopCalls(Top.todo, Frame("closure", "-", <<>>))
  /\ UNCHANGED <<thread, due, ready, pending, crashed>>

\* A closure or a service method ends; user code never does.
LeaveFrame ==
  /\ stack # <<>> /\ Top.kind \in {"closure", "host"}
  /\ Return
  /\ UNCHANGED <<thread, call, runs, due, ready, pending, stop, looping, crashed>>

(***************************************************************************)
(* Eventloop::loop                                                         *)
(***************************************************************************)
\* Faulty loop(): m_is_looping stays up when the loop ends.
LoopSwapStillLooping ==
  /\ TopIs("loop", "swap")
  /\ IF stop THEN Return /\ UNCHANGED pending
     ELSE TopGoes("run", pending) /\ pending' = <<>>
  /\ UNCHANGED <<thread, call, runs, due, ready, stop, looping, crashed>>

LoopSwap ==
  /\ TopIs("loop", "swap")
  /\ IF stop THEN looping' = FALSE /\ Return /\ UNCHANGED pending
     ELSE /\ TopGoes("run", pending)
          /\ pending' = <<>>
          /\ UNCHANGED looping
  /\ UNCHANGED <<thread, call, runs, due, ready, stop, crashed>>

BatchEnd ==
  /\ TopIs("loop", "run") /\ (Top.todo = <<>> \/ stop)
  /\ TopGoes("poll", <<>>)
  /\ UNCHANGED <<thread, call, runs, due, ready, pending, stop, looping, crashed>>

\* Faulty: the timerfd is not in epoll.
ReadyTasksWithoutTimer ==
  {Task("connect", c) : c \in {d \in ready : call[d] = "connecting"}}
  \cup {Task("socket", c) : c \in {d \in ready : call[d] = "connected"}}

\* The timer events that have expired and are still in m_pending_events: an
\* onTimer further down the stack has erased those it has yet to run.
Expired ==
  {c \in Waiting \cap due :
     \A i \in DOMAIN stack : stack[i].kind = "timers" =>
       \A j \in DOMAIN stack[i].todo : stack[i].todo[j].call # c}

\* What epoll reports: the timerfd once for all deadlines, each socket with
\* something to say and, on an IO thread, a request for a service method.
ReadyTasks ==
  {Task("timer", NoCall) : c \in Expired}
  \cup {Task("connect", c) : c \in {d \in ready : call[d] = "connecting"}}
  \cup {Task("socket", c) : c \in {d \in ready : call[d] = "connected"}}

\* Requests keep coming to an IO thread's connections.  One is looked at only
\* while none is queued and there is a call its service method could make.
Requests ==
  {Task("host", NoCall) : c \in {d \in Calls : Hosted /\ call[d] = "new"}}
    \ ToSet(pending)

Poll ==
  /\ TopIs("loop", "poll")
  /\ \E request \in SUBSET Requests :
       \E q \in SetToSeqs(ReadyTasks \cup request) :
         pending' = IF stop THEN pending ELSE pending \o q
  /\ TopGoes("swap", <<>>)
  /\ UNCHANGED <<thread, call, runs, due, ready, stop, looping, crashed>>

\* Faulty loop(): a stopped loop finishes its batch.
NextTaskIgnoresStop(kind) ==
  /\ TopIs("loop", "run") /\ Top.todo # <<>>
  /\ Top.todo[1].kind = kind

NextTask(kind) ==
  /\ TopIs("loop", "run") /\ Top.todo # <<>> /\ ~stop
  /\ Top.todo[1].kind = kind

RunHost ==
  /\ NextTask("host")
  /\ TopCalls(Tail(Top.todo), Frame("host", "-", <<>>))
  /\ UNCHANGED <<thread, call, runs, due, ready, pending, stop, looping, crashed>>

\* connect_callback: refused, or the request is sent.  On a call that ended
\* meanwhile m_fd_event is null.
RunConnect ==
  /\ NextTask("connect")
  /\ LET c == Top.todo[1].call
     IN \/ /\ c \notin Waiting
           /\ crashed' = TRUE
           /\ TopGoes("run", Tail(Top.todo))
           /\ UNCHANGED <<call, runs, ready, stop>>
        \/ /\ c \in Waiting
           /\ call' = [call EXCEPT ![c] = "connected"]
           /\ ready' = ready \ {c}
           /\ TopGoes("run", Tail(Top.todo))
           /\ UNCHANGED <<runs, stop, crashed>>
        \/ /\ c \in Waiting
           /\ Finish(c, looping, Tail(Top.todo))
           /\ UNCHANGED <<ready, crashed>>
  /\ UNCHANGED <<thread, due, pending, looping>>

\* onRead, onWrite or clear of a call's connection: the call ends, unless it
\* has already.
RunSocket ==
  /\ NextTask("socket")
  /\ LET c == Top.todo[1].call
     IN IF c \in Waiting THEN Finish(c, looping, Tail(Top.todo))
        ELSE TopGoes("run", Tail(Top.todo)) /\ UNCHANGED <<call, runs, stop>>
  /\ UNCHANGED <<thread, due, ready, pending, looping, crashed>>

\* Timer::onTimer collects every deadline that has passed, then runs all of
\* their callbacks, whether or not the loop is stopped in between.
RunTimer ==
  /\ NextTask("timer")
  /\ \E q \in SetToSeqs({Task("timer", c) : c \in Expired}) :
       TopCalls(Tail(Top.todo), Frame("timers", "-", q))
  /\ UNCHANGED <<thread, call, runs, due, ready, pending, stop, looping, crashed>>

\* Faulty deadline: it does not ask whether the call has ended.
RunDeadlineUngated ==
  /\ TopIs("timers", "-")
  /\ IF Top.todo = <<>> THEN Return /\ UNCHANGED <<call, runs, stop>>
     ELSE Finish(Top.todo[1].call, looping, Tail(Top.todo))
  /\ UNCHANGED <<thread, due, ready, pending, looping, crashed>>

RunDeadline ==
  /\ TopIs("timers", "-")
  /\ IF Top.todo = <<>> THEN Return /\ UNCHANGED <<call, runs, stop>>
     ELSE LET c == Top.todo[1].call
          IN IF c \in Waiting THEN Finish(c, looping, Tail(Top.todo))
             ELSE TopGoes("-", Tail(Top.todo)) /\ UNCHANGED <<call, runs, stop>>
  /\ UNCHANGED <<thread, due, ready, pending, looping, crashed>>

(***************************************************************************)
(* The clock and the kernel                                                *)
(***************************************************************************)
DeadlinePasses(c) ==
  /\ c \in Waiting \ due
  /\ due' = due \cup {c}
  /\ UNCHANGED <<thread, call, runs, ready, pending, stop, looping, stack, crashed>>

SocketReady(c) ==
  /\ c \in Waiting \ ready
  /\ ready' = ready \cup {c}
  /\ UNCHANGED <<thread, call, runs, due, pending, stop, looping, stack, crashed>>

\* User code that makes no call does something else.
UserIdles ==
  /\ TopIs("user", "-")
  /\ UNCHANGED vars

(***************************************************************************)
(* Specification                                                           *)
(***************************************************************************)
Thread ==
  \/ LeaveFrame \/ LoopSwap \/ BatchEnd \/ Poll
  \/ RunHost \/ RunConnect \/ RunSocket \/ RunTimer \/ RunDeadline

Next ==
  \/ Thread
  \/ UserIdles
  \/ \E c \in Calls : \/ MakeCall(c) \/ MakeFailingCall(c)
                      \/ DeadlinePasses(c) \/ SocketReady(c)

\* The thread runs whatever it is in; deadlines pass.  Nobody has to make a
\* call, and sockets may stay silent.
Fairness == WF_vars(Thread) /\ \A c \in Calls : WF_vars(DeadlinePasses(c))

Spec == Init /\ [][Next]_vars /\ Fairness

(***************************************************************************)
(* Properties                                                              *)
(***************************************************************************)

\* The closure of each call runs at most once, and has run exactly for the
\* calls that ended, however calls nest and share batches of the loop.
EachClosureAtMostOnce ==
  \A c \in Calls : runs[c] = (IF call[c] = "completed" THEN 1 ELSE 0)

\* CallMethod is synchronous for user code: when the thread is back in it, no
\* call is waiting and no loop claims to be running, so the next call will
\* run the loop itself.
ReturnMeansComplete ==
  TopIs("user", "-") => Waiting = {} /\ ~looping

\* A null m_fd_event is never used: connect_callback does not run for a call
\* that ended in the same batch, unless a connect failed without waiting.
NoNullFdEvent == thread # "failing" => ~crashed

\* docs/rpc-semantics.md: a deadline fails the call.  Every call that has
\* begun to connect ends.
EveryCallEnds ==
  \A c \in Calls : call[c] = "connecting" ~> call[c] = "completed"

\* Every call of a user thread that has begun to connect ends, though closures make calls in turn and
\* connects fail at once: somebody runs the loop for as long as it waits.
EveryUserCallEnds ==
  \A c \in Calls :
    (~Hosted /\ call[c] = "connecting") ~> call[c] = "completed"

\* User code gets the thread back after every call it makes, whatever calls
\* the closures of that call make in turn, if their lookups in the service
\* centre return and unless a connect failed without waiting.
UserCodeResumes == thread = "user" => []<>TopIs("user", "-")
=============================================================================
