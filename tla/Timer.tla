------------------------------- MODULE Timer -------------------------------
(***************************************************************************)
(* Timer (net/timer.cc): the TimerEvents of one Eventloop on one timerfd.  *)
(*                                                                         *)
(* Everything happens on the loop's thread: onTimer, the callbacks it runs *)
(* and the calls of addTimerEvent and deleteTimerEvent that callbacks and  *)
(* other tasks make.  Times are kept relative to now, so behaviours are    *)
(* unbounded though no clock is.                                           *)
(***************************************************************************)
EXTENDS Integers, Sequences, SequencesExt, FiniteSetsExt

CONSTANTS
  Events,    \* the timer events
  Interval,  \* m_interval of each, in time units
  Repeated,  \* those with m_is_repeated
  Slack,     \* the 100 ms resetArriveTime waits when the first is overdue
  MaxTasks   \* bound: callbacks waiting to run in nested runs of onTimer

ASSUME TimerAssumption ==
  /\ Interval \in [Events -> Nat \ {0}] /\ Repeated \subseteq Events
  /\ Slack \in Nat \ {0} /\ MaxTasks \in Nat \ {0}

VARIABLES
  pending,    \* m_pending_events
  left,       \* m_arrive_time - now of each pending event
  cancelled,  \* m_is_cancled
  fd,         \* time until the timerfd expires; 0 readable, Off not set
  queued,     \* epoll reported the timerfd: onTimer is among the loop's tasks
  tasks,      \* the callbacks that runs of onTimer have still to make
  called      \* the event whose callback this step starts, if any

vars == <<pending, left, cancelled, fd, queued, tasks, called>>

Off == -1
MaxInterval == Max({Interval[e] : e \in Events})

TypeOK ==
  /\ pending \subseteq Events /\ cancelled \subseteq Events
  /\ left \in [Events -> -Slack..MaxInterval]
  /\ fd \in Off..Max({Slack, MaxInterval})
  /\ queued \in BOOLEAN /\ tasks \in Seq(Events)
  /\ called \subseteq Events

Init ==
  /\ pending = {} /\ cancelled = {} /\ tasks = <<>>
  /\ left = [e \in Events |-> 0]
  /\ fd = Off /\ queued = FALSE /\ called = {}

First(events, time) == Min({time[e] : e \in events})

\* resetArriveTime: set the timerfd for the first event; leave it when there
\* is none.
ResetArriveTime(events, time, old) ==
  IF events = {} THEN old
  ELSE IF First(events, time) > 0 THEN First(events, time) ELSE Slack

\* Faulty addTimerEvent: only the first event sets the timerfd.
AddTimerEventUnset(e, delay) ==
  /\ e \notin pending /\ e \notin ToSet(tasks)
  /\ left' = [left EXCEPT ![e] = Interval[e] - delay]
  /\ pending' = pending \cup {e}
  /\ cancelled' = cancelled \ {e}
  /\ fd' = IF pending = {} THEN ResetArriveTime(pending', left', fd) ELSE fd
  /\ called' = {}
  /\ UNCHANGED <<queued, tasks>>

\* addTimerEvent of an event made delay units ago.  An event object is used
\* once, so a name comes back only when its last use is over.
AddTimerEvent(e, delay) ==
  /\ e \notin pending /\ e \notin ToSet(tasks)
  /\ left' = [left EXCEPT ![e] = Interval[e] - delay]
  /\ pending' = pending \cup {e}
  /\ cancelled' = cancelled \ {e}
  /\ fd' = IF pending = {} \/ First(pending, left) > Interval[e] - delay
           THEN ResetArriveTime(pending', left', fd) ELSE fd
  /\ called' = {}
  /\ UNCHANGED <<queued, tasks>>

\* Faulty deleteTimerEvent: an event whose callback waits stays pending.
DeleteTimerEventUnlessDue(e) ==
  /\ e \in pending \cup ToSet(tasks)
  /\ cancelled' = cancelled \cup {e}
  /\ pending' = IF e \in ToSet(tasks) THEN pending ELSE pending \ {e}
  /\ called' = {}
  /\ UNCHANGED <<left, fd, queued, tasks>>

\* deleteTimerEvent; the timerfd keeps its setting.
DeleteTimerEvent(e) ==
  /\ e \in pending \cup ToSet(tasks)
  /\ cancelled' = cancelled \cup {e}
  /\ pending' = pending \ {e}
  /\ called' = {}
  /\ UNCHANGED <<left, fd, queued, tasks>>

\* Eventloop::loop finds the timerfd readable and queues onTimer behind tasks
\* that may add events, and so set the timerfd again, before it runs.
Dispatch ==
  /\ fd = 0 /\ ~queued
  /\ queued' = TRUE /\ called' = {}
  /\ UNCHANGED <<pending, left, cancelled, fd, tasks>>

\* Faulty onTimer: the erase also takes the first events that are not due.
OnTimerErasesMore ==
  /\ queued /\ Len(tasks) < MaxTasks
  /\ queued' = FALSE
  /\ LET due   == {e \in pending : left[e] <= 0}
         later == {e \in pending : left[e] = 1}
         ready == due \ cancelled
         again == ready \cap Repeated
     IN /\ left' = [e \in Events |-> IF e \in again THEN Interval[e] ELSE left[e]]
        /\ pending' = (pending \ (due \cup later)) \cup again
        /\ fd' = ResetArriveTime(pending', left', IF fd = 0 THEN Off ELSE fd)
        /\ \E q \in SetToSeqs(ready) :
             /\ \A i, j \in DOMAIN q : i < j => left[q[i]] <= left[q[j]]
             /\ IF q = <<>> THEN called' = {} /\ tasks' = tasks
                ELSE called' = {Head(q)} /\ tasks' = Tail(q) \o tasks
  /\ UNCHANGED cancelled

\* onTimer up to the start of its first callback: read the timerfd, take what
\* is due, put the repeated ones back, set the timerfd.  A callback may run the
\* loop, and so onTimer, again.
OnTimer ==
  /\ queued /\ Len(tasks) < MaxTasks
  /\ queued' = FALSE
  /\ LET due   == {e \in pending : left[e] <= 0}
         ready == due \ cancelled
         again == ready \cap Repeated
     IN /\ left' = [e \in Events |-> IF e \in again THEN Interval[e] ELSE left[e]]
        /\ pending' = (pending \ due) \cup again
        /\ fd' = ResetArriveTime(pending', left', IF fd = 0 THEN Off ELSE fd)
        /\ \E q \in SetToSeqs(ready) :
             /\ \A i, j \in DOMAIN q : i < j => left[q[i]] <= left[q[j]]
             /\ IF q = <<>> THEN called' = {} /\ tasks' = tasks
                ELSE called' = {Head(q)} /\ tasks' = Tail(q) \o tasks
  /\ UNCHANGED cancelled

\* The callback returns and the next one starts.
RunCallback ==
  /\ tasks # <<>>
  /\ called' = {Head(tasks)} /\ tasks' = Tail(tasks)
  /\ UNCHANGED <<pending, left, cancelled, fd, queued>>

\* A loop that is never late runs onTimer before more time passes.
Tick ==
  /\ fd # 0 /\ ~queued
  /\ fd' = IF fd = Off THEN Off ELSE fd - 1
  /\ left' = [e \in Events |-> IF e \in pending THEN left[e] - 1 ELSE 0]
  /\ called' = {}
  /\ UNCHANGED <<pending, cancelled, queued, tasks>>

Next ==
  \/ Dispatch \/ OnTimer \/ RunCallback \/ Tick
  \/ \E e \in Events : DeleteTimerEvent(e)
                       \/ \E delay \in 0..Interval[e] : AddTimerEvent(e, delay)

\* The loop runs, and time passes.
Fairness ==
  WF_vars(Dispatch) /\ WF_vars(OnTimer) /\ WF_vars(RunCallback) /\ WF_vars(Tick)

Spec == Init /\ [][Next]_vars /\ Fairness

(***************************************************************************)
(* Properties                                                              *)
(***************************************************************************)

\* However events are added, cancelled and put back, the timerfd is set while
\* one is pending, and no later than for the first one, or the slack of an
\* overdue one: none waits for a timer that nobody set.
FirstIsCovered ==
  pending # {} => fd # Off /\ fd <= Max({Slack, First(pending, left)})

\* docs/known-regressions.md, BUG-LIFETIME-001: cancelled timer work cannot
\* re-arm, not even a repeated event that its own callback cancels.
CancelledIsNotArmed == pending \cap cancelled = {}

\* Every event that is added has its callback called, or next to be called when
\* the callbacks before it return, and a repeated one again and again, unless
\* it is cancelled.
EventFires ==
  \A e \in Events :
    e \in pending ~> e \in called \cup ToSet(tasks) \cup cancelled
=============================================================================
