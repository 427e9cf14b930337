---------------------------- MODULE TimerProofs ----------------------------
(***************************************************************************)
(* Theorems about Timer, for any set of events, finite or not, any         *)
(* intervals and any slack.                                                *)
(***************************************************************************)
EXTENDS Timer, WellFoundedInduction, TLAPS

USE TimerAssumption

(***************************************************************************)
(* The first event.  The times left are bounded below, so there is one.    *)
(***************************************************************************)

\* Every set of naturals that is not empty has a least member.
LEMMA LeastNatural ==
  ASSUME NEW T, T \subseteq Nat, T # {}
  PROVE  \E x \in T : \A y \in T : x <= y
<1> DEFINE R == {ss \in Nat \X Nat : ss[1] < ss[2]}
<1>1. IsWellFoundedOn(R, Nat)
  BY NatLessThanWellFounded DEF OpToRel
<1>2. \A x, y \in Nat : y < x => <<y, x>> \in R
  OBVIOUS
<1> HIDE DEF R
<1>3. PICK x \in T : \A y \in T : <<y, x>> \notin R
  BY <1>1, WFMin
<1>4. \A y \in T : ~(y < x)
  BY <1>2, <1>3
<1>5. \A y \in T : x <= y
  BY <1>4
<1> QED
  BY <1>5

\* So does every set of integers that is bounded below: Min is its least.
LEMMA MinOfBounded ==
  ASSUME NEW T, T \subseteq Int, T # {}, NEW low \in Int, \A y \in T : low <= y
  PROVE  Min(T) \in T /\ \A y \in T : Min(T) <= y
<1> DEFINE U == {y - low : y \in T}
<1>0. \A y \in T : y - low \in Nat /\ y - low \in U
  OBVIOUS
<1>1. U \subseteq Nat /\ U # {}
  BY <1>0
<1>2. PICK u \in U : \A v \in U : u <= v
  BY <1>1, LeastNatural
<1>3. PICK x \in T : u = x - low
  OBVIOUS
<1>4. ASSUME NEW y \in T PROVE x <= y
  <2>1. x - low <= y - low
    BY <1>0, <1>2, <1>3
  <2>2. x \in Int /\ y \in Int
    OBVIOUS
  <2> QED
    BY <2>1, <2>2
<1>5. \E z \in T : \A y \in T : z <= y
  BY <1>4
<1> QED
  BY <1>5 DEF Min

\* First is the time of one of the events, and none is earlier.
LEMMA FirstProperties ==
  ASSUME NEW events, events # {}, NEW time, \A e \in events : time[e] \in Int,
         NEW low \in Int, \A e \in events : low <= time[e]
  PROVE  /\ First(events, time) \in Int
         /\ \E e \in events : First(events, time) = time[e]
         /\ \A e \in events : First(events, time) <= time[e]
<1> DEFINE T == {time[e] : e \in events}
<1>1. T \subseteq Int /\ T # {} /\ \A y \in T : low <= y
  OBVIOUS
<1> HIDE DEF T
<1>2. Min(T) \in T /\ \A y \in T : Min(T) <= y
  BY <1>1, MinOfBounded
<1> QED
  BY <1>1, <1>2 DEF First, T

(***************************************************************************)
(* The inductive invariant.  For each pending event the timerfd expires no *)
(* later than the event is due, or no later than the slack and soon enough *)
(* that the event is late by no more than the slack.                       *)
(***************************************************************************)
CoverInv ==
  /\ pending \subseteq Events
  /\ left \in [Events -> Int]
  /\ fd \in Int /\ fd >= Off
  /\ \A e \in pending :
       /\ fd # Off
       /\ fd <= left[e] \/ (fd <= Slack /\ fd <= Slack + left[e])

\* The timerfd when it is set for events that are due in the future, or now.
LEMMA ResetCovers ==
  ASSUME NEW events, events # {}, NEW time,
         \A e \in events : time[e] \in Int /\ 0 <= time[e], NEW old
  PROVE  LET new == ResetArriveTime(events, time, old)
         IN  /\ new \in Int /\ new > 0
             /\ \A e \in events : new <= time[e] \/ (new <= Slack /\ new <= Slack + time[e])
<1>1. /\ First(events, time) \in Int
      /\ \A e \in events : First(events, time) <= time[e]
  <2>1. 0 \in Int /\ \A e \in events : time[e] \in Int
    OBVIOUS
  <2> QED
    BY <2>1, FirstProperties
<1>2. CASE First(events, time) > 0
  BY <1>1, <1>2 DEF ResetArriveTime
<1>3. CASE ~(First(events, time) > 0)
  BY <1>3 DEF ResetArriveTime
<1> QED
  BY <1>2, <1>3

\* At the start no event is pending.
LEMMA InitCoverInv == Init => CoverInv
BY DEF Init, CoverInv, Off

\* Adding, cancelling, running and repeating events and the passing of time keep the
\* timerfd early enough for every pending event, not for the first alone.
LEMMA NextCoverInv == CoverInv /\ [Next]_vars => CoverInv'
<1> SUFFICES ASSUME CoverInv, [Next]_vars PROVE CoverInv'
  OBVIOUS
<1> USE DEF CoverInv, Off
<1>1. ASSUME NEW e \in Events, NEW delay \in 0..Interval[e], AddTimerEvent(e, delay)
      PROVE  CoverInv'
  <2> DEFINE t == Interval[e] - delay
  <2>1. t \in Int /\ 0 <= t
    OBVIOUS
  <2>2. /\ pending' = pending \cup {e} /\ left' \in [Events -> Int] /\ left'[e] = t
        /\ \A x \in pending : left'[x] = left[x]
    BY <1>1, <2>1 DEF AddTimerEvent
  <2> HIDE DEF t
  <2>3. /\ \A x \in pending : left[x] \in Int /\ -Slack <= left[x]
        /\ -Slack \in Int
    OBVIOUS
  <2>4. CASE pending = {} \/ First(pending, left) > t
    <3>1. \A x \in pending' : left'[x] \in Int /\ 0 <= left'[x]
      <4>1. CASE pending = {}
        BY <2>1, <2>2, <4>1
      <4>2. CASE pending # {} /\ First(pending, left) > t
        <5>1. /\ First(pending, left) \in Int
              /\ \A x \in pending : First(pending, left) <= left[x]
          BY <2>3, <4>2, FirstProperties
        <5> QED
          BY <2>1, <2>2, <2>3, <4>2, <5>1
      <4> QED
        BY <2>4, <4>1, <4>2
    <3>2. fd' = ResetArriveTime(pending', left', fd)
      BY <1>1, <2>4 DEF AddTimerEvent, t
    <3>3. pending' # {}
      BY <2>2
    <3> QED
      BY <2>2, <3>1, <3>2, <3>3, ResetCovers
  <2>5. CASE pending # {} /\ ~(First(pending, left) > t)
    <3>1. fd' = fd
      BY <1>1, <2>5 DEF AddTimerEvent, t
    <3>2. PICK x \in pending : First(pending, left) = left[x]
      BY <2>3, <2>5, FirstProperties
    <3>3. left[x] <= t
      BY <2>1, <2>3, <2>5, <3>2
    <3>4. fd <= t \/ (fd <= Slack /\ fd <= Slack + t)
      BY <2>1, <2>3, <3>3
    <3> QED
      BY <2>2, <2>5, <3>1, <3>4
  <2> QED
    BY <2>4, <2>5
<1>2. ASSUME NEW e \in Events, DeleteTimerEvent(e) PROVE CoverInv'
  BY <1>2 DEF DeleteTimerEvent
<1>3. CASE OnTimer
  <2> DEFINE due   == {e \in pending : left[e] <= 0}
             ready == due \ cancelled
             again == ready \cap Repeated
  <2>1. /\ left' = [e \in Events |-> IF e \in again THEN Interval[e] ELSE left[e]]
        /\ pending' = (pending \ due) \cup again
        /\ fd' = ResetArriveTime(pending', left', IF fd = 0 THEN Off ELSE fd)
    BY <1>3 DEF OnTimer
  <2>2. left' \in [Events -> Int] /\ pending' \subseteq Events
    BY <2>1
  <2>3. \A e \in pending' : left'[e] \in Int /\ 0 <= left'[e]
    BY <2>1
  <2>4. CASE pending' = {}
    <3>1. fd' = IF fd = 0 THEN Off ELSE fd
      BY <2>1, <2>4 DEF ResetArriveTime
    <3> QED
      BY <2>2, <2>4, <3>1
  <2>5. CASE pending' # {}
    <3> HIDE DEF due, ready, again
    <3>1. /\ fd' \in Int /\ fd' > 0
          /\ \A e \in pending' :
               fd' <= left'[e] \/ (fd' <= Slack /\ fd' <= Slack + left'[e])
      BY <2>1, <2>3, <2>5, ResetCovers
    <3> QED
      BY <2>2, <3>1
  <2> QED
    BY <2>4, <2>5
<1>4. CASE Tick
  BY <1>4 DEF Tick
<1>5. CASE Dispatch \/ RunCallback \/ UNCHANGED vars
  BY <1>5 DEF Dispatch, RunCallback, vars
<1> QED
  BY <1>1, <1>2, <1>3, <1>4, <1>5 DEF Next

(***************************************************************************)
(* The theorems                                                            *)
(***************************************************************************)

\* The greater of two times.
LEMMA MaxOfTwo ==
  ASSUME NEW a \in Int, NEW b \in Int
  PROVE  Max({a, b}) = IF a >= b THEN a ELSE b
<1>1. \E x \in {a, b} : \A y \in {a, b} : x >= y
  OBVIOUS
<1> QED
  BY <1>1 DEF Max

\* The first pending event is one of those that are covered.
LEMMA CoverInvImplies == CoverInv => FirstIsCovered
<1> SUFFICES ASSUME CoverInv, pending # {}
             PROVE  fd # Off /\ fd <= Max({Slack, First(pending, left)})
  BY DEF FirstIsCovered
<1>1. /\ -Slack \in Int
      /\ \A e \in pending : left[e] \in Int /\ -Slack <= left[e]
  BY DEF CoverInv, Off
<1>2. PICK e \in pending : First(pending, left) = left[e]
  BY <1>1, FirstProperties
<1>3. Max({Slack, left[e]}) = IF Slack >= left[e] THEN Slack ELSE left[e]
  BY <1>1, MaxOfTwo
<1> QED
  BY <1>1, <1>2, <1>3 DEF CoverInv

\* However events are added, cancelled and put back, the timerfd is set while
\* one is pending, no later than for the first, or the slack of an overdue one
\* (timer.cc, resetArriveTime and its callers).
THEOREM TimerfdCoversFirst == Spec => []FirstIsCovered
BY InitCoverInv, NextCoverInv, CoverInvImplies, PTL DEF Spec

\* A loop that runs onTimer as soon as epoll reports the timerfd serves no
\* event later than the slack of resetArriveTime after it is due.
LateBySlackAtMost == \A e \in pending : left[e] >= -Slack

\* No pending event is ever later than the slack (timer.cc, resetArriveTime and onTimer).
THEOREM LateByAtMostSlack == Spec => []LateBySlackAtMost
<1>1. CoverInv => LateBySlackAtMost
  BY DEF CoverInv, LateBySlackAtMost, Off
<1> QED
  BY <1>1, InitCoverInv, NextCoverInv, PTL DEF Spec

\* docs/known-regressions.md, BUG-LIFETIME-001: deleteTimerEvent takes an event
\* off for good, also one that onTimer has taken out and its callback cancels.
THEOREM CancelledStaysUnarmed == Spec => []CancelledIsNotArmed
<1>1. Init => CancelledIsNotArmed
  BY DEF Init, CancelledIsNotArmed
<1>2. ASSUME CancelledIsNotArmed, [Next]_vars PROVE CancelledIsNotArmed'
  <2> USE <1>2 DEF CancelledIsNotArmed
  <2>1. ASSUME NEW e \in Events, NEW delay \in 0..Interval[e], AddTimerEvent(e, delay)
        PROVE  CancelledIsNotArmed'
    BY <2>1 DEF AddTimerEvent
  <2>2. ASSUME NEW e \in Events, DeleteTimerEvent(e) PROVE CancelledIsNotArmed'
    BY <2>2 DEF DeleteTimerEvent
  <2>3. CASE OnTimer
    BY <2>3 DEF OnTimer
  <2>4. CASE Dispatch \/ RunCallback \/ Tick \/ UNCHANGED vars
    BY <2>4 DEF Dispatch, RunCallback, Tick, vars
  <2> QED
    BY <2>1, <2>2, <2>3, <2>4 DEF Next
<1> QED
  BY <1>1, <1>2, PTL DEF Spec
=============================================================================
