-------------------------- MODULE RpcChannelProofs --------------------------
(***************************************************************************)
(* Proofs about RpcChannel, for every set of cancelling threads and every  *)
(* bound on what the peer sends.                                           *)
(***************************************************************************)
EXTENDS RpcChannel, WellFoundedInduction, TLAPS

(***************************************************************************)
(* The operators on the controller and the connection preserve their types *)
(***************************************************************************)

\* Every critical section of RpcController keeps the controller well formed.
LEMMA ControllerTypes ==
  ASSUME NEW k \in ControllerState, NEW e \in Errors
  PROVE  /\ SetError(k, e) \in ControllerState
         /\ SetFinished(k) \in ControllerState
         /\ TakeCallbacks(k) \in ControllerState
         /\ SetCancelCallback(k) \in ControllerState
         /\ NotifyOnCancel(k) \in ControllerState
         /\ ClearCancelCallback(k) \in ControllerState
BY DEF ControllerState, SetError, SetFinished, TakeCallbacks,
       SetCancelCallback, NotifyOnCancel, ClearCancelCallback

\* The Fd_Event and epoll operations keep a connection well formed.
LEMMA FdEventTypes ==
  ASSUME NEW c \in ConnectionState, NEW s \in BOOLEAN,
         NEW ev \in {"IN", "OUT"}, NEW cb \in Callbacks, NEW er \in Callbacks
  PROVE  /\ Listen(c, ev, cb, er) \in ConnectionState
         /\ Cancle(c, ev) \in ConnectionState
         /\ AddEpollEvent(c, s) \in ConnectionState
         /\ DeleteEpollEvent(c) \in ConnectionState
         /\ ResetFdEvent(c) \in ConnectionState
<1>1. Listen(c, ev, cb, er) \in ConnectionState
  <2>1. c.want \cup {ev} \in SUBSET {"IN", "OUT"}
    BY DEF ConnectionState
  <2>2. CASE ev = "IN"
    BY <2>1, <2>2 DEF Listen, ConnectionState
  <2>3. CASE ev = "OUT"
    BY <2>1, <2>3 DEF Listen, ConnectionState
  <2> QED BY <2>2, <2>3
<1>2. Cancle(c, ev) \in ConnectionState
  BY DEF Cancle, ConnectionState
<1>3. AddEpollEvent(c, s) \in ConnectionState
  BY DEF AddEpollEvent, ConnectionState
<1>4. DeleteEpollEvent(c) \in ConnectionState
  BY DEF DeleteEpollEvent, ConnectionState
<1>5. ResetFdEvent(c) \in ConnectionState
  BY DEF ResetFdEvent, ConnectionState, Callbacks
<1> QED BY <1>1, <1>2, <1>3, <1>4, <1>5

\* So do the connection's own methods.
LEMMA ConnectionTypes ==
  ASSUME NEW c \in ConnectionState, NEW s \in BOOLEAN
  PROVE  /\ SetConnected(c) \in ConnectionState
         /\ Clear(c) \in ConnectionState
         /\ ListenWrite(c, s) \in ConnectionState
         /\ ListenRead(c, s) \in ConnectionState
         /\ WriteMessage(c, s) \in ConnectionState
         /\ ReadMessage(c, s) \in ConnectionState
<1>0. /\ "onWrite" \in Callbacks /\ "onRead" \in Callbacks
      /\ "clearCb" \in Callbacks
  BY DEF Callbacks
<1>1. SetConnected(c) \in ConnectionState
  BY DEF SetConnected, ConnectionState
<1>2. Clear(c) \in ConnectionState
  <2>1. DeleteEpollEvent(c) \in ConnectionState
    BY FdEventTypes, <1>0
  <2>2. ResetFdEvent(DeleteEpollEvent(c)) \in ConnectionState
    BY FdEventTypes, <2>1, <1>0
  <2> QED BY <2>2 DEF Clear, ConnectionState
<1>3. ASSUME NEW d \in ConnectionState
      PROVE  ListenWrite(d, s) \in ConnectionState /\ ListenRead(d, s) \in ConnectionState
  <2>1. /\ Listen(d, "OUT", "onWrite", "clearCb") \in ConnectionState
        /\ Listen(d, "IN", "onRead", "clearCb") \in ConnectionState
    BY FdEventTypes, <1>0
  <2>2. /\ AddEpollEvent(Listen(d, "OUT", "onWrite", "clearCb"), s) \in ConnectionState
        /\ AddEpollEvent(Listen(d, "IN", "onRead", "clearCb"), s) \in ConnectionState
    BY FdEventTypes, <2>1, <1>0
  <2> QED BY <2>2 DEF ListenWrite, ListenRead
<1>4. [c EXCEPT !.wdone = TRUE] \in ConnectionState /\ [c EXCEPT !.rdone = TRUE] \in ConnectionState
  BY DEF ConnectionState
<1> QED BY <1>1, <1>2, <1>3, <1>4 DEF WriteMessage, ReadMessage

(***************************************************************************)
(* Type correctness                                                        *)
(***************************************************************************)

\* Queueing a cancellation keeps the queue a sequence of tasks.
LEMMA AddTaskTypes ==
  ASSUME TypeOK, AddTask("cancel", TRUE)
  PROVE  pending' \in Seq(Tasks) /\ wake' \in BOOLEAN
<1>1. "cancel" \in Tasks
  BY DEF Tasks
<1>2. Append(pending, "cancel") \in Seq(Tasks)
  BY <1>1 DEF TypeOK
<1>3. wake' \in BOOLEAN
  BY DEF AddTask
<1> QED BY <1>2, <1>3 DEF AddTask, TypeOK

\* Popping a task leaves a sequence of tasks.
LEMMA PopType ==
  ASSUME NEW task, TypeOK, NextTask(task)
  PROVE  batch' \in Seq(Tasks)
BY DEF TypeOK, NextTask

\* An attempt to complete with a known error keeps the call well formed.
LEMMA AttemptTypes ==
  ASSUME NEW e \in Errors, TypeOK, TryComplete(e) \/ Continue
  PROVE  /\ pc' \in {"run", "returned", "release"}
         /\ cause' \in Errors
         /\ completed' \in BOOLEAN
         /\ ctl' \in ControllerState
BY ControllerTypes
   DEF TypeOK, TryComplete, Begin, Continue, Resume

\* The error codes the tasks complete a call with are error codes.
LEMMA ErrorTypes ==
  /\ {"none", "CHANNEL_INIT", "CANCELLED", "PEER_ADDR", "SERIALIZE", "TIMEOUT",
      "TRANSPORT", "FAILED_CONNECT"} \subseteq Errors
  /\ ConnectError \in Errors
  /\ \A f : ResponseError(f) \in Errors
BY DEF Errors, ConnectError, ResponseError

\* Every step of every thread, of the peer and of the clock keeps TypeOK.
LEMMA TypeStep == TypeOK /\ [Next]_vars => TypeOK'
<1> SUFFICES ASSUME TypeOK, [Next]_vars PROVE TypeOK'
  OBVIOUS
<1> USE ErrorTypes
<1>1. CASE SyncError \/ SyncFinish \/ SyncRun
  <2>1. CASE SyncError
    BY <2>1, ControllerTypes
       DEF TypeOK, SyncError, loopVars, timerVars, userVars
  <2>2. CASE SyncFinish
    BY <2>2, ControllerTypes
       DEF TypeOK, SyncFinish, loopVars, timerVars, userVars
  <2>3. CASE SyncRun
    BY <2>3 DEF TypeOK, SyncRun, loopVars, timerVars, userVars
  <2> QED BY <1>1, <2>1, <2>2, <2>3
<1>2. CASE CheckCall \/ Discover
  BY <1>2 DEF TypeOK, CheckCall, Discover,
     AskCentre, LookupReturns, ResolvePeer, FailAtOnce, loopVars, timerVars,
              userVars
<1>3. CASE PrepareCall
  <2>1. \A b \in BOOLEAN : NewConnection(b) \in ConnectionState
    BY DEF NewConnection, ConnectionState, Callbacks
  <2>2. conn' \in ConnectionState /\ client' \in [fdEvent : BOOLEAN, connErr : Errors]
    BY <1>3, <2>1 DEF TypeOK, PrepareCall
  <2>3. stop' \in BOOLEAN /\ looping' \in BOOLEAN
    BY <1>3 DEF TypeOK, PrepareCall
  <2> QED BY <1>3, <2>2, <2>3 DEF TypeOK, PrepareCall, timerVars, userVars
<1>4. CASE RegisterCancel
  <2>1. ctl' \in ControllerState
    BY <1>4, ControllerTypes DEF TypeOK, RegisterCancel
  <2>2. pending' \in Seq(Tasks) /\ wake' \in BOOLEAN
    BY <1>4, AddTaskTypes DEF TypeOK, RegisterCancel
  <2> QED BY <1>4, <2>1, <2>2 DEF TypeOK, RegisterCancel, timerVars, userVars
<1>5. CASE ArmTimer
  <2>1. conn' \in ConnectionState
    BY <1>5 DEF TypeOK, ArmTimer, ConnectionState
  <2> QED BY <1>5, <2>1 DEF TypeOK, ArmTimer, loopVars, timerVars, userVars
<1>6. CASE ConnectInProgress
  <2>1. Listen(conn, "OUT", "connectCb", "connectCb") \in ConnectionState
    BY FdEventTypes DEF TypeOK, Callbacks
  <2>2. conn' \in ConnectionState
    BY <1>6, <2>1, FdEventTypes DEF TypeOK, ConnectInProgress, Callbacks
  <2>3. net' \in NetState
    BY <1>6 DEF TypeOK, ConnectInProgress, NetState, Links
  <2>4. looping' \in BOOLEAN
    BY <1>6 DEF ConnectInProgress
  <2> QED BY <1>6, <2>2, <2>3, <2>4
          DEF TypeOK, ConnectInProgress, timerVars, userVars
<1>7. CASE ConnectAtOnce
  <2>1. conn' \in ConnectionState
    <3>1. SetConnected(conn) \in ConnectionState
      BY ConnectionTypes DEF TypeOK
    <3> QED BY <1>7, <3>1, ConnectionTypes
            DEF TypeOK, ConnectAtOnce, SendRequest
  <2>2. net' \in NetState
    BY <1>7 DEF TypeOK, ConnectAtOnce, NetState, Links
  <2> QED BY <1>7, <2>1, <2>2, AttemptTypes
          DEF TypeOK, ConnectAtOnce, loopVars, timerVars, userVars
<1>8. CASE ConnectFails
  BY <1>8, AttemptTypes
     DEF TypeOK, ConnectFails, loopVars, timerVars, userVars
<1>9. CASE Release
  <2>1. conn' \in ConnectionState
    BY <1>9 DEF TypeOK, Release, ConnectionState
  <2> QED BY <1>9, <2>1, ControllerTypes
          DEF TypeOK, Release, loopVars, timerVars, userVars
<1>10. CASE Record
  <2>1. SetError(ctl, cause) \in ControllerState
    BY ControllerTypes DEF TypeOK
  <2> QED BY <1>10, <2>1, ControllerTypes
          DEF TypeOK, Record, loopVars, timerVars, userVars
<1>11. CASE Teardown
  <2>1. [conn EXCEPT !.disc = FALSE] \in ConnectionState
    BY DEF TypeOK, ConnectionState
  <2> QED BY <1>11, <2>1, ConnectionTypes
          DEF TypeOK, Teardown, timerVars, userVars
<1>12. CASE RunClosure
  BY <1>12 DEF TypeOK, RunClosure, Resume, loopVars, timerVars, userVars
<1>13. CASE LoopSwap \/ BatchEnd \/ DispatchEnd
  <2>1. <<>> \in Seq(Tasks)
    OBVIOUS
  <2>2. batch' \in Seq(Tasks) /\ pending' \in Seq(Tasks)
    BY <1>13, <2>1 DEF TypeOK, LoopSwap, BatchEnd, DispatchEnd, loopVars
  <2>3. looping' \in BOOLEAN
    BY <1>13 DEF TypeOK, LoopSwap, BatchEnd, DispatchEnd, loopVars
  <2> QED BY <1>13, <2>2, <2>3
          DEF TypeOK, LoopSwap, BatchEnd, DispatchEnd, loopVars, timerVars,
              userVars
<1>14. CASE PollWait
  BY <1>14 DEF TypeOK, PollWait, Ready, timerVars, userVars
<1>15. CASE DispatchTimer \/ DispatchWakeup
  <2>1. <<"onTimer">> \in Seq(Tasks) /\ <<"drainWakeup">> \in Seq(Tasks)
    BY DEF Tasks
  <2>2. /\ pending \o <<"onTimer">> \in Seq(Tasks)
        /\ pending \o <<"drainWakeup">> \in Seq(Tasks)
    BY <2>1 DEF TypeOK
  <2>3. pending' \in Seq(Tasks)
    BY <1>15, <2>2 DEF TypeOK, DispatchTimer, DispatchWakeup, Enqueue
  <2>4. events' \in SUBSET Event
    BY <1>15 DEF TypeOK, DispatchTimer, DispatchWakeup
  <2> QED BY <1>15, <2>3, <2>4 DEF TypeOK, DispatchTimer, DispatchWakeup,
                                   callVars, timerVars, userVars
<1>16. CASE DispatchSocket
  <2>1. PICK e \in events : /\ events' = events \ {e}
                            /\ Enqueue(SocketTasks(conn, e.flags))
                            /\ \/ conn' = DeleteEpollEvent(conn)
                               \/ conn' = conn
    BY <1>16 DEF DispatchSocket
  <2>2. SocketTasks(conn, e.flags) \in Seq(Tasks)
    <3>1. conn.inCb \in Tasks /\ conn.outCb \in Tasks /\ conn.errCb \in Tasks
      BY DEF TypeOK, ConnectionState, Tasks
    <3>2. /\ <<>> \in Seq(Tasks) /\ <<conn.inCb>> \in Seq(Tasks)
          /\ <<conn.outCb>> \in Seq(Tasks) /\ <<conn.errCb>> \in Seq(Tasks)
      BY <3>1
    <3>3. \A r, s, t \in Seq(Tasks) : r \o s \o t \in Seq(Tasks)
      OBVIOUS
    <3> QED BY <3>2, <3>3 DEF SocketTasks
  <2>3. conn' \in ConnectionState
    BY <2>1, FdEventTypes DEF TypeOK, Callbacks
  <2>4. pending' \in Seq(Tasks)
    BY <2>1, <2>2 DEF TypeOK, Enqueue
  <2> QED BY <1>16, <2>1, <2>3, <2>4
          DEF TypeOK, DispatchSocket, callVars, timerVars, userVars
<1>17. CASE TaskNothing \/ TaskDrainWakeup
  <2>1. batch' \in Seq(Tasks)
    BY <1>17, PopType DEF TaskNothing, TaskDrainWakeup
  <2>2. wake' \in BOOLEAN
    BY <1>17 DEF TypeOK, TaskNothing, TaskDrainWakeup
  <2>3. UNCHANGED <<callVars, ctl, conn, client, timerVars, pending, events,
                    stop, looping, net, userVars>>
    BY <1>17 DEF TaskNothing, TaskDrainWakeup
  <2> QED BY <2>1, <2>2, <2>3 DEF TypeOK, callVars, timerVars, userVars
<1>18. CASE TaskCancel
  BY <1>18, PopType, AttemptTypes DEF TypeOK, TaskCancel, timerVars, userVars
<1>19. CASE TaskOnTimer
  BY <1>19, PopType, AttemptTypes DEF TypeOK, TaskOnTimer, userVars
<1>20. ASSUME ClearConnection
       PROVE  /\ conn' \in ConnectionState
              /\ pc' \in {"run", "returned", "release"}
              /\ cause' \in Errors
              /\ completed' \in BOOLEAN
              /\ ctl' \in ControllerState
  BY <1>20, ConnectionTypes, AttemptTypes DEF TypeOK, ClearConnection
<1>21. CASE TaskError
  BY <1>21, <1>20, PopType DEF TypeOK, TaskError, timerVars, userVars
<1>22. CASE TaskConnect
  <2> DEFINE idle == DeleteEpollEvent(Cancle(conn, "OUT"))
  <2>1. Cancle(conn, "OUT") \in ConnectionState
    BY FdEventTypes DEF TypeOK, Callbacks
  <2>2. idle \in ConnectionState
    BY <2>1, FdEventTypes DEF TypeOK, Callbacks
  <2>3. SetConnected(idle) \in ConnectionState
    BY <2>2, ConnectionTypes DEF TypeOK
  <2>4. SendRequest(SetConnected(idle)) \in ConnectionState
    BY <2>3, ConnectionTypes DEF TypeOK, SendRequest
  <2>5. [idle EXCEPT !.disc = FALSE] \in ConnectionState
    BY <2>2 DEF ConnectionState
  <2>6. Clear([idle EXCEPT !.disc = FALSE]) \in ConnectionState
    BY <2>5, ConnectionTypes DEF TypeOK
  <2>7. /\ conn' \in ConnectionState
        /\ client' \in [fdEvent : BOOLEAN, connErr : Errors]
    <3>1. \/ conn' = SendRequest(SetConnected(idle)) /\ UNCHANGED client
          \/ /\ conn' = Clear([idle EXCEPT !.disc = FALSE])
             /\ client' = [fdEvent |-> FALSE, connErr |-> ConnectError]
      BY <1>22 DEF TaskConnect
    <3>2. [fdEvent |-> FALSE, connErr |-> ConnectError]
            \in [fdEvent : BOOLEAN, connErr : Errors]
      OBVIOUS
    <3> HIDE DEF idle
    <3> QED BY <3>1, <3>2, <2>4, <2>6 DEF TypeOK
  <2>8. TryComplete(ConnectError) \/ Continue
    BY <1>22 DEF TaskConnect
  <2> QED BY <1>22, <2>7, <2>8, PopType, AttemptTypes
          DEF TypeOK, TaskConnect, timerVars, userVars
<1>23. CASE TaskOnWrite
  <2>1. RequestSent(conn) \in ConnectionState
    <3>1. [conn EXCEPT !.unsent = FALSE] \in ConnectionState
      BY DEF TypeOK, ConnectionState
    <3>2. Cancle([conn EXCEPT !.unsent = FALSE], "OUT") \in ConnectionState
      BY <3>1, FdEventTypes DEF TypeOK, Callbacks
    <3>3. AddEpollEvent(Cancle([conn EXCEPT !.unsent = FALSE], "OUT"), stop)
            \in ConnectionState
      BY <3>2, FdEventTypes DEF TypeOK, Callbacks
    <3>4. ReadMessage(AddEpollEvent(Cancle([conn EXCEPT !.unsent = FALSE],
                                           "OUT"), stop), stop)
            \in ConnectionState
      BY <3>3, ConnectionTypes DEF TypeOK
    <3>5. ASSUME NEW c \in ConnectionState
          PROVE  [c EXCEPT !.wdone = FALSE] \in ConnectionState
      BY DEF ConnectionState
    <3> QED BY <3>3, <3>4, <3>5 DEF RequestSent
  <2>2. [conn EXCEPT !.unsent = TRUE] \in ConnectionState
    BY DEF TypeOK, ConnectionState
  <2>3. \/ ClearConnection /\ UNCHANGED net
        \/ /\ Continue
           /\ conn' \in ConnectionState
           /\ \E b \in BOOLEAN : net' = [net EXCEPT !.req = b]
    <3>1. PICK fits \in BOOLEAN, all \in BOOLEAN :
            \/ Continue /\ UNCHANGED <<conn, net>>
            \/ ClearConnection /\ UNCHANGED net
            \/ /\ Continue
               /\ \/ conn' = RequestSent(conn)
                  \/ conn' = [conn EXCEPT !.unsent = TRUE]
               /\ net' = [net EXCEPT !.req = @ \/ (all /\ (conn.unsent \/ (conn.wdone /\ fits)))]
      BY <1>23 DEF TaskOnWrite
    <3>2. CASE Continue /\ UNCHANGED <<conn, net>>
      <4>1. net' = [net EXCEPT !.req = net.req] /\ net.req \in BOOLEAN
        BY <3>2 DEF TypeOK, NetState
      <4> QED BY <3>2, <4>1 DEF TypeOK
    <3>3. CASE ClearConnection /\ UNCHANGED net
      BY <3>3
    <3>4. CASE /\ Continue
               /\ \/ conn' = RequestSent(conn)
                  \/ conn' = [conn EXCEPT !.unsent = TRUE]
               /\ net' = [net EXCEPT !.req = @ \/ (all /\ (conn.unsent \/ (conn.wdone /\ fits)))]
      <4>1. (net.req \/ (all /\ (conn.unsent \/ (conn.wdone /\ fits)))) \in BOOLEAN
        OBVIOUS
      <4> QED BY <3>4, <4>1, <2>1, <2>2
    <3> QED BY <3>1, <3>2, <3>3, <3>4
  <2>4. net' \in NetState
    BY <2>3 DEF TypeOK, NetState
  <2> QED BY <1>23, <1>20, <2>3, <2>4, PopType, AttemptTypes
          DEF TypeOK, TaskOnWrite, timerVars, userVars
<1>24. CASE TaskOnRead
  <2>1. [conn EXCEPT !.rdone = FALSE] \in ConnectionState
    BY DEF TypeOK, ConnectionState
  <2>2. ASSUME Execute(net.rx)
        PROVE  /\ conn' \in ConnectionState
               /\ pc' \in {"run", "returned", "release"}
               /\ cause' \in Errors
               /\ completed' \in BOOLEAN
               /\ ctl' \in ControllerState
    BY <2>1, <2>2, AttemptTypes DEF TypeOK, Execute
  <2>3. /\ \/ Continue /\ UNCHANGED conn
           \/ ClearConnection
           \/ Execute(net.rx)
        /\ net' = [net EXCEPT !.rx = <<>>] \/ net' = net
    BY <1>24 DEF TaskOnRead
  <2>4. net' \in NetState
    <3>1. <<>> \in Seq(Frames)
      OBVIOUS
    <3> QED BY <2>3, <3>1 DEF TypeOK, NetState
  <2> QED BY <1>24, <1>20, <2>2, <2>3, <2>4, PopType, AttemptTypes
          DEF TypeOK, TaskOnRead, timerVars, userVars
<1>25. CASE \E t \in Cancellers : Canceller(t)
  <2>1. PICK t \in Cancellers : Canceller(t)
    BY <1>25
  <2>2. CASE StartCancel(t)
    BY <2>2, ControllerTypes
       DEF TypeOK, StartCancel, callVars, loopVars, timerVars
  <2>3. CASE CancelNotifies(t)
    BY <2>3 DEF TypeOK, CancelNotifies, callVars, loopVars, timerVars
  <2>4. CASE CancelEnqueues(t)
    BY <2>4, AddTaskTypes DEF TypeOK, CancelEnqueues, callVars, timerVars
  <2> QED BY <2>1, <2>2, <2>3, <2>4 DEF Canceller
<1>26. CASE UserNotifyOnCancel
  BY <1>26, ControllerTypes
     DEF TypeOK, UserNotifyOnCancel, callVars, loopVars, timerVars
<1>27. CASE Handshake \/ PeerCloses
  <2>1. net' \in NetState
    BY <1>27 DEF TypeOK, NetState, Handshake, PeerCloses, Links
  <2> QED BY <1>27, <2>1 DEF TypeOK, Handshake, PeerCloses, callVars, loopVars,
                             timerVars, userVars
<1>28. CASE PeerSends
  <2>1. PICK f \in Frames :
          net' = [net EXCEPT !.rx = Append(@, f), !.sent = @ \cup {f},
                             !.room = @ - 1]
    BY <1>28 DEF PeerSends
  <2>2. net.room - 1 \in Nat
    BY <1>28 DEF PeerSends, TypeOK, NetState
  <2>3. net.rx \in Seq(Frames) /\ Append(net.rx, f) \in Seq(Frames)
    BY DEF TypeOK, NetState
  <2>4. net' \in NetState
    BY <2>1, <2>2, <2>3 DEF TypeOK, NetState
  <2> QED BY <1>28, <2>4 DEF TypeOK, PeerSends, callVars, loopVars, timerVars,
                             userVars
<1>29. CASE DeadlinePasses
  BY <1>29 DEF TypeOK, DeadlinePasses, callVars, loopVars, userVars
<1>30. CASE UNCHANGED vars
  BY <1>30 DEF TypeOK, vars, callVars, loopVars, timerVars, userVars
<1> QED
  BY <1>1, <1>2, <1>3, <1>4, <1>5, <1>6, <1>7, <1>8, <1>9, <1>10, <1>11,
     <1>12, <1>13, <1>14, <1>15, <1>16, <1>17, <1>18, <1>19, <1>21, <1>22,
     <1>23, <1>24, <1>25, <1>26, <1>27, <1>28, <1>29, <1>30
  DEF Next, CallingThread, Setup, Completion, Loop, RunTask, Peer, Finished

\* The initial states are well formed.
LEMMA TypeCorrectInit == Init => TypeOK
<1>1. NewConnection(FALSE) \in ConnectionState
  BY DEF NewConnection, ConnectionState, Callbacks
<1>2. <<>> \in Seq(Tasks) /\ <<"stale">> \in Seq(Tasks)
  BY DEF Tasks
<1>3. NewController \in ControllerState
  BY DEF NewController, ControllerState, Errors
<1>4. [link |-> "idle", req |-> FALSE, rx |-> <<>>, sent |-> {},
       room |-> MaxFrames, down |-> "no"] \in NetState
  BY MaxFramesAssumption DEF NetState, Links
<1>5. Init => stop \in BOOLEAN /\ pending \in Seq(Tasks)
  BY <1>2 DEF Init
<1>6. Init => /\ client \in [fdEvent : BOOLEAN, connErr : Errors]
              /\ events \in SUBSET Event
              /\ wake \in BOOLEAN
  BY <1>5 DEF Init, Errors
<1>7. Init => pc = "start" /\ cause \in Errors
  BY DEF Init, Errors
<1>8. Init => completed \in BOOLEAN /\ looping \in BOOLEAN
  BY DEF Init
<1>9. Init => registered \in BOOLEAN
  BY DEF Init
<1>10. Init => runs \in Nat /\ notified \in Nat
  BY DEF Init
<1>11. Init => conn \in ConnectionState
  BY <1>1 DEF Init
<1>12. Init => ctl \in ControllerState
  BY <1>3 DEF Init
<1>13. Init => net \in NetState
  BY <1>4 DEF Init
<1>14. Init => timer = "off" /\ timerfd = "off"
  BY DEF Init
<1>15. Init => batch \in Seq(Tasks)
  BY <1>2 DEF Init
<1>16. Init => cpc \in [Cancellers -> {"idle", "both", "notify", "enqueue",
                                      "done"}]
  BY DEF Init
<1> QED BY <1>5, <1>6, <1>7, <1>8, <1>9, <1>10, <1>11, <1>12, <1>13, <1>14,
           <1>15, <1>16 DEF TypeOK

\* Type correctness of a call: Spec keeps every variable in its type.
THEOREM TypeCorrect == Spec => []TypeOK
BY TypeCorrectInit, TypeStep, PTL DEF Spec

(***************************************************************************)
(* At most one completion, and quiet when it happens                       *)
(*                                                                         *)
(* Neither property is inductive.  GateInv ties the number of runs of the  *)
(* closure to the gate and to where the thread is; it needs the fact that  *)
(* a completed call has stopped its loop, because that is what keeps later *)
(* tasks of the same batch from running.  QuietInv follows the controller, *)
(* the timer and the connection through the stages of a completion.        *)
(***************************************************************************)
\* Before the loop runs; a lookup that ended the process got no further.
SetupPc == {"start", "discover", "lookup", "resolve", "exited", "prepare", "register", "arm",
            "connect"}
SyncPc  == {"syncError", "syncFinish", "syncRun"}
EndPc   == {"release", "record", "teardown", "runClosure"}
LoopPc  == {"swap", "run", "poll", "dispatch"}

GateInv ==
  /\ pc \in SetupPc \cup SyncPc => ~completed /\ runs = 0
  /\ pc \in EndPc => completed /\ runs = 0
  /\ pc \in LoopPc => /\ looping
                      /\ completed => stop /\ runs = 1
                      /\ ~completed => runs = 0
  /\ pc = "returned" => /\ runs \in {0, 1}
                        /\ completed => runs = 1
  /\ pc = "runClosure" /\ looping => stop

\* The call has been decided and its callbacks withdrawn.
Released == /\ ~ctl.cancelCb /\ timer = "off" /\ ~conn.disc /\ ~conn.rdone

\* No task can find anything in a closed connection.
Bare(c) == /\ ~c.listed /\ c.want = {} /\ ~c.wdone
           /\ c.inCb = "null" /\ c.outCb = "null" /\ c.errCb = "null"

QuietInv ==
  /\ completed => ctl.finished
  /\ pc = "syncRun" \/ runs = 1 => ctl.finished
  /\ completed /\ pc # "release" => Released
  /\ (pc \in SetupPc \cup {"release", "record"} \/ (pc \in LoopPc /\ ~completed))
       => ctl.error = "none" /\ ~ctl.failed
  /\ completed /\ pc \notin {"release", "record"}
       => ctl.error = cause /\ (ctl.failed <=> cause # "none")
  /\ IsClosed(conn) => Bare(conn)
  /\ completed /\ pc \notin {"release", "record", "teardown"}
       => IsClosed(conn) /\ ~client.fdEvent

CallInv == TypeOK /\ GateInv /\ QuietInv

\* clear() leaves a closed connection, bare if every closed one was.
LEMMA ClearIsBare ==
  ASSUME NEW c \in ConnectionState, IsClosed(c) => Bare(c)
  PROVE  /\ IsClosed(Clear(c)) /\ Bare(Clear(c))
         /\ ~c.disc => ~Clear(c).disc
         /\ ~c.rdone => ~Clear(c).rdone
<1>1. CASE IsClosed(c)
  BY <1>1 DEF Clear
<1>2. CASE ~IsClosed(c)
  BY <1>2 DEF Clear, ResetFdEvent, DeleteEpollEvent, IsClosed, Bare,
              ConnectionState
<1> QED BY <1>1, <1>2

\* A connection that has been given the Connected state is not closed,
\* whether or not the request is then queued on it.
LEMMA SendingIsNotClosed ==
  ASSUME NEW c \in ConnectionState, TypeOK
  PROVE  ~IsClosed(SendRequest(SetConnected(c)))
<1>1. SetConnected(c).state = "Connected" /\ SetConnected(c) \in ConnectionState
  BY DEF SetConnected, ConnectionState
<1>2. ASSUME NEW d \in ConnectionState, d.state = "Connected"
      PROVE  WriteMessage(d, stop).state = "Connected"
  BY <1>2 DEF WriteMessage, ListenWrite, AddEpollEvent, Listen, ConnectionState
<1> QED BY <1>1, <1>2 DEF SendRequest, IsClosed

\* The effect on the invariant of any attempt to complete the call, from a
\* task of the loop or from a connect that ends at once.
LEMMA AttemptKeepsInv ==
  ASSUME CallInv, NEW e,
         \/ pc = "run" /\ ~stop
         \/ pc = "connect",
         TryComplete(e) \/ Continue,
         UNCHANGED <<runs, stop, looping>>,
         IsClosed(conn') => Bare(conn')
  PROVE  GateInv' /\ QuietInv'
<1>1. /\ ~completed /\ runs = 0
      /\ ctl.error = "none" /\ ~ctl.failed
  BY DEF CallInv, GateInv, QuietInv, SetupPc, LoopPc
<1>2. CASE Begin(e)
  <2>1. /\ pc' = "release" /\ completed' /\ runs' = 0
        /\ ctl'.finished /\ ctl'.error = "none" /\ ~ctl'.failed
    BY <1>1, <1>2 DEF Begin, SetFinished, CallInv, TypeOK, ControllerState
  <2> QED BY <2>1 DEF GateInv, QuietInv, SetupPc, SyncPc, EndPc, LoopPc
<1>3. CASE Continue
  <2>1. /\ pc' = Resume /\ ~completed' /\ runs' = 0
        /\ ctl'.error = "none" /\ ~ctl'.failed
    BY <1>1, <1>3 DEF Continue
  <2> QED BY <2>1 DEF GateInv, QuietInv, Resume, SetupPc, SyncPc, EndPc, LoopPc
<1> QED BY <1>1, <1>2, <1>3 DEF TryComplete

\* The same for a task that clears the connection.
LEMMA ClearKeepsInv ==
  ASSUME CallInv, pc = "run", ~stop, ClearConnection,
         UNCHANGED <<runs, stop, looping>>
  PROVE  GateInv' /\ QuietInv'
<1>1. IsClosed(conn') => Bare(conn')
  BY ClearIsBare DEF ClearConnection, CallInv, TypeOK, QuietInv
<1>2. TryComplete("TRANSPORT") \/ Continue
  BY DEF ClearConnection
<1> QED BY <1>1, <1>2, AttemptKeepsInv

\* CallInv is inductive: one step per action.
LEMMA CallStep == CallInv /\ [Next]_vars => CallInv'
<1> SUFFICES ASSUME CallInv, [Next]_vars PROVE CallInv'
  OBVIOUS
<1>0. TypeOK'
  BY TypeStep DEF CallInv
<1> SUFFICES GateInv' /\ QuietInv'
  BY <1>0 DEF CallInv
<1> USE DEF SetupPc, SyncPc, EndPc, LoopPc
<1>1. CASE SyncError
  BY <1>1 DEF CallInv, TypeOK, GateInv, QuietInv, SyncError, loopVars,
              timerVars, userVars
<1>2. CASE SyncFinish
  <2>1. ctl'.finished
    BY <1>2 DEF SyncFinish, SetFinished, CallInv, TypeOK, ControllerState
  <2> QED BY <1>2, <2>1 DEF CallInv, TypeOK, GateInv, QuietInv, SyncFinish,
                            loopVars, timerVars, userVars
<1>3. CASE SyncRun
  BY <1>3 DEF CallInv, TypeOK, GateInv, QuietInv, SyncRun, loopVars,
              timerVars, userVars
<1>4. CASE CheckCall \/ Discover
  BY <1>4 DEF CallInv, TypeOK, GateInv, QuietInv, CheckCall, Discover,
     AskCentre, LookupReturns, ResolvePeer,
              FailAtOnce, loopVars, timerVars, userVars
<1>5. CASE PrepareCall
  <2>1. IsClosed(conn') => Bare(conn')
    BY <1>5 DEF PrepareCall, NewConnection, IsClosed, Bare
  <2> QED BY <1>5, <2>1 DEF CallInv, TypeOK, GateInv, QuietInv, PrepareCall,
                            timerVars, userVars
<1>6. CASE RegisterCancel
  <2>1. ctl'.error = ctl.error /\ ctl'.failed = ctl.failed
    BY <1>6 DEF RegisterCancel, SetCancelCallback, CallInv, TypeOK,
                ControllerState
  <2> QED BY <1>6, <2>1 DEF CallInv, TypeOK, GateInv, QuietInv, RegisterCancel,
                            timerVars, userVars
<1>7. CASE ArmTimer
  <2>1. IsClosed(conn') => Bare(conn')
    BY <1>7 DEF ArmTimer, CallInv, TypeOK, QuietInv, IsClosed, Bare,
                ConnectionState
  <2> QED BY <1>7, <2>1 DEF CallInv, TypeOK, GateInv, QuietInv, ArmTimer,
                            loopVars, userVars
<1>8. CASE ConnectInProgress
  <2>1. conn'.open
    BY <1>8 DEF ConnectInProgress, AddEpollEvent, Listen, CallInv, TypeOK,
                ConnectionState
  <2> QED BY <1>8, <2>1
          DEF CallInv, TypeOK, GateInv, QuietInv, ConnectInProgress, IsClosed,
              timerVars, userVars
<1>9. CASE ConnectAtOnce
  <2>1. ~IsClosed(conn')
    BY <1>9, SendingIsNotClosed DEF ConnectAtOnce, CallInv, TypeOK
  <2> QED BY <1>9, <2>1, AttemptKeepsInv DEF ConnectAtOnce, loopVars
<1>10. CASE ConnectFails
  <2>1. IsClosed(conn') => Bare(conn')
    BY <1>10 DEF ConnectFails, CallInv, QuietInv
  <2> QED BY <1>10, <2>1, AttemptKeepsInv DEF ConnectFails, loopVars
<1>11. CASE Release
  <2>1. /\ ~conn'.disc /\ ~conn'.rdone
        /\ IsClosed(conn') => Bare(conn')
    BY <1>11 DEF Release, CallInv, TypeOK, QuietInv, IsClosed, Bare,
                 ConnectionState
  <2>2. /\ ~ctl'.cancelCb /\ ctl'.finished = ctl.finished
        /\ ctl'.error = ctl.error /\ ctl'.failed = ctl.failed
    BY <1>11 DEF Release, ClearCancelCallback, CallInv, TypeOK, ControllerState
  <2> QED BY <1>11, <2>1, <2>2
          DEF CallInv, TypeOK, GateInv, QuietInv, Released, Release, loopVars,
              userVars
<1>12. CASE Record
  <2>1. /\ ctl'.finished /\ ctl'.error = cause /\ (ctl'.failed <=> cause # "none")
        /\ ctl'.cancelCb = ctl.cancelCb
    BY <1>12 DEF Record, SetFinished, SetError, CallInv, TypeOK, QuietInv,
                 ControllerState
  <2> QED BY <1>12, <2>1
          DEF CallInv, TypeOK, GateInv, QuietInv, Released, Record, loopVars,
              timerVars, userVars
<1>13. CASE Teardown
  <2> DEFINE c == [conn EXCEPT !.disc = FALSE]
  <2>1. c \in ConnectionState /\ ~c.disc /\ ~c.rdone
    BY <1>13 DEF CallInv, TypeOK, ConnectionState, Teardown, GateInv, QuietInv,
                 Released
  <2>2. IsClosed(c) => Bare(c)
    BY DEF CallInv, TypeOK, ConnectionState, QuietInv, IsClosed, Bare
  <2>3. conn' = Clear(c)
    BY <1>13 DEF Teardown
  <2> HIDE DEF c
  <2>4. IsClosed(conn') /\ Bare(conn') /\ ~conn'.disc /\ ~conn'.rdone
    BY <2>1, <2>2, <2>3, ClearIsBare
  <2>5. ~client'.fdEvent
    BY <1>13 DEF Teardown, CallInv, TypeOK
  <2>6. looping' => stop'
    BY <1>13 DEF Teardown, CallInv, TypeOK
  <2> QED BY <1>13, <2>4, <2>5, <2>6
          DEF CallInv, GateInv, QuietInv, Released, Teardown, timerVars
<1>14. CASE RunClosure
  BY <1>14 DEF CallInv, TypeOK, GateInv, QuietInv, Released, RunClosure,
               Resume, loopVars, timerVars, userVars
<1>15. CASE LoopSwap \/ BatchEnd \/ PollWait \/ DispatchEnd
  BY <1>15 DEF CallInv, TypeOK, GateInv, QuietInv, Released, LoopSwap,
               BatchEnd, PollWait, DispatchEnd, loopVars, timerVars, userVars
<1>16. CASE DispatchTimer \/ DispatchWakeup
  BY <1>16 DEF CallInv, TypeOK, GateInv, QuietInv, Released, DispatchTimer,
               DispatchWakeup, callVars, timerVars, userVars
<1>17. CASE DispatchSocket
  <2>1. conn' = conn \/ conn' = DeleteEpollEvent(conn)
    BY <1>17 DEF DispatchSocket
  <2>2. /\ IsClosed(conn') <=> IsClosed(conn)
        /\ IsClosed(conn') => Bare(conn')
        /\ conn'.disc = conn.disc /\ conn'.rdone = conn.rdone
    <3>1. CASE conn' = conn
      BY <3>1 DEF CallInv, QuietInv, IsClosed, Bare
    <3>2. CASE conn' = DeleteEpollEvent(conn)
      <4>1. conn \in ConnectionState /\ (IsClosed(conn) => Bare(conn))
        BY DEF CallInv, TypeOK, QuietInv
      <4>2. /\ IsClosed(conn') <=> IsClosed(conn)
            /\ conn'.disc = conn.disc /\ conn'.rdone = conn.rdone
        BY <3>2, <4>1 DEF DeleteEpollEvent, IsClosed, ConnectionState
      <4>3. Bare(conn) => Bare(conn')
        BY <3>2, <4>1 DEF DeleteEpollEvent, Bare, ConnectionState
      <4> QED BY <4>1, <4>2, <4>3
    <3> QED BY <2>1, <3>1, <3>2
  <2> QED BY <1>17, <2>2
          DEF CallInv, TypeOK, GateInv, QuietInv, Released, DispatchSocket,
              callVars, timerVars, userVars
<1>18. CASE TaskNothing \/ TaskDrainWakeup
  BY <1>18 DEF CallInv, TypeOK, GateInv, QuietInv, Released, TaskNothing,
               TaskDrainWakeup, NextTask, callVars, timerVars, userVars
<1>19. CASE TaskCancel \/ TaskOnTimer
  <2>1. /\ pc = "run" /\ ~stop
        /\ UNCHANGED <<runs, stop, looping>>
        /\ IsClosed(conn') => Bare(conn')
    BY <1>19 DEF TaskCancel, TaskOnTimer, NextTask, CallInv, QuietInv
  <2>2. \E e : TryComplete(e) \/ Continue
    BY <1>19 DEF TaskCancel, TaskOnTimer
  <2> QED BY <2>1, <2>2, AttemptKeepsInv
<1>20. CASE TaskError
  BY <1>20, ClearKeepsInv DEF TaskError, NextTask
<1>21. CASE TaskConnect
  <2> DEFINE idle == DeleteEpollEvent(Cancle(conn, "OUT"))
             gone == [idle EXCEPT !.disc = FALSE]
  <2>1. Cancle(conn, "OUT") \in ConnectionState
    BY FdEventTypes DEF CallInv, TypeOK, Callbacks
  <2>2. idle \in ConnectionState
    BY <2>1, FdEventTypes DEF CallInv, TypeOK, Callbacks
  <2>3. gone \in ConnectionState
    BY <2>2 DEF ConnectionState
  <2>4. IsClosed(gone) => Bare(gone)
    BY DEF CallInv, TypeOK, QuietInv, Cancle, DeleteEpollEvent, IsClosed, Bare,
           ConnectionState
  <2>5. \/ conn' = SendRequest(SetConnected(idle))
        \/ conn' = Clear(gone)
    BY <1>21 DEF TaskConnect
  <2> HIDE DEF idle, gone
  <2>6. IsClosed(conn') => Bare(conn')
    BY <2>2, <2>3, <2>4, <2>5, SendingIsNotClosed, ClearIsBare DEF CallInv
  <2>7. TryComplete(ConnectError) \/ Continue
    BY <1>21 DEF TaskConnect
  <2> QED BY <1>21, <2>6, <2>7, AttemptKeepsInv DEF TaskConnect, NextTask
<1>22. CASE TaskOnWrite
  <2>1. /\ pc = "run" /\ ~stop /\ UNCHANGED <<runs, stop, looping>>
        /\ \/ Continue /\ UNCHANGED conn
           \/ ClearConnection
           \/ /\ Continue /\ conn.open
              /\ \/ conn' = RequestSent(conn)
                 \/ conn' = [conn EXCEPT !.unsent = TRUE]
    BY <1>22 DEF TaskOnWrite, NextTask, Usable
  <2>2. conn.open => RequestSent(conn).open
    BY DEF CallInv, TypeOK, ConnectionState, RequestSent, Cancle, AddEpollEvent,
           ReadMessage, ListenRead, Listen
  <2>3. conn.open => [conn EXCEPT !.unsent = TRUE].open
    BY DEF CallInv, TypeOK, ConnectionState
  <2>4. CASE Continue /\ UNCHANGED conn
    BY <2>1, <2>4, AttemptKeepsInv DEF CallInv, QuietInv
  <2>5. CASE ClearConnection
    BY <2>1, <2>5, ClearKeepsInv
  <2>6. CASE Continue /\ conn'.open
    BY <2>1, <2>6, AttemptKeepsInv DEF IsClosed
  <2> QED BY <2>1, <2>2, <2>3, <2>4, <2>5, <2>6
<1>23. CASE TaskOnRead
  <2>1. /\ pc = "run" /\ ~stop /\ UNCHANGED <<runs, stop, looping>>
        /\ \/ Continue /\ UNCHANGED conn
           \/ ClearConnection
           \/ Execute(net.rx)
    BY <1>23 DEF TaskOnRead, NextTask
  <2>2. CASE Continue /\ UNCHANGED conn
    BY <2>1, <2>2, AttemptKeepsInv DEF CallInv, QuietInv
  <2>3. CASE ClearConnection
    BY <2>1, <2>3, ClearKeepsInv
  <2>4. CASE Execute(net.rx)
    <3>1. IsClosed(conn') => Bare(conn')
      BY <2>4 DEF Execute, CallInv, TypeOK, QuietInv, IsClosed, Bare,
                  ConnectionState
    <3>2. \E e : TryComplete(e) \/ Continue
      BY <2>4 DEF Execute
    <3> QED BY <2>1, <3>1, <3>2, AttemptKeepsInv
  <2> QED BY <2>1, <2>2, <2>3, <2>4
<1>24. CASE \E t \in Cancellers : Canceller(t)
  <2>1. PICK t \in Cancellers : Canceller(t)
    BY <1>24
  <2>2. CASE StartCancel(t)
    <3>1. /\ ctl'.error = ctl.error /\ ctl'.failed = ctl.failed
          /\ ctl'.finished = ctl.finished
          /\ ~ctl.cancelCb => ~ctl'.cancelCb
      BY <2>2 DEF StartCancel, TakeCallbacks, CallInv, TypeOK, ControllerState
    <3> QED BY <2>2, <3>1
            DEF CallInv, TypeOK, GateInv, QuietInv, Released, StartCancel,
                callVars, loopVars, timerVars
  <2>3. CASE CancelNotifies(t)
    BY <2>3 DEF CallInv, TypeOK, GateInv, QuietInv, Released, CancelNotifies,
                callVars, loopVars, timerVars
  <2>4. CASE CancelEnqueues(t)
    BY <2>4 DEF CallInv, TypeOK, GateInv, QuietInv, Released, CancelEnqueues,
                callVars, timerVars
  <2> QED BY <2>1, <2>2, <2>3, <2>4 DEF Canceller
<1>25. CASE UserNotifyOnCancel
  <2>1. /\ ctl'.error = ctl.error /\ ctl'.failed = ctl.failed
        /\ ctl'.finished = ctl.finished /\ ctl'.cancelCb = ctl.cancelCb
    BY <1>25 DEF UserNotifyOnCancel, NotifyOnCancel, CallInv, TypeOK,
                 ControllerState
  <2> QED BY <1>25, <2>1
          DEF CallInv, TypeOK, GateInv, QuietInv, Released, UserNotifyOnCancel,
              callVars, loopVars, timerVars
<1>26. CASE Peer \/ DeadlinePasses
  <2>1. UNCHANGED <<callVars, ctl, conn, client, timer, loopVars>>
    BY <1>26 DEF Peer, Handshake, PeerSends, PeerCloses, DeadlinePasses,
                 timerVars
  <2> QED BY <2>1 DEF CallInv, GateInv, QuietInv, Released, callVars, loopVars
<1>27. CASE UNCHANGED vars
  BY <1>27 DEF CallInv, TypeOK, GateInv, QuietInv, Released, vars, callVars,
               loopVars, timerVars, userVars
<1> QED
  BY <1>1, <1>2, <1>3, <1>4, <1>5, <1>6, <1>7, <1>8, <1>9, <1>10, <1>11,
     <1>12, <1>13, <1>14, <1>15, <1>16, <1>17, <1>18, <1>19, <1>20, <1>21,
     <1>22, <1>23, <1>24, <1>25, <1>26, <1>27
  DEF Next, CallingThread, Setup, Completion, Loop, RunTask, Finished

\* CallInv holds in every state of a call.
LEMMA CallInvariant == Spec => []CallInv
<1>1. Init => TypeOK
  BY TypeCorrectInit
<1>2. Init => GateInv
  BY DEF Init, GateInv, SetupPc, SyncPc, EndPc, LoopPc
<1>3. Init => QuietInv
  <2>1. Bare(NewConnection(FALSE))
    BY DEF NewConnection, Bare
  <2>2. Init => /\ pc = "start" /\ ~completed /\ runs = 0
                /\ ctl.error = "none" /\ ~ctl.failed
    BY DEF Init, NewController
  <2>3. Init => Bare(conn)
    BY <2>1 DEF Init
  <2> QED BY <2>2, <2>3 DEF QuietInv, SetupPc, LoopPc
<1> QED BY <1>1, <1>2, <1>3, CallStep, PTL DEF Spec, CallInv

\* The closure of a call runs at most once, whichever of the response, the
\* connect, the transport, the deadline and any number of cancelling threads
\* get to RequestState::beginCompletion, and in whatever order.
THEOREM ClosureRunsAtMostOnce == Spec => []ClosureAtMostOnce
<1>1. CallInv => ClosureAtMostOnce
  BY DEF CallInv, TypeOK, GateInv, ClosureAtMostOnce, SetupPc, SyncPc, EndPc,
         LoopPc
<1> QED BY <1>1, CallInvariant, PTL

\* When the closure runs, and ever after, the call is quiet: descriptor
\* closed, nothing registered anywhere, outcome recorded.
THEOREM ClosureRunsQuiet == Spec => []QuietAtClosure
<1>1. CallInv => QuietAtClosure
  BY DEF CallInv, TypeOK, GateInv, QuietInv, Released, Bare, QuietAtClosure,
         SetupPc, SyncPc, EndPc, LoopPc
<1> QED BY <1>1, CallInvariant, PTL

\* No step taken after the closure has run changes the outcome the controller
\* shows, or runs the closure again.
THEOREM OutcomeNeverRewritten == Spec => OutcomeIsFinal
<1> DEFINE Final == runs = 1 => /\ runs' = 1
                                /\ ctl'.error = ctl.error
                                /\ ctl'.failed = ctl.failed
                                /\ ctl'.finished
<1>1. CallInv /\ CallInv' /\ [Next]_vars => [Final]_vars
  <2> SUFFICES ASSUME CallInv, CallInv', Next, runs = 1
               PROVE  Final
    OBVIOUS
  <2>1. /\ pc \notin SetupPc \cup SyncPc \cup EndPc
        /\ pc \in LoopPc => stop
        /\ ctl.finished
    BY DEF CallInv, TypeOK, GateInv, QuietInv, SetupPc, SyncPc, EndPc, LoopPc
  <2>2. ~Setup /\ ~Completion /\ ~RunTask
    BY <2>1 DEF Setup, Completion, RunTask, SetupPc, SyncPc, EndPc, LoopPc,
      CheckCall, Discover,
         AskCentre, LookupReturns, ResolvePeer, PrepareCall, RegisterCancel, ArmTimer,
      ConnectInProgress, ConnectAtOnce, ConnectFails, SyncError, SyncFinish,
      SyncRun, Release, Record, Teardown, RunClosure, TaskNothing,
      TaskDrainWakeup, TaskCancel, TaskOnTimer, TaskError, TaskConnect,
      TaskOnWrite, TaskOnRead, NextTask
  <2>3. CASE Loop
    BY <2>1, <2>3 DEF Loop, LoopSwap, BatchEnd, PollWait, DispatchTimer,
      DispatchWakeup, DispatchSocket, DispatchEnd, callVars
  <2>4. CASE \E t \in Cancellers : Canceller(t)
    BY <2>1, <2>4 DEF Canceller, StartCancel, MayCancel, CancelNotifies,
      CancelEnqueues, callVars
  <2>5. CASE UserNotifyOnCancel
    BY <2>1, <2>5 DEF UserNotifyOnCancel, NotifyOnCancel, CallInv, TypeOK,
      ControllerState, callVars
  <2>6. CASE Peer \/ DeadlinePasses \/ Finished
    BY <2>1, <2>6 DEF Peer, Handshake, PeerSends, PeerCloses, DeadlinePasses,
      Finished, vars, callVars
  <2> QED BY <2>2, <2>3, <2>4, <2>5, <2>6 DEF Next, CallingThread
<1> QED BY <1>1, CallInvariant, PTL DEF Spec, OutcomeIsFinal

(***************************************************************************)
(* No cancellation is lost                                                 *)
(*                                                                         *)
(* WaitInv says how a call that waits can still be cancelled: its loop is  *)
(* not stopped, and as long as nobody has cancelled it the callback that   *)
(* queues the cancellation is in the controller.  loop() forgets no task:  *)
(* its batch is empty when it takes the queue for the next one.            *)
(***************************************************************************)
WaitPc == {"arm", "connect"} \cup LoopPc

WaitInv ==
  /\ pc \in WaitPc \cup {"register"} /\ ~completed => ~stop
  /\ pc \in WaitPc /\ ~completed => ctl.cancelled \/ ctl.cancelCb
  /\ pc \in SetupPc \cup {"swap", "poll", "dispatch"} => batch = <<>>

\* loop() and addTask() lose no task but the one that runs.
LEMMA QueuedIsKept ==
  ASSUME TypeOK, TypeOK', NEW task, Queued(task),
         \/ UNCHANGED <<batch, pending>>
         \/ UNCHANGED pending /\ \E other : other # task /\ NextTask(other)
         \/ UNCHANGED batch /\ \E s \in Seq(Tasks) : pending' = pending \o s
         \/ UNCHANGED batch /\ \E other \in Tasks : pending' = Append(pending, other)
         \/ batch = <<>> /\ batch' = pending /\ pending' = <<>>
  PROVE  Queued(task)'
<1>0. pending \in Seq(Tasks) /\ batch \in Seq(Tasks)
  BY DEF TypeOK
<1>1. CASE UNCHANGED <<batch, pending>>
  BY <1>1 DEF Queued
<1>2. CASE UNCHANGED pending /\ \E other : other # task /\ NextTask(other)
  <2>1. batch # <<>> /\ Head(batch) # task /\ batch' = Tail(batch)
    BY <1>2 DEF NextTask
  <2>2. ASSUME NEW i \in 1..Len(batch), batch[i] = task
        PROVE  \E j \in 1..Len(batch') : batch'[j] = task
    <3>1. i # 1
      BY <1>0, <2>1, <2>2
    <3>2. i - 1 \in 1..Len(batch') /\ batch'[i - 1] = batch[i]
      BY <1>0, <2>1, <3>1
    <3> QED
      BY <2>2, <3>2
  <2> QED
    BY <1>2, <2>2 DEF Queued
<1>3. CASE UNCHANGED batch /\ \E s \in Seq(Tasks) : pending' = pending \o s
  <2>1. PICK s \in Seq(Tasks) : pending' = pending \o s
    BY <1>3
  <2>2. \A i \in 1..Len(pending) : i \in 1..Len(pending') /\ pending'[i] = pending[i]
    BY <1>0, <2>1
  <2> QED
    BY <1>3, <2>2 DEF Queued
<1>4. CASE UNCHANGED batch /\ \E other \in Tasks : pending' = Append(pending, other)
  <2>1. PICK other \in Tasks : pending' = Append(pending, other)
    BY <1>4
  <2>2. \A i \in 1..Len(pending) : i \in 1..Len(pending') /\ pending'[i] = pending[i]
    BY <1>0, <2>1
  <2> QED
    BY <1>4, <2>2 DEF Queued
<1>5. CASE batch = <<>> /\ batch' = pending /\ pending' = <<>>
  <2>1. ~ \E i \in 1..Len(batch) : batch[i] = task
    BY <1>5
  <2> QED
    BY <1>5, <2>1 DEF Queued
<1> QED
  BY <1>1, <1>2, <1>3, <1>4, <1>5

\* What AddTask and Enqueue do to the queue of a loop that is not stopped.
LEMMA AddTaskQueues ==
  ASSUME TypeOK, ~stop, NEW task \in Tasks, AddTask(task, TRUE)
  PROVE  pending' = Append(pending, task) /\ \E i \in 1..Len(pending') : pending'[i] = task
<1>1. pending' = Append(pending, task) /\ pending \in Seq(Tasks)
  BY DEF AddTask, TypeOK
<1>2. Len(pending) + 1 \in 1..Len(pending') /\ pending'[Len(pending) + 1] = task
  BY <1>1
<1> QED
  BY <1>1, <1>2

\* addTask puts a batch of tasks at the end of the queue, or the queue stays as it is.
LEMMA EnqueueQueues ==
  ASSUME NEW s \in Seq(Tasks), Enqueue(s)
  PROVE  UNCHANGED pending \/ \E u \in Seq(Tasks) : pending' = pending \o u
BY DEF Enqueue

\* The callbacks of a socket event are tasks.
LEMMA SocketTasksType ==
  ASSUME NEW c \in ConnectionState, NEW flags
  PROVE  SocketTasks(c, flags) \in Seq(Tasks)
<1>1. c.inCb \in Tasks /\ c.outCb \in Tasks /\ c.errCb \in Tasks
  BY DEF ConnectionState, Tasks
<1> DEFINE terminal == flags \cap {"ERR", "RDHUP"} # {}
           x == IF "IN" \in flags THEN <<c.inCb>> ELSE <<>>
           y == IF "OUT" \in flags /\ ~terminal THEN <<c.outCb>> ELSE <<>>
           z == IF terminal /\ c.errCb # "null" THEN <<c.errCb>> ELSE <<>>
<1>2. x \in Seq(Tasks) /\ y \in Seq(Tasks) /\ z \in Seq(Tasks)
  BY <1>1
<1>3. SocketTasks(c, flags) = x \o y \o z
  BY DEF SocketTasks
<1> HIDE DEF x, y, z
<1> QED
  BY <1>2, <1>3

\* What a task of the loop can do to the call: end it, once, or nothing.
LEMMA TaskOutcome ==
  ASSUME CallInv, RunTask
  PROVE  /\ pc = "run" /\ ~stop /\ ~completed /\ runs = 0
         /\ UNCHANGED <<stop, looping, pending, events, runs, userVars>>
         /\ \E task : NextTask(task) /\ (task = "cancel" => Begin("CANCELLED"))
         /\ \/ \E e : Begin(e)
            \/ UNCHANGED <<completed, ctl, cause>> /\ pc' \in {"run", "returned"}
<1>1. pc = "run" /\ ~stop
  BY DEF RunTask, TaskNothing, TaskDrainWakeup, TaskCancel, TaskOnTimer, TaskError,
         TaskConnect, TaskOnWrite, TaskOnRead, NextTask
<1>2. ~completed /\ runs = 0
  BY <1>1 DEF CallInv, GateInv, LoopPc
<1>3. UNCHANGED <<stop, looping, pending, events, runs, userVars>>
  BY DEF RunTask, TaskNothing, TaskDrainWakeup, TaskCancel, TaskOnTimer, TaskError,
         TaskConnect, TaskOnWrite, TaskOnRead, callVars
<1>4. \E task : NextTask(task) /\ (task = "cancel" => Begin("CANCELLED"))
  BY <1>2 DEF RunTask, TaskNothing, TaskDrainWakeup, TaskCancel, TaskOnTimer, TaskError,
         TaskConnect, TaskOnWrite, TaskOnRead, TryComplete
<1>5. ASSUME NEW e, TryComplete(e) \/ Continue
      PROVE  \/ \E f : Begin(f)
             \/ UNCHANGED <<completed, ctl, cause>> /\ pc' \in {"run", "returned"}
  BY <1>2, <1>5 DEF TryComplete, Continue, Resume
<1>6. CASE TaskNothing \/ TaskDrainWakeup
  BY <1>1, <1>2, <1>3, <1>4, <1>6 DEF TaskNothing, TaskDrainWakeup, callVars
<1>7. CASE TaskCancel \/ TaskOnTimer
  <2>1. \E e : TryComplete(e) \/ Continue
    BY <1>7 DEF TaskCancel, TaskOnTimer
  <2> QED
    BY <1>1, <1>2, <1>3, <1>4, <1>5, <2>1
<1>8. CASE TaskError \/ TaskConnect
  <2>1. \E e : TryComplete(e) \/ Continue
    BY <1>8 DEF TaskError, TaskConnect, ClearConnection
  <2> QED
    BY <1>1, <1>2, <1>3, <1>4, <1>5, <2>1
<1>9. CASE TaskOnWrite \/ TaskOnRead
  <2>1. \E e : TryComplete(e) \/ Continue
    <3>1. ClearConnection => \E e : TryComplete(e) \/ Continue
      BY DEF ClearConnection
    <3>2. Execute(net.rx) => \E e : TryComplete(e) \/ Continue
      BY DEF Execute
    <3>3. TaskOnWrite => ClearConnection \/ Continue
      BY DEF TaskOnWrite
    <3>4. TaskOnRead => ClearConnection \/ Execute(net.rx) \/ Continue
      BY DEF TaskOnRead
    <3> QED
      BY <1>9, <3>1, <3>2, <3>3, <3>4
  <2> QED
    BY <1>1, <1>2, <1>3, <1>4, <1>5, <2>1
<1> QED
  BY <1>6, <1>7, <1>8, <1>9 DEF RunTask

\* No step loses a cancellation.
LEMMA WaitStep == CallInv /\ WaitInv /\ NoLostCancel /\ [Next]_vars => WaitInv' /\ NoLostCancel'
<1> SUFFICES ASSUME CallInv, WaitInv, NoLostCancel, [Next]_vars
             PROVE  WaitInv' /\ NoLostCancel'
  OBVIOUS
<1>0. TypeOK /\ TypeOK'
  BY TypeStep DEF CallInv
<1> USE DEF SetupPc, LoopPc, WaitPc
<1>1. ASSUME pc' \notin WaitPc \cup SetupPc PROVE WaitInv' /\ NoLostCancel'
  BY <1>1 DEF WaitInv, NoLostCancel
<1>2. CASE SyncError \/ SyncFinish \/ SyncRun \/ Completion
  <2>1. \/ pc' \in {"syncFinish", "syncRun", "returned", "record", "teardown", "runClosure"}
        \/ pc = "runClosure" /\ pc' = "run" /\ UNCHANGED completed
    BY <1>2 DEF SyncError, SyncFinish, SyncRun, Completion, Release, Record, Teardown,
                RunClosure, Resume
  <2>2. CASE pc = "runClosure" /\ pc' = "run" /\ UNCHANGED completed
    BY <2>2 DEF CallInv, GateInv, EndPc, WaitInv, NoLostCancel
  <2> QED
    BY <1>1, <2>1, <2>2
<1>3. CASE CheckCall \/ Discover \/ PrepareCall
  <2>1. pc' \in {"syncError", "discover", "lookup", "resolve", "exited", "prepare", "register"}
    BY <1>3 DEF CheckCall, Discover, AskCentre, LookupReturns, ResolvePeer, PrepareCall, FailAtOnce
  <2>2. batch' = <<>>
    BY <1>3 DEF CheckCall, Discover,
       AskCentre, LookupReturns, ResolvePeer, PrepareCall, loopVars, WaitInv
  <2>3. pc' = "register" => ~stop'
    BY <1>3 DEF CheckCall, Discover, AskCentre, LookupReturns, ResolvePeer, PrepareCall, FailAtOnce
  <2> QED
    BY <2>1, <2>2, <2>3 DEF WaitInv, NoLostCancel
<1>4. CASE RegisterCancel
  <2>1. /\ pc = "register" /\ pc' = "arm" /\ ~stop /\ ~completed
        /\ UNCHANGED <<stop, completed, batch, cpc>>
    BY <1>4 DEF RegisterCancel, WaitInv, CallInv, GateInv, userVars
  <2>2. ctl'.cancelled = ctl.cancelled /\ (ctl'.cancelled \/ ctl'.cancelCb)
    BY <1>0, <1>4 DEF RegisterCancel, SetCancelCallback, TypeOK, ControllerState
  <2>3. ctl.cancelled => Queued("cancel")'
    <3>1. ASSUME ctl.cancelled PROVE Queued("cancel")'
      <4>1. AddTask("cancel", TRUE)
        BY <1>4, <3>1 DEF RegisterCancel
      <4>2. "cancel" \in Tasks
        BY DEF Tasks
      <4> QED
        BY <1>0, <2>1, <4>1, <4>2, AddTaskQueues DEF Queued
    <3> QED
      BY <3>1
  <2> QED
    BY <2>1, <2>2, <2>3 DEF WaitInv, NoLostCancel
<1>5. CASE ArmTimer \/ ConnectInProgress \/ ConnectAtOnce
  <2>1. /\ pc \in {"arm", "connect"} /\ ~stop /\ ~completed
        /\ UNCHANGED <<stop, completed, ctl, batch, pending, cpc>>
        /\ pc' \in {"connect", "returned", "swap", "run"}
    BY <1>5 DEF ArmTimer, ConnectInProgress, ConnectAtOnce, Continue, Resume, loopVars,
                userVars, WaitInv, CallInv, GateInv
  <2>2. Queued("cancel")' <=> Queued("cancel")
    BY <2>1 DEF Queued
  <2> QED
    BY <2>1, <2>2 DEF WaitInv, NoLostCancel
<1>6. CASE ConnectFails
  BY <1>1, <1>6 DEF ConnectFails, TryComplete, Begin, CallInv, GateInv
<1>7. CASE RunTask
  <2>1. CASE \E e : Begin(e)
    BY <1>1, <2>1 DEF Begin
  <2>2. CASE ~ \E e : Begin(e)
    <3>1. /\ pc = "run" /\ ~stop /\ ~completed /\ pc' \in {"run", "returned"}
          /\ UNCHANGED <<stop, completed, ctl, pending, cpc>>
      BY <1>7, <2>2, TaskOutcome DEF userVars
    <3>2. PICK task : NextTask(task) /\ task # "cancel"
      BY <1>7, <2>2, TaskOutcome
    <3>3. Queued("cancel") => Queued("cancel")'
      BY <1>0, <3>1, <3>2, QueuedIsKept
    <3> QED
      BY <3>1, <3>3 DEF WaitInv, NoLostCancel
  <2> QED
    BY <2>1, <2>2
<1>8. CASE Loop
  <2>1. /\ pc \in LoopPc /\ pc' \in LoopPc \cup {"returned"}
        /\ UNCHANGED <<stop, completed, ctl, cpc>>
    BY <1>8 DEF Loop, LoopSwap, BatchEnd, PollWait, DispatchTimer, DispatchWakeup,
                DispatchSocket, DispatchEnd, callVars, loopVars, userVars
  <2>2. pc' \in {"swap", "poll", "dispatch"} => batch' = <<>>
    BY <1>8 DEF Loop, LoopSwap, BatchEnd, PollWait, DispatchTimer, DispatchWakeup,
                DispatchSocket, DispatchEnd, callVars, loopVars, WaitInv
  <2>3. ~stop => \/ UNCHANGED <<batch, pending>>
                 \/ UNCHANGED batch /\ \E s \in Seq(Tasks) : pending' = pending \o s
                 \/ batch = <<>> /\ batch' = pending /\ pending' = <<>>
    <3>1. CASE LoopSwap
      BY <3>1 DEF LoopSwap, WaitInv
    <3>2. CASE BatchEnd \/ PollWait \/ DispatchEnd
      BY <3>2 DEF BatchEnd, PollWait, DispatchEnd, loopVars
    <3>3. CASE DispatchTimer \/ DispatchWakeup
      <4>1. <<"onTimer">> \in Seq(Tasks) /\ <<"drainWakeup">> \in Seq(Tasks)
        <5>1. "onTimer" \in Tasks /\ "drainWakeup" \in Tasks
          BY DEF Tasks
        <5> QED
          BY <5>1
      <4>2. UNCHANGED batch /\ \E s \in Seq(Tasks) : Enqueue(s)
        BY <3>3, <4>1 DEF DispatchTimer, DispatchWakeup
      <4> QED
        BY <4>2, EnqueueQueues
    <3>4. CASE DispatchSocket
      <4>1. \A flags : SocketTasks(conn, flags) \in Seq(Tasks)
        BY <1>0, SocketTasksType DEF TypeOK
      <4>2. UNCHANGED batch /\ \E s \in Seq(Tasks) : Enqueue(s)
        BY <3>4, <4>1 DEF DispatchSocket
      <4> QED
        BY <4>2, EnqueueQueues
    <3> QED
      BY <1>8, <3>1, <3>2, <3>3, <3>4 DEF Loop
  <2>4. ~stop /\ Queued("cancel") => Queued("cancel")'
    BY <1>0, <2>3, QueuedIsKept
  <2> QED
    BY <2>1, <2>2, <2>4 DEF WaitInv, NoLostCancel
<1>9. CASE \E t \in Cancellers : Canceller(t)
  <2>1. PICK t \in Cancellers : Canceller(t)
    BY <1>9
  <2>2. UNCHANGED <<pc, completed, stop, batch>>
    BY <2>1 DEF Canceller, StartCancel, CancelNotifies, CancelEnqueues, callVars, loopVars
  <2>3. CASE StartCancel(t)
    <3>1. UNCHANGED pending
      BY <2>3 DEF StartCancel, loopVars
    <3>2. CASE MayCancel(ctl)
      <4>1. ~ctl.cancelled /\ ctl'.cancelled
        BY <1>0, <2>3, <3>2 DEF StartCancel, MayCancel, TakeCallbacks, TypeOK, ControllerState
      <4>2. ctl.cancelCb => cpc'[t] \in {"both", "enqueue"}
        BY <1>0, <2>3, <3>2 DEF StartCancel, TypeOK
      <4> QED
        BY <2>2, <4>1, <4>2 DEF WaitInv, NoLostCancel
    <3>3. CASE ~MayCancel(ctl)
      <4>1. UNCHANGED ctl /\ \A u \in Cancellers : cpc[u] # "idle" => cpc'[u] = cpc[u]
        BY <1>0, <2>3, <3>3 DEF StartCancel, TypeOK
      <4>2. Queued("cancel")' <=> Queued("cancel")
        BY <2>2, <3>1 DEF Queued
      <4> QED
        BY <2>2, <4>1, <4>2 DEF WaitInv, NoLostCancel
    <3> QED
      BY <3>2, <3>3
  <2>4. CASE CancelNotifies(t)
    <3>1. UNCHANGED <<ctl, pending>>
      BY <2>4 DEF CancelNotifies, loopVars
    <3>2. \A u \in Cancellers : cpc[u] \in {"both", "enqueue"} => cpc'[u] \in {"both", "enqueue"}
      BY <1>0, <2>4 DEF CancelNotifies, TypeOK
    <3>3. Queued("cancel")' <=> Queued("cancel")
      BY <2>2, <3>1 DEF Queued
    <3> QED
      BY <2>2, <3>1, <3>2, <3>3 DEF WaitInv, NoLostCancel
  <2>5. CASE CancelEnqueues(t)
    <3>1. UNCHANGED ctl /\ AddTask("cancel", TRUE)
      BY <2>5 DEF CancelEnqueues
    <3>2. "cancel" \in Tasks
      BY DEF Tasks
    <3>3. ~stop => Queued("cancel")'
      BY <1>0, <3>1, <3>2, AddTaskQueues DEF Queued
    <3> QED
      BY <2>2, <3>1, <3>3 DEF WaitInv, NoLostCancel
  <2> QED
    BY <2>1, <2>3, <2>4, <2>5 DEF Canceller
<1>10. CASE UserNotifyOnCancel \/ Peer \/ DeadlinePasses \/ Finished \/ UNCHANGED vars
  <2>1. UNCHANGED <<pc, completed, stop, batch, pending, cpc>>
    BY <1>10 DEF UserNotifyOnCancel, Peer, Handshake, PeerSends, PeerCloses,
                 DeadlinePasses, Finished, vars, callVars, loopVars, userVars
  <2>2. ctl'.cancelled = ctl.cancelled /\ ctl'.cancelCb = ctl.cancelCb
    BY <1>0, <1>10 DEF UserNotifyOnCancel, NotifyOnCancel, Peer, Handshake, PeerSends,
                 PeerCloses, DeadlinePasses, Finished, vars, TypeOK, ControllerState
  <2>3. Queued("cancel")' <=> Queued("cancel")
    BY <2>1 DEF Queued
  <2> QED
    BY <2>1, <2>2, <2>3 DEF WaitInv, NoLostCancel
<1> QED
  BY <1>2, <1>3, <1>4, <1>5, <1>6, <1>7, <1>8, <1>9, <1>10
  DEF Next, CallingThread, Setup

\* A cancellation that StartCancel has accepted is, for as long as the call waits,
\* in the queue of a loop that will run it or on its way there, whatever the number
\* of cancelling threads and wherever CallMethod is when they come.
THEOREM CancellationIsNotLost == Spec => []NoLostCancel
<1>1. Init => WaitInv /\ NoLostCancel
  <2>1. Init => pc = "start" /\ batch = <<>>
    BY DEF Init
  <2> QED
    BY <2>1 DEF WaitInv, NoLostCancel, WaitPc, LoopPc
<1> QED
  BY <1>1, CallInvariant, WaitStep, PTL DEF Spec

(***************************************************************************)
(* The outcome is justified                                                *)
(*                                                                         *)
(* Each cause of a completion leaves evidence that stays.  JustInv follows *)
(* it from where it arises to the gate: what the peer sent to what is      *)
(* read, an error or hang-up reported by epoll to the callback queued for  *)
(* it, a cancellation to its task.                                         *)
(***************************************************************************)

\* The tasks that may be queued now.
Queueable ==
  {t \in Tasks : /\ t = "cancel" => ctl.cancelled
                 /\ t = "clearCb" => net.down # "no"
                 /\ t = "connectCb" => net.link \notin {"idle", "syn"}}

TasksInv ==
  /\ pending \in Seq(Queueable) /\ batch \in Seq(Queueable)
  /\ pc \in SetupPc => net.link = "idle" /\ batch = <<>>

\* Which callbacks a connection can hold while its socket is in state link.
Wired(c, link) ==
  /\ c.inCb \in {"null", "onRead"}
  /\ c.outCb \in {"null", "connectCb", "onWrite"}
  /\ c.errCb \in {"null", "connectCb", "clearCb"}
  /\ "connectCb" \in {c.outCb, c.errCb} => link # "idle"
  /\ c.errCb = "clearCb" => link = "up"
  /\ c.state = "Connected" => link = "up"

\* What epoll has reported is still so when it is dispatched.
EventInv ==
  \A e \in events : e.src = "conn" =>
    /\ pc = "dispatch" /\ net.link # "syn"
    /\ "ERR" \in e.flags => net.link \in {"refused", "failed"} \/ net.down = "rst"
    /\ "RDHUP" \in e.flags => net.down = "fin"

PeerInv ==
  /\ net.rx \in Seq(net.sent)
  /\ net.sent # {} => net.req

CancelInv ==
  \A t \in Cancellers : cpc[t] \in {"both", "notify", "enqueue"} => ctl.cancelled

\* The evidence for each outcome.
Justified(e) ==
  /\ e = "none" => net.req /\ "ok" \in net.sent
  /\ e = "REMOTE" => net.req /\ "remoteErr" \in net.sent
  /\ e = "SERIALIZE" => net.req /\ "bad" \in net.sent
  /\ e = "CANCELLED" => ctl.cancelled
  /\ e = "TIMEOUT" => timerfd = "off"
  /\ e = "TRANSPORT" => net.down # "no"
  /\ e = "PEER_CLOSED" => net.link = "refused"
  /\ e = "FAILED_CONNECT" => net.link \in {"idle", "failed"} \/ net.down = "rst"

JustInv ==
  /\ TasksInv /\ Wired(conn, net.link) /\ EventInv /\ PeerInv /\ CancelInv
  /\ completed => Justified(cause)

\* A set of natural numbers that is not empty has a least element.
LEMMA LeastNatural ==
  ASSUME NEW T, T \subseteq Nat, T # {}
  PROVE  \E x \in T : \A y \in T : x <= y
<1> DEFINE R == {ss \in Nat \X Nat : ss[1] < ss[2]}
<1>1. IsWellFoundedOn(R, Nat)
  BY NatLessThanWellFounded DEF OpToRel
<1>2. \A x, y \in Nat : y < x => <<y, x>> \in R
  OBVIOUS
<1> HIDE DEF R
<1>3. PICK x \in T : \A y \in T : <<y, x>> \notin R
  BY <1>1, WFMin
<1>4. \A y \in T : ~(y < x)
  BY <1>2, <1>3
<1>5. \A y \in T : x <= y
  BY <1>4
<1> QED
  BY <1>5

\* The frame excute() hands to the response callback is one of those read, and
\* answers the call.
LEMMA FirstAnswerIsAnswer ==
  ASSUME NEW S, NEW frames \in Seq(S), Answers(frames) # {}
  PROVE  FirstAnswer(frames) \in S \cap {"ok", "bad", "remoteErr"}
<1>1. Answers(frames) \subseteq Nat
  BY DEF Answers
<1>2. \E i \in Answers(frames) : \A j \in Answers(frames) : i <= j
  BY <1>1, LeastNatural
<1> DEFINE first == CHOOSE i \in Answers(frames) : \A j \in Answers(frames) : i <= j
<1>3. first \in Answers(frames)
  BY <1>2
<1>4. FirstAnswer(frames) = frames[first]
  BY DEF FirstAnswer
<1> HIDE DEF first
<1> QED
  BY <1>3, <1>4 DEF Answers

\* Evidence stays: no step takes back a cancellation, what the peer received, sent
\* or closed, or the end of a handshake; and a timerfd that is off stays off but in
\* addTimerEvent.
LEMMA EvidenceStays ==
  ASSUME TypeOK, [Next]_vars
  PROVE  /\ ctl.cancelled => ctl'.cancelled
         /\ net.req => net'.req
         /\ net.sent \subseteq net'.sent
         /\ net.down # "no" => net'.down = net.down
         /\ pc # "connect" => \/ net'.link = net.link
                              \/ net.link = "syn" /\ net'.link \in {"up", "refused", "failed"}
         /\ pc # "arm" /\ timerfd = "off" => timerfd' = "off"
<1>0. ctl \in ControllerState /\ net \in NetState
  BY DEF TypeOK
<1>1. ASSUME NEW e, TryComplete(e) \/ Continue PROVE ctl.cancelled => ctl'.cancelled
  BY <1>0, <1>1 DEF TryComplete, Begin, Continue, SetFinished, ControllerState
<1>2. CASE SyncError \/ SyncFinish \/ Release \/ Record \/ RegisterCancel
  <2>1. ctl.cancelled => ctl'.cancelled
    BY <1>0, <1>2 DEF SyncError, SyncFinish, Release, Record, RegisterCancel, SetError,
       SetFinished, ClearCancelCallback, SetCancelCallback, ControllerState
  <2>2. UNCHANGED <<net, timerfd>>
    BY <1>2 DEF SyncError, SyncFinish, Release, Record, RegisterCancel, timerVars
  <2> QED
    BY <2>1, <2>2
<1>3. CASE CheckCall \/ Discover \/ PrepareCall \/ ArmTimer \/ SyncRun \/ Teardown \/ RunClosure
  <2>1. UNCHANGED <<ctl, net>> /\ (UNCHANGED timerfd \/ pc = "arm")
    BY <1>3 DEF CheckCall, Discover,
       AskCentre, LookupReturns, ResolvePeer, PrepareCall, ArmTimer, SyncRun, Teardown,
       RunClosure,
       timerVars
  <2> QED
    BY <2>1
<1>4. CASE ConnectInProgress \/ ConnectAtOnce
  <2>1. UNCHANGED <<ctl, timerfd>> /\ pc = "connect" /\ \E l \in Links : net' = [net EXCEPT !.link = l]
    BY <1>4 DEF ConnectInProgress, ConnectAtOnce, Continue, timerVars, Links
  <2> QED
    BY <1>0, <2>1 DEF NetState
<1>5. CASE ConnectFails
  BY <1>1, <1>5 DEF ConnectFails, timerVars
<1>6. CASE Loop
  <2>1. UNCHANGED <<ctl, net, timerfd>>
    BY <1>6 DEF Loop, LoopSwap, BatchEnd, PollWait, DispatchTimer, DispatchWakeup,
       DispatchSocket, DispatchEnd, timerVars
  <2> QED
    BY <2>1
<1>7. CASE TaskNothing \/ TaskDrainWakeup
  <2>1. UNCHANGED <<ctl, net, timerfd>>
    BY <1>7 DEF TaskNothing, TaskDrainWakeup, timerVars
  <2> QED
    BY <2>1
<1>8. CASE TaskCancel \/ TaskOnTimer \/ TaskError \/ TaskConnect
  <2>1. UNCHANGED net /\ (UNCHANGED timerfd \/ timerfd' = "off")
    BY <1>8 DEF TaskCancel, TaskOnTimer, TaskError, TaskConnect, timerVars
  <2>2. \E e : TryComplete(e) \/ Continue
    BY <1>8 DEF TaskCancel, TaskOnTimer, TaskError, TaskConnect, ClearConnection
  <2> QED
    BY <1>1, <2>1, <2>2
<1>9. CASE TaskOnWrite
  <2>1. UNCHANGED timerfd /\ \E e : TryComplete(e) \/ Continue
    BY <1>9 DEF TaskOnWrite, ClearConnection, timerVars
  <2>2. \/ UNCHANGED net
        \/ \E b \in BOOLEAN : net' = [net EXCEPT !.req = @ \/ b]
    <3>1. PICK fits \in BOOLEAN, all \in BOOLEAN :
            \/ UNCHANGED net
            \/ net' = [net EXCEPT !.req = @ \/ (all /\ (conn.unsent \/ (conn.wdone /\ fits)))]
      BY <1>9 DEF TaskOnWrite
    <3>2. (all /\ (conn.unsent \/ (conn.wdone /\ fits))) \in BOOLEAN
      OBVIOUS
    <3> QED
      BY <3>1, <3>2
  <2> QED
    BY <1>0, <1>1, <2>1, <2>2 DEF NetState
<1>10. CASE TaskOnRead
  <2>1. UNCHANGED timerfd /\ \E e : TryComplete(e) \/ Continue
    <3>1. ClearConnection => \E e : TryComplete(e) \/ Continue
      BY DEF ClearConnection
    <3>2. Execute(net.rx) => \E e : TryComplete(e) \/ Continue
      BY DEF Execute
    <3>3. ClearConnection \/ Execute(net.rx) \/ Continue
      BY <1>10 DEF TaskOnRead
    <3>4. UNCHANGED timerfd
      BY <1>10 DEF TaskOnRead, timerVars
    <3> QED
      BY <3>1, <3>2, <3>3, <3>4
  <2>2. UNCHANGED net \/ net' = [net EXCEPT !.rx = <<>>]
    BY <1>10 DEF TaskOnRead
  <2> QED
    BY <1>0, <1>1, <2>1, <2>2 DEF NetState
<1>11. CASE \E t \in Cancellers : Canceller(t)
  <2>1. UNCHANGED <<net, timerfd>>
    BY <1>11 DEF Canceller, StartCancel, CancelNotifies, CancelEnqueues, timerVars
  <2>2. ctl.cancelled => ctl'.cancelled
    BY <1>0, <1>11 DEF Canceller, StartCancel, CancelNotifies, CancelEnqueues, MayCancel
  <2> QED
    BY <2>1, <2>2
<1>12. CASE UserNotifyOnCancel
  BY <1>0, <1>12 DEF UserNotifyOnCancel, NotifyOnCancel, timerVars, ControllerState
<1>13. CASE Peer
  <2>1. UNCHANGED <<ctl, timerfd>>
    BY <1>13 DEF Peer, Handshake, PeerSends, PeerCloses, timerVars
  <2>2. CASE Handshake
    BY <1>0, <2>1, <2>2 DEF Handshake, NetState
  <2>3. CASE PeerSends
    BY <1>0, <2>1, <2>3 DEF PeerSends, NetState
  <2>4. CASE PeerCloses
    BY <1>0, <2>1, <2>4 DEF PeerCloses, NetState
  <2> QED
    BY <1>13, <2>2, <2>3, <2>4 DEF Peer
<1>14. CASE DeadlinePasses
  BY <1>14 DEF DeadlinePasses
<1>15. CASE UNCHANGED vars
  BY <1>15 DEF vars, timerVars
<1> QED
  BY <1>2, <1>3, <1>4, <1>5, <1>6, <1>7, <1>8, <1>9, <1>10, <1>11, <1>12, <1>13, <1>14, <1>15
  DEF Next, CallingThread, Setup, Completion, RunTask, Finished

\* What may be queued may be queued ever after.
LEMMA QueueableGrows ==
  ASSUME TypeOK, TasksInv, [Next]_vars
  PROVE  Queueable \subseteq Queueable'
BY EvidenceStays DEF Queueable, TasksInv, SetupPc

\* The operations on a connection keep its callbacks in step with its socket.
LEMMA WiredStays ==
  ASSUME NEW c \in ConnectionState, NEW link, Wired(c, link),
         NEW s \in BOOLEAN, NEW b \in BOOLEAN, NEW ev \in {"IN", "OUT"}
  PROVE  /\ Wired(Cancle(c, ev), link)
         /\ Wired(DeleteEpollEvent(c), link)
         /\ Wired(AddEpollEvent(c, s), link)
         /\ Wired(Clear(c), link)
         /\ Wired([c EXCEPT !.disc = b], link)
         /\ Wired([c EXCEPT !.rdone = b], link)
         /\ Wired([c EXCEPT !.wdone = b], link)
         /\ Wired([c EXCEPT !.unsent = b], link)
         /\ link = "up" => Wired(SetConnected(c), link)
<1>1. Wired(Cancle(c, ev), link)
  BY DEF Wired, ConnectionState, Cancle
<1>2. Wired(DeleteEpollEvent(c), link)
  BY DEF Wired, ConnectionState, DeleteEpollEvent
<1>3. Wired(AddEpollEvent(c, s), link)
  BY DEF Wired, ConnectionState, AddEpollEvent
<1>4. Wired(Clear(c), link)
  BY DEF Wired, ConnectionState, Clear, ResetFdEvent, DeleteEpollEvent
<1>5. Wired([c EXCEPT !.disc = b], link) /\ Wired([c EXCEPT !.rdone = b], link)
  BY DEF Wired, ConnectionState
<1>6. Wired([c EXCEPT !.wdone = b], link) /\ Wired([c EXCEPT !.unsent = b], link)
  BY DEF Wired, ConnectionState
<1>7. link = "up" => Wired(SetConnected(c), link)
  BY DEF Wired, ConnectionState, SetConnected
<1> QED
  BY <1>1, <1>2, <1>3, <1>4, <1>5, <1>6, <1>7

\* The read and write handlers are registered on a socket that is connected.
LEMMA WiredToTransfer ==
  ASSUME NEW c \in ConnectionState, Wired(c, "up"), NEW s \in BOOLEAN
  PROVE  Wired(WriteMessage(c, s), "up") /\ Wired(ReadMessage(c, s), "up")
<1>1. ASSUME NEW d \in ConnectionState, Wired(d, "up")
      PROVE  Wired(ListenWrite(d, s), "up") /\ Wired(ListenRead(d, s), "up")
  BY <1>1 DEF Wired, ConnectionState, ListenWrite, ListenRead, AddEpollEvent, Listen
<1>2. /\ [c EXCEPT !.wdone = TRUE] \in ConnectionState
      /\ [c EXCEPT !.rdone = TRUE] \in ConnectionState
  BY DEF ConnectionState
<1>3. Wired([c EXCEPT !.wdone = TRUE], "up") /\ Wired([c EXCEPT !.rdone = TRUE], "up")
  BY WiredStays
<1> QED
  BY <1>1, <1>2, <1>3 DEF WriteMessage, ReadMessage

\* So every step leaves the connection and its socket in step.
LEMMA WiredStep ==
  ASSUME CallInv, JustInv, [Next]_vars
  PROVE  Wired(conn', net'.link)
<1>0. /\ TypeOK /\ conn \in ConnectionState /\ net \in NetState /\ stop \in BOOLEAN
      /\ Wired(conn, net.link)
  BY DEF CallInv, TypeOK, JustInv
<1>1. ASSUME pc # "connect", NEW c \in ConnectionState, Wired(c, net.link)
      PROVE  Wired(c, net'.link)
  BY <1>0, <1>1, EvidenceStays DEF Wired
<1>2. ASSUME NEW c \in ConnectionState, Wired(c, "up") PROVE Wired(SendRequest(SetConnected(c)), "up")
  <2>1. SetConnected(c) \in ConnectionState /\ Wired(SetConnected(c), "up")
    BY <1>2, WiredStays, ConnectionTypes
  <2> QED
    BY <1>0, <2>1, WiredToTransfer DEF SendRequest
<1>3. CASE PrepareCall
  <2>1. \A open \in BOOLEAN : Wired(NewConnection(open), net.link)
    BY DEF Wired, NewConnection
  <2> QED
    BY <1>3, <2>1 DEF PrepareCall
<1>4. CASE ArmTimer \/ Release \/ Teardown
  <2>1. ASSUME NEW b \in BOOLEAN PROVE Wired([conn EXCEPT !.disc = b], net.link)
    BY <1>0, WiredStays
  <2>2. /\ Wired([conn EXCEPT !.disc = FALSE, !.rdone = FALSE], net.link)
        /\ Wired([conn EXCEPT !.disc = conn.open], net.link)
    BY <1>0 DEF Wired, ConnectionState
  <2>3. Wired(Clear([conn EXCEPT !.disc = FALSE]), net.link)
    <3>1. [conn EXCEPT !.disc = FALSE] \in ConnectionState
      BY <1>0 DEF ConnectionState
    <3> QED
      BY <2>1, <3>1, WiredStays
  <2>4. UNCHANGED net
    BY <1>4 DEF ArmTimer, Release, Teardown
  <2> QED
    BY <1>4, <2>2, <2>3, <2>4 DEF ArmTimer, Release, Teardown
<1>5. CASE ConnectInProgress
  <2>1. net'.link = "syn"
    BY <1>0, <1>5 DEF ConnectInProgress, NetState
  <2>2. conn.state # "Connected"
    BY <1>0, <1>5 DEF ConnectInProgress, JustInv, TasksInv, SetupPc, Wired
  <2>3. conn' = AddEpollEvent(Listen(conn, "OUT", "connectCb", "connectCb"), stop)
    BY <1>5 DEF ConnectInProgress
  <2> QED
    BY <1>0, <2>1, <2>2, <2>3 DEF Wired, AddEpollEvent, Listen, ConnectionState
<1>6. CASE ConnectAtOnce
  <2>1. net'.link = "up"
    BY <1>0, <1>6 DEF ConnectAtOnce, NetState
  <2>2. Wired(conn, "up")
    BY <1>0 DEF Wired
  <2> QED
    BY <1>0, <1>2, <1>6, <2>1, <2>2 DEF ConnectAtOnce
<1>7. CASE DispatchSocket
  <2>1. UNCHANGED net /\ (conn' = conn \/ conn' = DeleteEpollEvent(conn))
    BY <1>7 DEF DispatchSocket
  <2> QED
    BY <1>0, <2>1, WiredStays
<1>8. ASSUME ClearConnection PROVE Wired(conn', net.link)
  BY <1>0, <1>8, WiredStays DEF ClearConnection
<1>9. CASE TaskError
  BY <1>8, <1>9 DEF TaskError
<1>10. CASE TaskConnect
  <2> DEFINE idle == DeleteEpollEvent(Cancle(conn, "OUT"))
  <2>1. Cancle(conn, "OUT") \in ConnectionState /\ Wired(Cancle(conn, "OUT"), net.link)
    BY <1>0, WiredStays, FdEventTypes DEF Callbacks
  <2>2. idle \in ConnectionState /\ Wired(idle, net.link)
    BY <1>0, <2>1, WiredStays, FdEventTypes DEF Callbacks
  <2>3. /\ [idle EXCEPT !.disc = FALSE] \in ConnectionState
        /\ Wired([idle EXCEPT !.disc = FALSE], net.link)
    <3> HIDE DEF idle
    <3>1. [idle EXCEPT !.disc = FALSE] \in ConnectionState
      BY <2>2 DEF ConnectionState
    <3> QED
      BY <2>2, <3>1, WiredStays
  <2>4. UNCHANGED net
    BY <1>10 DEF TaskConnect
  <2>5. CASE ConnectError = "none"
    <3>1. net.link = "up"
      <4>1. "connectCb" \in Queueable
        BY <1>10 DEF TaskConnect, NextTask, JustInv, TasksInv
      <4> QED
        BY <1>0, <2>5, <4>1 DEF Queueable, ConnectError, NetState, Links
    <3>2. conn' = SendRequest(SetConnected(idle))
      BY <1>10, <2>5 DEF TaskConnect
    <3> HIDE DEF idle
    <3> QED
      BY <1>2, <2>2, <2>4, <3>1, <3>2
  <2>6. CASE ConnectError # "none"
    <3>1. conn' = Clear([idle EXCEPT !.disc = FALSE])
      BY <1>10, <2>6 DEF TaskConnect
    <3> HIDE DEF idle
    <3> QED
      BY <2>3, <2>4, <3>1, WiredStays
  <2> QED
    BY <2>5, <2>6
<1>11. CASE TaskOnWrite
  <2>1. Usable(conn) => Wired(RequestSent(conn), net.link) /\ Wired([conn EXCEPT !.unsent = TRUE], net.link)
    <3> SUFFICES ASSUME Usable(conn)
                 PROVE  Wired(RequestSent(conn), "up") /\ Wired([conn EXCEPT !.unsent = TRUE], "up")
      BY <1>0 DEF Usable, Wired
    <3>1. Wired(conn, "up")
      BY <1>0 DEF Usable, Wired
    <3> DEFINE a == [conn EXCEPT !.unsent = FALSE]
               b == Cancle(a, "OUT")
               c == AddEpollEvent(b, stop)
               d == IF conn.wdone /\ ~completed THEN ReadMessage(c, stop) ELSE c
    <3>2. a \in ConnectionState /\ Wired(a, "up")
      BY <1>0, <3>1, WiredStays DEF ConnectionState
    <3>3. b \in ConnectionState /\ Wired(b, "up")
      BY <1>0, <3>2, WiredStays, FdEventTypes DEF Callbacks
    <3>4. c \in ConnectionState /\ Wired(c, "up")
      BY <1>0, <3>3, WiredStays, FdEventTypes DEF Callbacks
    <3> HIDE DEF c
    <3>5. d \in ConnectionState /\ Wired(d, "up")
      BY <1>0, <3>4, WiredToTransfer, ConnectionTypes
    <3>6. RequestSent(conn) = [d EXCEPT !.wdone = FALSE]
      BY DEF RequestSent, c
    <3> HIDE DEF d
    <3>7. Wired(RequestSent(conn), "up")
      BY <3>5, <3>6, WiredStays
    <3>8. Wired([conn EXCEPT !.unsent = TRUE], "up")
      BY <1>0, <3>1, WiredStays
    <3> QED
      BY <3>7, <3>8
  <2>2. \/ UNCHANGED conn
        \/ ClearConnection
        \/ Usable(conn) /\ (conn' = RequestSent(conn) \/ conn' = [conn EXCEPT !.unsent = TRUE])
    BY <1>11 DEF TaskOnWrite
  <2>3. Wired(conn', net.link)
    BY <1>0, <1>8, <2>1, <2>2
  <2>4. conn' \in ConnectionState /\ pc # "connect"
    <3>1. pc # "connect"
      BY <1>11 DEF TaskOnWrite, NextTask
    <3> QED
      BY <1>0, <3>1, TypeStep DEF TypeOK
  <2> QED
    BY <1>1, <2>3, <2>4
<1>12. CASE TaskOnRead
  <2>1. \/ UNCHANGED conn
        \/ ClearConnection
        \/ conn' = [conn EXCEPT !.rdone = FALSE]
    BY <1>12 DEF TaskOnRead, Execute
  <2>2. Wired(conn', net.link)
    BY <1>0, <1>8, <2>1, WiredStays
  <2>3. conn' \in ConnectionState /\ pc # "connect"
    <3>1. pc # "connect"
      BY <1>12 DEF TaskOnRead, NextTask
    <3> QED
      BY <1>0, <3>1, TypeStep DEF TypeOK
  <2> QED
    BY <1>1, <2>2, <2>3
<1>13. CASE Handshake \/ PeerSends \/ PeerCloses
  <2>1. UNCHANGED conn
    BY <1>13 DEF Handshake, PeerSends, PeerCloses
  <2>2. net'.link = net.link \/ net.link = "syn"
    BY <1>0, <1>13 DEF Handshake, PeerSends, PeerCloses, NetState
  <2>3. net'.link = net.link \/ net'.link # "idle"
    BY <1>0, <1>13 DEF Handshake, PeerSends, PeerCloses, NetState
  <2> QED
    BY <1>0, <2>1, <2>2, <2>3 DEF Wired
<1>14. CASE UNCHANGED <<conn, net>>
  BY <1>0, <1>14
<1>15. \/ CheckCall \/ Discover \/ RegisterCancel \/ ConnectFails \/ SyncError \/ SyncFinish
       \/ SyncRun \/ Record \/ RunClosure \/ LoopSwap \/ BatchEnd \/ PollWait \/ DispatchTimer
       \/ DispatchWakeup \/ DispatchEnd \/ TaskNothing \/ TaskDrainWakeup \/ TaskCancel
       \/ TaskOnTimer \/ (\E t \in Cancellers : Canceller(t)) \/ UserNotifyOnCancel
       \/ DeadlinePasses \/ UNCHANGED vars
       => UNCHANGED <<conn, net>>
  BY DEF CheckCall, Discover,
     AskCentre, LookupReturns, ResolvePeer, RegisterCancel, ConnectFails, SyncError,
     SyncFinish, SyncRun,
     Record, RunClosure, LoopSwap, BatchEnd, PollWait, DispatchTimer, DispatchWakeup,
     DispatchEnd, TaskNothing, TaskDrainWakeup, TaskCancel, TaskOnTimer, Canceller,
     StartCancel, CancelNotifies, CancelEnqueues, UserNotifyOnCancel, DeadlinePasses, vars
<1> QED
  BY <1>3, <1>4, <1>5, <1>6, <1>7, <1>9, <1>10, <1>11, <1>12, <1>13, <1>14, <1>15
  DEF Next, CallingThread, Setup, Completion, Loop, RunTask, Peer, Finished

\* The callbacks queued for an event of the socket have their reason.
LEMMA SocketTasksQueueable ==
  ASSUME CallInv, JustInv, NEW e \in events, e.src = "conn"
  PROVE  SocketTasks(conn, e.flags) \in Seq(Queueable)
<1>0. /\ conn \in ConnectionState /\ net \in NetState /\ Wired(conn, net.link)
      /\ net.link # "syn"
      /\ "ERR" \in e.flags => net.link \in {"refused", "failed"} \/ net.down = "rst"
      /\ "RDHUP" \in e.flags => net.down = "fin"
  BY DEF CallInv, TypeOK, JustInv, EventInv
<1>1. conn.inCb \in Queueable
  BY <1>0 DEF Wired, Queueable, Tasks, Callbacks
<1>2. conn.outCb \in Queueable
  BY <1>0 DEF Wired, Queueable, Tasks, Callbacks
<1>3. e.flags \cap {"ERR", "RDHUP"} # {} => conn.errCb \in Queueable
  BY <1>0 DEF Wired, Queueable, Tasks, Callbacks
<1> DEFINE terminal == e.flags \cap {"ERR", "RDHUP"} # {}
           x == IF "IN" \in e.flags THEN <<conn.inCb>> ELSE <<>>
           y == IF "OUT" \in e.flags /\ ~terminal THEN <<conn.outCb>> ELSE <<>>
           z == IF terminal /\ conn.errCb # "null" THEN <<conn.errCb>> ELSE <<>>
<1>4. x \in Seq(Queueable) /\ y \in Seq(Queueable) /\ z \in Seq(Queueable)
  BY <1>1, <1>2, <1>3
<1>5. SocketTasks(conn, e.flags) = x \o y \o z
  BY DEF SocketTasks
<1> HIDE DEF x, y, z
<1> QED
  BY <1>4, <1>5

\* Nothing is queued without its reason.
LEMMA TasksStep ==
  ASSUME CallInv, JustInv, [Next]_vars
  PROVE  TasksInv'
<1>0. TypeOK /\ TasksInv /\ stop \in BOOLEAN
  BY DEF CallInv, TypeOK, JustInv
<1>1. Queueable \subseteq Queueable'
  BY <1>0, QueueableGrows
<1>2. Seq(Queueable) \subseteq Seq(Queueable')
  BY <1>1
<1>3. pending \in Seq(Queueable) /\ batch \in Seq(Queueable)
  BY <1>0 DEF TasksInv
<1>4. "onTimer" \in Queueable /\ "drainWakeup" \in Queueable /\ (ctl.cancelled => "cancel" \in Queueable)
  BY DEF Queueable, Tasks
<1>5. /\ \/ pending' = pending
         \/ pending' = <<>>
         \/ \E t \in Queueable : pending' = Append(pending, t)
         \/ \E s \in Seq(Queueable) : pending' = pending \o s
      /\ \/ batch' = batch \/ batch' = <<>> \/ batch' = pending
         \/ batch # <<>> /\ batch' = Tail(batch)
  <2>1. CASE RegisterCancel
    BY <1>4, <2>1 DEF RegisterCancel, AddTask
  <2>2. CASE LoopSwap
    BY <2>2 DEF LoopSwap
  <2>3. CASE DispatchTimer \/ DispatchWakeup
    <3>1. <<"onTimer">> \in Seq(Queueable) /\ <<"drainWakeup">> \in Seq(Queueable)
      BY <1>4
    <3> QED
      BY <2>3, <3>1 DEF DispatchTimer, DispatchWakeup, Enqueue
  <2>4. CASE DispatchSocket
    <3>1. PICK e \in events : e.src = "conn" /\ Enqueue(SocketTasks(conn, e.flags))
      BY <2>4 DEF DispatchSocket
    <3>2. SocketTasks(conn, e.flags) \in Seq(Queueable)
      BY <3>1, SocketTasksQueueable
    <3>3. UNCHANGED batch
      BY <2>4 DEF DispatchSocket
    <3> QED
      BY <3>1, <3>2, <3>3 DEF Enqueue
  <2>5. CASE RunTask
    BY <2>5 DEF RunTask, TaskNothing, TaskDrainWakeup, TaskCancel, TaskOnTimer, TaskError,
       TaskConnect, TaskOnWrite, TaskOnRead, NextTask
  <2>6. CASE \E t \in Cancellers : Canceller(t)
    <3>1. PICK t \in Cancellers : Canceller(t)
      BY <2>6
    <3>2. CancelEnqueues(t) => ctl.cancelled
      BY DEF CancelEnqueues, JustInv, CancelInv
    <3> QED
      BY <1>4, <3>1, <3>2 DEF Canceller, StartCancel, CancelNotifies, CancelEnqueues, AddTask,
         loopVars
  <2>7. CASE BatchEnd
    BY <2>7 DEF BatchEnd
  <2>8. \/ CheckCall \/ Discover \/ PrepareCall \/ ArmTimer \/ ConnectInProgress
        \/ ConnectAtOnce \/ ConnectFails \/ SyncError \/ SyncFinish \/ SyncRun
        \/ Completion \/ PollWait \/ DispatchEnd
        \/ UserNotifyOnCancel \/ Peer \/ DeadlinePasses \/ UNCHANGED vars
        => UNCHANGED <<pending, batch>>
    BY DEF CheckCall, Discover,
       AskCentre, LookupReturns, ResolvePeer, PrepareCall, ArmTimer, ConnectInProgress,
       ConnectAtOnce,
       ConnectFails, SyncError, SyncFinish, SyncRun, Completion, Release, Record, Teardown,
       RunClosure, PollWait, DispatchEnd, UserNotifyOnCancel, Peer, Handshake, PeerSends,
       PeerCloses, DeadlinePasses, vars, loopVars
  <2> QED
    BY <2>1, <2>2, <2>3, <2>4, <2>5, <2>6, <2>7, <2>8
    DEF Next, CallingThread, Setup, Loop, Finished
<1>6. pending' \in Seq(Queueable) /\ batch' \in Seq(Queueable)
  <2>1. <<>> \in Seq(Queueable)
    OBVIOUS
  <2>2. \A t \in Queueable : Append(pending, t) \in Seq(Queueable)
    BY <1>3
  <2>3. \A s \in Seq(Queueable) : pending \o s \in Seq(Queueable)
    BY <1>3
  <2>4. batch # <<>> => Tail(batch) \in Seq(Queueable)
    BY <1>3
  <2> QED
    BY <1>3, <1>5, <2>1, <2>2, <2>3, <2>4
<1>7. pc' \in SetupPc => net'.link = "idle" /\ batch' = <<>>
  <2> SUFFICES ASSUME pc' \in SetupPc PROVE net'.link = "idle" /\ batch' = <<>>
    OBVIOUS
  <2> USE DEF SetupPc
  <2>1. \/ CheckCall \/ Discover \/ PrepareCall \/ RegisterCancel \/ ArmTimer
        \/ (\E t \in Cancellers : Canceller(t))
        \/ UserNotifyOnCancel \/ Peer \/ DeadlinePasses \/ UNCHANGED vars
    <3>1. ~ConnectInProgress /\ ~ConnectAtOnce /\ ~ConnectFails
      BY DEF ConnectInProgress, ConnectAtOnce, ConnectFails, TryComplete, Begin, Continue, Resume
    <3>2. ~SyncError /\ ~SyncFinish /\ ~SyncRun /\ ~Completion
      BY DEF SyncError, SyncFinish, SyncRun, Completion, Release, Record, Teardown, RunClosure,
         Resume
    <3>3. ~Loop
      BY DEF Loop, LoopSwap, BatchEnd, PollWait, DispatchTimer, DispatchWakeup, DispatchSocket,
         DispatchEnd, callVars
    <3>4. ~RunTask
      BY TaskOutcome DEF Begin
    <3> QED
      BY <3>1, <3>2, <3>3, <3>4 DEF Next, CallingThread, Setup, Finished
  <2>2. UNCHANGED batch /\ pc \in SetupPc
    BY <2>1 DEF CheckCall, Discover,
       AskCentre, LookupReturns, ResolvePeer, PrepareCall, RegisterCancel, ArmTimer,
       Canceller,
       StartCancel, CancelNotifies, CancelEnqueues, UserNotifyOnCancel, Peer, Handshake,
       PeerSends, PeerCloses, DeadlinePasses, vars, loopVars, callVars
  <2>3. net.link = "idle" /\ batch = <<>>
    BY <1>0, <2>2 DEF TasksInv
  <2>4. UNCHANGED net
    BY <2>1, <2>3 DEF CheckCall, Discover,
       AskCentre, LookupReturns, ResolvePeer, PrepareCall, RegisterCancel, ArmTimer,
       Canceller,
       StartCancel, CancelNotifies, CancelEnqueues, UserNotifyOnCancel, Peer, Handshake,
       PeerSends, PeerCloses, DeadlinePasses, vars
  <2> QED
    BY <2>2, <2>3, <2>4
<1> QED
  BY <1>2, <1>6, <1>7 DEF TasksInv

\* What epoll reports stays true until the dispatch is over.
LEMMA EventStep ==
  ASSUME CallInv, JustInv, [Next]_vars
  PROVE  EventInv'
<1>0. TypeOK /\ EventInv /\ net \in NetState
  BY DEF CallInv, TypeOK, JustInv
<1>1. CASE PollWait
  <2>1. UNCHANGED net /\ pc' = "dispatch" /\ events' = Ready
    BY <1>1 DEF PollWait
  <2>2. ASSUME NEW e \in Ready, e.src = "conn"
        PROVE  /\ net.link # "syn"
               /\ "ERR" \in e.flags => net.link \in {"refused", "failed"} \/ net.down = "rst"
               /\ "RDHUP" \in e.flags => net.down = "fin"
    <3>1. e.flags = SocketFlags /\ SocketFlags # {}
      BY <2>2 DEF Ready
    <3> QED
      BY <3>1 DEF SocketFlags
  <2> QED
    BY <2>1, <2>2 DEF EventInv
<1>2. CASE events' \subseteq events /\ (pc' = pc \/ events' = {})
  <2>1. ASSUME NEW e \in events', e.src = "conn"
        PROVE  /\ pc' = "dispatch" /\ net'.link # "syn"
               /\ "ERR" \in e.flags => net'.link \in {"refused", "failed"} \/ net'.down = "rst"
               /\ "RDHUP" \in e.flags => net'.down = "fin"
    <3>1. /\ pc = "dispatch" /\ net.link # "syn"
          /\ "ERR" \in e.flags => net.link \in {"refused", "failed"} \/ net.down = "rst"
          /\ "RDHUP" \in e.flags => net.down = "fin"
      BY <1>0, <1>2, <2>1 DEF EventInv
    <3>2. net'.link = net.link /\ (net.down # "no" => net'.down = net.down)
      BY <1>0, <3>1, EvidenceStays
    <3> QED
      BY <1>2, <2>1, <3>1, <3>2
  <2> QED
    BY <2>1 DEF EventInv
<1>3. CASE UNCHANGED events /\ pc # "dispatch"
  BY <1>0, <1>3 DEF EventInv
<1>4. CASE DispatchTimer \/ DispatchWakeup \/ DispatchSocket \/ DispatchEnd
  BY <1>2, <1>4 DEF DispatchTimer, DispatchWakeup, DispatchSocket, DispatchEnd, callVars, loopVars
<1>5. CASE (\E t \in Cancellers : Canceller(t)) \/ UserNotifyOnCancel \/ Peer \/ DeadlinePasses
           \/ UNCHANGED vars
  <2>1. UNCHANGED <<events, pc>>
    BY <1>5 DEF Canceller, StartCancel, CancelNotifies, CancelEnqueues, UserNotifyOnCancel,
       Peer, Handshake, PeerSends, PeerCloses, DeadlinePasses, vars, callVars, loopVars
  <2> QED
    BY <1>2, <2>1
<1>6. CASE Setup \/ Completion \/ LoopSwap \/ BatchEnd
  BY <1>3, <1>6 DEF Setup, CheckCall, Discover,
     AskCentre, LookupReturns, ResolvePeer, PrepareCall, RegisterCancel, ArmTimer,
     ConnectInProgress, ConnectAtOnce, ConnectFails, SyncError, SyncFinish, SyncRun, Completion,
     Release, Record, Teardown, RunClosure, LoopSwap, BatchEnd, loopVars
<1>7. CASE RunTask
  BY <1>3, <1>7, TaskOutcome
<1> QED
  BY <1>1, <1>4, <1>5, <1>6, <1>7 DEF Next, CallingThread, Loop, Finished

\* The peer sends only to who asked, and only what it sent is read.
LEMMA PeerStep ==
  ASSUME CallInv, JustInv, [Next]_vars
  PROVE  PeerInv'
<1>0. TypeOK /\ PeerInv /\ net \in NetState
  BY DEF CallInv, TypeOK, JustInv
<1>1. CASE PeerSends
  <2>1. PICK f \in Frames :
          net' = [net EXCEPT !.rx = Append(@, f), !.sent = @ \cup {f}, !.room = @ - 1]
    BY <1>1 DEF PeerSends
  <2>2. net'.rx = Append(net.rx, f) /\ net'.sent = net.sent \cup {f} /\ net'.req = net.req
    BY <1>0, <2>1 DEF NetState
  <2>3. net.rx \in Seq(net.sent \cup {f})
    BY <1>0 DEF PeerInv
  <2>4. Append(net.rx, f) \in Seq(net.sent \cup {f})
    BY <2>3
  <2> QED
    BY <1>1, <2>2, <2>4 DEF PeerInv, PeerSends
<1>2. ~PeerSends => /\ net'.rx \in {net.rx, <<>>} /\ net'.sent = net.sent
                    /\ net.req => net'.req
  <2> SUFFICES ASSUME ~PeerSends PROVE net'.rx \in {net.rx, <<>>} /\ net'.sent = net.sent
    BY <1>0, EvidenceStays
  <2>1. CASE TaskOnRead
    <3>1. UNCHANGED net \/ net' = [net EXCEPT !.rx = <<>>]
      BY <2>1 DEF TaskOnRead
    <3> QED
      BY <1>0, <3>1 DEF NetState
  <2>2. CASE TaskOnWrite
    <3>1. PICK fits \in BOOLEAN, all \in BOOLEAN :
            \/ UNCHANGED net
            \/ net' = [net EXCEPT !.req = @ \/ (all /\ (conn.unsent \/ (conn.wdone /\ fits)))]
      BY <2>2 DEF TaskOnWrite
    <3> QED
      BY <1>0, <3>1 DEF NetState
  <2>3. CASE Handshake \/ PeerCloses \/ ConnectInProgress \/ ConnectAtOnce
    BY <1>0, <2>3 DEF Handshake, PeerCloses, ConnectInProgress, ConnectAtOnce, NetState
  <2>4. \/ CheckCall \/ Discover \/ PrepareCall \/ RegisterCancel \/ ArmTimer \/ ConnectFails
        \/ SyncError \/ SyncFinish \/ SyncRun \/ Completion \/ Loop
        \/ TaskNothing \/ TaskDrainWakeup \/ TaskCancel \/ TaskOnTimer \/ TaskError \/ TaskConnect
        \/ (\E t \in Cancellers : Canceller(t)) \/ UserNotifyOnCancel
        \/ DeadlinePasses \/ UNCHANGED vars
        => UNCHANGED net
    BY DEF CheckCall, Discover,
       AskCentre, LookupReturns, ResolvePeer, PrepareCall, RegisterCancel, ArmTimer,
       ConnectFails, SyncError,
       SyncFinish, SyncRun, Completion, Release, Record, Teardown, RunClosure, Loop, LoopSwap,
       BatchEnd, PollWait, DispatchTimer, DispatchWakeup, DispatchSocket, DispatchEnd,
       TaskNothing, TaskDrainWakeup, TaskCancel, TaskOnTimer, TaskError, TaskConnect, Canceller,
       StartCancel, CancelNotifies, CancelEnqueues, UserNotifyOnCancel, DeadlinePasses, vars
  <2> QED
    BY <2>1, <2>2, <2>3, <2>4
    DEF Next, CallingThread, Setup, RunTask, Peer, Finished
<1>3. CASE ~PeerSends
  <2>1. net'.rx \in Seq(net'.sent)
    <3>1. <<>> \in Seq(net.sent) /\ net.rx \in Seq(net.sent)
      BY <1>0 DEF PeerInv
    <3> QED
      BY <1>2, <1>3, <3>1
  <2> QED
    BY <1>0, <1>2, <1>3, <2>1 DEF PeerInv
<1> QED
  BY <1>1, <1>3

\* A thread past the locked block of StartCancel has cancelled.
LEMMA CancelStep ==
  ASSUME CallInv, JustInv, [Next]_vars
  PROVE  CancelInv'
<1>0. /\ TypeOK /\ CancelInv /\ ctl \in ControllerState
      /\ cpc \in [Cancellers -> {"idle", "both", "notify", "enqueue", "done"}]
  BY DEF CallInv, TypeOK, JustInv
<1>1. ctl.cancelled => ctl'.cancelled
  BY <1>0, EvidenceStays
<1>2. CASE \E t \in Cancellers : Canceller(t)
  <2>1. PICK t \in Cancellers : Canceller(t)
    BY <1>2
  <2>2. CASE StartCancel(t)
    <3>1. CASE MayCancel(ctl)
      <4>1. ctl'.cancelled
        BY <1>0, <2>2, <3>1 DEF StartCancel, TakeCallbacks, ControllerState
      <4> QED
        BY <4>1 DEF CancelInv
    <3>2. CASE ~MayCancel(ctl)
      BY <1>0, <2>2, <3>2 DEF StartCancel, CancelInv
    <3> QED
      BY <3>1, <3>2
  <2>3. CASE CancelNotifies(t) \/ CancelEnqueues(t)
    <3>1. ctl.cancelled /\ UNCHANGED ctl
      BY <1>0, <2>3 DEF CancelNotifies, CancelEnqueues, CancelInv
    <3> QED
      BY <3>1 DEF CancelInv
  <2> QED
    BY <2>1, <2>2, <2>3 DEF Canceller
<1>3. CASE UNCHANGED cpc
  BY <1>0, <1>1, <1>3 DEF CancelInv
<1>4. CASE RunTask
  BY <1>3, <1>4, TaskOutcome DEF userVars
<1>5. CASE Setup \/ Completion \/ Loop \/ UserNotifyOnCancel \/ Peer \/ DeadlinePasses
           \/ UNCHANGED vars
  <2>1. UNCHANGED cpc
    BY <1>5 DEF Setup, CheckCall, Discover,
       AskCentre, LookupReturns, ResolvePeer, PrepareCall, RegisterCancel, ArmTimer,
       ConnectInProgress, ConnectAtOnce, ConnectFails, SyncError, SyncFinish, SyncRun, Completion,
       Release, Record, Teardown, RunClosure, Loop, LoopSwap, BatchEnd, PollWait, DispatchTimer,
       DispatchWakeup, DispatchSocket, DispatchEnd, UserNotifyOnCancel, Peer, Handshake,
       PeerSends, PeerCloses, DeadlinePasses, vars, userVars
  <2> QED
    BY <1>3, <2>1
<1> QED
  BY <1>2, <1>4, <1>5 DEF Next, CallingThread, Finished

\* A task ends the call only with an outcome there is evidence for.
LEMMA DecisionIsJustified ==
  ASSUME CallInv, JustInv, RunTask
  PROVE  \/ UNCHANGED <<completed, ctl, cause>> /\ pc' \in {"run", "returned"}
         \/ \E e \in Errors : Begin(e) /\ Justified(e)'
<1>0. /\ TypeOK /\ [Next]_vars /\ net \in NetState /\ ctl \in ControllerState
      /\ batch \in Seq(Queueable) /\ ~completed
      /\ net.rx \in Seq(net.sent) /\ (net.sent # {} => net.req)
  BY TaskOutcome DEF CallInv, TypeOK, JustInv, TasksInv, PeerInv, Next, CallingThread
<1>1. pc # "connect" /\ pc # "arm"
  BY TaskOutcome
<1>2. /\ ctl.cancelled => ctl'.cancelled
      /\ net.req => net'.req
      /\ net.sent \subseteq net'.sent
      /\ net.down # "no" => net'.down # "no"
      /\ net.link = "refused" => net'.link = "refused"
  BY <1>0, <1>1, EvidenceStays
<1>3. ASSUME NEW task, NextTask(task) PROVE task \in Queueable
  BY <1>0, <1>3 DEF NextTask
<1>4. Continue => UNCHANGED <<completed, ctl, cause>> /\ pc' \in {"run", "returned"}
  BY DEF Continue, Resume
<1>5. ASSUME NEW e \in Errors, Justified(e)', TryComplete(e) \/ Continue
      PROVE  \/ UNCHANGED <<completed, ctl, cause>> /\ pc' \in {"run", "returned"}
             \/ \E f \in Errors : Begin(f) /\ Justified(f)'
  BY <1>0, <1>4, <1>5 DEF TryComplete
<1>6. ASSUME net.down # "no", ClearConnection
      PROVE  \/ UNCHANGED <<completed, ctl, cause>> /\ pc' \in {"run", "returned"}
             \/ \E f \in Errors : Begin(f) /\ Justified(f)'
  <2>1. Justified("TRANSPORT")'
    BY <1>2, <1>6 DEF Justified
  <2>2. TryComplete("TRANSPORT") \/ Continue
    BY <1>6 DEF ClearConnection
  <2> QED
    BY <1>5, <2>1, <2>2, ErrorTypes
<1>7. CASE TaskNothing \/ TaskDrainWakeup
  BY <1>7, TaskOutcome DEF TaskNothing, TaskDrainWakeup, callVars, NextTask
<1>8. CASE TaskCancel
  <2>1. Justified("CANCELLED")'
    BY <1>2, <1>3, <1>8 DEF TaskCancel, Queueable, Justified
  <2> QED
    BY <1>5, <1>8, <2>1, ErrorTypes DEF TaskCancel
<1>9. CASE TaskOnTimer
  <2>1. Justified("TIMEOUT")'
    BY <1>9 DEF TaskOnTimer, Justified
  <2>2. TryComplete("TIMEOUT") \/ Continue
    BY <1>9 DEF TaskOnTimer
  <2> QED
    BY <1>5, <2>1, <2>2, ErrorTypes
<1>10. CASE TaskError
  <2>1. net.down # "no"
    BY <1>3, <1>10 DEF TaskError, Queueable
  <2> QED
    BY <1>6, <1>10, <2>1 DEF TaskError
<1>11. CASE TaskConnect
  <2>1. CASE ConnectError = "none"
    BY <1>4, <1>11, <2>1 DEF TaskConnect
  <2>2. CASE ConnectError # "none"
    <3>1. TryComplete(ConnectError)
      BY <1>11, <2>2 DEF TaskConnect
    <3>2. PICK e \in Errors : e = ConnectError
      BY ErrorTypes
    <3>3. Justified(e)'
      <4>1. \/ e = "PEER_CLOSED" /\ net.link = "refused"
            \/ e = "FAILED_CONNECT" /\ (net.link = "failed" \/ net.down = "rst")
        BY <2>2, <3>2 DEF ConnectError
      <4>2. UNCHANGED net
        BY <1>11 DEF TaskConnect
      <4> QED
        BY <4>1, <4>2 DEF Justified
    <3> QED
      BY <1>5, <3>1, <3>2, <3>3
  <2> QED
    BY <2>1, <2>2
<1>12. CASE TaskOnWrite
  <2>1. Continue \/ (net.down = "rst" /\ ClearConnection)
    BY <1>12 DEF TaskOnWrite
  <2> QED
    BY <1>4, <1>6, <2>1
<1>13. CASE TaskOnRead
  <2>1. Continue \/ (net.down # "no" /\ ClearConnection) \/ Execute(net.rx)
    BY <1>13 DEF TaskOnRead
  <2>2. CASE Execute(net.rx)
    <3>1. CASE conn.rdone /\ Answers(net.rx) # {}
      <4>1. FirstAnswer(net.rx) \in net.sent \cap {"ok", "bad", "remoteErr"}
        BY <1>0, <3>1, FirstAnswerIsAnswer
      <4>2. PICK f \in {"ok", "bad", "remoteErr"} : f = FirstAnswer(net.rx) /\ f \in net.sent
        BY <4>1
      <4>3. net'.req /\ f \in net'.sent
        BY <1>0, <1>2, <4>2
      <4>4. PICK e \in Errors : e = ResponseError(f)
        BY ErrorTypes
      <4>5. Justified(e)'
        BY <4>3, <4>4 DEF Justified, ResponseError
      <4>6. TryComplete(e)
        BY <2>2, <3>1, <4>2, <4>4 DEF Execute
      <4> QED
        BY <1>5, <4>5, <4>6
    <3>2. CASE ~(conn.rdone /\ Answers(net.rx) # {})
      BY <1>4, <2>2, <3>2 DEF Execute
    <3> QED
      BY <3>1, <3>2
  <2> QED
    BY <1>4, <1>6, <2>1, <2>2
<1> QED
  BY <1>7, <1>8, <1>9, <1>10, <1>11, <1>12, <1>13 DEF RunTask

\* JustInv is inductive, given CallInv.
LEMMA JustStep == CallInv /\ JustInv /\ [Next]_vars => JustInv'
<1> SUFFICES ASSUME CallInv, JustInv, [Next]_vars PROVE JustInv'
  OBVIOUS
<1>0. TypeOK
  BY DEF CallInv
<1>1. TasksInv' /\ EventInv' /\ PeerInv' /\ CancelInv'
  BY TasksStep, EventStep, PeerStep, CancelStep
<1>2. Wired(conn, net.link)'
  BY WiredStep
<1>3. ASSUME completed PROVE pc \notin SetupPc \cup SyncPc
  BY <1>3 DEF CallInv, GateInv
<1>4. ASSUME completed PROVE Justified(cause) /\ (UNCHANGED cause => Justified(cause)')
  <2>1. Justified(cause)
    BY <1>4 DEF JustInv
  <2>2. ASSUME UNCHANGED cause PROVE Justified(cause)'
    BY <1>0, <1>3, <1>4, <2>1, <2>2, EvidenceStays DEF Justified, SetupPc
  <2> QED
    BY <2>1, <2>2
<1>5. completed' => Justified(cause)'
  <2>1. CASE RunTask
    <3>1. CASE UNCHANGED <<completed, cause>>
      BY <1>4, <3>1
    <3>2. ASSUME NEW e \in Errors, Begin(e), Justified(e)' PROVE Justified(cause)'
      BY <3>2 DEF Begin, Justified
    <3> QED
      BY <2>1, <3>1, <3>2, DecisionIsJustified
  <2>2. CASE ConnectFails
    <3>1. cause' = "FAILED_CONNECT"
      BY <2>2 DEF ConnectFails, TryComplete, Begin, CallInv, GateInv, SetupPc
    <3>2. net'.link = "idle"
      BY <2>2 DEF ConnectFails, JustInv, TasksInv, SetupPc
    <3> QED
      BY <3>1, <3>2 DEF Justified
  <2>3. CASE CheckCall \/ Discover
    <3>1. ~completed'
      BY <1>3, <2>3 DEF CheckCall, Discover, AskCentre, LookupReturns, ResolvePeer, SetupPc
    <3> QED
      BY <3>1
  <2>4. CASE UNCHANGED <<completed, cause>>
    BY <1>4, <2>4
  <2>5. \/ PrepareCall \/ RegisterCancel \/ ArmTimer \/ ConnectInProgress \/ ConnectAtOnce
        \/ SyncError \/ SyncFinish \/ SyncRun \/ Completion \/ Loop
        \/ (\E t \in Cancellers : Canceller(t)) \/ UserNotifyOnCancel \/ Peer
        \/ DeadlinePasses \/ UNCHANGED vars
        => UNCHANGED <<completed, cause>>
    BY DEF PrepareCall, RegisterCancel, ArmTimer, ConnectInProgress, ConnectAtOnce, Continue,
       SyncError, SyncFinish, SyncRun, Completion, Release, Record, Teardown, RunClosure, Loop,
       LoopSwap, BatchEnd, PollWait, DispatchTimer, DispatchWakeup, DispatchSocket, DispatchEnd,
       Canceller, StartCancel, CancelNotifies, CancelEnqueues, UserNotifyOnCancel, Peer,
       Handshake, PeerSends, PeerCloses, DeadlinePasses, vars, callVars
  <2> QED
    BY <2>1, <2>2, <2>3, <2>4, <2>5 DEF Next, CallingThread, Setup, Finished
<1> QED
  BY <1>1, <1>2, <1>5 DEF JustInv

\* JustInv holds in every state of a call.
LEMMA JustInvariant == Spec => []JustInv
<1>1. Init => JustInv
  <2> SUFFICES ASSUME Init PROVE JustInv
    OBVIOUS
  <2>1. "stale" \in Queueable
    BY DEF Queueable, Tasks
  <2>2. TasksInv
    <3>1. <<>> \in Seq(Queueable) /\ <<"stale">> \in Seq(Queueable)
      BY <2>1
    <3>2. pending \in {<<>>, <<"stale">>} /\ batch = <<>> /\ net.link = "idle"
      BY DEF Init
    <3> QED
      BY <3>1, <3>2 DEF TasksInv
  <2>3. Wired(conn, net.link)
    <3>1. conn = NewConnection(FALSE)
      BY DEF Init
    <3> QED
      BY <3>1 DEF Wired, NewConnection
  <2>4. EventInv /\ PeerInv
    <3>1. events = {} /\ net.rx = <<>> /\ net.sent = {}
      BY DEF Init
    <3>2. <<>> \in Seq({})
      OBVIOUS
    <3> QED
      BY <3>1, <3>2 DEF EventInv, PeerInv
  <2>5. CancelInv /\ ~completed
    BY DEF Init, CancelInv
  <2> QED
    BY <2>2, <2>3, <2>4, <2>5 DEF JustInv
<1> QED
  BY <1>1, CallInvariant, JustStep, PTL DEF Spec

\* The error code the closure finds says what happened, whatever the five ways to end
\* a call did and in whatever order: success only if the server received the request
\* and sent a good response, a cancellation only if someone cancelled, a transport
\* error only if the peer closed or reset, a timeout only if the timer expired.
THEOREM OutcomeSaysWhatHappened == Spec => []OutcomeJustified
<1>1. CallInv /\ JustInv => OutcomeJustified
  <2> SUFFICES ASSUME CallInv, JustInv, completed, runs = 1
               PROVE  Justified(ctl.error)
    BY DEF OutcomeJustified, Justified
  <2>1. pc \notin EndPc
    BY DEF CallInv, GateInv
  <2>2. ctl.error = cause
    BY <2>1 DEF CallInv, QuietInv, EndPc
  <2> QED
    BY <2>2 DEF JustInv
<1> QED
  BY <1>1, CallInvariant, JustInvariant, PTL

(***************************************************************************)
(* CallMethod implements the abstract call                                 *)
(***************************************************************************)

\* Every step of the threads, the peer and the clock is a step of the abstract call
\* or leaves it as it is.
LEMMA PromiseStep ==
  ASSUME CallInv, JustInv, [Next]_vars
  PROVE  [Promise!Next]_(Promise!vars)
<1>0. /\ TypeOK /\ ctl \in ControllerState /\ runs \in Nat /\ cause \in Errors
      /\ runs \in {0, 1}
  BY DEF CallInv, TypeOK, GateInv, SetupPc, SyncPc, EndPc, LoopPc
<1> DEFINE Stutter == UNCHANGED <<Phase, cause, ctl.error, ctl.cancelled>>
<1>1. Stutter => UNCHANGED Promise!vars
  BY DEF Promise!vars
<1>2. ASSUME pc \in {"start", "resolve", "connect", "run"}, runs = 0, UNCHANGED runs,
             NEW e \in Errors, e = "CANCELLED" => ctl.cancelled, cause' = e,
             pc' \in {"syncError", "release"},
             ctl'.error = ctl.error, ctl'.cancelled = ctl.cancelled
      PROVE  Promise!Decide
  <2>1. Phase = "pending" /\ Phase' = "decided"
    BY <1>2 DEF Phase
  <2> QED
    BY <1>2, <2>1 DEF Promise!Decide
<1>3. ASSUME NEW e, Begin(e) PROVE ctl'.error = ctl.error /\ ctl'.cancelled = ctl.cancelled
  BY <1>0, <1>3 DEF Begin, SetFinished, ControllerState
<1>4. CASE CheckCall \/ Discover
  <2>1. runs = 0 /\ UNCHANGED <<runs, ctl>> /\ pc \in {"start", "discover", "lookup", "resolve"}
    BY <1>4 DEF CheckCall, Discover,
       AskCentre, LookupReturns, ResolvePeer, CallInv, GateInv, SetupPc
  <2>2. CASE \E e : FailAtOnce(e)
    <3>1. PICK e \in Errors : FailAtOnce(e) /\ (e = "CANCELLED" => ctl.cancelled)
      BY <1>4, <2>2, ErrorTypes DEF CheckCall, Discover,
         AskCentre, LookupReturns, ResolvePeer, FailAtOnce
    <3>2. pc \in {"start", "resolve"}
      BY <1>4, <2>2 DEF CheckCall, Discover, AskCentre, LookupReturns, ResolvePeer, FailAtOnce
    <3> QED
      BY <1>2, <2>1, <3>1, <3>2 DEF FailAtOnce, Promise!Next
  <2>3. CASE pc' \in {"discover", "lookup", "resolve", "exited", "prepare"} /\ UNCHANGED cause
    <3>1. UNCHANGED Phase
      BY <2>1, <2>3 DEF Phase
    <3> QED
      BY <1>1, <2>1, <2>3, <3>1
  <2> QED
    BY <1>4, <2>2, <2>3 DEF CheckCall, Discover, AskCentre, LookupReturns, ResolvePeer
<1>5. CASE SyncError
  <2>1. runs = 0 /\ UNCHANGED <<runs, cause>>
    BY <1>5 DEF SyncError, CallInv, GateInv, SyncPc
  <2>2. Phase = "decided" /\ Phase' = "shown"
    BY <1>5, <2>1 DEF SyncError, Phase
  <2>3. ctl'.error = cause /\ ctl'.cancelled = ctl.cancelled
    BY <1>0, <1>5 DEF SyncError, SetError, ControllerState
  <2> QED
    BY <2>1, <2>2, <2>3 DEF Promise!Show, Promise!Next
<1>6. CASE SyncFinish
  <2>1. runs = 0 /\ UNCHANGED <<runs, cause>>
    BY <1>6 DEF SyncFinish, CallInv, GateInv, SyncPc
  <2>2. UNCHANGED Phase
    BY <1>6, <2>1 DEF SyncFinish, Phase
  <2>3. ctl'.error = ctl.error /\ ctl'.cancelled = ctl.cancelled
    BY <1>0, <1>6 DEF SyncFinish, SetFinished, ControllerState
  <2> QED
    BY <1>1, <2>1, <2>2, <2>3
<1>7. CASE SyncRun \/ RunClosure
  <2>1. runs = 0 /\ runs' = 1 /\ UNCHANGED <<cause, ctl>>
    BY <1>0, <1>7 DEF SyncRun, RunClosure, CallInv, GateInv, SyncPc, EndPc
  <2>2. Phase = "shown" /\ Phase' = "completed"
    BY <1>7, <2>1 DEF SyncRun, RunClosure, Resume, Phase
  <2> QED
    BY <2>1, <2>2 DEF Promise!RunClosure, Promise!Next
<1>8. CASE Release
  <2>1. runs = 0 /\ UNCHANGED <<runs, cause>>
    BY <1>8 DEF Release, CallInv, GateInv, EndPc
  <2>2. UNCHANGED Phase
    BY <1>8, <2>1 DEF Release, Phase
  <2>3. ctl'.error = ctl.error /\ ctl'.cancelled = ctl.cancelled
    BY <1>0, <1>8 DEF Release, ClearCancelCallback, ControllerState
  <2> QED
    BY <1>1, <2>1, <2>2, <2>3
<1>9. CASE Record
  <2>1. runs = 0 /\ UNCHANGED <<runs, cause>> /\ ctl.error = "none"
    BY <1>9 DEF Record, CallInv, GateInv, QuietInv, EndPc
  <2>2. Phase = "decided" /\ Phase' = "shown"
    BY <1>9, <2>1 DEF Record, Phase
  <2>3. ctl'.error = cause /\ ctl'.cancelled = ctl.cancelled
    BY <1>0, <1>9, <2>1 DEF Record, SetError, SetFinished, ControllerState
  <2> QED
    BY <2>1, <2>2, <2>3 DEF Promise!Show, Promise!Next
<1>10. CASE Teardown
  <2>1. runs = 0 /\ UNCHANGED <<runs, cause, ctl>>
    BY <1>10 DEF Teardown, CallInv, GateInv, EndPc
  <2>2. UNCHANGED Phase
    BY <1>10, <2>1 DEF Teardown, Phase
  <2> QED
    BY <1>1, <2>1, <2>2
<1>11. CASE ConnectFails
  <2>1. runs = 0 /\ UNCHANGED runs /\ pc = "connect" /\ Begin("FAILED_CONNECT")
    BY <1>11 DEF ConnectFails, TryComplete, CallInv, GateInv, SetupPc
  <2>2. cause' = "FAILED_CONNECT" /\ pc' = "release"
    BY <2>1 DEF Begin
  <2> QED
    BY <1>2, <1>3, <2>1, <2>2, ErrorTypes DEF Promise!Next
<1>12. CASE RunTask
  <2>1. pc = "run" /\ runs = 0 /\ UNCHANGED runs
    BY <1>12, TaskOutcome
  <2>2. CASE UNCHANGED <<ctl, cause>> /\ pc' \in {"run", "returned"}
    <3>1. UNCHANGED Phase
      BY <2>1, <2>2 DEF Phase
    <3> QED
      BY <1>1, <2>2, <3>1
  <2>3. ASSUME NEW e \in Errors, Begin(e), Justified(e)' PROVE Promise!Decide
    <3>1. cause' = e /\ pc' = "release" /\ (e = "CANCELLED" => ctl'.cancelled)
      BY <2>3 DEF Begin, Justified
    <3> QED
      BY <1>2, <1>3, <2>1, <2>3, <3>1
  <2> QED
    BY <1>12, <2>2, <2>3, DecisionIsJustified DEF Promise!Next
<1>13. CASE \/ PrepareCall \/ RegisterCancel \/ ArmTimer \/ ConnectInProgress \/ ConnectAtOnce
            \/ Loop
  <2>1. UNCHANGED <<runs, cause>>
    BY <1>13 DEF PrepareCall, RegisterCancel, ArmTimer, ConnectInProgress, ConnectAtOnce,
       Continue, Loop, LoopSwap, BatchEnd, PollWait, DispatchTimer, DispatchWakeup,
       DispatchSocket, DispatchEnd, callVars
  <2>2. ctl'.error = ctl.error /\ ctl'.cancelled = ctl.cancelled
    BY <1>0, <1>13 DEF PrepareCall, RegisterCancel, SetCancelCallback, ControllerState,
       ArmTimer, ConnectInProgress, ConnectAtOnce, Continue, Loop, LoopSwap, BatchEnd, PollWait,
       DispatchTimer, DispatchWakeup, DispatchSocket, DispatchEnd
  <2>3. {pc, pc'} \subseteq SetupPc \cup LoopPc \cup {"returned"}
    BY <1>13 DEF PrepareCall, RegisterCancel, ArmTimer, ConnectInProgress, ConnectAtOnce,
       Continue, Resume, Loop, LoopSwap, BatchEnd, PollWait, DispatchTimer, DispatchWakeup,
       DispatchSocket, DispatchEnd, callVars, SetupPc, LoopPc
  <2>4. UNCHANGED Phase
    BY <2>1, <2>3 DEF Phase, SetupPc, LoopPc
  <2> QED
    BY <1>1, <2>1, <2>2, <2>4
<1>14. CASE \E t \in Cancellers : Canceller(t)
  <2>1. PICK t \in Cancellers : Canceller(t)
    BY <1>14
  <2>2. UNCHANGED <<pc, runs, cause>>
    BY <2>1 DEF Canceller, StartCancel, CancelNotifies, CancelEnqueues, callVars
  <2>3. UNCHANGED Phase
    BY <2>2 DEF Phase
  <2>4. CASE UNCHANGED ctl
    BY <1>1, <2>2, <2>3, <2>4
  <2>5. CASE StartCancel(t) /\ MayCancel(ctl)
    <3>1. ~ctl.cancelled /\ ctl'.cancelled /\ ctl'.error = ctl.error
      BY <1>0, <2>5 DEF StartCancel, MayCancel, TakeCallbacks, ControllerState
    <3>2. ctl'.cancelled = TRUE
      BY <1>0, <2>5 DEF StartCancel, TakeCallbacks, ControllerState
    <3>3. Phase # "completed"
      <4>1. runs # 1
        BY <2>5 DEF MayCancel, CallInv, QuietInv
      <4> QED
        BY <4>1 DEF Phase
    <3> QED
      BY <2>2, <2>3, <3>1, <3>2, <3>3 DEF Promise!Cancel, Promise!Next
  <2> QED
    BY <2>1, <2>4, <2>5 DEF Canceller, StartCancel, CancelNotifies, CancelEnqueues
<1>15. CASE UserNotifyOnCancel \/ Peer \/ DeadlinePasses \/ UNCHANGED vars
  <2>1. UNCHANGED <<pc, runs, cause>>
    BY <1>15 DEF UserNotifyOnCancel, Peer, Handshake, PeerSends, PeerCloses, DeadlinePasses,
       vars, callVars
  <2>2. UNCHANGED Phase
    BY <2>1 DEF Phase
  <2>3. ctl'.error = ctl.error /\ ctl'.cancelled = ctl.cancelled
    BY <1>0, <1>15 DEF UserNotifyOnCancel, NotifyOnCancel, ControllerState, Peer, Handshake,
       PeerSends, PeerCloses, DeadlinePasses, vars
  <2> QED
    BY <1>1, <2>1, <2>2, <2>3
<1> QED
  BY <1>4, <1>5, <1>6, <1>7, <1>8, <1>9, <1>10, <1>11, <1>12, <1>13, <1>14, <1>15
  DEF Next, CallingThread, Setup, Completion, Finished

\* The safety half of KeepsPromise: a call is decided once, its outcome shown once and
\* only then its closure run, once, and it ends as cancelled only if the user asked
\* for it.  (The other half is about fairness.)
THEOREM PromiseIsKept == Spec => Promise!Safety
<1>1. Init => Promise!Init
  <2> SUFFICES ASSUME Init PROVE Promise!Init
    OBVIOUS
  <2>1. pc = "start" /\ runs = 0 /\ cause = "none"
    BY DEF Init
  <2>2. ctl.error = "none" /\ ctl.cancelled = FALSE
    BY DEF Init, NewController
  <2>3. Phase = "pending"
    BY <2>1 DEF Phase
  <2> QED
    BY <2>1, <2>2, <2>3 DEF Promise!Init
<1>2. CallInv /\ JustInv /\ [Next]_vars => [Promise!Next]_(Promise!vars)
  BY PromiseStep
<1> QED
  BY <1>1, <1>2, CallInvariant, JustInvariant, PTL DEF Spec, Promise!Safety

(***************************************************************************)
(* The NotifyOnCancel closure                                              *)
(***************************************************************************)

\* Thread t has taken the closure out of the controller and not yet run it.
Notifying(t) == cpc[t] \in {"both", "notify"}

\* NotifyOnCancel and StartCancel of rpc_controller.cc, whichever comes first and however
\* many threads cancel: the closure runs at most once, only on a cancelled call, and a
\* closure of a cancelled call has run or is in the hands of a thread that will run it.
NotifiedOnce ==
  /\ notified <= 1
  /\ notified = 1 => registered /\ ctl.cancelled
  /\ (registered /\ ctl.cancelled) => (notified = 1 \/ \E t \in Cancellers : Notifying(t))

\* Until somebody cancels, a registered closure is in the controller; then it is with one
\* thread; then it has run.
NotifyInv ==
  /\ ctl.notify <=> (registered /\ ~ctl.cancelled)
  /\ \A t \in Cancellers : Notifying(t) => registered /\ ctl.cancelled /\ notified = 0
  /\ \A t, u \in Cancellers : Notifying(t) /\ Notifying(u) => t = u
  /\ NotifiedOnce

\* What is left of a step when the threads that cancel and the registration are set
\* aside: nobody else touches the closure.
LEMMA NotifyUntouched ==
  ASSUME CallInv, [Next]_vars, ~UserNotifyOnCancel,
         ~\E t \in Cancellers : Canceller(t)
  PROVE  /\ UNCHANGED userVars
         /\ ctl'.cancelled = ctl.cancelled /\ ctl'.notify = ctl.notify
<1>0. ctl \in ControllerState
  BY DEF CallInv, TypeOK
<1>1. ASSUME NEW e, Begin(e)
      PROVE  ctl'.cancelled = ctl.cancelled /\ ctl'.notify = ctl.notify
  BY <1>0, <1>1 DEF Begin, SetFinished, ControllerState
<1>2. CASE RunTask
  BY <1>1, <1>2, TaskOutcome
<1>3. CASE SyncError \/ SyncFinish \/ Release \/ Record \/ RegisterCancel
  <2>1. ctl'.cancelled = ctl.cancelled /\ ctl'.notify = ctl.notify
    BY <1>0, <1>3 DEF SyncError, SyncFinish, Release, Record, RegisterCancel, SetError,
       SetFinished, ClearCancelCallback, SetCancelCallback, ControllerState
  <2>2. UNCHANGED userVars
    BY <1>3 DEF SyncError, SyncFinish, Release, Record, RegisterCancel
  <2> QED
    BY <2>1, <2>2
<1>4. CASE ConnectFails
  <2>1. UNCHANGED userVars /\ ((\E e : Begin(e)) \/ UNCHANGED ctl)
    BY <1>4 DEF ConnectFails, TryComplete, Continue
  <2> QED
    BY <1>1, <2>1
<1>5. CASE \/ CheckCall \/ Discover \/ PrepareCall \/ ArmTimer \/ SyncRun \/ Teardown
           \/ RunClosure \/ ConnectInProgress \/ ConnectAtOnce \/ Loop \/ Peer
           \/ DeadlinePasses \/ UNCHANGED vars
  <2>1. UNCHANGED <<ctl, userVars>>
    BY <1>5 DEF CheckCall, Discover,
       AskCentre, LookupReturns, ResolvePeer, PrepareCall, ArmTimer, SyncRun, Teardown,
       RunClosure,
       ConnectInProgress, ConnectAtOnce, Continue, Loop, LoopSwap, BatchEnd, PollWait,
       DispatchTimer, DispatchWakeup, DispatchSocket, DispatchEnd, Peer, Handshake,
       PeerSends, PeerCloses, DeadlinePasses, vars
  <2> QED
    BY <2>1
<1> QED
  BY <1>2, <1>3, <1>4, <1>5 DEF Next, CallingThread, Setup, Completion, Finished

\* No step loses the closure or takes it twice.
LEMMA NotifyStep == CallInv /\ NotifyInv /\ [Next]_vars => NotifyInv'
<1> SUFFICES ASSUME CallInv, NotifyInv, [Next]_vars PROVE NotifyInv'
  OBVIOUS
<1>0. /\ ctl \in ControllerState /\ notified \in Nat /\ registered \in BOOLEAN
      /\ cpc \in [Cancellers -> {"idle", "both", "notify", "enqueue", "done"}]
  BY DEF CallInv, TypeOK
<1>1. CASE UserNotifyOnCancel
  <2>1. /\ ~registered /\ registered' = TRUE /\ cpc' = cpc
        /\ ctl' = NotifyOnCancel(ctl)
        /\ notified' = IF ctl.cancelled THEN notified + 1 ELSE notified
    BY <1>1 DEF UserNotifyOnCancel
  <2>2. ctl'.cancelled = ctl.cancelled /\ (ctl'.notify <=> ~ctl.cancelled)
    BY <1>0, <2>1 DEF NotifyOnCancel, ControllerState, NotifyInv
  <2>3. notified = 0 /\ ~\E t \in Cancellers : Notifying(t)
    BY <1>0, <2>1 DEF NotifyInv, NotifiedOnce
  <2>4. \A t \in Cancellers : ~Notifying(t)'
    BY <2>1, <2>3 DEF Notifying
  <2> QED
    BY <2>1, <2>2, <2>3, <2>4 DEF NotifyInv, NotifiedOnce
<1>2. ASSUME NEW t \in Cancellers, Canceller(t) PROVE NotifyInv'
  <2>1. ASSUME NEW u \in Cancellers, u # t PROVE Notifying(u)' <=> Notifying(u)
    BY <1>0, <1>2, <2>1 DEF Canceller, StartCancel, CancelNotifies, CancelEnqueues, Notifying
  <2>2. UNCHANGED registered
    BY <1>2 DEF Canceller, StartCancel, CancelNotifies, CancelEnqueues
  <2>3. CASE StartCancel(t) /\ MayCancel(ctl)
    <3>1. /\ ~ctl.cancelled /\ ctl'.cancelled /\ ~ctl'.notify /\ notified' = notified
      BY <1>0, <2>3 DEF StartCancel, MayCancel, TakeCallbacks, ControllerState
    <3>2. Notifying(t)' <=> ctl.notify
      BY <1>0, <2>3 DEF StartCancel, Notifying
    <3>3. notified = 0 /\ ~\E u \in Cancellers : Notifying(u)
      BY <1>0, <3>1 DEF NotifyInv, NotifiedOnce
    <3> QED
      BY <2>1, <2>2, <3>1, <3>2, <3>3 DEF NotifyInv, NotifiedOnce
  <2>4. CASE (StartCancel(t) /\ ~MayCancel(ctl)) \/ CancelEnqueues(t)
    <3>1. UNCHANGED <<ctl, notified>> /\ ~Notifying(t) /\ ~Notifying(t)'
      BY <1>0, <2>4 DEF StartCancel, CancelEnqueues, Notifying
    <3> QED
      BY <2>1, <2>2, <3>1 DEF NotifyInv, NotifiedOnce
  <2>5. CASE CancelNotifies(t)
    <3>1. UNCHANGED ctl /\ Notifying(t) /\ ~Notifying(t)' /\ notified' = notified + 1
      BY <1>0, <2>5 DEF CancelNotifies, Notifying
    <3>2. /\ registered /\ ctl.cancelled /\ notified = 0
          /\ \A u \in Cancellers : Notifying(u) => u = t
      BY <3>1 DEF NotifyInv
    <3>3. \A u \in Cancellers : ~Notifying(u)'
      BY <2>1, <3>1, <3>2
    <3> QED
      BY <2>2, <3>1, <3>2, <3>3 DEF NotifyInv, NotifiedOnce
  <2> QED
    BY <1>2, <2>3, <2>4, <2>5 DEF Canceller
<1>3. CASE ~UserNotifyOnCancel /\ ~\E t \in Cancellers : Canceller(t)
  <2>1. /\ cpc' = cpc /\ registered' = registered /\ notified' = notified
        /\ ctl'.cancelled = ctl.cancelled /\ ctl'.notify = ctl.notify
    BY <1>3, NotifyUntouched DEF userVars
  <2> QED
    BY <2>1 DEF NotifyInv, NotifiedOnce, Notifying
<1> QED
  BY <1>1, <1>2, <1>3

\* The safety half of CancelIsNotified, for any number of cancelling threads: the user's
\* NotifyOnCancel closure runs at most once, never on a call that was not cancelled, and
\* is never left in the controller of a cancelled call.
THEOREM CancellationIsNotifiedOnce == Spec => []NotifiedOnce
<1>1. Init => NotifyInv
  <2> SUFFICES ASSUME Init PROVE NotifyInv
    OBVIOUS
  <2>1. /\ ctl = NewController /\ registered = FALSE /\ notified = 0
        /\ cpc = [t \in Cancellers |-> "idle"]
    BY DEF Init
  <2>2. ~ctl.notify /\ ~ctl.cancelled
    BY <2>1 DEF NewController
  <2>3. \A t \in Cancellers : ~Notifying(t)
    BY <2>1 DEF Notifying
  <2> QED
    BY <2>1, <2>2, <2>3 DEF NotifyInv, NotifiedOnce
<1>2. NotifyInv => NotifiedOnce
  BY DEF NotifyInv
<1> QED
  BY <1>1, <1>2, NotifyStep, CallInvariant, PTL DEF Spec

=============================================================================
