----------------------------- MODULE RpcChannel -----------------------------
(***************************************************************************)
(* One client call, RpcChannel::CallMethod (net/rpc/rpc_channel.cc), from  *)
(* its start to the return of the thread that made it.                     *)
(*                                                                         *)
(* The calling thread asks the service centre for the server, which may    *)
(* take for ever or end the process, builds a TcpClient on its own         *)
(* Eventloop, starts connecting and then runs that loop until the call     *)
(* stops it.  Five things race to end the call: the response, a failed     *)
(* connect, the transport going away, the deadline and a cancellation      *)
(* that any other thread may ask for.  All but the last arrive as tasks of *)
(* the loop, and so does the cancellation, which another thread appends to *)
(* the loop's queue.  RequestState::completed lets the first one through.  *)
(*                                                                         *)
(* The calling thread is a program counter, pc.  A step of it is what it   *)
(* does between two points where other threads can see or change something:*)
(* the controller's lock, the loop's queue and stop flag.  The peer, the   *)
(* kernel and the clock are an environment that moves in between.          *)
(***************************************************************************)
EXTENDS Naturals, Sequences, RpcController, Connection

CONSTANTS
  Cancellers,         \* threads that may call StartCancel
  ImmediateConnect,   \* whether connect(2) may succeed without waiting
  MaxFrames           \* how many pieces of response the peer may send

ASSUME ImmediateConnectAssumption == ImmediateConnect \in BOOLEAN
ASSUME MaxFramesAssumption == MaxFrames \in Nat

VARIABLES
  pc,         \* where the calling thread is
  cause,      \* the error code finish() was, or will be, called with
  completed,  \* RequestState::completed
  runs,       \* how often the user's closure has run
  ctl,        \* the RpcController
  conn,       \* the TcpConnection
  client,     \* TcpClient: m_fd_event and m_connect_error_code
  timer,      \* the call's TimerEvent in Timer::m_pending_events
  timerfd,    \* the timerfd: "off", "set" or "fired" (readable)
  pending,    \* Eventloop::m_pending_tasks
  batch,      \* tmp_tasks, the tasks of this iteration of loop()
  events,     \* result_events still to be dispatched
  stop,       \* Eventloop::m_stop_flag
  looping,    \* Eventloop::m_is_looping
  wake,       \* the eventfd is readable
  net,        \* the socket as the kernel and the peer see it
  cpc,        \* where each cancelling thread is in StartCancel
  registered, \* NotifyOnCancel has been called
  notified    \* how often the NotifyOnCancel closure has run

callVars  == <<pc, cause, completed, runs>>
loopVars  == <<pending, batch, events, stop, looping, wake>>
timerVars == <<timer, timerfd>>
userVars  == <<cpc, registered, notified>>
vars == <<callVars, ctl, conn, client, timerVars, loopVars, net, userVars>>

(***************************************************************************)
(* A task is named for the function it runs.  "stale" is a task an earlier *)
(* call left behind: it holds a weak_ptr that has expired.  "part" is the  *)
(* first bytes of the next frame, "other" a response to another msg_id.    *)
(***************************************************************************)
Tasks  == Callbacks \cup {"onTimer", "drainWakeup", "cancel", "stale"}
Frames == {"part", "other", "ok", "bad", "remoteErr"}
Flags  == {"IN", "OUT", "RDHUP", "ERR"}
Links  == {"idle", "syn", "up", "refused", "failed"}

\* req: the whole request is with the kernel; rx: what waits to be read;
\* sent: every frame the peer sent; room: how many it may still send.
NetState == [link : Links, req : BOOLEAN, rx : Seq(Frames),
             sent : SUBSET Frames, room : Nat, down : {"no", "fin", "rst"}]
Event  == [src : {"timer", "wakeup", "conn"}, flags : SUBSET Flags]

TypeOK ==
  /\ pc \in {"start", "discover", "lookup", "resolve", "exited", "prepare",
             "register", "arm", "connect", "swap", "run", "poll", "dispatch",
             "release", "record", "teardown", "runClosure", "syncError",
             "syncFinish", "syncRun", "returned"}
  /\ cause \in Errors
  /\ completed \in BOOLEAN
  /\ runs \in Nat
  /\ ctl \in ControllerState
  /\ conn \in ConnectionState
  /\ client \in [fdEvent : BOOLEAN, connErr : Errors]
  /\ timer \in {"off", "armed"}
  /\ timerfd \in {"off", "set", "fired"}
  /\ pending \in Seq(Tasks)
  /\ batch \in Seq(Tasks)
  /\ events \in SUBSET Event
  /\ stop \in BOOLEAN
  /\ looping \in BOOLEAN
  /\ wake \in BOOLEAN
  /\ net \in NetState
  /\ cpc \in [Cancellers -> {"idle", "both", "notify", "enqueue", "done"}]
  /\ registered \in BOOLEAN
  /\ notified \in Nat

\* The thread's loop is new, or an earlier call on it stopped it: the stop
\* flag is then still up, the eventfd unread, and a task may be left over.
Init ==
  /\ pc = "start" /\ cause = "none" /\ completed = FALSE /\ runs = 0
  /\ ctl = NewController
  /\ conn = NewConnection(FALSE)
  /\ client = [fdEvent |-> FALSE, connErr |-> "none"]
  /\ timer = "off" /\ timerfd = "off"
  /\ \/ stop = FALSE /\ pending = <<>>
     \/ stop = TRUE  /\ pending \in {<<>>, <<"stale">>}
  /\ batch = <<>> /\ events = {} /\ looping = FALSE /\ wake = stop
  /\ net = [link |-> "idle", req |-> FALSE, rx |-> <<>>, sent |-> {},
            room |-> MaxFrames, down |-> "no"]
  /\ cpc = [t \in Cancellers |-> "idle"]
  /\ registered = FALSE /\ notified = 0

(***************************************************************************)
(* CallMethod up to the loop                                               *)
(***************************************************************************)

\* completeSynchronously: SetError, SetFinished and the closure, with the
\* controller's lock released in between.
FailAtOnce(e) == pc' = "syncError" /\ cause' = e

SyncError ==
  /\ pc = "syncError"
  /\ ctl' = SetError(ctl, cause) /\ pc' = "syncFinish"
  /\ UNCHANGED <<cause, completed, runs, conn, client, timerVars, loopVars,
                 net, userVars>>

SyncFinish ==
  /\ pc = "syncFinish"
  /\ ctl' = SetFinished(ctl) /\ pc' = "syncRun"
  /\ UNCHANGED <<cause, completed, runs, conn, client, timerVars, loopVars,
                 net, userVars>>

\* Faulty: a missing return after completeSynchronously.
SyncRunWithoutReturn ==
  /\ pc = "syncRun"
  /\ runs' = runs + 1 /\ pc' = "discover"
  /\ UNCHANGED <<cause, completed, ctl, conn, client, timerVars, loopVars,
                 net, userVars>>

SyncRun ==
  /\ pc = "syncRun"
  /\ runs' = runs + 1 /\ pc' = "returned"
  /\ UNCHANGED <<cause, completed, ctl, conn, client, timerVars, loopVars,
                 net, userVars>>

\* The checks made before the service centre is asked: bad arguments, then a
\* controller that is already cancelled.  The call has an RpcController: one
\* without returns at once and leaves nothing to speak of.
CheckCall ==
  /\ pc = "start"
  /\ \/ FailAtOnce("CHANNEL_INIT")
     \/ ctl.cancelled /\ FailAtOnce("CANCELLED")
     \/ ~ctl.cancelled /\ pc' = "discover" /\ UNCHANGED cause
  /\ UNCHANGED <<completed, runs, ctl, conn, client, timerVars, loopVars, net,
                 userVars>>

\* serviceDiscovery() up to its read: socket, connect and write.  Any of them
\* may fail, and sys_error() then ends the process: there is no error code.
AskCentre ==
  /\ pc = "discover"
  /\ pc' \in {"lookup", "exited"}
  /\ UNCHANGED <<cause, completed, runs, ctl, conn, client, timerVars,
                 loopVars, net, userVars>>

\* The read returns: an address, nothing if the centre has closed the
\* connection, or an error, which ends the process.  No deadline is armed yet
\* and no cancel callback registered, so nothing else gets the thread out.
LookupReturns ==
  /\ pc = "lookup"
  /\ pc' \in {"resolve", "exited"}
  /\ UNCHANGED <<cause, completed, runs, ctl, conn, client, timerVars,
                 loopVars, net, userVars>>

\* The checks on the answer: unknown service or address, channel not
\* initialised, request that does not serialise.
ResolvePeer ==
  /\ pc = "resolve"
  /\ \/ \E e \in {"PEER_ADDR", "CHANNEL_INIT", "SERIALIZE"} : FailAtOnce(e)
     \/ pc' = "prepare" /\ UNCHANGED cause
  /\ UNCHANGED <<completed, runs, ctl, conn, client, timerVars, loopVars, net,
                 userVars>>

Discover == AskCentre \/ LookupReturns \/ ResolvePeer

\* The request state and its TcpClient.  The constructor puts a stopped loop
\* back to work; socket() may fail.
PrepareCall ==
  /\ pc = "prepare"
  /\ \E open \in BOOLEAN :
       /\ conn' = NewConnection(open)
       /\ client' = [client EXCEPT !.fdEvent = open]
  /\ stop' = FALSE
  /\ looping' = (IF stop THEN FALSE ELSE looping)
  /\ pc' = "register"
  /\ UNCHANGED <<cause, completed, runs, ctl, timerVars, pending, batch,
                 events, wake, net, userVars>>

\* Eventloop::addTask.
AddTask(task, isWakeUp) ==
  /\ pending' = IF stop THEN pending ELSE Append(pending, task)
  /\ wake' = (wake \/ (~stop /\ isWakeUp))

\* Faulty SetCancelCallback: an earlier cancellation is not noticed.
RegisterCancelLate ==
  /\ pc = "register"
  /\ ctl' = SetCancelCallback(ctl) /\ pc' = "arm"
  /\ UNCHANGED <<cause, completed, runs, conn, client, timerVars, loopVars,
                 net, userVars>>

\* SetCancelCallback; on a controller cancelled meanwhile, the callback runs
\* at once and queues the cancellation.
RegisterCancel ==
  /\ pc = "register"
  /\ ctl' = SetCancelCallback(ctl)
  /\ IF ctl.cancelled THEN AddTask("cancel", TRUE)
                      ELSE UNCHANGED <<pending, wake>>
  /\ pc' = "arm"
  /\ UNCHANGED <<cause, completed, runs, conn, client, timerVars, batch,
                 events, stop, looping, net, userVars>>

\* Faulty addTimerEvent: the first event does not set the timerfd.
ArmTimerUnset ==
  /\ pc = "arm"
  /\ timer' = "armed"
  /\ conn' = [conn EXCEPT !.disc = conn.open]
  /\ pc' = "connect"
  /\ UNCHANGED <<cause, completed, runs, ctl, client, timerfd, loopVars, net,
                 userVars>>

\* The deadline and the disconnect callback.  No timer is pending on this
\* loop, so addTimerEvent also sets the timerfd.
ArmTimer ==
  /\ pc = "arm"
  /\ IF stop THEN UNCHANGED timerVars
             ELSE timer' = "armed" /\ timerfd' = "set"
  /\ conn' = [conn EXCEPT !.disc = conn.open]
  /\ pc' = "connect"
  /\ UNCHANGED <<cause, completed, runs, ctl, client, loopVars, net, userVars>>

\* beginCompletion let this cause through.
Begin(e) ==
  /\ completed' = TRUE
  /\ ctl' = SetFinished(ctl)
  /\ cause' = e
  /\ pc' = "release"

\* The calling thread goes on with what it was doing.
Resume == IF looping THEN "run" ELSE "returned"
Continue == pc' = Resume /\ UNCHANGED <<completed, ctl, cause>>

\* A completion attempt: past the gate, or no effect.
TryComplete(e) == IF completed THEN Continue ELSE Begin(e)

\* connect(2) answers EINPROGRESS: wait for writability, then run the loop
\* (nothing else is running it).
ConnectInProgress ==
  /\ pc = "connect" /\ conn.open
  /\ conn' = AddEpollEvent(Listen(conn, "OUT", "connectCb", "connectCb"), stop)
  /\ net' = [net EXCEPT !.link = "syn"]
  /\ looping' = ~stop
  /\ pc' = IF stop THEN "returned" ELSE "swap"
  /\ UNCHANGED <<cause, completed, runs, ctl, client, timerVars, pending,
                 batch, events, stop, wake, userVars>>

\* What the connect callback of CallMethod does on a live connection.
SendRequest(c) == IF completed THEN c ELSE WriteMessage(c, stop)

\* connect(2) answers 0: the request is queued and the loop is not run.
ConnectAtOnce ==
  /\ pc = "connect" /\ conn.open /\ ImmediateConnect
  /\ conn' = SendRequest(SetConnected(conn))
  /\ net' = [net EXCEPT !.link = "up"]
  /\ Continue
  /\ UNCHANGED <<runs, client, timerVars, loopVars, userVars>>

\* connect(2) fails for another reason (no descriptor, unreachable network).
ConnectFails ==
  /\ pc = "connect"
  /\ client' = [client EXCEPT !.connErr = "FAILED_CONNECT"]
  /\ TryComplete("FAILED_CONNECT")
  /\ UNCHANGED <<runs, conn, timerVars, loopVars, net, userVars>>

(***************************************************************************)
(* Ending the call: the rest of beginCompletion, then finish               *)
(***************************************************************************)
\* Faulty beginCompletion: the deadline stays armed.
ReleaseKeepsTimer ==
  /\ pc = "release"
  /\ conn' = [conn EXCEPT !.disc = FALSE, !.rdone = FALSE]
  /\ ctl' = ClearCancelCallback(ctl)
  /\ pc' = "record"
  /\ UNCHANGED <<cause, completed, runs, client, timerVars, loopVars, net,
                 userVars>>

Release ==
  /\ pc = "release"
  /\ conn' = [conn EXCEPT !.disc = FALSE, !.rdone = FALSE]
  /\ timer' = "off"
  /\ ctl' = ClearCancelCallback(ctl)
  /\ pc' = "record"
  /\ UNCHANGED <<cause, completed, runs, client, timerfd, loopVars, net,
                 userVars>>

\* Faulty finish: the error code does not reach the controller.
RecordNoError ==
  /\ pc = "record"
  /\ ctl' = SetFinished(ctl) /\ pc' = "teardown"
  /\ UNCHANGED <<cause, completed, runs, conn, client, timerVars, loopVars,
                 net, userVars>>

Record ==
  /\ pc = "record"
  /\ ctl' = SetFinished(IF cause = "none" THEN ctl ELSE SetError(ctl, cause))
  /\ pc' = "teardown"
  /\ UNCHANGED <<cause, completed, runs, conn, client, timerVars, loopVars,
                 net, userVars>>

\* disconnect() and stop(); the loop is stopped only if it is running.
Teardown ==
  /\ pc = "teardown"
  /\ conn' = Clear([conn EXCEPT !.disc = FALSE])
  /\ client' = [client EXCEPT !.fdEvent = FALSE]
  /\ stop' = (stop \/ looping)
  /\ wake' = (wake \/ (looping /\ ~stop))
  /\ pc' = "runClosure"
  /\ UNCHANGED <<cause, completed, runs, ctl, timerVars, pending, batch,
                 events, looping, net, userVars>>

RunClosure ==
  /\ pc = "runClosure"
  /\ runs' = runs + 1
  /\ pc' = Resume
  /\ UNCHANGED <<cause, completed, ctl, conn, client, timerVars, loopVars,
                 net, userVars>>

(***************************************************************************)
(* Eventloop::loop                                                         *)
(***************************************************************************)
LoopSwap ==
  /\ pc = "swap"
  /\ IF stop
     THEN /\ looping' = FALSE /\ pc' = "returned"
          /\ UNCHANGED <<batch, pending>>
     ELSE /\ batch' = pending /\ pending' = <<>> /\ pc' = "run"
          /\ UNCHANGED looping
  /\ UNCHANGED <<cause, completed, runs, ctl, conn, client, timerVars, events,
                 stop, wake, net, userVars>>

\* A stopped loop drops the rest of its batch, and still polls once more.
BatchEnd ==
  /\ pc = "run" /\ (batch = <<>> \/ stop)
  /\ batch' = <<>> /\ pc' = "poll"
  /\ UNCHANGED <<cause, completed, runs, ctl, conn, client, timerVars, pending,
                 events, stop, looping, wake, net, userVars>>

\* What epoll reports of the socket: nothing while the handshake goes on, an
\* error whatever the interest, the rest as registered.
SocketFlags ==
  IF ~conn.listed \/ net.link = "syn" THEN {}
  ELSE {f \in Flags :
          \/ f = "OUT" /\ "OUT" \in conn.mask
          \/ f = "IN" /\ "IN" \in conn.mask
             /\ (net.rx # <<>> \/ net.down # "no")
          \/ f = "RDHUP" /\ "IN" \in conn.mask /\ net.down = "fin"
          \/ f = "ERR" /\ (net.link \in {"refused", "failed"}
                           \/ net.down = "rst")}

Ready ==
  {e \in Event : \/ e = [src |-> "timer", flags |-> {"IN"}] /\ timerfd = "fired"
                 \/ e = [src |-> "wakeup", flags |-> {"IN"}] /\ wake
                 \/ /\ e.src = "conn" /\ SocketFlags # {}
                    /\ e.flags = SocketFlags}

\* epoll_wait returns what is ready, or nothing after ten seconds.
PollWait ==
  /\ pc = "poll"
  /\ events' = Ready
  /\ pc' = "dispatch"
  /\ UNCHANGED <<cause, completed, runs, ctl, conn, client, timerVars, pending,
                 batch, stop, looping, wake, net, userVars>>

\* Tasks are not added to a stopped loop.
Enqueue(tasks) == pending' = IF stop THEN pending ELSE pending \o tasks

DispatchTimer ==
  /\ pc = "dispatch"
  /\ \E e \in events : /\ e.src = "timer"
                       /\ events' = events \ {e}
                       /\ Enqueue(<<"onTimer">>)
  /\ UNCHANGED <<callVars, ctl, conn, client, timerVars, batch, stop, looping,
                 wake, net, userVars>>

DispatchWakeup ==
  /\ pc = "dispatch"
  /\ \E e \in events : /\ e.src = "wakeup"
                       /\ events' = events \ {e}
                       /\ Enqueue(<<"drainWakeup">>)
  /\ UNCHANGED <<callVars, ctl, conn, client, timerVars, batch, stop, looping,
                 wake, net, userVars>>

\* An event of the socket: its read handler, its write handler unless the
\* event is terminal, and for a terminal one the error handler last, the
\* descriptor being taken out of epoll.
SocketTasks(c, flags) ==
  LET terminal == flags \cap {"ERR", "RDHUP"} # {}
  IN (IF "IN" \in flags THEN <<c.inCb>> ELSE <<>>)
     \o (IF "OUT" \in flags /\ ~terminal THEN <<c.outCb>> ELSE <<>>)
     \o (IF terminal /\ c.errCb # "null" THEN <<c.errCb>> ELSE <<>>)

DispatchSocket ==
  /\ pc = "dispatch"
  /\ \E e \in events :
       /\ e.src = "conn"
       /\ events' = events \ {e}
       /\ Enqueue(SocketTasks(conn, e.flags))
       /\ conn' = IF e.flags \cap {"ERR", "RDHUP"} # {}
                  THEN DeleteEpollEvent(conn) ELSE conn
  /\ UNCHANGED <<callVars, ctl, client, timerVars, batch, stop, looping, wake,
                 net, userVars>>

DispatchEnd ==
  /\ pc = "dispatch" /\ events = {}
  /\ pc' = "swap"
  /\ UNCHANGED <<cause, completed, runs, ctl, conn, client, timerVars,
                 loopVars, net, userVars>>

(***************************************************************************)
(* The tasks                                                               *)
(***************************************************************************)
NextTask(task) ==
  /\ pc = "run" /\ batch # <<>> /\ ~stop
  /\ Head(batch) = task
  /\ batch' = Tail(batch)

\* An expired task, or an empty handler: loop() skips it.
TaskNothing ==
  /\ \E task \in {"stale", "null"} : NextTask(task)
  /\ UNCHANGED <<callVars, ctl, conn, client, timerVars, pending, events, stop,
                 looping, wake, net, userVars>>

TaskDrainWakeup ==
  /\ NextTask("drainWakeup")
  /\ wake' = FALSE
  /\ UNCHANGED <<callVars, ctl, conn, client, timerVars, pending, events, stop,
                 looping, net, userVars>>

TaskCancel ==
  /\ NextTask("cancel")
  /\ TryComplete("CANCELLED")
  /\ UNCHANGED <<runs, conn, client, timerVars, pending, events, stop, looping,
                 wake, net, userVars>>

\* Timer::onTimer: an event that is still pending is taken out and run.
TaskOnTimer ==
  /\ NextTask("onTimer")
  /\ timerfd' = "off"
  /\ timer' = "off"
  /\ IF timer = "armed" THEN TryComplete("TIMEOUT") ELSE Continue
  /\ UNCHANGED <<runs, conn, client, pending, events, stop, looping, wake, net,
                 userVars>>

\* clear() of the connection, and the disconnect callback it runs.
ClearConnection ==
  /\ conn' = Clear(conn)
  /\ IF ClearNotifies(conn) THEN TryComplete("TRANSPORT") ELSE Continue

TaskError ==
  /\ NextTask("clearCb")
  /\ ClearConnection
  /\ UNCHANGED <<runs, client, timerVars, pending, events, stop, looping, wake,
                 net, userVars>>

\* What asking connect(2) again says about the handshake.
ConnectError ==
  CASE net.link = "refused" -> "PEER_CLOSED"
    [] net.link = "failed" \/ net.down = "rst" -> "FAILED_CONNECT"
    [] OTHER -> "none"

\* connect_callback of TcpClient::connect, then the callback of CallMethod.
TaskConnect ==
  /\ NextTask("connectCb")
  /\ LET idle == DeleteEpollEvent(Cancle(conn, "OUT"))
     IN IF ConnectError = "none"
        THEN /\ conn' = SendRequest(SetConnected(idle))
             /\ UNCHANGED client
             /\ Continue
        ELSE /\ conn' = Clear([idle EXCEPT !.disc = FALSE])
             /\ client' = [fdEvent |-> FALSE, connErr |-> ConnectError]
             /\ TryComplete(ConnectError)
  /\ UNCHANGED <<runs, timerVars, pending, events, stop, looping, wake, net,
                 userVars>>

Usable(c) == c.state = "Connected" /\ c.open

\* The request is in the kernel: no more write interest, and the write
\* callback asks for the response.
RequestSent(c) ==
  LET idle == AddEpollEvent(Cancle([c EXCEPT !.unsent = FALSE], "OUT"), stop)
  IN [(IF c.wdone /\ ~completed THEN ReadMessage(idle, stop) ELSE idle)
        EXCEPT !.wdone = FALSE]

\* TcpConnection::onWrite.  A request above the largest package is encoded
\* to nothing (fits = FALSE); the kernel may take only a part of the bytes.
TaskOnWrite ==
  /\ NextTask("onWrite")
  /\ \E fits, all \in BOOLEAN :
       LET some == conn.unsent \/ (conn.wdone /\ fits)
       IN IF ~Usable(conn) THEN Continue /\ UNCHANGED <<conn, net>>
          ELSE IF some /\ net.down = "rst"
          THEN ClearConnection /\ UNCHANGED net
          ELSE /\ Continue
               /\ conn' = IF all \/ ~some THEN RequestSent(conn)
                          ELSE [conn EXCEPT !.unsent = TRUE]
               /\ net' = [net EXCEPT !.req = @ \/ (all /\ some)]
  /\ UNCHANGED <<runs, client, timerVars, pending, events, stop, looping, wake,
                 userVars>>

\* Faulty excute(): any complete frame is taken for the call's response.
AnyFrame(frames) == {i \in DOMAIN frames : frames[i] # "part"}

\* The frames with the call's msg_id; other frames have no callback.
Answers(frames) == {i \in DOMAIN frames : frames[i] \in {"ok", "bad", "remoteErr"}}

\* excute() hands the first of them to the response callback.
FirstAnswer(frames) ==
  frames[CHOOSE i \in Answers(frames) : \A j \in Answers(frames) : i <= j]

\* Faulty: the state of the response is used as an error code.
ResponseErrorRaw(frame) == IF frame = "ok" THEN "none" ELSE frame

ResponseError(frame) ==
  CASE frame = "bad" -> "SERIALIZE"
    [] frame = "remoteErr" -> "REMOTE"
    [] OTHER -> "none"

Execute(frames) ==
  IF conn.rdone /\ Answers(frames) # {}
  THEN /\ conn' = [conn EXCEPT !.rdone = FALSE]
       /\ TryComplete(ResponseError(FirstAnswer(frames)))
  ELSE Continue /\ UNCHANGED conn

\* TcpConnection::onRead.  Everything the kernel holds is read.  When the
\* last read exactly fills the buffer (full) another one is made, and if that
\* one finds the stream closed the connection is cleared, undecoded.
TaskOnRead ==
  /\ NextTask("onRead")
  /\ \E full \in BOOLEAN :
       IF ~Usable(conn) THEN Continue /\ UNCHANGED <<conn, net>>
       ELSE /\ net' = [net EXCEPT !.rx = <<>>]
            /\ IF net.down # "no" /\ (full \/ net.rx = <<>>)
               THEN ClearConnection
               ELSE Execute(net.rx)
  /\ UNCHANGED <<runs, client, timerVars, pending, events, stop, looping, wake,
                 userVars>>

(***************************************************************************)
(* Other threads, the peer and the clock.  exit() in the calling thread    *)
(* ends the other threads too.                                             *)
(***************************************************************************)
\* Faulty StartCancel: it records the error itself, on a finished call too.
StartCancelRecords(t) ==
  /\ pc # "exited" /\ cpc[t] = "idle"
  /\ ctl' = SetError(TakeCallbacks(ctl), "CANCELLED")
  /\ cpc' = [cpc EXCEPT ![t] = "done"]
  /\ UNCHANGED <<callVars, conn, client, timerVars, loopVars, net, registered,
                 notified>>

StartCancel(t) ==
  /\ pc # "exited" /\ cpc[t] = "idle"
  /\ IF MayCancel(ctl)
     THEN /\ ctl' = TakeCallbacks(ctl)
          /\ cpc' = [cpc EXCEPT ![t] =
               CASE ctl.notify /\ ctl.cancelCb -> "both"
                 [] ctl.notify /\ ~ctl.cancelCb -> "notify"
                 [] ~ctl.notify /\ ctl.cancelCb -> "enqueue"
                 [] OTHER -> "done"]
     ELSE cpc' = [cpc EXCEPT ![t] = "done"] /\ UNCHANGED ctl
  /\ UNCHANGED <<callVars, conn, client, timerVars, loopVars, net, registered,
                 notified>>

CancelNotifies(t) ==
  /\ pc # "exited" /\ cpc[t] \in {"both", "notify"}
  /\ notified' = notified + 1
  /\ cpc' = [cpc EXCEPT ![t] = IF @ = "both" THEN "enqueue" ELSE "done"]
  /\ UNCHANGED <<callVars, ctl, conn, client, timerVars, loopVars, net,
                 registered>>

CancelEnqueues(t) ==
  /\ pc # "exited" /\ cpc[t] = "enqueue"
  /\ AddTask("cancel", TRUE)
  /\ cpc' = [cpc EXCEPT ![t] = "done"]
  /\ UNCHANGED <<callVars, ctl, conn, client, timerVars, batch, events, stop,
                 looping, net, registered, notified>>

\* Faulty NotifyOnCancel: on a cancelled controller the closure is dropped.
NotifyOnCancelLate ==
  /\ pc # "exited" /\ ~registered
  /\ registered' = TRUE
  /\ ctl' = NotifyOnCancel(ctl)
  /\ UNCHANGED <<callVars, conn, client, timerVars, loopVars, net, cpc,
                 notified>>

UserNotifyOnCancel ==
  /\ pc # "exited" /\ ~registered
  /\ registered' = TRUE
  /\ ctl' = NotifyOnCancel(ctl)
  /\ notified' = IF ctl.cancelled THEN notified + 1 ELSE notified
  /\ UNCHANGED <<callVars, conn, client, timerVars, loopVars, net, cpc>>

Handshake ==
  /\ conn.open /\ net.link = "syn"
  /\ \E l \in {"up", "refused", "failed"} : net' = [net EXCEPT !.link = l]
  /\ UNCHANGED <<callVars, ctl, conn, client, timerVars, loopVars, userVars>>

\* The server answers only what it has received.
PeerSends ==
  /\ conn.open /\ net.link = "up" /\ net.down = "no" /\ net.req /\ net.room > 0
  /\ \E f \in Frames :
       net' = [net EXCEPT !.rx = Append(@, f), !.sent = @ \cup {f},
                          !.room = @ - 1]
  /\ UNCHANGED <<callVars, ctl, conn, client, timerVars, loopVars, userVars>>

PeerCloses ==
  /\ conn.open /\ net.link = "up" /\ net.down = "no"
  /\ \E d \in {"fin", "rst"} : net' = [net EXCEPT !.down = d]
  /\ UNCHANGED <<callVars, ctl, conn, client, timerVars, loopVars, userVars>>

DeadlinePasses ==
  /\ timerfd = "set"
  /\ timerfd' = "fired"
  /\ UNCHANGED <<callVars, ctl, conn, client, timer, loopVars, net, userVars>>

(***************************************************************************)
(* Specification                                                           *)
(***************************************************************************)
Setup ==
  \/ CheckCall \/ Discover \/ PrepareCall \/ RegisterCancel \/ ArmTimer
  \/ ConnectInProgress \/ ConnectAtOnce \/ ConnectFails
  \/ SyncError \/ SyncFinish \/ SyncRun

Completion == Release \/ Record \/ Teardown \/ RunClosure

Loop ==
  \/ LoopSwap \/ BatchEnd \/ PollWait
  \/ DispatchTimer \/ DispatchWakeup \/ DispatchSocket \/ DispatchEnd

RunTask ==
  \/ TaskNothing \/ TaskDrainWakeup \/ TaskCancel \/ TaskOnTimer \/ TaskError
  \/ TaskConnect \/ TaskOnWrite \/ TaskOnRead

CallingThread == Setup \/ Completion \/ Loop \/ RunTask

Canceller(t) == StartCancel(t) \/ CancelNotifies(t) \/ CancelEnqueues(t)

Peer == Handshake \/ PeerSends \/ PeerCloses

\* The calling thread is back in user code, or the process has ended.
Finished ==
  /\ pc \in {"returned", "exited"}
  /\ UNCHANGED vars

Next ==
  \/ CallingThread
  \/ \E t \in Cancellers : Canceller(t)
  \/ UserNotifyOnCancel \/ Peer \/ DeadlinePasses \/ Finished

\* The scheduler runs the calling thread and a thread inside StartCancel, and
\* a timerfd that is set expires.  Nothing is asked of the peer or of the
\* service centre, whose answer the calling thread may await for ever, and no
\* one has to call StartCancel.
Fairness ==
  /\ WF_vars(pc # "lookup" /\ CallingThread)
  /\ WF_vars(DeadlinePasses)
  /\ \A t \in Cancellers : WF_vars(CancelNotifies(t) \/ CancelEnqueues(t))

Spec == Init /\ [][Next]_vars /\ Fairness

(***************************************************************************)
(* Properties                                                              *)
(***************************************************************************)

\* docs/rpc-semantics.md: at-most-once user completion.  However the five
\* ways to end a call race, the user's closure runs at most once, and no
\* completion is begun, or goes on, after it has run.
ClosureAtMostOnce ==
  /\ runs <= 1
  /\ pc \in {"syncError", "syncFinish", "syncRun", "release", "record",
             "teardown", "runClosure"} => runs = 0

\* docs/rpc-semantics.md: the closure runs after internal cleanup.  From the
\* moment the closure of a call that got as far as a request state may run,
\* nothing of the call can call back: the descriptor is closed and out of
\* epoll, no timer, read, write, disconnect or cancel callback is left, and
\* the controller shows the final outcome.
QuietAtClosure ==
  (completed /\ (pc = "runClosure" \/ runs = 1)) =>
    /\ ctl.finished /\ ~ctl.cancelCb
    /\ ctl.error = cause /\ (ctl.failed <=> cause # "none")
    /\ IsClosed(conn) /\ ~conn.listed /\ conn.want = {}
    /\ conn.errCb = "null" /\ conn.inCb = "null" /\ conn.outCb = "null"
    /\ ~conn.disc /\ ~conn.rdone /\ ~conn.wdone
    /\ timer = "off" /\ ~client.fdEvent

\* The error code the closure finds says what happened: it is CANCELLED only
\* if someone cancelled, success only if the server received the request and
\* sent a good response, and so on for every way the call can end.
OutcomeJustified ==
  (completed /\ runs = 1) =>
    /\ ctl.error = "none" => net.req /\ "ok" \in net.sent
    /\ ctl.error = "REMOTE" => net.req /\ "remoteErr" \in net.sent
    /\ ctl.error = "SERIALIZE" => net.req /\ "bad" \in net.sent
    /\ ctl.error = "CANCELLED" => ctl.cancelled
    /\ ctl.error = "TIMEOUT" => timerfd = "off"
    /\ ctl.error = "TRANSPORT" => net.down # "no"
    /\ ctl.error = "PEER_CLOSED" => net.link = "refused"
    /\ ctl.error = "FAILED_CONNECT" =>
         net.link \in {"idle", "failed"} \/ net.down = "rst"

Queued(task) ==
  \/ \E i \in 1..Len(batch) : batch[i] = task
  \/ \E i \in 1..Len(pending) : pending[i] = task

\* No cancellation is lost: while a cancelled call still waits, either the
\* cancellation is in the loop's queue or a thread in StartCancel is about
\* to put it there; and the loop has not been stopped under it.
NoLostCancel ==
  (ctl.cancelled /\ ~completed
     /\ pc \in {"arm", "connect", "swap", "run", "poll", "dispatch"}) =>
    /\ ~stop
    /\ \/ Queued("cancel")
       \/ \E t \in Cancellers : cpc[t] \in {"both", "enqueue"}

\* docs/rpc-semantics.md: a late response, deadline or transport error does
\* not rewrite the outcome once the closure has run, nor run it again.
OutcomeIsFinal ==
  [][runs = 1 => /\ runs' = 1
                 /\ ctl'.error = ctl.error /\ ctl'.failed = ctl.failed
                 /\ ctl'.finished]_vars

\* connect(2) succeeded at once, CallMethod queued the request and returned,
\* and nobody runs the loop: the request is not even encoded.
Undriven ==
  /\ pc = "returned" /\ runs = 0
  /\ conn.state = "Connected" /\ conn.wdone /\ ~net.req /\ timer = "armed"

\* docs/current-state.md: discovery is not covered by the deadline, and its
\* errors end the process.  The call is not decided, and never will be.
Undiscovered == pc \in {"lookup", "exited"}

\* Every call ends, whatever the peer does: the calling thread returns for
\* good, and the closure has run, but for a call that nobody drives.  Only the
\* lookup in the service centre can prevent it: it does not return, or it
\* fails and the process ends.
CallCompletes ==
  \/ <>[](pc = "returned" /\ (runs = 1 \/ Undriven))
  \/ <>[]Undiscovered

\* A cancellation that StartCancel accepted reaches the NotifyOnCancel
\* closure, once, however the cancelling threads and the registration
\* interleave, unless the process ends; a call that nobody cancelled never
\* runs it.
CancelIsNotified ==
  /\ (registered /\ ctl.cancelled) ~> ([](notified = 1) \/ pc = "exited")
  /\ [](notified > 0 => ctl.cancelled)

\* docs/known-regressions.md, BUG-EPOLL-001: data reported with EPOLLIN is
\* not discarded.  A call whose response arrived, complete, before the peer
\* closed its side in the normal way does not end as a transport failure.
ResponseBeforeCloseIsKept ==
  (completed /\ runs = 1 /\ net.down = "fin" /\ "ok" \in net.sent)
    => ctl.error # "TRANSPORT"

(***************************************************************************)
(* The promise a call makes, and the mapping under which it keeps it       *)
(***************************************************************************)
Phase ==
  CASE runs = 1 -> "completed"
    [] pc \in {"teardown", "runClosure", "syncFinish", "syncRun"} -> "shown"
    [] pc \in {"release", "record", "syncError"} -> "decided"
    [] OTHER -> "pending"

Promise == INSTANCE RpcCompletion
             WITH Outcomes <- Errors, Success <- "none",
                  Cancelled <- "CANCELLED", phase <- Phase,
                  outcome <- cause, shown <- ctl.error, asked <- ctl.cancelled

\* CallMethod keeps the promise of docs/rpc-semantics.md: every step of it is
\* a step of the abstract call, or none, and a call that is driven gets to
\* its end, if the service centre lets it begin.
KeepsPromise ==
  Promise!Safety /\ (<>Undriven \/ <>[]Undiscovered \/ Promise!Fairness)
=============================================================================
