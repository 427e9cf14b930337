----------------------------- MODULE TcpServer -----------------------------
(***************************************************************************)
(* The life of a TcpServer: its IOThreads, the connections it hands them,  *)
(* and its destruction (net/tcp/tcp_server.cc, iothreadgroup.cc,           *)
(* iothread.cc).                                                           *)
(*                                                                         *)
(* The owner's thread makes the IO threads, accepts connections, forgets   *)
(* closed ones, and finally stops and joins the threads.  Each IO thread   *)
(* waits for its start semaphore and then runs its Eventloop.  They share  *)
(* the loops' task queues, the descriptors, which the kernel hands out     *)
(* again once closed, and the Fd_Event of each descriptor number.          *)
(*                                                                         *)
(* One service method may make an outgoing call (a bound): what matters of *)
(* it here is what TcpClient does to the loop's flags.  How a response is  *)
(* written is in TcpExchange.                                              *)
(***************************************************************************)
EXTENDS Naturals, Sequences, SequencesExt, FiniteSetsExt

CONSTANTS
  NumWorkers,  \* Config::m_io_threads
  NumConns,    \* bound: how many clients connect
  NumFds,      \* bound: descriptors for accepted connections
  Outcomes     \* how connect(2) of an outgoing call may end; {}: none is made

ASSUME TcpServerAssumption ==
  /\ NumWorkers \in Nat \ {0} /\ NumConns \in Nat /\ NumFds \in Nat \ {0}
  /\ Outcomes \subseteq {"waits", "failed", "atOnce"}

Workers == 1..NumWorkers
Conns == 1..NumConns
Fds == 1..NumFds
None == 0   \* no connection, or no descriptor (-1)

VARIABLES
  main,     \* where the owner's thread is, and for which IO thread
  io,       \* each IO thread with its Eventloop
  next,     \* the thread getIOThread() returns next
  conn,     \* m_state of each connection; "new" before its client connects
  fd,       \* m_fd of each connection
  asked,    \* has its client sent a request, and has onRead read it?
  ended,    \* connections that their clients have closed
  clients,  \* m_client
  owner,    \* the connection whose callbacks each descriptor's Fd_Event has
  open,     \* open descriptors
  watched   \* the threads whose epoll instance has each descriptor

kernelVars == <<asked, ended>>
connVars == <<conn, fd, owner, open, watched>>
vars == <<main, io, next, conn, fd, asked, ended, clients, owner, open, watched>>

(***************************************************************************)
(* A task is what it does and to which descriptor or connection.  A frame  *)
(* of an IO thread is a run of loop() at one of its points, with its batch *)
(* and the connection whose handler it is in.                              *)
(***************************************************************************)
Task(op, arg) == [op |-> op, arg |-> arg]
Frame(at, todo, c, f) == [at |-> at, todo |-> todo, conn |-> c, fd |-> f]
Loop(at, todo) == Frame(at, todo, None, None)

(***************************************************************************)
(* An IOThread: what its thread does, its start semaphore and m_started;   *)
(* of its Eventloop the flags, the wakeup descriptor, the queue and        *)
(* m_listen_fds; the outgoing call that was made on it.                    *)
(***************************************************************************)
NewIOThread ==
  [thread |-> "none", sem |-> 0, started |-> FALSE,
   stop |-> FALSE, looping |-> FALSE, wake |-> FALSE, queue |-> <<>>,
   frames |-> <<>>, listed |-> {}, call |-> "none"]

Main(at, w) == [at |-> at, w |-> w]

Init ==
  /\ main = Main("create", 1)
  /\ io = [w \in Workers |-> NewIOThread]
  /\ next = 1
  /\ conn = [c \in Conns |-> "new"]
  /\ fd = [c \in Conns |-> None]
  /\ asked = [c \in Conns |-> "no"]
  /\ ended = {} /\ clients = {} /\ open = {}
  /\ owner = [f \in Fds |-> None]
  /\ watched = [f \in Fds |-> {}]

(***************************************************************************)
(* Eventloop, on the record of its thread                                  *)
(***************************************************************************)
\* Faulty stop(): only a loop that is running takes it.
StopIfLooping(r) ==
  IF r.stop \/ ~r.looping THEN r ELSE [r EXCEPT !.stop = TRUE, !.wake = TRUE]

Stop(r) == IF r.stop THEN r ELSE [r EXCEPT !.stop = TRUE, !.wake = TRUE]

AddTasks(r, tasks, wakeup) ==
  IF r.stop THEN r ELSE [r EXCEPT !.queue = @ \o tasks, !.wake = @ \/ wakeup]

EnterLoop(r) ==
  IF r.stop THEN [r EXCEPT !.looping = FALSE]
  ELSE [r EXCEPT !.looping = TRUE, !.frames = <<Loop("swap", <<>>)>> \o @]

LeaveLoop(r) == [r EXCEPT !.looping = FALSE, !.frames = Tail(@)]

\* IOThread::Main returns when loop() does.
ExitIfDone(r) == IF r.frames = <<>> THEN [r EXCEPT !.thread = "exited"] ELSE r

(***************************************************************************)
(* The owner's thread                                                      *)
(***************************************************************************)

\* The owner goes on with the next IO thread, or past the last one.
Onward(at, then) ==
  main' = IF main.w = NumWorkers THEN Main(then, 1) ELSE Main(at, main.w + 1)

\* IOThread(): create the thread and wait until it has made its loop.
CreateThread ==
  /\ main.at = "create"
  /\ io' = [io EXCEPT ![main.w].thread = "init"]
  /\ main' = Main("created", main.w)
  /\ UNCHANGED <<next, connVars, kernelVars, clients>>

ThreadCreated ==
  /\ main.at = "created" /\ io[main.w].thread # "init"
  /\ Onward("create", "ready")
  /\ UNCHANGED <<io, next, connVars, kernelVars, clients>>

\* The owner may start the server, or destroy it unstarted.
StartOrDestroy ==
  /\ main.at = "ready"
  /\ \E at \in {"start", "stop"} : main' = Main(at, 1)
  /\ UNCHANGED <<io, next, connVars, kernelVars, clients>>

\* IOThread::start and stop release an unstarted thread, once.
PostStart(r) ==
  IF r.started THEN r ELSE [r EXCEPT !.started = TRUE, !.sem = @ + 1]

StartThread ==
  /\ main.at = "start"
  /\ io' = [io EXCEPT ![main.w] = PostStart(@)]
  /\ Onward("start", "serve")
  /\ UNCHANGED <<next, connVars, kernelVars, clients>>

\* getIOThread: round robin.
GetIOThread == IF next = NumWorkers THEN 1 ELSE next + 1

\* A client connects, and onAccept: a new connection on the lowest free descriptor,
\* listening for its thread; the registration is a task of that thread's loop,
\* which a stopped loop does not take.
OnAccept(c) ==
  /\ main.at = "serve"
  /\ conn[c] = "new" /\ \A d \in 1..(c - 1) : conn[d] # "new"
  /\ Fds \ open # {}
  /\ LET f == Min(Fds \ open)
     IN /\ fd' = [fd EXCEPT ![c] = f]
        /\ open' = open \cup {f}
        /\ owner' = [owner EXCEPT ![f] = c]
        /\ io' = [io EXCEPT ![next] = AddTasks(@, <<Task("add", f)>>, TRUE)]
  /\ conn' = [conn EXCEPT ![c] = "Connected"]
  /\ clients' = clients \cup {c}
  /\ next' = GetIOThread
  /\ UNCHANGED <<main, kernelVars, watched>>

\* ClearClientTimerFunc, when there is something to forget.
ClearClientTimerFunc ==
  /\ main.at = "serve"
  /\ \E c \in clients : conn[c] = "Closed"
  /\ clients' = {c \in clients : conn[c] # "Closed"}
  /\ UNCHANGED <<main, io, next, connVars, kernelVars>>

\* The owner's loop is stopped: start() returns, the server is destroyed.
LeaveServing ==
  /\ main.at = "serve"
  /\ main' = Main("stop", 1)
  /\ UNCHANGED <<io, next, connVars, kernelVars, clients>>

\* IOThread::stop: the loop, and the thread if it still waits.
StopThread ==
  /\ main.at = "stop"
  /\ io' = [io EXCEPT ![main.w] = PostStart(Stop(@))]
  /\ Onward("stop", "join")
  /\ UNCHANGED <<next, connVars, kernelVars, clients>>

\* Faulty IOThread::join: a thread that is not in its loop is not waited for.
JoinLoopingThread ==
  /\ main.at = "join" /\ io[main.w].frames = <<>>
  /\ Onward("join", "clear")
  /\ UNCHANGED <<io, next, connVars, kernelVars, clients>>

JoinThread ==
  /\ main.at = "join" /\ io[main.w].thread = "exited"
  /\ Onward("join", "clear")
  /\ UNCHANGED <<io, next, connVars, kernelVars, clients>>

\* m_client.clear() destroys what is left; the loops take no more tasks.
ClearClients ==
  /\ main.at = "clear"
  /\ LET left == {fd[c] : c \in {d \in clients : conn[d] = "Connected"}}
     IN /\ open' = open \ left
        /\ owner' = [f \in Fds |-> IF f \in left THEN None ELSE owner[f]]
        /\ watched' = [f \in Fds |-> IF f \in left THEN {} ELSE watched[f]]
  /\ conn' = [c \in Conns |-> IF c \in clients THEN "Closed" ELSE conn[c]]
  /\ fd' = [c \in Conns |-> IF c \in clients THEN None ELSE fd[c]]
  /\ clients' = {}
  /\ main' = Main("delete", 1)
  /\ UNCHANGED <<io, next, kernelVars>>

\* ~IOThreadGroup stops and joins what is stopped and joined, and deletes the
\* threads with their loops and semaphores.
DeleteThreads ==
  /\ main.at = "delete"
  /\ main' = Main("gone", 1)
  /\ UNCHANGED <<io, next, connVars, kernelVars, clients>>

(***************************************************************************)
(* An IO thread                                                            *)
(***************************************************************************)

\* Main makes the loop and posts the init semaphore.
InitThread(w) ==
  /\ io[w].thread = "init"
  /\ io' = [io EXCEPT ![w].thread = "wait"]
  /\ UNCHANGED <<main, next, connVars, kernelVars, clients>>

\* Main gets the start semaphore and runs the loop.
EnterThread(w) ==
  /\ io[w].thread = "wait" /\ io[w].sem > 0
  /\ io' = [io EXCEPT ![w] =
              ExitIfDone(EnterLoop([io[w] EXCEPT !.thread = "loop",
                                                 !.sem = @ - 1]))]
  /\ UNCHANGED <<main, next, connVars, kernelVars, clients>>

Top(w) == io[w].frames[1]
At(w, point) == io[w].frames # <<>> /\ Top(w).at = point

LoopSwap(w) ==
  /\ At(w, "swap")
  /\ io' = [io EXCEPT ![w] =
              IF io[w].stop THEN ExitIfDone(LeaveLoop(@))
              ELSE [io[w] EXCEPT !.queue = <<>>, !.frames[1] = Loop("run", io[w].queue)]]
  /\ UNCHANGED <<main, next, connVars, kernelVars, clients>>

\* What the kernel reports of a descriptor is that of the connection on it.
Readable(f) == \E c \in Conns : conn[c] = "Connected" /\ fd[c] = f
                                 /\ (asked[c] = "sent" \/ c \in ended)
Terminal(f) == \E c \in ended : conn[c] = "Connected" /\ fd[c] = f

\* Faulty dispatch: every event has the error callback queued as well.
HandlersAlwaysError(f) ==
  IF owner[f] = None THEN <<>>
  ELSE <<Task("read", owner[f]), Task("clear", owner[f])>>

\* The handlers queued are those the Fd_Event has now.
Handlers(f) ==
  IF owner[f] = None THEN <<>>
  ELSE IF Terminal(f) THEN <<Task("read", owner[f]), Task("clear", owner[f])>>
  ELSE <<Task("read", owner[f])>>

\* Faulty loop(): the queue is emptied after the batch, not before it.
PollForgetsTasks(w) ==
  /\ At(w, "run") /\ (Top(w).todo = <<>> \/ io[w].stop)
  /\ LET fds   == {f \in Fds : w \in watched[f] /\ Readable(f)}
         over  == {f \in fds : Terminal(f)}
         other == (IF io[w].wake THEN {<<Task("drain", None)>>} ELSE {})
                  \cup (IF io[w].call = "due" THEN {<<Task("call", None)>>} ELSE {})
     IN /\ \E q \in SetToSeqs(other \cup {Handlers(f) : f \in fds}) :
             io' = [io EXCEPT ![w] =
                      AddTasks([io[w] EXCEPT !.frames[1] = Loop("swap", <<>>),
                                             !.queue = <<>>, !.listed = @ \ over],
                               FlattenSeq(q), FALSE)]
        /\ watched' = [f \in Fds |-> IF f \in over THEN watched[f] \ {w}
                                     ELSE watched[f]]
  /\ UNCHANGED <<main, next, conn, fd, owner, open, kernelVars, clients>>

\* The batch is done, or dropped by a stop.  epoll_wait returns with all that is
\* ready, or by its time-out with nothing; a descriptor whose peer has closed
\* leaves epoll.
Poll(w) ==
  /\ At(w, "run") /\ (Top(w).todo = <<>> \/ io[w].stop)
  /\ LET fds   == {f \in Fds : w \in watched[f] /\ Readable(f)}
         over  == {f \in fds : Terminal(f)}
         other == (IF io[w].wake THEN {<<Task("drain", None)>>} ELSE {})
                  \cup (IF io[w].call = "due" THEN {<<Task("call", None)>>} ELSE {})
     IN /\ \E q \in SetToSeqs(other \cup {Handlers(f) : f \in fds}) :
             io' = [io EXCEPT ![w] =
                      AddTasks([io[w] EXCEPT !.frames[1] = Loop("swap", <<>>),
                                             !.listed = @ \ over],
                               FlattenSeq(q), FALSE)]
        /\ watched' = [f \in Fds |-> IF f \in over THEN watched[f] \ {w}
                                     ELSE watched[f]]
  /\ UNCHANGED <<main, next, conn, fd, owner, open, kernelVars, clients>>

NextTask(w, op) ==
  /\ At(w, "run") /\ ~io[w].stop
  /\ Top(w).todo # <<>> /\ Head(Top(w).todo).op = op

Arg(w) == Head(Top(w).todo).arg
Rest(w) == Loop("run", Tail(Top(w).todo))

\* The wakeup descriptor is read: every wakeup until now is used up.
RunDrain(w) ==
  /\ NextTask(w, "drain")
  /\ io' = [io EXCEPT ![w] = [io[w] EXCEPT !.wake = FALSE, !.frames[1] = Rest(w)]]
  /\ UNCHANGED <<main, next, connVars, kernelVars, clients>>

\* ADD_TO_EPOLL: epoll_ctl adds what m_listen_fds has not, and else changes an
\* entry, which fails when the kernel has none.
RunAdd(w) ==
  /\ NextTask(w, "add")
  /\ LET f == Arg(w)
     IN /\ watched' = [watched EXCEPT ![f] =
                         IF f \in open /\ f \notin io[w].listed THEN @ \cup {w}
                         ELSE @]
        /\ io' = [io EXCEPT ![w] = [io[w] EXCEPT !.listed = @ \cup {f},
                                                 !.frames[1] = Rest(w)]]
  /\ UNCHANGED <<main, next, conn, fd, owner, open, kernelVars, clients>>

\* A shared_ptr holds the connection: m_client's, or that of a running handler.
Alive(c) ==
  \/ c \in clients
  \/ \E w \in Workers : \E i \in DOMAIN io[w].frames : io[w].frames[i].conn = c

Usable(c) == Alive(c) /\ conn[c] = "Connected"

\* Faulty clear(): the descriptor is closed first.
ClearClosingFirst(w, c) ==
  LET f == fd[c]
  IN /\ conn' = [conn EXCEPT ![c] = "Closed"]
     /\ fd' = [fd EXCEPT ![c] = None]
     /\ open' = open \ {f}
     /\ watched' = [watched EXCEPT ![f] = {}]
     /\ io' = [io EXCEPT ![w] =
                 [io[w] EXCEPT !.listed = @ \ {f},
                               !.frames[1] = Frame("close", Tail(@.todo), c, f)]]
     /\ UNCHANGED owner

\* clear() up to close(): another thread may find the connection Closed
\* before its descriptor is.
Clear(w, c) ==
  LET f == fd[c]
  IN /\ conn' = [conn EXCEPT ![c] = "Closed"]
     /\ fd' = [fd EXCEPT ![c] = None]
     /\ watched' = [watched EXCEPT ![f] =
                      IF f \in io[w].listed THEN @ \ {w} ELSE @]
     /\ io' = [io EXCEPT ![w] =
                 [io[w] EXCEPT !.listed = @ \ {f},
                               !.frames[1] = Frame("close", Tail(@.todo), c, f)]]
     /\ UNCHANGED <<owner, open>>

\* The rest of clear(): reset the Fd_Event and close the descriptor, which the
\* kernel then takes out of every epoll instance and may hand out again.
CloseFd(w) ==
  /\ At(w, "close")
  /\ LET f == Top(w).fd
     IN /\ owner' = [owner EXCEPT ![f] = None]
        /\ open' = open \ {f}
        /\ watched' = [watched EXCEPT ![f] = {}]
  /\ io' = [io EXCEPT ![w].frames[1] = Loop("run", @.todo)]
  /\ UNCHANGED <<main, next, conn, fd, kernelVars, clients>>

Skip(w) ==
  /\ io' = [io EXCEPT ![w].frames[1] = Rest(w)]
  /\ UNCHANGED connVars

\* onRead: a request is dispatched to its service method; the end of the
\* stream clears the connection, with what was read just before.
RunRead(w) ==
  /\ NextTask(w, "read")
  /\ LET c == Arg(w)
     IN IF ~Usable(c) \/ (asked[c] # "sent" /\ c \notin ended)
        THEN Skip(w) /\ UNCHANGED asked
        ELSE \/ /\ c \in ended
                /\ Clear(w, c)
                /\ UNCHANGED asked
             \/ /\ asked[c] = "sent"
                /\ asked' = [asked EXCEPT ![c] = "read"]
                /\ io' = [io EXCEPT ![w].frames[1] =
                            Frame("serve", Tail(@.todo), c, None)]
                /\ UNCHANGED connVars
  /\ UNCHANGED <<main, next, ended, clients>>

\* The error callback; nothing when the connection is gone or closed.
RunClear(w) ==
  /\ NextTask(w, "clear")
  /\ IF Usable(Arg(w)) THEN Clear(w, Arg(w)) ELSE Skip(w)
  /\ UNCHANGED <<main, next, kernelVars, clients>>

\* finish() of an outgoing call: TcpClient::stop stops a looping loop.
FinishCall(r) ==
  LET done == [r EXCEPT !.call = "done"]
  IN IF r.looping THEN Stop(done) ELSE done

\* A service method makes a call.  The TcpClient constructor takes back a stop;
\* connect() runs the loop if it has to wait and nobody does.
MakeCall(w, outcome) ==
  /\ At(w, "serve") /\ \A v \in Workers : io[v].call = "none"
  /\ LET r       == io[w]
         new     == [r EXCEPT !.stop = FALSE, !.looping = @ /\ ~r.stop]
         waiting == [new EXCEPT !.call = "waiting"]
     IN io' = [io EXCEPT ![w] =
                 IF outcome = "failed" THEN FinishCall(new)
                 ELSE IF outcome = "waits" /\ ~new.looping THEN EnterLoop(waiting)
                 ELSE waiting]
  /\ UNCHANGED <<main, next, connVars, kernelVars, clients>>

\* The response or the deadline of the outgoing call.
RunCall(w) ==
  /\ NextTask(w, "call")
  /\ io' = [io EXCEPT ![w] = FinishCall([io[w] EXCEPT !.frames[1] = Rest(w)])]
  /\ UNCHANGED <<main, next, connVars, kernelVars, clients>>

\* The service method and onRead return.
ServeReturns(w) ==
  /\ At(w, "serve")
  /\ io' = [io EXCEPT ![w].frames[1] = Loop("run", @.todo)]
  /\ UNCHANGED <<main, next, connVars, kernelVars, clients>>

(***************************************************************************)
(* Clients, quiet once the server is being destroyed (a bound), and the    *)
(* peer of an outgoing call                                                *)
(***************************************************************************)
SendRequest(c) ==
  /\ main.at = "serve"
  /\ conn[c] = "Connected" /\ asked[c] = "no" /\ c \notin ended
  /\ asked' = [asked EXCEPT ![c] = "sent"]
  /\ UNCHANGED <<main, io, next, connVars, ended, clients>>

CloseByClient(c) ==
  /\ main.at = "serve"
  /\ conn[c] = "Connected" /\ c \notin ended
  /\ ended' = ended \cup {c}
  /\ UNCHANGED <<main, io, next, connVars, asked, clients>>

CallIsDue(w) ==
  /\ io[w].call = "waiting"
  /\ io' = [io EXCEPT ![w].call = "due"]
  /\ UNCHANGED <<main, next, connVars, kernelVars, clients>>

Finished == main.at = "gone" /\ UNCHANGED vars

Owner ==
  \/ CreateThread \/ ThreadCreated \/ StartOrDestroy \/ StartThread
  \/ ClearClientTimerFunc
  \/ StopThread \/ JoinThread \/ ClearClients \/ DeleteThreads

Worker(w) ==
  \/ InitThread(w) \/ EnterThread(w)
  \/ LoopSwap(w) \/ Poll(w)
  \/ RunDrain(w) \/ RunAdd(w) \/ RunRead(w) \/ RunClear(w) \/ RunCall(w)
  \/ CloseFd(w) \/ ServeReturns(w)

Next ==
  \/ Owner \/ LeaveServing \/ Finished
  \/ \E w \in Workers :
       Worker(w) \/ CallIsDue(w) \/ \E outcome \in Outcomes : MakeCall(w, outcome)
  \/ \E c \in Conns : OnAccept(c) \/ SendRequest(c) \/ CloseByClient(c)

\* Every thread runs, epoll_wait returns by its time-out, and outgoing calls
\* have deadlines.  Clients, and who stops the server, may do as they like.
Fairness ==
  /\ WF_vars(Owner)
  /\ \A w \in Workers : WF_vars(Worker(w)) /\ WF_vars(CallIsDue(w))

Spec == Init /\ [][Next]_vars /\ Fairness

(***************************************************************************)
(* Properties                                                              *)
(***************************************************************************)

\* However descriptors are closed by IO threads and handed out again by accept,
\* a connection has an open descriptor of its own, whose Fd_Event has its
\* callbacks, and no running loop watches a descriptor that is not open.
FdEventIsOurs ==
  /\ \A c \in Conns : conn[c] = "Connected" => fd[c] \in open /\ owner[fd[c]] = c
  /\ \A f \in Fds : watched[f] # {} => f \in open

\* A connection is closed because its client closed it or the server is being
\* destroyed, never by a callback left over from another connection.
NoStrayClose ==
  \A c \in Conns : conn[c] = "Closed" => c \in ended \/ main.at \in {"delete", "gone"}

\* docs/known-regressions.md, BUG-IOTHREAD-001: no worker outlives its owner,
\* started or not, and no descriptor is left.
NothingOutlivesServer ==
  /\ main.at \in {"clear", "delete", "gone"} =>
       \A w \in Workers : io[w].thread = "exited"
  /\ main.at = "gone" => open = {}

\* While the server runs and no service method has made a call, every request
\* is read, on whichever descriptor and thread its connection is.
RequestIsRead ==
  \A c \in Conns :
    conn[c] = "Connected" /\ asked[c] = "sent"
      ~> \/ asked[c] = "read" \/ c \in ended \/ main.at # "serve"
         \/ \E w \in Workers : io[w].call # "none"

\* A service method that was running when its thread was stopped made a call that
\* did not wait: the TcpClient constructor took the stop back, and as the loop no
\* longer counts as looping, the end of the call does not stop it either.
StopTakenBack ==
  \E w \in Workers : io[w].frames # <<>> /\ ~io[w].stop /\ ~io[w].looping

\* docs/known-regressions.md, BUG-IOTHREAD-001, speaks of bounded stop and join:
\* a server that is being destroyed is at some time gone, in whatever state its
\* threads are stopped, but for the one way above to lose the stop.
ShutdownCompletes == main.at = "stop" ~> main.at = "gone" \/ StopTakenBack
=============================================================================
