# KaiRPC: a TLA+ verification project

This directory models the RPC runtime of KaiRPC (`common/`, `net/`), checks the
models with TLC and proves theorems about all of them with TLAPS. Every
definition is translated from the C++ source; `PROJECT.json` names the lines
behind each one (`map`), the runs, the theorems and the hazards they are for.
All paths below are relative to the root of the repository.

## The system

KaiRPC is a Protobuf RPC framework on epoll. A server process registers its
methods with a service centre and keeps them alive by heartbeats. A client asks
the centre for the address of a method, connects, sends one TinyPB package and
waits for the package with the same message id.

| Part | State | Operations | Interacts with |
|---|---|---|---|
| `RpcChannel` (`net/rpc/rpc_channel.cc`) | a `RequestState` per call: the completion gate, controller, closure, timer event, client | `CallMethod`; `beginCompletion` and `finish`, reached from five sources | controller, `TcpClient`, `Eventloop`, `Timer`, service centre |
| `RpcController` | error, failed, finished, cancelled, cancel callback, `NotifyOnCancel` closure | `StartCancel`, `NotifyOnCancel`, `SetCancelCallback`, `SetError`, `SetFinished`; each a critical section, called from any thread | `Eventloop::addTask` of the call's thread |
| `TcpClient` | connection, `m_fd_event`, connect error | constructor (resets the loop's stop flag), `connect`, `stop`, `disconnect`, `writeMessage`, `readMessage` | runs the loop inside `connect` |
| `TcpConnection` | two `TcpBuffer`s, state, descriptor, write and read callbacks, disconnect callback | `onRead`, `onWrite`, `excute`, `clear`, `listenRead`, `listenWrite` | `Fd_Event`, coder, dispatcher |
| `Eventloop` | task queue, stop flag, looping flag, epoll set, wakeup descriptor | `loop`, `addTask`, `stop`, `addEpollEvent`, `deleteEpollEvent` | one per thread; everybody else's tasks |
| `Timer`, `TimerEvent` | events by arrival time, one timerfd | `addTimerEvent`, `deleteTimerEvent`, `onTimer` | `Eventloop` |
| `TcpBuffer` | vector, read and write index | write, read, move, resize, adjust | connection, coder |
| TinyPB coder | none | `encode`, `decode` | buffers |
| `RpcDispatcher` | the services | `dispatch`, `registerService`, the heartbeat thread | connection, centre |
| Service centre (`net/service_discovery/run_server_discovery.cc`) | method -> address and time last seen, in memory | add, heartbeat, delete, modify, lookup, query | servers and clients, one at a time |
| `IOThread`, `IOThreadGroup`, `TcpServer`, `TcpAcceptor` | worker threads, their semaphores, the accepted connections | start, stop, join, accept, cleanup timer | loops of other threads |
| `Logger`, `AsyncLogger` (`common/log.cc`) | two buffers of lines, each behind a mutex; a queue of buffers, a stop flag and a writer thread per channel | `pushLog`, `pushAppLog`, `syncLoop` (a timer event), `Loop`, `stop`, `CoredumpHandler` | every thread; signals |
| `ScopeMutex` (`common/mutex.h`) | a flag that it has the mutex | constructor, `unlock`, destructor | logger, loop, timer |
| `HighAvai` (`common/high_availability.h`) | a start counter, the child's process id | `start`, `handle_sigchld`, `handle_sigint` | the server process it forks and restarts |
| `MsgIDUtil` | a counter per thread | `GenMsgID` | |

What is hard in it, and what makes each part correct:

* A call can be ended by its response, a failed connect, a lost connection, its
  deadline, or a cancellation from another thread, several of them in one batch
  of the loop. It must end exactly once, with an outcome that really happened,
  after everything that could call back is gone.
* A thread has one loop, which every call it makes runs and stops. Calls nest
  (a closure makes the next call) and share loops (service methods call other
  services). Each call must end, and the thread must get back to user code.
* Reads and writes are partial. Bytes must be neither lost, repeated nor
  reordered by buffers, coder and connection, whatever the pieces.
* A line passes from the thread that logs through two buffers and two mutexes,
  each unlocked twice, to the thread that prints it, and a signal may interrupt
  all this to run a part of it again. Lines must not be lost, doubled or
  forgotten, and the signal must end the process.
* A server may end with requests on the way, and its restart races with signals
  to the process that restarts it. Calls must end, the service must come back,
  and there must be one server.
* The registry forgets by time-out and loses everything in a crash. Live
  servers must be found, dead ones forgotten, a lost registry rebuilt.

`PROJECT.json` lists these hazards one by one, at the line where they bite.

## Modules

| Module | Models | How |
|---|---|---|
| `RpcController` | `RpcController` | operators, one per critical section |
| `Connection` | `Fd_Event`, its registration in the loop, and the life of a `TcpConnection` | operators on a record |
| `RpcChannel` | one call: `CallMethod`, `TcpClient`, `TcpConnection`, `Eventloop`, the timer, cancelling threads, kernel and peer | one action per uninterrupted piece of a thread's work; `pc` is where the calling thread is |
| `RpcCompletion` | what `docs/rpc-semantics.md` promises of a call | abstract specification that `RpcChannel` implements |
| `RpcChannelProofs` | | theorems on `RpcChannel` |
| `SharedLoop` | several calls on one thread and its loop | a call stack of user code, closures, service methods, loops and timer runs |
| `SharedLoopProofs` | | theorems on `SharedLoop` |
| `Timer` | `Timer` | times relative to now, so behaviours are unbounded |
| `TimerProofs` | | theorems on `Timer` |
| `TcpBuffer` | `TcpBuffer`, and how `onRead` fills it | operators with the source's names, one action per call |
| `ByteQueue` | a FIFO queue | abstract specification that `TcpBuffer` implements |
| `TinyPBCoder` | `encode` and `decode`, and `onRead` feeding them a stream in pieces | pure functions; a cell stands for one byte of text or one 4-byte integer |
| `StreamProofs` | | theorems on `TcpBuffer` and `TinyPBCoder` |
| `TcpExchange` | two `TcpConnection`s, the kernel between them, `dispatch` behind one | packages of several cells, partial writes and reads |
| `HighAvai` | the restart helper: fork, wait and exec, its two signal handlers, ends of servers | one action per step of `start()` or handler |
| `SupervisedServer` | a client of a server that `HighAvai` restarts | extends `TcpExchange`, with an instance of `HighAvai` |
| `SupervisedServerProofs` | | theorems on `SupervisedServer` |
| `Logger` | `Logger`, `AsyncLogger`, `ScopeMutex`, the signal handler | a thread is the list of the operations it has still to do |
| `LoggerProofs` | | theorems on `Logger` |
| `TcpServer` | a server's IO threads from construction to destruction, accept, the cleanup timer, cross-thread registration and reuse of descriptors | a record per IO thread with a stack of loop runs; the owner's thread is a step counter |
| `TcpServerProofs` | | theorems on `TcpServer` |
| `ServiceDiscovery` | the centre, registering servers and their heartbeat threads | discrete time kept as ages |
| `ServiceDiscoveryProofs` | | theorems on `ServiceDiscovery` |

`RpcChannel` composes `RpcController` and `Connection`, `SupervisedServer` composes `TcpExchange` and
`HighAvai`. `TcpExchange` rests on what two others show: buffers are queues (`TcpBuffer`) and a stream
decodes to its packages however it is cut (`TinyPBCoder`). `SharedLoop` keeps of a call what
`RpcChannel` shows about it: it ends when an event of its own is run, once.

### RpcChannel

`Setup` is `CallMethod` from its checks to `connect`; the three outcomes of
`connect(2)` are actions of their own. `Discover` is the lookup in the service
centre: `AskCentre` and `LookupReturns` are `serviceDiscovery()`, which waits in a
`read` without time limit and on any error calls `exit(1)` ("exited", the end of all
threads), and `ResolvePeer` is what `CallMethod` makes of the answer.
`Release`, `Record`, `Teardown` and
`RunClosure` are `finish`, in four steps because a cancelling thread may run
between them: the controller's sections are separate. `LoopSwap`, `BatchEnd`,
`PollWait`, `Dispatch*` are `Eventloop::loop`; the `Task*` actions are what it runs,
each a whole handler. A task is queued by name, as the handler it was when epoll
was asked: `stop` or `clear` in the same batch turn up as they do in the code.
`StartCancel` runs on other threads: it takes both callbacks in one section and
calls them after, so `cpc` keeps what a canceller still has to call.

The kernel and the peer are external: `SocketFlags` says what epoll reports, the
peer sends frames of a response (incomplete, for another id, good, undecodable,
an error), closes or resets. `onRead` may find the end of the stream in the same
run as the data.

Three paths end differently from the rest. Failures before the request state
exists complete through `completeSynchronously`. A `connect(2)` that succeeds at once
queues the request and returns without running the loop (`ConnectAtOnce`); nobody then
drives the call unless the user runs the loop (`Undriven`). And the lookup comes
before the deadline is armed, so a call may wait in it for ever, or take the process
with it (`Undiscovered`). `Undriven` and `Undiscovered` are the only states in which a
call may stay incomplete: `CallCompletes` and `KeepsPromise` claim an outcome in every
other case, and in these two only what has already happened.

### SharedLoop

`stack` is the thread's call stack, top first. `Finish` sets the stop flag of a
running loop and pushes the closure; `MakeCall` has the `TcpClient` constructor
clear the flag and pushes a loop unless one is running. A thread is a "user" thread, an
"io" thread whose loop is running from the start and whose tasks are service
methods, or a "failing" user thread on which `connect(2)` may fail at once. `Expired` are the
timer events a run of `onTimer` finds: not those an outer run has erased already.

### TcpServer

`main` is where the owner's thread is: it creates the IO threads one by one, starts
them or not, accepts and forgets connections, and in the destructor stops, joins
and deletes. `io[w]` is a worker: its semaphore, the flags, queue and wakeup of its
loop, and `frames`, the runs of `loop()` it is in. Descriptors are numbers the kernel
gives out again, lowest first; `owner` is whose callbacks the `Fd_Event` of a number has.
`Clear` and `CloseFd` are the two halves of `clear()`: between them the owner's thread may
see the connection as `Closed` and drop it. `Poll` is `epoll_wait` with the dispatch of all it
returns. Writing the response is left to `TcpExchange`; of a service method's outgoing
call (one, a bound) only its effect on the loop's flags is kept.

### SupervisedServer and HighAvai

`sup` is where `start()` is. `execvp` keeps the process but not its handlers, so the supervisor
goes back to "boot" with a count one higher. `live` are the servers that run and
`zombie` those that nobody has waited for; the wait and `handle_sigchld` race for them.
`Killed` is any signal the supervisor does not handle, SIGINT before `signal()` among them.
When the server that has the connection ends, its half of the connection and all bytes on
the way to it are gone (`Breaks`); bytes already on the way back may still be read or be
lost with the connection (`ConnectionLost`), as `RpcChannel` has it in detail. A call that meets no
server is refused.

### Logger

A function is the list of operations it stands for (`PushLog`, `SyncLoop`, `Flush`,
`CoredumpHandler`), and the head of `todo[a]` is what agent `a` does next. Entering a section and its one access are
one step, leaving it another; which mutexes are `locked` is apart from who is `inside`,
because the destructor of a `ScopeMutex` that was unlocked by hand frees the mutex whoever has it.
As soon as two threads are inside one section (`raced`) the program has undefined
behaviour, the model stops, and nothing is claimed. A signal may come at any place of
the threads in `Victims`; the handler is an agent that runs instead of the thread.

### Timer, TcpBuffer, TinyPBCoder, TcpExchange, ServiceDiscovery

The actions have the names of the methods. In `Timer` the callbacks run inside
`onTimer`, and may run the loop and `onTimer` again, so `tasks` holds what nested runs
have still to call; `Dispatch` is apart from `OnTimer` because tasks queued before it
may set the timerfd again. In
`TinyPBCoder` `Streams` is what the peer may send; `RoundTrip` is about every message sequence in
`Conversations` behind every sequence of cells in `Leads`, none of which starts a package. In `TcpExchange` `Flaw` says what `dispatch` will find wrong with
a request. In `ServiceDiscovery` a command is sent, then executed by the centre or lost with it; `Prompt`
says that threads which can run do so before time passes and that a command
takes at most `MaxDelay`.

## Runs

| Run | Configuration | Shows |
|---|---|---|
| `call` | 2 cancelling threads, 2 response frames, connect may succeed at once | `ClosureAtMostOnce`, `QuietAtClosure`, `OutcomeJustified`, `OutcomeIsFinal`; no cancellation is lost (`NoLostCancel`) and each is notified once (`CancelIsNotified`); every call whose lookup returns and that a loop drives ends (`CallCompletes`); `RpcChannel` implements `RpcCompletion` (`KeepsPromise`) |
| `response_before_close` | 1 cancelling thread, 1 frame | violation: see findings |
| `shared_loop` | 3 calls, all kinds of thread | `EachClosureAtMostOnce`, `ReturnMeansComplete`, `NoNullFdEvent`, `EveryUserCallEnds`, `UserCodeResumes` |
| `call_stranded` | 2 calls on an IO thread | violation |
| `timer` | two one-shot events and a repeated one, intervals 1, 4, 2, slack 3 | `FirstIsCovered`, `CancelledIsNotArmed`, `EventFires` |
| `buffer` | initial size 3, at most 7 unread bytes | `IndexesInRange`, `ReadPartIsSmall`, `GrowthIsProportional`, `IsFifo` (refinement of `ByteQueue`) |
| `coder` | streams of two messages, clean, with noise and with broken packages; all ways to cut them | `RoundTrip`, `BacklogBounded`, `ChunkingIndependent` |
| `exchange` | 3 requests in turn, packages of 3 cells, kernel buffers of 4, 2 restarts, every signal | `OutputIntact`, `EndsOneWay`, `OneServer`, `ServiceComesBack` |
| `exchange_error` | the same requests on one connection, one unknown service | violation |
| `server` | 2 IO threads, 2 connections, 2 descriptors, one outgoing call with every outcome of connect | `FdEventIsOurs`, `NoStrayClose`, `NothingOutlivesServer`, `RequestIsRead`, `ShutdownCompletes` |
| `discovery` | 2 servers with 2 methods, TTL 4, delay 1, 2 crashes or admin commands | `LiveServiceFound`, `DeadServiceForgotten`, `RegistryRecovers`, `SurvivorTakesOver` |
| `logger` | 1 thread that logs, 1 line on the rpc and 2 on the app channel, a signal to that thread or the loop's | `LinesInOrder`, `LineIsPrinted`, `SignalEndsProcess` |

Every property of a passing run has a faulty variant of a mapped definition
(named after it, just above it) under which TLC finds it violated.

Why the bounds are enough. Two cancellers are the fewest that can both be inside
`StartCancel`; two frames the fewest that give an incomplete response and its rest,
or a stranger's response and ours. Three calls let a closure make a call while
another one waits in the same batch. Packages of three cells in buffers of four
put a cut at every place of a package, and a package across two writes; two
restarts give a server that was itself restarted and a limit. Two lines on a
channel are the fewest that can be swapped or meet in one buffer; the handler's own line is
a second one on the rpc channel. Two
IO threads and two connections are the fewest for a descriptor that one thread
closes and accept hands to the other; the second connection reuses the number of
the first or not, as the first is closed in time or not. The
buffer's bound lets it grow twice and be compacted in between. With a TTL of 4
the heartbeat interval is 2 and two delayed commands use up the rest: one unit
less on either side and the property fails, which the mutants show. Time in `Timer` and
`ServiceDiscovery` is relative, so these behaviours are not cut off.

Fairness. The calling thread runs whenever it can, except in the `read` of its lookup,
which nothing makes return; the clock reaches the deadline (the timer is always armed
before `connect`); a canceller inside `StartCancel` finishes it. Nothing is assumed of
the service centre, the peer or users. In `SharedLoop` the thread runs and deadlines
pass; a call there begins when it connects, so lookups are taken to return. In
`TcpExchange` both loops run ready handlers. In
`TcpServer` every thread runs, `epoll_wait` returns at the latest by its time-out, and an
outgoing call gets its response or its deadline; whether clients do anything, and
whether and when the owner leaves, is open. In `SupervisedServer` the supervisor also
runs and the kernel reports the end of a connection; nothing has to crash. In
`Logger` every thread runs, and the handler gets a mutex that is free again and again
(strong fairness: the timer leaves it alone between two rounds). In
`ServiceDiscovery` servers' threads and time go on, a crashed centre is started again,
silent control connections end, and a command that is repeatedly servable is
served (strong fairness: `Block` may interrupt, but the centre's epoll reports every
waiting connection).

Deadlock is not checked where the system may come to rest: `shared_loop` and
`call_stranded` (an IO thread whose loop was stopped), `exchange*` (all answered, the
supervisor gone), `logger` (the process has ended, or hangs in the handler).

## Findings

* `response_before_close`. `onRead` clears the connection when `read()` returns 0 before
  it looks at data read just before; a response that fills the read buffer
  exactly and comes with the peer's close is dropped, although
  `docs/known-regressions.md` says that data reported with `EPOLLIN` is not.
* `call_stranded`. The end of one call stops the thread's loop; a second call of a
  service method on that IO thread then has nobody to run its deadline.
* `exchange_error`. `dispatch` returns without a reply when it cannot find the service or
  method or parse the request, so the error never reaches the client.

Seen in the models, without a run of their own: a lookup in the service centre that gets no answer
holds the calling thread for ever, whatever the deadline and whoever cancels, and one that fails ends the process
(`docs/current-state.md` says so: "RPC deadlines do not cover service discovery"); on a
"failing" thread a nested call that fails at once makes the outer loop go on, so that
`connect_callback` may use a null `m_fd_event` and user code may not get its thread back; a timer
event that an earlier callback of the same `onTimer` cancels still has its callback run
(`docs/known-regressions.md` says that such an event "cannot re-arm", which is checked, "or
invoke owner state": the completion gate of a call sees to that, other owners are on their own);
with `service_ttl_ms` below the minimal heartbeat interval of 100 ms a live
server's entry expires between heartbeats; a request above the maximal package
size encodes to nothing and its call ends by its deadline; a message given to
`writeMessage` while bytes of an earlier one are unsent would never be encoded though its
callback runs (`RpcChannel` never does that, and the model has requests in turn).

Three more in `TcpServer`. A service method that runs while the destructor stops its
thread, and makes a call whose `connect` does not wait, takes the stop back in the
`TcpClient` constructor, and the end of the call does not stop the loop, which no longer
counts as looping: `join` waits for ever. `ShutdownCompletes` excludes exactly this
(`StopTakenBack`) and shows that it is the only way to hang. After any outgoing call of
a service method has ended, its IO thread has left its loop and connections
handed to it later are never read, which is why `RequestIsRead` is about servers whose
methods have made no call. And the task that drains the wakeup descriptor may take the
wakeup written for a task queued after the batch was taken, so that a
registration or a stop waits for the time-out of `epoll_wait` (10 s).

In `Logger`. The second unlock lets two threads into one section: three threads and four
steps are enough, and the run reaches it. A signal may hang the process in two ways,
which `SignalEndsProcess` names: a writer whose queue is empty never looks at its stop flag,
and a handler that interrupted a section waits for it. What is in a queue or a buffer
behind the first when the writer stops is not printed. With type 0 nobody ever prints
the app channel.

In `SupervisedServer`. A SIGINT between `fork()` and `signal()`, and any other signal, leaves the server running
without a supervisor. `handle_sigint` kills `child_pid` even if it was already waited for. In
`test/test_rpc_server.cc` the threads of the logger and the heartbeat are started before the fork
and stay in the supervisor, so the server's lines are not printed and heartbeats tell
that the supervisor is alive. An argument of the program's own is taken for the
counter, and all others are gone after the first restart.

## Proofs

Every invariant that a passing run checks is also a theorem for every value of the constants, and of
several liveness properties the part that is about safety. Hardly any is inductive as it stands (`CancelledIsNotArmed` is, `EachClosureAtMostOnce` needs only
types); what the proofs add to the others, and why, is below. Each proof that steps keep an invariant has one
step per action, with lemmas for what several actions do.

| Theorem | States | For every |
|---|---|---|
| `TypeCorrect` | `TypeOK` | set of cancelling threads, number of frames |
| `ClosureRunsAtMostOnce` | `ClosureAtMostOnce` | as above |
| `ClosureRunsQuiet` | `QuietAtClosure` | as above |
| `OutcomeNeverRewritten` | `OutcomeIsFinal` | as above |
| `CancellationIsNotLost` | `NoLostCancel` | as above |
| `OutcomeSaysWhatHappened` | `OutcomeJustified` | as above |
| `PromiseIsKept` | the safety part of `RpcCompletion` | as above |
| `CancellationIsNotifiedOnce` | the closure of `NotifyOnCancel` runs once at most, and a cancelled call's closure has run or will be run by one thread | as above |
| `ClosuresRunOnce` | `EachClosureAtMostOnce` | number of calls |
| `UserCodeSeesNoCallWaiting` | `ReturnMeansComplete` | number of calls |
| `NullFdEventIsNeverUsed` | `NoNullFdEvent` | number of calls |
| `TimerfdCoversFirst` | `FirstIsCovered` | set of events, intervals, slack |
| `LateByAtMostSlack` | no pending event is overdue by more than the slack | as above |
| `CancelledStaysUnarmed` | `CancelledIsNotArmed` | as above |
| `IndexesStayInRange`, `ReadPartStaysSmall`, `GrowthStaysProportional` | `IndexesInRange`, `ReadPartIsSmall`, `GrowthIsProportional` | initial size, set of bytes and chunks |
| `BufferIsFifo` | `IsFifo` | as above |
| `CutsMakeNoDifference` | `ChunkingIndependent` | set of streams of integers, package size |
| `BacklogStaysBounded` | `BacklogBounded` | as above |
| `WhatIsSentIsReceived` | `RoundTrip` | set of conversations, of leading cells without a start flag, package size |
| `NeverTwoServers` | `OneServer` | requests, sizes, restart count |
| `PartialWritesLoseNothing` | `OutputIntact` | requests, package and kernel buffer sizes, restart count |
| `RestartsAreCounted` | at most `restart_count_` restarts, and all of them before giving up | as above |
| `RequestsEndOneWay` | a request has one answer at most: its own response, a loss after a server's end, a refusal | as above |
| `AnswersAreFinal` | no step changes an answer | as above |
| `DescriptorsAreOurs` | `FdEventIsOurs` | number of IO threads, connections, descriptors |
| `NothingIsLeftBehind` | `NothingOutlivesServer` | as above |
| `ClosedForAReason` | `NoStrayClose` | as above |
| `DeadServiceIsForgotten` | `DeadServiceForgotten` | set of servers, number of methods, TTL, delay, upsets |
| `LiveServiceIsFound` | `LiveServiceFound` | as above, with room in the TTL |
| `LinesStayInOrder` | `LinesInOrder` | set of threads that log, threads a signal may interrupt, number of calls |
| `SleepersHaveNothing` | a writer that waits has an empty queue, one that returned was told to | as above |
| `MutexesAreFreed` | a locked mutex has one thread inside, which has still to leave | as above |
| `EndsAfterWriters` | the process ends after both writers returned, or the interrupted one never will | as above |

**RpcChannelProofs.** `CallInv` adds to the types `GateInv`, which relates the completion gate, the place of the
calling thread and the number of runs (a call past the gate is in `finish` or has run its
closure; one before it has not), and `QuietInv`, which says for each step of `finish` what is already
gone and that a closed connection has nothing registered. `WaitInv` is for `NoLostCancel`: while a call
waits its loop is not stopped, and until somebody cancels, the callback that would queue the
cancellation is still in the controller. `JustInv` is for `OutcomeJustified`. It follows the evidence from where it
arises to the completion gate: frames that can be read were sent, to a request that had arrived; an error or
a hang-up that epoll reported, and the callback queued for it, still say what is the case; callbacks are
registered only in the states of the socket they are for; a cancellation that is queued, or about to be, was
asked for. `NotifyInv` follows the closure of `NotifyOnCancel`: in the controller until somebody cancels, then with the one
thread that took it out, then run. `PromiseIsKept` maps the four steps of `finish` to the steps of `RpcCompletion`
and shows that all others change nothing it sees; the fairness in `KeepsPromise` is left to TLC.
Assumptions: `ImmediateConnect` is Boolean, `MaxFrames` a natural number.

**SharedLoopProofs.** `StackInv` is the shape of the call stack: user code only at the bottom, service methods and
`onTimer` only on top of a loop. `OneCallInv` says that on a user's thread one call waits at a time, that a loop
runs and is not stopped while it does, and that wherever the next call may be made no loop would take it
over. That is what makes `CallMethod` synchronous. `BatchInv` says that the loop stays stopped from the end
of a call until a closure makes another, so that a batch holding the connect of an ended call is
dropped and not run; it fails, as it must, on "failing" threads, where a connect may fail at once.

**TimerProofs.** `CoverInv` asks for every pending event what `FirstIsCovered` asks for the first, and ties the
expiry of the timerfd to how late each event may get. Without that, an event would become the first by a
cancellation and nothing would be known of it. The set of events need not be finite: the
times have a least member because none is below minus the slack.

**StreamProofs, the buffer.** The inductive invariant is well-formed indexes and a small read part; the lemmas
`ResizeKeeps`, `AdjustKeeps`, `WriteAppends`, `AdvanceDrops`, `ReceiveAppends` say what each method does to the contents.

**StreamProofs, the coder.** `decode` is a recursive function over sequences, and the prover does no induction over
data, so the inductions are done by minimal counterexample, on the well-foundedness of the naturals. `DecodeDef`
shows first that a function with decode's equation exists, so that the definition means something for every
sequence. `DecodeFacts` says what a run of `decode` consumes, yields and leaves, which is `BacklogBounded`.
`TurnStable` says that one turn of the loop does the same when more cells follow, unless it waits for them;
`NoiseAhead` that what was skipped in search of a start need not be seen again. Together they give `DecodeConcat`:
decoding a sequence and then the rest of it with what follows is decoding both at once. `CoderInv` is
`ChunkingIndependent` with the ranges of the positions, and `DecodeConcat` is its step. `RoundTrip` follows from
what one encoded package decodes to (`PackageIsRead`) by an induction on the conversation. Assumptions: streams and
texts are sequences of integers, the maximal package is at least the minimal one.

**SupervisedServerProofs.** `ServerInv` says where `start()` must be for a server to run: before the fork and after
the wait there is none, in between at most the last one. `OutputInv` says that there is a sequence of requests,
without repetition, such that the cells handed to the kernel and those in the output buffer are together what
encoding it gives; it is not a variable, so the invariant asserts that it exists. A partial write moves the cut and
leaves the whole. The stored message is in that sequence just while its cells are in the buffer, which is why
`onWrite`, run again, does not encode it again. `RestartsInv` ties the counter that `start()` passes to itself
through `execvp` to the number of forks, on both sides of each. `ReplyInv` says of every cell on its way back that
its status is what `dispatch` gives that request, and `AnswerInv` that nobody reads for a request which has an
answer, and that a connection breaks, and a request is lost, only after the end of the first server, which is for
good. Assumptions on the requests and sizes are those of `TcpExchange`; `RestartCount` is a natural number (with a
negative one the code still starts the first server, which the count of the model leaves out).

**TcpServerProofs.** `FramesInv` and `OwnerInv` relate the owner's place to that of the threads: none runs before
it was created or after it was joined, and only the innermost run of `loop()` can be outside a service method.
`ConnInv` is about descriptors: each open one belongs to a connection that is connected, or to one thread between
the two halves of `clear()`. This last case is what the invariants of the run do not show and need: in it the
connection is `Closed`, its number still taken, and the owner may already have dropped it. `NoStrayClose` needs of
the types that an error task in any queue or batch is for a client that has left.

**ServiceDiscoveryProofs.** `CommandInv` says where a server is in its round of commands. `ForgetInv` bounds how
long a server was dead by the age of its entry and the delay of a command still on its way. `FreshInv` bounds the
age of an entry by the time since its server last refreshed it, which `SinceRefreshBound` in turn bounds by a
heartbeat interval and the delays of the other commands of the round. `LiveServiceIsFound` therefore assumes
`Interval + NMethods * MaxDelay <= TTL`. The code does not check this, it is a condition on the configuration: the
heartbeat sleeps half the TTL, and a server with so many methods, or so slow a centre, that a round takes longer
than the other half does lose entries.

**LoggerProofs.** All four theorems are about behaviours before two threads meet in a section (`raced`), as the
model stops there. `LoggerInv` says what each thread may have still to do (`Shapes`), and of the mutexes that a
locked one has a thread inside, one at most, which will leave (`LockedInside`, `OneInside`, `AllLeave`).
`OrderedAt` is about a channel's `Trail`: the lines printed, with the writer, in the queue, with a thread that took
the buffer and has not handed it on, and in the buffer, in that order, are 1 to n. For that only one thread may be
about to hand on lines of a channel. On the app channel it is so because `syncLoop` hands them on while it has the
app mutex (`AppHeld`). On the rpc channel it first unlocks by hand: until there is a signal, only the loop's thread
syncs, but the handler may overtake that thread between the two, and then the trail is only known to have every
line once. `WaitsAt` says that a writer which found nothing has had the mutex since, so that nothing was pushed
before it waits. `JoinInv`, for `EndsAfterWriters`, says that a writer which the handler will not join any more has
returned or is the thread it interrupted. Assumptions: the threads that log are not the handler or a writer, and
`None` is none of the threads.

**Only model-checked.** Liveness (`CallCompletes`, `CancelIsNotified`, `EveryUserCallEnds`, `UserCodeResumes`,
`EventFires`, `EndsOneWay`, `ServiceComesBack`, `RequestIsRead`, `ShutdownCompletes`, `RegistryRecovers`,
`SurvivorTakesOver`, `LineIsPrinted`, `SignalEndsProcess`, and the fairness of `KeepsPromise`): fairness and
ENABLED are out of the prover's reach. What `CancelIsNotified`, `EndsOneWay` and `ServiceComesBack` say about
safety is proved: `CancellationIsNotifiedOnce`, `RequestsEndOneWay` with `AnswersAreFinal`, and
`RestartsAreCounted`. The stronger invariants were checked with TLC on the runs' instances before they were proved.

## Not modelled

The listening socket, a failed `accept`, the owner's own loop under a `TcpServer` and an
empty thread group. A call without an `RpcController`, which returns at once without
running its closure. The wall clock, by which `Timer` says what is due, and the
monotonic one of the timerfd are one clock in `Timer`, which does not advance while
`onTimer` is waiting to run: `LateBySlackAtMost` is relative to that. A failed `recv` of
the centre, whose -1 is taken for a length and the old command run again, before the
answer to the closed connection ends the process (`CentreCrashes` has that end).
`MsgIDUtil`: its wrap is 10^20 ids away and its uniqueness a matter of probability.
That a loop sleeps to the time-out of `epoll_wait` after a lost wakeup: `Poll` may always
return. The second unlock of `ScopeMutex` outside the logger: `Eventloop::loop`, `addTask`
and `Timer` have it too, and the other modules take their critical sections as one
action each.
`TcpConnection::shutdown`, which has no caller; the growth of `FdEventGroup`; service
methods that answer after `dispatch` has returned, through a closure that holds a raw pointer to the
connection; that `printf` and `malloc` are not allowed in a signal handler; the logger and the heartbeat in two
processes after `fork`; configuration and addresses, the
interactive discovery tool, the string coder, TinyPB's checksum (never checked).
An I/O error of `epoll_ctl`, `socket` or `timerfd` is modelled only where the code handles it.

## Plan

1. Done: the call (`RpcChannel`), loops shared by calls, timer, buffer, coder, exchange,
   the server's threads and connections, discovery, the logger with its mutexes and signals, the
   restarted server.
2. Done: theorems for every invariant the runs check, for the steps of both refinements, and for the safety
   part of three liveness properties.
3. Open: replies through the closure after the connection was cleared.
