------------------------------- MODULE Logger -------------------------------
(***************************************************************************)
(* The logger, common/log.cc: the way of a line from a log call, through   *)
(* the sync timer, to the writer thread that prints it, and what the       *)
(* signal handler does before the process ends.                            *)
(*                                                                         *)
(* There are two channels, "rpc" and "app".  Each has a buffer behind a    *)
(* front mutex (in Logger) and a queue of buffers behind a back mutex (in  *)
(* AsyncLogger), and a writer thread of its own.  A thread is the list of  *)
(* the operations it has still to do, so that a function is the list it    *)
(* stands for.  The signal handler borrows the thread it interrupts.       *)
(*                                                                         *)
(* A ScopeMutex (common/mutex.h) that was unlocked by hand is unlocked     *)
(* again by its destructor, and a pthread mutex lets anyone unlock it:     *)
(* that frees the mutex even if another thread has it by then.  The module *)
(* keeps which mutexes are locked apart from who is in which section.  A   *)
(* section has one access to the data it guards; entering it and the       *)
(* access are one step.  Two threads in one section are a data race on a   *)
(* vector or a queue, after which the program has no defined behaviour:    *)
(* the model stops there (raced), and claims nothing of what follows.      *)
(***************************************************************************)
EXTENDS Naturals, Sequences, SequencesExt

CONSTANTS
  Users,      \* threads that log; the thread of the timer may be one
  Victims,    \* threads a signal may interrupt
  None,       \* no thread
  MaxCalls    \* how many log calls there are on each channel

ASSUME LoggerAssumption ==
  /\ MaxCalls \in [{"rpc", "app"} -> Nat]
  /\ None \notin Users \cup Victims
  /\ Users \cap {"handler", "rpc", "app"} = {}

Channels == {"rpc", "app"}

\* The sync timer is on the thread that called init(); a writer is named for
\* its channel.
Threads == Users \cup {"loop"} \cup Channels
Agents  == Threads \cup {"handler"}

Mutexes == {"front", "back"} \X Channels
FrontMutex(c) == <<"front", c>>
BackMutex(c)  == <<"back", c>>

VARIABLES
  type,     \* Logger::m_type: 0 prints at once, 1 is asynchronous
  todo,     \* what each agent has still to do
  locked,   \* the mutexes that are locked
  inside,   \* who is in the critical section of each mutex
  raced,    \* two threads were in one section
  count,    \* how many lines were put on each channel: they are 1, 2, ...
  calls,    \* how many log calls were made on each channel
  buffer,   \* Logger::m_buffer and m_app_buffer
  queue,    \* AsyncLogger::m_buffer
  stop,     \* AsyncLogger::m_stop_flag
  printed,  \* what each channel has printed
  victim,   \* the thread the signal handler runs on
  dead      \* the process has ended

lockVars == <<locked, inside, raced>>
dataVars == <<count, buffer, queue, printed>>
vars == <<type, todo, lockVars, dataVars, calls, stop, victim, dead>>

(***************************************************************************)
(* The functions, as lists of operations                                   *)
(***************************************************************************)
Op(op, m, lines) == [op |-> op, m |-> m, lines |-> lines]
Do(op, m) == Op(op, m, <<>>)

\* pushLog and pushAppLog: unlocked by hand, then by the destructor.
PushLog(c) == <<Do("put", FrontMutex(c)),
                Do("unlock", FrontMutex(c)), Do("unlock", FrontMutex(c))>>

PushLogBuffer(c, lines) ==
  <<Op("push", BackMutex(c), lines),
    Do("unlock", BackMutex(c)), Do("unlock", BackMutex(c))>>

\* syncLoop() unlocks the rpc mutex after either swap, and the destructors
\* then unlock both, in reverse order.
SyncLoop == <<Do("swap", FrontMutex("rpc")), Do("swap", FrontMutex("app")),
              Do("unlock", FrontMutex("app")), Do("unlock", FrontMutex("rpc"))>>

AfterSwap(c, lines) ==
  <<Do("unlock", FrontMutex("rpc"))>>
    \o (IF lines = <<>> THEN <<>> ELSE PushLogBuffer(c, lines))

\* AsyncLogger::Loop: one buffer is taken and printed, or waited for.
Loop(c) == <<Do("pop", BackMutex(c))>>

\* Faulty: only the writer of the rpc channel is told to stop.
FlushStopsRpc == SyncLoop \o <<Do("stop", BackMutex("rpc"))>>

\* Logger::flush: sync, and tell both writers to stop.
Flush ==
  SyncLoop \o <<Do("stop", BackMutex("rpc")), Do("stop", BackMutex("app"))>>

\* CoredumpHandler: log, flush, join both writers and raise the signal again.
CoredumpHandler ==
  PushLog("rpc") \o Flush
    \o <<Do("join", BackMutex("rpc")), Do("join", BackMutex("app")),
         Do("raise", BackMutex("rpc"))>>

Init ==
  /\ type \in {0, 1}
  /\ todo = [a \in Agents |-> IF a \in Channels /\ type = 1 THEN Loop(a)
                                                           ELSE <<>>]
  /\ locked = {}
  /\ inside = [m \in Mutexes |-> {}]
  /\ raced = FALSE
  /\ count = [c \in Channels |-> 0]
  /\ calls = [c \in Channels |-> 0]
  /\ buffer = [c \in Channels |-> <<>>]
  /\ queue = [c \in Channels |-> <<>>]
  /\ stop = [c \in Channels |-> FALSE]
  /\ printed = [c \in Channels |-> <<>>]
  /\ victim = None
  /\ dead = FALSE

(***************************************************************************)
(* The mutexes                                                             *)
(***************************************************************************)

Running == ~dead /\ ~raced

\* Agent a is about to do op; the thread under the handler stands still.
At(a, op) ==
  /\ todo[a] # <<>> /\ Head(todo[a]).op = op
  /\ Running /\ a # victim

Mutex(a) == Head(todo[a]).m
Channel(a) == Mutex(a)[2]

\* What comes next is put in front of the rest.
Go(a, ops) == todo' = [todo EXCEPT ![a] = ops \o Tail(@)]

\* The constructor of a ScopeMutex.
Enter(a) ==
  /\ Mutex(a) \notin locked
  /\ locked' = locked \cup {Mutex(a)}
  /\ inside' = [inside EXCEPT ![Mutex(a)] = @ \cup {a}]
  /\ raced' = (inside[Mutex(a)] # {})

\* unlock(), and the destructor: whoever has the mutex.
Leave(a) ==
  /\ locked' = locked \ {Mutex(a)}
  /\ inside' = [inside EXCEPT ![Mutex(a)] = @ \ {a}]
  /\ UNCHANGED raced

Unlock(a) ==
  /\ At(a, "unlock")
  /\ Leave(a)
  /\ Go(a, <<>>)
  /\ UNCHANGED <<type, dataVars, calls, stop, victim, dead>>

(***************************************************************************)
(* A line on its way to the writer                                         *)
(***************************************************************************)
Put(a) ==
  /\ At(a, "put") /\ Enter(a)
  /\ LET c == Channel(a)
     IN /\ count' = [count EXCEPT ![c] = @ + 1]
        /\ buffer' = [buffer EXCEPT ![c] = Append(@, count[c] + 1)]
  /\ Go(a, <<>>)
  /\ UNCHANGED <<type, calls, queue, stop, printed, victim, dead>>

\* Faulty syncLoop: the buffer is copied and not emptied.
SwapCopies(a) ==
  /\ At(a, "swap") /\ Enter(a)
  /\ Go(a, AfterSwap(Channel(a), buffer[Channel(a)]))
  /\ UNCHANGED <<type, dataVars, calls, stop, victim, dead>>

Swap(a) ==
  /\ At(a, "swap") /\ Enter(a)
  /\ buffer' = [buffer EXCEPT ![Channel(a)] = <<>>]
  /\ Go(a, AfterSwap(Channel(a), buffer[Channel(a)]))
  /\ UNCHANGED <<type, count, calls, queue, stop, printed, victim, dead>>

Asleep(c) == todo[c] # <<>> /\ Head(todo[c]).op = "asleep"

\* Faulty pushLogBuffer: the writer is not woken.
NotWoken(t, c) == t

\* pthread_cond_signal: the writer, if it waits, has to lock again.
Woken(t, c) == IF Asleep(c) THEN [t EXCEPT ![c] = Loop(c)] ELSE t

Push(a) ==
  /\ At(a, "push") /\ Enter(a)
  /\ queue' = [queue EXCEPT ![Channel(a)] = Append(@, Head(todo[a]).lines)]
  /\ todo' = Woken([todo EXCEPT ![a] = Tail(@)], Channel(a))
  /\ UNCHANGED <<type, count, calls, buffer, stop, printed, victim, dead>>

(***************************************************************************)
(* The writer                                                              *)
(***************************************************************************)
Pop(a) ==
  /\ At(a, "pop") /\ Enter(a)
  /\ IF queue[a] = <<>>
     THEN Go(a, <<Do("wait", BackMutex(a))>>) /\ UNCHANGED queue
     ELSE /\ queue' = [queue EXCEPT ![a] = Tail(@)]
          /\ Go(a, <<Op("print", BackMutex(a), Head(queue[a]))>>)
  /\ UNCHANGED <<type, count, calls, buffer, stop, printed, victim, dead>>

\* pthread_cond_wait lets go of the mutex.
CondWait(a) ==
  /\ At(a, "wait") /\ Leave(a)
  /\ Go(a, <<Do("asleep", BackMutex(a))>>)
  /\ UNCHANGED <<type, dataVars, calls, stop, victim, dead>>

\* unlock(), then the lines are printed.  A writer that now sees the stop flag
\* returns, whatever is in its queue; the destructor unlocks in either case.
PrintLines(a) ==
  /\ At(a, "print") /\ Leave(a)
  /\ printed' = [printed EXCEPT ![a] = @ \o Head(todo[a]).lines]
  /\ Go(a, <<Do("unlock", BackMutex(a))>>
             \o (IF stop[a] THEN <<>> ELSE Loop(a)))
  /\ UNCHANGED <<type, count, calls, buffer, queue, stop, victim, dead>>

(***************************************************************************)
(* Log calls, the timer, the signal                                        *)
(***************************************************************************)

\* The log macros.  With type 0 pushLog prints; pushAppLog does not look.
LogCall(a, c) ==
  /\ Running /\ a # victim /\ todo[a] = <<>>
  /\ calls[c] < MaxCalls[c]
  /\ calls' = [calls EXCEPT ![c] = @ + 1]
  /\ IF type = 0 /\ c = "rpc"
     THEN /\ count' = [count EXCEPT ![c] = @ + 1]
          /\ printed' = [printed EXCEPT ![c] = Append(@, count[c] + 1)]
          /\ UNCHANGED todo
     ELSE /\ todo' = [todo EXCEPT ![a] = PushLog(c)]
          /\ UNCHANGED <<count, printed>>
  /\ UNCHANGED <<type, lockVars, buffer, queue, stop, victim, dead>>

\* The repeated timer event of init().
SyncTimer ==
  /\ Running /\ victim # "loop" /\ todo["loop"] = <<>>
  /\ type = 1
  /\ todo' = [todo EXCEPT !["loop"] = SyncLoop]
  /\ UNCHANGED <<type, lockVars, dataVars, calls, stop, victim, dead>>

\* One of the signals init() asked for, at any place of any thread.
Signal(t) ==
  /\ Running /\ victim = None /\ type = 1
  /\ victim' = t
  /\ todo' = [todo EXCEPT !["handler"] = CoredumpHandler]
  /\ UNCHANGED <<type, lockVars, dataVars, calls, stop, dead>>

Stop ==
  /\ At("handler", "stop")
  /\ stop' = [stop EXCEPT ![Channel("handler")] = TRUE]
  /\ Go("handler", <<>>)
  /\ UNCHANGED <<type, lockVars, dataVars, calls, victim, dead>>

\* Joining the interrupted thread itself fails at once.
Join ==
  /\ At("handler", "join")
  /\ todo[Channel("handler")] = <<>> \/ Channel("handler") = victim
  /\ Go("handler", <<>>)
  /\ UNCHANGED <<type, lockVars, dataVars, calls, stop, victim, dead>>

\* The signal is raised again with its default action.
Raise ==
  /\ At("handler", "raise")
  /\ dead' = TRUE
  /\ Go("handler", <<>>)
  /\ UNCHANGED <<type, lockVars, dataVars, calls, stop, victim>>

(***************************************************************************)
(* Specification                                                           *)
(***************************************************************************)
Sections(a) == Unlock(a) \/ Put(a) \/ Swap(a) \/ Push(a)
Writer(c) == Unlock(c) \/ Pop(c) \/ CondWait(c) \/ PrintLines(c)
Handler == Sections("handler") \/ Stop \/ Join \/ Raise

Next ==
  \/ \E u \in Users : Sections(u)
  \/ Sections("loop") \/ SyncTimer
  \/ \E c \in Channels : Writer(c)
  \/ Handler
  \/ \E t \in Victims : Signal(t)
  \/ \E u \in Users, c \in Channels : LogCall(u, c)

\* Every thread runs, and so does the loop with the timer, which leaves the
\* front mutexes to the handler between two rounds.  Nobody has to log.
Fairness ==
  /\ \A u \in Users \ {"loop"} : WF_vars(Sections(u))
  /\ WF_vars(Sections("loop") \/ SyncTimer)
  /\ \A c \in Channels : WF_vars(Writer(c))
  /\ SF_vars(Handler)

Spec == Init /\ [][Next]_vars /\ Fairness

(***************************************************************************)
(* Properties                                                              *)
(***************************************************************************)

\* The lines that are kept for an operation on the back of channel c, by one
\* who has still to do ops.
Carried(ops, op, c) ==
  LET mine == {i \in DOMAIN ops : ops[i].op = op /\ ops[i].m = BackMutex(c)}
  IN IF mine = {} THEN <<>> ELSE ops[Min(mine)].lines

\* Every line of a channel, from the first printed to the last put.
Trail(c) ==
  printed[c] \o Carried(todo[c], "print", c) \o FlattenSeq(queue[c])
    \o Carried(todo["loop"], "push", c) \o Carried(todo["handler"], "push", c)
    \o buffer[c]

\* Between a log call and the writer no line is lost or doubled, through two
\* buffers, three mutexes and a swap on either side.  Lines also stay in
\* order; only on the rpc channel, whose mutex syncLoop gives up before it
\* hands the buffer on, may the handler's sync overtake the timer's.
LinesInOrder ==
  ~raced => \A c \in Channels :
    \/ Trail(c) = [n \in 1..count[c] |-> n]
    \/ /\ c = "rpc" /\ victim # None
       /\ Len(Trail(c)) = count[c] /\ ToSet(Trail(c)) = 1..count[c]

\* log.cc, AsyncLogger::Loop: the writer prints what is there and sleeps until
\* there is something new.  A line that was put is printed: no wake-up is
\* lost, unless two threads meet or a signal comes.  (With type 0 nobody
\* looks at the app channel.)
LineIsPrinted ==
  \A c \in Channels : \A n \in 1..MaxCalls[c] :
    <>[](\/ count[c] < n \/ Contains(printed[c], n)
         \/ type = 0 /\ c = "app"
         \/ raced \/ victim # None)

HandlerNext == IF todo["handler"] = <<>> THEN "none" ELSE Head(todo["handler"]).op

\* The handler waits for a writer that sleeps and that nobody will wake.
IdleWriter ==
  /\ HandlerNext = "join"
  /\ LET c == Channel("handler") IN stop[c] /\ Asleep(c) /\ queue[c] = <<>>

\* The thread under the handler is in a section, which it cannot leave before
\* the handler returns.
InterruptedInSection ==
  /\ HandlerNext \in {"put", "swap", "push", "join"}
  /\ \E m \in Mutexes : victim \in inside[m]

\* A signal ends the process, and there are just two ways in which it may
\* hang instead: a writer that was idle when it was told to stop, and a
\* signal that interrupted a thread in a critical section.
SignalEndsProcess ==
  <>[](victim = None \/ dead \/ raced \/ IdleWriter \/ InterruptedInSection)
=============================================================================
