------------------------------ MODULE HighAvai ------------------------------
(***************************************************************************)
(* The restart helper, common/high_availability.h: start() forks a server, *)
(* waits for its end and executes the program again, with a counter for    *)
(* its argument, until the counter is above restart_count_.                *)
(*                                                                         *)
(* execvp keeps the process, and so the module has one supervisor, whose   *)
(* signal handlers are back at their defaults after it.  Servers are       *)
(* numbered in the order in which they were forked.                        *)
(***************************************************************************)
EXTENDS Naturals

CONSTANT RestartCount  \* restart_count_

VARIABLES
  sup,     \* where start() is: "boot", "ready", "forked", "waiting",
           \* "reaped", and "gone" when the process has ended
  count,   \* current_start_count
  starts,  \* how many servers were forked; child_pid is the last of them
  live,    \* the servers that run
  zombie,  \* the servers that have ended and were not waited for
  ended    \* why the supervisor ended, or "no"

supVars == <<sup, count, starts, live, zombie, ended>>

Init ==
  /\ sup = "boot" /\ count = 0 /\ starts = 0
  /\ live = {} /\ zombie = {} /\ ended = "no"

\* The supervisor ends, by exit() or a signal; init then waits for its children.
End(why) == sup' = "gone" /\ ended' = why /\ zombie' = {}

(***************************************************************************)
(* start()                                                                 *)
(***************************************************************************)

\* Faulty: one restart less.
UsedUpEarly == count >= RestartCount

UsedUp == count > RestartCount

\* The check of the counter, and the handler for SIGCHLD.
Start ==
  /\ sup = "boot"
  /\ \/ UsedUp /\ End("limit")
     \/ ~UsedUp /\ sup' = "ready" /\ UNCHANGED <<ended, zombie>>
     \/ ~UsedUp /\ End("failed")
  /\ UNCHANGED <<count, starts, live>>

Fork ==
  /\ sup = "ready"
  /\ \/ /\ sup' = "forked" /\ starts' = starts + 1
        /\ live' = live \cup {starts + 1}
        /\ UNCHANGED <<zombie, ended>>
     \/ End("failed") /\ UNCHANGED <<starts, live>>
  /\ UNCHANGED count

\* signal(SIGINT, handle_sigint), which the server does not inherit.
InstallHandler ==
  /\ sup = "forked" /\ sup' = "waiting"
  /\ UNCHANGED <<count, starts, live, zombie, ended>>

\* Faulty: waitpid with WNOHANG.
WaitChildNoHang ==
  /\ sup = "waiting" /\ sup' = "reaped"
  /\ zombie' = zombie \ {starts}
  /\ UNCHANGED <<count, starts, live, ended>>

\* waitpid(pid): what it returns is not looked at, so that it may as well
\* find that handle_sigchld has already waited.
WaitChild ==
  /\ sup = "waiting" /\ starts \notin live /\ sup' = "reaped"
  /\ zombie' = zombie \ {starts}
  /\ UNCHANGED <<count, starts, live, ended>>

\* execvp of the program with the next count.
Exec ==
  /\ sup = "reaped"
  /\ \/ sup' = "boot" /\ count' = count + 1 /\ UNCHANGED <<zombie, ended>>
     \/ End("failed") /\ UNCHANGED count
  /\ UNCHANGED <<starts, live>>

(***************************************************************************)
(* Signals                                                                 *)
(***************************************************************************)

\* handle_sigchld, installed until the next exec.
SigChld ==
  /\ sup \in {"ready", "forked", "waiting", "reaped"} /\ zombie # {}
  /\ zombie' = {}
  /\ UNCHANGED <<sup, count, starts, live, ended>>

\* handle_sigint: kill child_pid, whether it still runs or not, and exit.
SigInt ==
  /\ sup \in {"waiting", "reaped"}
  /\ End("interrupted")
  /\ live' = live \ {starts}
  /\ UNCHANGED <<count, starts>>

\* A signal that the supervisor does not handle, SIGINT before its handler is
\* installed among them, ends it alone.
Killed ==
  /\ sup # "gone" /\ End("killed")
  /\ UNCHANGED <<count, starts, live>>

\* A server crashes, or server_func_ returns.
ServerEnds(i) ==
  /\ i \in live /\ live' = live \ {i}
  /\ zombie' = IF sup = "gone" THEN zombie ELSE zombie \cup {i}
  /\ UNCHANGED <<sup, count, starts, ended>>

(***************************************************************************)
(* Specification                                                           *)
(***************************************************************************)
Steps == Start \/ Fork \/ InstallHandler \/ WaitChild \/ Exec

Next == Steps \/ SigChld \/ SigInt \/ Killed \/ \E i \in live : ServerEnds(i)

(***************************************************************************)
(* Properties                                                              *)
(***************************************************************************)

\* A second server would find its port taken.  There is never one beside the
\* first, however signals and ends of servers are interleaved with fork, wait
\* and exec, and after an interrupt that was handled there is none at all.
OneServer ==
  /\ \A i, j \in live : i = j
  /\ ended = "interrupted" => live = {}

\* README.md: the service is restarted after a failure.  Whatever ends a
\* server, another one comes, until restart_count_ of them have been used up
\* or the supervisor itself has failed or was ended.
ServiceComesBack ==
  []<>(\/ live # {}
       \/ ended \in {"failed", "interrupted", "killed"}
       \/ ended = "limit" /\ starts = RestartCount + 1)
=============================================================================
