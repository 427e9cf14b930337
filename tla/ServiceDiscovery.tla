--------------------------- MODULE ServiceDiscovery ---------------------------
(***************************************************************************)
(* The service centre (net/service_discovery/run_server_discovery.cc) and  *)
(* the server processes that register with it and keep their entries alive *)
(* (net/rpc/rpc_dispatcher.cc, run_time_service_discovery_interface.h).    *)
(*                                                                         *)
(* The centre is one thread that serves one command or query at a time and *)
(* drops an entry that was not refreshed for longer than the TTL.  Each    *)
(* server adds its methods one after the other, each command waiting for   *)
(* its answer, and from then on a detached thread sleeps and sends one     *)
(* heartbeat per method in the same way.  Entries live in memory only.     *)
(*                                                                         *)
(* Time is discrete.  Instead of a clock the model keeps ages that stop    *)
(* growing once nothing can tell them apart, so behaviours are unbounded.  *)
(***************************************************************************)
EXTENDS Naturals, FiniteSetsExt

CONSTANTS
  Servers,      \* server processes; a server's name is its address
  None,         \* no address
  NMethods,     \* every server offers the methods 1..NMethods
  TTL,          \* service_ttl_ms, in time units
  MinInterval,  \* MIN_HEARTBEAT_INTERVAL_MS, in time units
  MaxDelay,     \* longest time from sending a command to its execution
  MaxUpsets     \* how many crashes of the centre and admin commands

ASSUME DiscoveryAssumption ==
  /\ None \notin Servers
  /\ NMethods \in Nat \ {0} /\ TTL \in Nat \ {0} /\ MinInterval \in Nat \ {0}
  /\ MaxDelay \in Nat /\ MaxUpsets \in Nat

VARIABLES
  registry,  \* service_map: per method an address and the age of last_seen_ms
  up,        \* the centre is running
  blocked,   \* it waits in recv() on a control connection with no command yet
  phase,     \* what each server process is doing
  at,        \* the method whose command is next, or in flight
  wait,      \* how much longer the heartbeat thread sleeps
  sent,      \* the server has a command in flight
  lag,       \* for how long
  gone,      \* how long ago a dead server died
  upsets     \* crashes of the centre and admin commands so far

centreVars == <<registry, up, blocked>>
serverVars == <<phase, at, wait, sent, lag, gone>>
vars == <<centreVars, serverVars, upsets>>

Methods == 1..NMethods
NoEntry == [addr |-> None, age |-> 0]

\* Ages above TTL are alike, and so are times since a death above Forgotten.
Forgotten == TTL + MaxDelay + 1

\* startServiceHeartbeat: max(MIN_HEARTBEAT_INTERVAL_MS, ttl_ms / 2).
Interval == Max({MinInterval, TTL \div 2})

TypeOK ==
  /\ registry \in [Methods -> [addr : Servers \cup {None}, age : 0..TTL+1]]
  /\ up \in BOOLEAN /\ blocked \in BOOLEAN
  /\ phase \in [Servers -> {"off", "adding", "sleeping", "beating", "dead"}]
  /\ at \in [Servers -> 1..NMethods+1]
  /\ wait \in [Servers -> 0..Interval]
  /\ sent \in [Servers -> BOOLEAN]
  /\ lag \in [Servers -> 0..MaxDelay]
  /\ gone \in [Servers -> 0..Forgotten]
  /\ upsets \in 0..MaxUpsets

Init ==
  /\ registry = [m \in Methods |-> NoEntry]
  /\ up = TRUE /\ blocked = FALSE
  /\ phase = [s \in Servers |-> "off"]
  /\ at = [s \in Servers |-> 1]
  /\ wait = [s \in Servers |-> 0]
  /\ sent = [s \in Servers |-> FALSE]
  /\ lag = [s \in Servers |-> 0]
  /\ gone = [s \in Servers |-> 0]
  /\ upsets = 0

\* Faulty: an entry expires one unit early, or late.
IsExpiredEarly(entry) == entry.age >= TTL
IsExpiredLate(entry) == entry.age > TTL + 1

IsExpired(entry) == entry.age > TTL
Prune(entry) == IF entry.addr # None /\ IsExpired(entry) THEN NoEntry ELSE entry
Answer(m) == IF IsExpired(registry[m]) THEN None ELSE registry[m].addr

(***************************************************************************)
(* Servers                                                                 *)
(***************************************************************************)
Alive(s) == phase[s] \in {"adding", "sleeping", "beating"}

\* registerService begins.
Start(s) ==
  /\ phase[s] = "off"
  /\ phase' = [phase EXCEPT ![s] = "adding"]
  /\ UNCHANGED <<centreVars, at, wait, sent, lag, gone, upsets>>

\* to_command: connect and write.  A centre that is down refuses, and the
\* server goes on to the next method.
Send(s) ==
  /\ phase[s] \in {"adding", "beating"} /\ ~sent[s] /\ at[s] <= NMethods
  /\ IF up THEN sent' = [sent EXCEPT ![s] = TRUE] /\ UNCHANGED at
           ELSE at' = [at EXCEPT ![s] = @ + 1] /\ UNCHANGED sent
  /\ lag' = [lag EXCEPT ![s] = 0]
  /\ UNCHANGED <<centreVars, phase, wait, gone, upsets>>

\* All methods done, whether or not their commands succeeded: sleep.
EndRound(s) ==
  /\ phase[s] \in {"adding", "beating"} /\ at[s] > NMethods
  /\ phase' = [phase EXCEPT ![s] = "sleeping"]
  /\ wait' = [wait EXCEPT ![s] = Interval]
  /\ at' = [at EXCEPT ![s] = 1]
  /\ UNCHANGED <<centreVars, sent, lag, gone, upsets>>

Wake(s) ==
  /\ phase[s] = "sleeping" /\ wait[s] = 0
  /\ phase' = [phase EXCEPT ![s] = "beating"]
  /\ UNCHANGED <<centreVars, at, wait, sent, lag, gone, upsets>>

\* The process dies; a command it has sent is still on its way.
Die(s) ==
  /\ Alive(s)
  /\ phase' = [phase EXCEPT ![s] = "dead"]
  /\ UNCHANGED <<centreVars, at, wait, sent, lag, gone, upsets>>

(***************************************************************************)
(* The centre: one command or query at a time                              *)
(***************************************************************************)
Serving == up /\ ~blocked

\* Faulty: a heartbeat refreshes only an entry that is there.
HeartbeatRefreshes(s) ==
  /\ Serving /\ sent[s]
  /\ registry' = [registry EXCEPT ![at[s]] =
       IF phase[s] = "beating" /\ @.addr = None THEN @
       ELSE [addr |-> s, age |-> 0]]
  /\ sent' = [sent EXCEPT ![s] = FALSE]
  /\ lag' = [lag EXCEPT ![s] = 0]
  /\ at' = [at EXCEPT ![s] = @ + 1]
  /\ UNCHANGED <<up, blocked, phase, wait, gone, upsets>>

\* Faulty: a heartbeat refreshes an entry without taking it over.
HeartbeatKeepsAddr(s) ==
  /\ Serving /\ sent[s]
  /\ registry' = [registry EXCEPT ![at[s]] =
       [addr |-> IF @.addr = None THEN s ELSE @.addr, age |-> 0]]
  /\ sent' = [sent EXCEPT ![s] = FALSE]
  /\ lag' = [lag EXCEPT ![s] = 0]
  /\ at' = [at EXCEPT ![s] = @ + 1]
  /\ UNCHANGED <<up, blocked, phase, wait, gone, upsets>>

\* "add" and "heartbeat" do the same: they write the entry, new or not.
AddOrHeartbeat(s) ==
  /\ Serving /\ sent[s]
  /\ registry' = [registry EXCEPT ![at[s]] = [addr |-> s, age |-> 0]]
  /\ sent' = [sent EXCEPT ![s] = FALSE]
  /\ lag' = [lag EXCEPT ![s] = 0]
  /\ at' = [at EXCEPT ![s] = @ + 1]
  /\ UNCHANGED <<up, blocked, phase, wait, gone, upsets>>

\* A client asks for a method.
Query(m) ==
  /\ Serving
  /\ registry' = [registry EXCEPT ![m] = Prune(@)]
  /\ UNCHANGED <<up, blocked, serverVars, upsets>>

Lookup ==
  /\ Serving
  /\ registry' = [m \in Methods |-> Prune(registry[m])]
  /\ UNCHANGED <<up, blocked, serverVars, upsets>>

Delete(m) ==
  /\ Serving /\ upsets < MaxUpsets
  /\ registry' = [registry EXCEPT ![m] = NoEntry]
  /\ upsets' = upsets + 1
  /\ UNCHANGED <<up, blocked, serverVars>>

\* "modify" changes an entry that is there, expired or not.
Modify(m, s) ==
  /\ Serving /\ upsets < MaxUpsets
  /\ registry[m].addr # None
  /\ registry' = [registry EXCEPT ![m] = [addr |-> s, age |-> 0]]
  /\ upsets' = upsets + 1
  /\ UNCHANGED <<up, blocked, serverVars>>

\* A control connection is accepted before its command has arrived: the one
\* thread waits in recv() until it does, or until the connection closes.
Block ==
  /\ Serving
  /\ blocked' = TRUE
  /\ UNCHANGED <<registry, up, serverVars, upsets>>

Unblock ==
  /\ blocked
  /\ blocked' = FALSE
  /\ UNCHANGED <<registry, up, serverVars, upsets>>

\* The registry is lost, and every command in flight fails.
CentreCrashes ==
  /\ up /\ upsets < MaxUpsets
  /\ up' = FALSE /\ blocked' = FALSE
  /\ registry' = [m \in Methods |-> NoEntry]
  /\ at' = [s \in Servers |-> IF sent[s] THEN at[s] + 1 ELSE at[s]]
  /\ sent' = [s \in Servers |-> FALSE]
  /\ lag' = [s \in Servers |-> 0]
  /\ upsets' = upsets + 1
  /\ UNCHANGED <<phase, wait, gone>>

CentreStarts ==
  /\ ~up
  /\ up' = TRUE
  /\ UNCHANGED <<registry, blocked, serverVars, upsets>>

(***************************************************************************)
(* Time                                                                    *)
(***************************************************************************)
Older(age, limit) == IF age < limit THEN age + 1 ELSE age

\* Threads that can run do so before time passes, and no command is in
\* flight for longer than MaxDelay.
Prompt ==
  \A s \in Servers :
    /\ sent[s] => lag[s] < MaxDelay
    /\ phase[s] = "sleeping" => wait[s] > 0
    /\ phase[s] \in {"adding", "beating"} => sent[s]

Tick ==
  /\ Prompt
  /\ registry' = [m \in Methods |->
                    IF registry[m].addr = None THEN NoEntry
                    ELSE [registry[m] EXCEPT !.age = Older(@, TTL + 1)]]
  /\ wait' = [s \in Servers |-> IF wait[s] > 0 THEN wait[s] - 1 ELSE 0]
  /\ lag' = [s \in Servers |-> IF sent[s] THEN lag[s] + 1 ELSE 0]
  /\ gone' = [s \in Servers |->
                IF phase[s] = "dead" THEN Older(gone[s], Forgotten) ELSE 0]
  /\ UNCHANGED <<up, blocked, phase, at, sent, upsets>>

(***************************************************************************)
(* Specification                                                           *)
(***************************************************************************)
Server(s) == Start(s) \/ Send(s) \/ EndRound(s) \/ Wake(s) \/ Die(s)

Centre ==
  \/ \E s \in Servers : AddOrHeartbeat(s)
  \/ \E m \in Methods : Query(m) \/ Delete(m)
  \/ \E m \in Methods, s \in Servers : Modify(m, s)
  \/ Lookup \/ Block \/ Unblock \/ CentreCrashes \/ CentreStarts

Next == (\E s \in Servers : Server(s)) \/ Centre \/ Tick

\* Threads run, commands arrive, silent control connections end, a crashed
\* centre is started again, time passes.
Fairness ==
  /\ \A s \in Servers : /\ WF_vars(Send(s) \/ EndRound(s) \/ Wake(s))
                        /\ SF_vars(AddOrHeartbeat(s))
  /\ WF_vars(Unblock) /\ WF_vars(CentreStarts) /\ WF_vars(Tick)

Spec == Init /\ [][Next]_vars /\ Fairness

(***************************************************************************)
(* Properties                                                              *)
(***************************************************************************)

\* docs/architecture.md, "Service Discovery And TTL": heartbeats keep a node
\* from expiring.  While a server that has registered is alive, the centre
\* resolves each of its methods, though commands are slow, are sent one
\* after the other, and share the centre with everyone else's; as long as
\* the centre does not crash and nobody removes or changes entries.
LiveServiceFound ==
  \A s \in Servers :
    upsets = 0 /\ phase[s] \in {"sleeping", "beating"} =>
      \A m \in Methods : Answer(m) # None

\* docs/architecture.md: a node that stops refreshing is no longer returned.
\* No query returns a server that died longer ago than the TTL and the time
\* its last command may have been on its way, unless an admin put it there.
DeadServiceForgotten ==
  \A s \in Servers, m \in Methods :
    (upsets = 0 /\ phase[s] = "dead" /\ Answer(m) = s) => gone[s] <= TTL + MaxDelay

\* After the last crash of the centre and the last admin command, a server
\* that stays alive is found again: heartbeats rebuild the lost registry.
RegistryRecovers ==
  \A s \in Servers, m \in Methods :
    <>[]Alive(s) => <>[](Answer(m) # None)

\* Two servers that offer the same method overwrite each other's entry.  When
\* only one of them is left, clients are sent to that one.
SurvivorTakesOver ==
  \A s \in Servers, m \in Methods :
    <>[](Alive(s) /\ \A r \in Servers \ {s} : ~Alive(r))
      => <>[](Answer(m) = s)
=============================================================================
