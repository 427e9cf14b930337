----------------------- MODULE ServiceDiscoveryProofs -----------------------
(***************************************************************************)
(* Theorems about ServiceDiscovery, for any servers and methods, any TTL   *)
(* and heartbeat interval, and commands as slow as MaxDelay.               *)
(***************************************************************************)
EXTENDS ServiceDiscovery, TLAPS

USE DiscoveryAssumption

(***************************************************************************)
(* The sleep between two heartbeats                                        *)
(***************************************************************************)

\* The longer of two times is one of them and not shorter than either.
LEMMA MaxOfTwo ==
  ASSUME NEW a \in Nat, NEW b \in Nat
  PROVE  Max({a, b}) \in {a, b} /\ Max({a, b}) >= a /\ Max({a, b}) >= b
<1>1. \E x \in {a, b} : \A y \in {a, b} : x >= y
  OBVIOUS
<1> QED
  BY <1>1 DEF Max

\* startServiceHeartbeat never sleeps for a negative time.
LEMMA IntervalIsNat == Interval \in Nat
<1>1. TTL \div 2 \in Nat
  OBVIOUS
<1> QED
  BY <1>1, MaxOfTwo DEF Interval

(***************************************************************************)
(* Commands in flight.  A server has one for a method of its own, and only *)
(* while it is in a round of them; what is dead never comes back.          *)
(***************************************************************************)
CommandInv ==
  \A s \in Servers :
    /\ sent[s] => at[s] <= NMethods
    /\ ~sent[s] => lag[s] = 0
    /\ phase[s] \in {"off", "sleeping"} => ~sent[s] /\ at[s] = 1
    /\ phase[s] # "dead" => gone[s] = 0

ServerInv == TypeOK /\ CommandInv

\* At the start no server has sent anything.
LEMMA InitServerInv == Init => ServerInv
<1> SUFFICES ASSUME Init PROVE ServerInv
  OBVIOUS
<1> USE IntervalIsNat DEF Init
<1>1. registry \in [Methods -> [addr : Servers \cup {None}, age : 0..TTL+1]]
  BY DEF Methods, NoEntry
<1>2. at \in [Servers -> 1..NMethods+1] /\ wait \in [Servers -> 0..Interval]
  OBVIOUS
<1>3. lag \in [Servers -> 0..MaxDelay] /\ gone \in [Servers -> 0..Forgotten]
  BY DEF Forgotten
<1>4. /\ up \in BOOLEAN /\ blocked \in BOOLEAN /\ sent \in [Servers -> BOOLEAN]
      /\ phase \in [Servers -> {"off", "adding", "sleeping", "beating", "dead"}]
  OBVIOUS
<1>6. upsets \in 0..MaxUpsets
  OBVIOUS
<1>5. CommandInv
  BY DEF CommandInv
<1> HIDE DEF Init
<1> QED
  BY <1>1, <1>2, <1>3, <1>4, <1>5, <1>6 DEF ServerInv, TypeOK

\* No step of a server, of the centre or of time breaks the types, or has a command on its
\* way that its server did not send.
LEMMA NextServerInv == ServerInv /\ [Next]_vars => ServerInv'
<1> SUFFICES ASSUME ServerInv, [Next]_vars PROVE ServerInv'
  OBVIOUS
<1> USE IntervalIsNat DEF ServerInv, TypeOK, CommandInv, Methods, centreVars, serverVars
<1>1. ASSUME NEW s \in Servers, Start(s) PROVE ServerInv'
  BY <1>1 DEF Start
<1>2. ASSUME NEW s \in Servers, Send(s) PROVE ServerInv'
  <2>1. at' \in [Servers -> 1..NMethods+1]
    <3>1. at[s] + 1 \in 1..NMethods+1
      BY <1>2 DEF Send
    <3> QED
      BY <1>2, <3>1 DEF Send
  <2>2. sent' \in [Servers -> BOOLEAN] /\ lag' \in [Servers -> 0..MaxDelay]
    BY <1>2 DEF Send
  <2>3. CommandInv'
    BY <1>2 DEF Send
  <2> QED
    BY <1>2, <2>1, <2>2, <2>3 DEF Send
<1>3. ASSUME NEW s \in Servers, EndRound(s) PROVE ServerInv'
  BY <1>3 DEF EndRound
<1>4. ASSUME NEW s \in Servers, Wake(s) PROVE ServerInv'
  BY <1>4 DEF Wake
<1>5. ASSUME NEW s \in Servers, Die(s) PROVE ServerInv'
  BY <1>5 DEF Die, Alive
<1>6. ASSUME NEW s \in Servers, AddOrHeartbeat(s) PROVE ServerInv'
  <2>1. at[s] \in Methods
    BY <1>6 DEF AddOrHeartbeat
  <2>2. at' \in [Servers -> 1..NMethods+1]
    BY <1>6, <2>1 DEF AddOrHeartbeat
  <2>3. registry' \in [Methods -> [addr : Servers \cup {None}, age : 0..TTL+1]]
    BY <1>6, <2>1 DEF AddOrHeartbeat
  <2>4. sent' \in [Servers -> BOOLEAN] /\ lag' \in [Servers -> 0..MaxDelay]
    BY <1>6 DEF AddOrHeartbeat
  <2>5. CommandInv'
    BY <1>6 DEF AddOrHeartbeat
  <2> QED
    BY <1>6, <2>2, <2>3, <2>4, <2>5 DEF AddOrHeartbeat
<1>7. ASSUME NEW m \in Methods, Query(m) PROVE ServerInv'
  BY <1>7 DEF Query, Prune, NoEntry
<1>8. ASSUME NEW m \in Methods, Delete(m) PROVE ServerInv'
  BY <1>8 DEF Delete, NoEntry
<1>9. ASSUME NEW m \in Methods, NEW s \in Servers, Modify(m, s) PROVE ServerInv'
  BY <1>9 DEF Modify
<1>10. CASE Lookup
  BY <1>10 DEF Lookup, Prune, NoEntry
<1>11. CASE Block \/ Unblock \/ CentreStarts
  BY <1>11 DEF Block, Unblock, CentreStarts
<1>12. CASE CentreCrashes
  <2>1. registry' \in [Methods -> [addr : Servers \cup {None}, age : 0..TTL+1]]
    BY <1>12 DEF CentreCrashes, NoEntry
  <2>2. at' \in [Servers -> 1..NMethods+1]
    BY <1>12 DEF CentreCrashes
  <2>3. /\ sent' \in [Servers -> BOOLEAN] /\ lag' \in [Servers -> 0..MaxDelay]
        /\ upsets' \in 0..MaxUpsets
    BY <1>12 DEF CentreCrashes
  <2>4. CommandInv'
    BY <1>12 DEF CentreCrashes
  <2> QED
    BY <1>12, <2>1, <2>2, <2>3, <2>4 DEF CentreCrashes
<1>13. CASE Tick
  <2>1. registry' \in [Methods -> [addr : Servers \cup {None}, age : 0..TTL+1]]
    <3>1. ASSUME NEW m \in Methods, registry[m].addr # None
          PROVE  [registry[m] EXCEPT !.age = Older(@, TTL + 1)]
                   \in [addr : Servers \cup {None}, age : 0..TTL+1]
      <4>1. registry[m] \in [addr : Servers \cup {None}, age : 0..TTL+1]
        OBVIOUS
      <4>2. Older(registry[m].age, TTL + 1) \in 0..TTL+1
        BY <4>1 DEF Older
      <4> HIDE DEF TypeOK, ServerInv
      <4> QED
        BY <4>1, <4>2
    <3>2. NoEntry \in [addr : Servers \cup {None}, age : 0..TTL+1]
      BY DEF NoEntry
    <3> QED
      BY <1>13, <3>1, <3>2 DEF Tick
  <2>2. wait' \in [Servers -> 0..Interval]
    BY <1>13 DEF Tick
  <2>3. lag' \in [Servers -> 0..MaxDelay]
    BY <1>13 DEF Tick, Prompt
  <2>4. gone' \in [Servers -> 0..Forgotten]
    BY <1>13 DEF Tick, Older, Forgotten
  <2>5. CommandInv'
    BY <1>13 DEF Tick
  <2> QED
    BY <1>13, <2>1, <2>2, <2>3, <2>4, <2>5 DEF Tick
<1>14. CASE UNCHANGED vars
  BY <1>14 DEF vars
<1> QED
  BY <1>1, <1>2, <1>3, <1>4, <1>5, <1>6, <1>7, <1>8, <1>9, <1>10, <1>11,
     <1>12, <1>13, <1>14 DEF Next, Server, Centre

(***************************************************************************)
(* A dead server is forgotten.  Its last command is on its way for as long *)
(* as it has been dead, and an entry it left is at most the delay of that  *)
(* command younger than its death.                                         *)
(***************************************************************************)
ForgetInv ==
  upsets = 0 => \A s \in Servers : phase[s] = "dead" =>
    /\ sent[s] => gone[s] <= lag[s]
    /\ \A m \in Methods :
         registry[m].addr = s => gone[s] <= registry[m].age + MaxDelay

\* An entry is written by a command alone, and a dead server sends no other.
LEMMA NextForgetInv == ServerInv /\ ForgetInv /\ [Next]_vars => ForgetInv'
<1> SUFFICES ASSUME ServerInv, ForgetInv, [Next]_vars PROVE ForgetInv'
  OBVIOUS
<1> USE DEF ServerInv, TypeOK, CommandInv, ForgetInv, Methods, centreVars, serverVars
<1>1. ASSUME NEW s \in Servers, Start(s) PROVE ForgetInv'
  BY <1>1 DEF Start
<1>2. ASSUME NEW s \in Servers, Send(s) PROVE ForgetInv'
  BY <1>2 DEF Send
<1>3. ASSUME NEW s \in Servers, EndRound(s) PROVE ForgetInv'
  BY <1>3 DEF EndRound
<1>4. ASSUME NEW s \in Servers, Wake(s) PROVE ForgetInv'
  BY <1>4 DEF Wake
<1>5. ASSUME NEW s \in Servers, Die(s) PROVE ForgetInv'
  BY <1>5 DEF Die, Alive
<1>6. ASSUME NEW s \in Servers, AddOrHeartbeat(s) PROVE ForgetInv'
  BY <1>6 DEF AddOrHeartbeat
<1>7. ASSUME NEW m \in Methods, Query(m) PROVE ForgetInv'
  BY <1>7 DEF Query, Prune, NoEntry
<1>8. ASSUME NEW m \in Methods, Delete(m) PROVE ForgetInv'
  BY <1>8 DEF Delete
<1>9. ASSUME NEW m \in Methods, NEW s \in Servers, Modify(m, s) PROVE ForgetInv'
  BY <1>9 DEF Modify
<1>10. CASE Lookup
  BY <1>10 DEF Lookup, Prune, NoEntry
<1>11. CASE Block \/ Unblock \/ CentreStarts
  BY <1>11 DEF Block, Unblock, CentreStarts
<1>12. CASE CentreCrashes
  BY <1>12 DEF CentreCrashes
<1>13. CASE Tick
  <2> SUFFICES ASSUME upsets = 0, NEW s \in Servers, phase[s] = "dead"
               PROVE  /\ sent[s] => gone'[s] <= lag'[s]
                      /\ \A m \in Methods : registry'[m].addr = s =>
                           gone'[s] <= registry'[m].age + MaxDelay
    BY <1>13 DEF Tick
  <2>1. /\ gone[s] \in Nat /\ gone[s] <= Forgotten /\ Forgotten = TTL + 1 + MaxDelay
        /\ gone'[s] = Older(gone[s], Forgotten)
    BY <1>13 DEF Tick, Forgotten
  <2>2. gone'[s] \in Nat /\ gone'[s] <= gone[s] + 1 /\ gone'[s] <= Forgotten
    BY <2>1 DEF Older
  <2>3. sent[s] => gone'[s] <= lag'[s]
    <3>1. sent[s] => lag'[s] = lag[s] + 1 /\ lag[s] \in Nat /\ gone[s] <= lag[s]
      BY <1>13 DEF Tick
    <3> QED
      BY <2>1, <2>2, <3>1
  <2>4. ASSUME NEW m \in Methods, registry'[m].addr = s
        PROVE  gone'[s] <= registry'[m].age + MaxDelay
    <3>0. registry[m] \in [addr : Servers \cup {None}, age : 0..TTL+1]
      OBVIOUS
    <3>1. registry[m].addr = s /\ registry'[m].age = Older(registry[m].age, TTL + 1)
      BY <1>13, <2>4, <3>0 DEF Tick, NoEntry
    <3>2. gone[s] <= registry[m].age + MaxDelay /\ registry[m].age \in 0..TTL+1
      BY <3>0, <3>1
    <3> HIDE DEF ServerInv, TypeOK, ForgetInv
    <3> QED
      BY <2>1, <2>2, <3>1, <3>2 DEF Older
  <2> QED
    BY <2>3, <2>4
<1>14. CASE UNCHANGED vars
  BY <1>14 DEF vars
<1> QED
  BY <1>1, <1>2, <1>3, <1>4, <1>5, <1>6, <1>7, <1>8, <1>9, <1>10, <1>11,
     <1>12, <1>13, <1>14 DEF Next, Server, Centre

\* What DeadServiceForgotten asks follows: an answer is an entry at most TTL old.
LEMMA ForgetInvImplies == ServerInv /\ ForgetInv => DeadServiceForgotten
<1> SUFFICES ASSUME ServerInv, ForgetInv, upsets = 0,
                    NEW s \in Servers, NEW m \in Methods,
                    phase[s] = "dead", Answer(m) = s
             PROVE  gone[s] <= TTL + MaxDelay
  BY DEF DeadServiceForgotten
<1>1. registry[m].age \in Nat /\ gone[s] \in Nat
  BY DEF ServerInv, TypeOK, Forgotten
<1>2. registry[m].addr = s /\ registry[m].age <= TTL
  BY <1>1 DEF Answer, IsExpired
<1> QED
  BY <1>1, <1>2 DEF ForgetInv

\* For any number of servers, methods and delays, a query does not return a
\* server that died longer ago than the TTL and the time its last command was
\* on its way (run_server_discovery.cc, isExpired and pruneExpired).
THEOREM DeadServiceIsForgotten == Spec => []DeadServiceForgotten
<1>1. Init => ServerInv /\ ForgetInv
  BY InitServerInv DEF Init, ForgetInv
<1>2. ServerInv /\ ForgetInv /\ [Next]_vars => (ServerInv /\ ForgetInv)'
  BY NextServerInv, NextForgetInv
<1> QED
  BY <1>1, <1>2, ForgetInvImplies, PTL DEF Spec

(***************************************************************************)
(* A live server is found.  Delays(k) is the longest time k commands take, *)
(* one after the other.                                                    *)
(***************************************************************************)
Delays(k) == k * MaxDelay

\* The delays of commands sent one after the other add up.
LEMMA DelaysAdd ==
  /\ Delays(0) = 0
  /\ \A k \in Nat : Delays(k) \in Nat /\ Delays(k + 1) = Delays(k) + MaxDelay
  /\ \A j, k \in Nat : j <= k => Delays(j) <= Delays(k)
  /\ \A j, k \in Nat : Delays(j) + Delays(k) = Delays(j + k)
BY DEF Delays

(***************************************************************************)
(* How long ago the command of server s for method m was last executed, at *)
(* most: in this round, or before the sleep that preceded it.              *)
(***************************************************************************)
SinceRefresh(s, m) ==
  IF phase[s] = "sleeping" THEN Delays(NMethods - m) + (Interval - wait[s])
  ELSE IF m < at[s] THEN Delays(at[s] - 1 - m) + lag[s]
  ELSE Delays(NMethods - m) + Interval + Delays(at[s] - 1) + lag[s]

HasRefreshed(s, m) ==
  phase[s] \in {"sleeping", "beating"} \/ (phase[s] = "adding" /\ m < at[s])

FreshInv ==
  upsets = 0 =>
    /\ up
    /\ \A s \in Servers, m \in Methods : HasRefreshed(s, m) =>
         registry[m].addr # None /\ registry[m].age <= SinceRefresh(s, m)

\* The commands of a round, its sleep and the round before fit into the TTL.
Room == Interval + Delays(NMethods) <= TTL

\* What the arithmetic of the following lemmas needs of a state.
LEMMA TimesAreNat ==
  ASSUME ServerInv, NEW s \in Servers, NEW m \in Methods
  PROVE  /\ m \in Nat /\ 1 <= m /\ m <= NMethods
         /\ at[s] \in Nat /\ 1 <= at[s] /\ at[s] <= NMethods + 1
         /\ wait[s] \in Nat /\ wait[s] <= Interval
         /\ lag[s] \in Nat /\ lag[s] <= MaxDelay
         /\ registry[m].age \in Nat
BY IntervalIsNat DEF ServerInv, TypeOK, Methods

\* No entry of a server that sends its heartbeats is older than two rounds allow.
LEMMA SinceRefreshBound ==
  ASSUME ServerInv, NEW s \in Servers, NEW m \in Methods
  PROVE  SinceRefresh(s, m) \in Nat /\ SinceRefresh(s, m) <= Interval + Delays(NMethods)
<1>0. /\ m \in Nat /\ 1 <= m /\ m <= NMethods /\ NMethods \in Nat /\ MaxDelay \in Nat
      /\ at[s] \in Nat /\ 1 <= at[s] /\ at[s] <= NMethods + 1
      /\ wait[s] \in Nat /\ wait[s] <= Interval /\ Interval \in Nat
      /\ lag[s] \in Nat /\ lag[s] <= MaxDelay
  BY TimesAreNat, IntervalIsNat
<1>1. CASE phase[s] = "sleeping"
  <2>1. NMethods - m \in Nat /\ NMethods - m <= NMethods
    BY <1>0
  <2>2. /\ Delays(NMethods - m) \in Nat /\ Delays(NMethods) \in Nat
        /\ Delays(NMethods - m) <= Delays(NMethods)
    BY <1>0, <2>1, DelaysAdd
  <2> QED
    BY <1>0, <1>1, <2>2 DEF SinceRefresh
<1>2. CASE phase[s] # "sleeping" /\ m < at[s]
  <2>1. at[s] - 1 - m \in Nat /\ (at[s] - 1 - m) + 1 \in Nat
        /\ (at[s] - 1 - m) + 1 <= NMethods
    BY <1>0, <1>2
  <2>2. /\ Delays(at[s] - 1 - m) \in Nat /\ Delays(NMethods) \in Nat
        /\ Delays((at[s] - 1 - m) + 1) = Delays(at[s] - 1 - m) + MaxDelay
        /\ Delays((at[s] - 1 - m) + 1) <= Delays(NMethods)
    BY <1>0, <2>1, DelaysAdd
  <2> QED
    BY <1>0, <1>2, <2>2 DEF SinceRefresh
<1>3. CASE phase[s] # "sleeping" /\ ~(m < at[s])
  <2>1. /\ NMethods - m \in Nat /\ at[s] - 1 \in Nat /\ (at[s] - 1) + 1 = at[s]
        /\ (NMethods - m) + at[s] \in Nat /\ (NMethods - m) + at[s] <= NMethods
    BY <1>0, <1>3
  <2>2. /\ Delays(NMethods - m) \in Nat /\ Delays(at[s] - 1) \in Nat
        /\ Delays(NMethods) \in Nat
        /\ Delays((at[s] - 1) + 1) = Delays(at[s] - 1) + MaxDelay
        /\ Delays(NMethods - m) + Delays(at[s]) = Delays((NMethods - m) + at[s])
        /\ Delays((NMethods - m) + at[s]) <= Delays(NMethods)
    BY <1>0, <2>1, DelaysAdd
  <2>3. /\ Delays(at[s]) = Delays(at[s] - 1) + MaxDelay
        /\ Delays(NMethods - m) + Delays(at[s]) <= Delays(NMethods)
    BY <2>1, <2>2
  <2>4. SinceRefresh(s, m) = Delays(NMethods - m) + Interval + Delays(at[s] - 1) + lag[s]
    BY <1>3 DEF SinceRefresh
  <2> QED
    BY <1>0, <2>2, <2>3, <2>4
<1> QED
  BY <1>1, <1>2, <1>3

\* So pruneExpired leaves such an entry alone.
LEMMA FreshIsKept ==
  ASSUME ServerInv, FreshInv, Room, upsets = 0,
         NEW s \in Servers, NEW m \in Methods, HasRefreshed(s, m)
  PROVE  /\ registry[m].addr # None /\ ~IsExpired(registry[m])
         /\ Prune(registry[m]) = registry[m]
<1>1. registry[m].addr # None /\ registry[m].age <= SinceRefresh(s, m)
  BY DEF FreshInv
<1>2. registry[m].age \in Nat /\ Interval \in Nat
  BY TimesAreNat, IntervalIsNat
<1>3. Delays(NMethods) \in Nat
  BY DelaysAdd
<1>4. SinceRefresh(s, m) \in Nat /\ SinceRefresh(s, m) <= Interval + Delays(NMethods)
  BY SinceRefreshBound
<1>5. registry[m].age <= TTL
  BY <1>1, <1>2, <1>3, <1>4 DEF Room
<1> QED
  BY <1>1, <1>2, <1>5 DEF IsExpired, Prune

\* The same after a step.
SinceRefreshIsNat == \A s \in Servers, m \in Methods : SinceRefresh(s, m) \in Nat

\* SinceRefresh is a time in the state after a step too.
LEMMA SinceRefreshIsNatNext == ServerInv' => SinceRefreshIsNat'
<1>1. ServerInv => SinceRefreshIsNat
  BY SinceRefreshBound DEF SinceRefreshIsNat
<1> QED
  BY <1>1, PTL

\* No entry gets older than its server's last refresh of it, while nothing upsets the centre:
\* executing a heartbeat makes it new, and pruneExpired finds it too young.
LEMMA NextFreshInv ==
  Room /\ ServerInv /\ ServerInv' /\ FreshInv /\ [Next]_vars => FreshInv'
<1> SUFFICES ASSUME Room, ServerInv, ServerInv', FreshInv, [Next]_vars, upsets' = 0
             PROVE  /\ up'
                    /\ \A s \in Servers, m \in Methods : HasRefreshed(s, m)' =>
                         /\ registry'[m].addr # None
                         /\ registry'[m].age <= SinceRefresh(s, m)'
  BY DEF FreshInv
<1> DEFINE Fresh(s, m) == /\ registry'[m].addr # None
                          /\ registry'[m].age <= SinceRefresh(s, m)'
           Goal == /\ up'
                   /\ \A s \in Servers, m \in Methods : HasRefreshed(s, m)' => Fresh(s, m)
<1> USE DEF centreVars, serverVars, HasRefreshed
\* An entry that stays as it is stays fresh while its server does not fall back.
<1>0. ASSUME upsets = 0, NEW s \in Servers, NEW m \in Methods, HasRefreshed(s, m),
             registry'[m] = registry[m], SinceRefresh(s, m)' >= SinceRefresh(s, m)
      PROVE  Fresh(s, m)
  <2>1. registry[m].addr # None /\ registry[m].age <= SinceRefresh(s, m)
    BY <1>0 DEF FreshInv
  <2>2. registry[m].age \in Nat
    BY TimesAreNat
  <2>3. SinceRefresh(s, m) \in Nat /\ SinceRefresh(s, m)' \in Nat
    BY SinceRefreshBound, SinceRefreshIsNatNext DEF SinceRefreshIsNat
  <2> QED
    BY <1>0, <2>1, <2>2, <2>3
<1>00. \A s \in Servers, m \in Methods :
         /\ m \in Nat /\ 1 <= m /\ m <= NMethods
         /\ at[s] \in Nat /\ 1 <= at[s] /\ at[s] <= NMethods + 1
         /\ wait[s] \in Nat /\ wait[s] <= Interval
         /\ lag[s] \in Nat /\ lag[s] <= MaxDelay
  BY TimesAreNat
<1>1. ASSUME NEW r \in Servers, Start(r) PROVE Goal
  <2>1. upsets = 0 /\ up' /\ registry' = registry
    BY <1>1 DEF Start, FreshInv
  <2>2. ASSUME NEW s \in Servers, NEW m \in Methods, HasRefreshed(s, m)'
        PROVE  HasRefreshed(s, m) /\ SinceRefresh(s, m)' >= SinceRefresh(s, m)
    <3>1. s # r
      BY <1>1, <2>2, <1>00 DEF Start, ServerInv, CommandInv, TypeOK
    <3>2. phase'[s] = phase[s] /\ at' = at /\ wait' = wait /\ lag' = lag
      BY <1>1, <3>1 DEF Start, ServerInv, TypeOK
    <3>3. SinceRefresh(s, m) \in Nat
      BY SinceRefreshBound
    <3> QED
      BY <2>2, <3>2, <3>3 DEF SinceRefresh
  <2> QED
    BY <1>0, <2>1, <2>2
<1>2. ASSUME NEW r \in Servers, Send(r) PROVE Goal
  <2>1. upsets = 0 /\ up /\ up' /\ registry' = registry
    BY <1>2 DEF Send, FreshInv
  <2>2. phase' = phase /\ wait' = wait /\ at' = at
    BY <1>2, <2>1 DEF Send
  <2>3. lag' = lag
    BY <1>2 DEF Send, ServerInv, CommandInv, TypeOK
  <2>4. ASSUME NEW s \in Servers, NEW m \in Methods, HasRefreshed(s, m)'
        PROVE  HasRefreshed(s, m) /\ SinceRefresh(s, m)' >= SinceRefresh(s, m)
    <3>1. SinceRefresh(s, m) \in Nat
      BY SinceRefreshBound
    <3> QED
      BY <2>2, <2>3, <2>4, <3>1 DEF SinceRefresh
  <2> QED
    BY <1>0, <2>1, <2>4
<1>3. ASSUME NEW r \in Servers, EndRound(r) PROVE Goal
  <2>1. upsets = 0 /\ up' /\ registry' = registry
    BY <1>3 DEF EndRound, FreshInv
  <2>2. ASSUME NEW s \in Servers, NEW m \in Methods, HasRefreshed(s, m)'
        PROVE  HasRefreshed(s, m) /\ SinceRefresh(s, m)' >= SinceRefresh(s, m)
    <3>1. SinceRefresh(s, m) \in Nat
      BY SinceRefreshBound
    <3>2. CASE s = r
      <4>1. /\ at[r] = NMethods + 1 /\ phase[r] \in {"adding", "beating"} /\ lag[r] = 0
            /\ phase'[r] = "sleeping" /\ wait'[r] = Interval
        BY <1>3, <1>00 DEF EndRound, ServerInv, CommandInv, TypeOK
      <4>2. m < at[r] /\ HasRefreshed(r, m) /\ at[r] - 1 - m = NMethods - m
        BY <1>00, <4>1
      <4>3. SinceRefresh(r, m) = Delays(NMethods - m) + 0
        BY <4>1, <4>2 DEF SinceRefresh
      <4>4. SinceRefresh(r, m)' = Delays(NMethods - m) + (Interval - Interval)
        BY <4>1 DEF SinceRefresh
      <4> QED
        BY <3>1, <3>2, <4>2, <4>3, <4>4, IntervalIsNat
    <3>3. CASE s # r
      <4>1. phase'[s] = phase[s] /\ at'[s] = at[s] /\ wait'[s] = wait[s] /\ lag'[s] = lag[s]
        BY <1>3, <3>3 DEF EndRound, ServerInv, TypeOK
      <4> QED
        BY <2>2, <3>1, <4>1 DEF SinceRefresh
    <3> QED
      BY <3>2, <3>3
  <2> QED
    BY <1>0, <2>1, <2>2
<1>4. ASSUME NEW r \in Servers, Wake(r) PROVE Goal
  <2>1. upsets = 0 /\ up' /\ registry' = registry
    BY <1>4 DEF Wake, FreshInv
  <2>2. ASSUME NEW s \in Servers, NEW m \in Methods, HasRefreshed(s, m)'
        PROVE  HasRefreshed(s, m) /\ SinceRefresh(s, m)' >= SinceRefresh(s, m)
    <3>1. SinceRefresh(s, m) \in Nat
      BY SinceRefreshBound
    <3>2. CASE s = r
      <4>1. /\ at[r] = 1 /\ phase[r] = "sleeping" /\ wait[r] = 0
            /\ phase'[r] = "beating" /\ at'[r] = 1 /\ lag'[r] = lag[r]
        BY <1>4 DEF Wake, ServerInv, CommandInv, TypeOK
      <4>2. SinceRefresh(r, m) = Delays(NMethods - m) + (Interval - 0)
        BY <4>1 DEF SinceRefresh
      <4>3. SinceRefresh(r, m)' = Delays(NMethods - m) + Interval + Delays(0) + lag[r]
        BY <1>00, <4>1 DEF SinceRefresh
      <4>4. Delays(NMethods - m) \in Nat /\ Delays(0) = 0
        <5>1. NMethods - m \in Nat
          BY <1>00
        <5> QED
          BY <5>1, DelaysAdd
      <4> QED
        BY <1>00, <3>2, <4>1, <4>2, <4>3, <4>4, IntervalIsNat
    <3>3. CASE s # r
      <4>1. phase'[s] = phase[s] /\ at'[s] = at[s] /\ wait'[s] = wait[s] /\ lag'[s] = lag[s]
        BY <1>4, <3>3 DEF Wake, ServerInv, TypeOK
      <4> QED
        BY <2>2, <3>1, <4>1 DEF SinceRefresh
    <3> QED
      BY <3>2, <3>3
  <2> QED
    BY <1>0, <2>1, <2>2
<1>5. ASSUME NEW r \in Servers, Die(r) PROVE Goal
  <2>1. upsets = 0 /\ up' /\ registry' = registry
    BY <1>5 DEF Die, FreshInv
  <2>2. ASSUME NEW s \in Servers, NEW m \in Methods, HasRefreshed(s, m)'
        PROVE  HasRefreshed(s, m) /\ SinceRefresh(s, m)' >= SinceRefresh(s, m)
    <3>1. SinceRefresh(s, m) \in Nat
      BY SinceRefreshBound
    <3>2. s # r
      BY <1>5, <2>2 DEF Die, ServerInv, TypeOK
    <3>3. phase'[s] = phase[s] /\ at' = at /\ wait' = wait /\ lag' = lag
      BY <1>5, <3>2 DEF Die, ServerInv, TypeOK
    <3> QED
      BY <2>2, <3>1, <3>3 DEF SinceRefresh
  <2> QED
    BY <1>0, <2>1, <2>2
<1>6. ASSUME NEW r \in Servers, AddOrHeartbeat(r) PROVE Goal
  <2>1. upsets = 0 /\ up'
    BY <1>6 DEF AddOrHeartbeat, FreshInv
  <2>2. at[r] \in Methods /\ sent[r] /\ at[r] <= NMethods
    BY <1>6, <1>00 DEF AddOrHeartbeat, ServerInv, TypeOK, CommandInv, Methods
  <2>3. registry'[at[r]] = [addr |-> r, age |-> 0]
    BY <1>6, <2>2 DEF AddOrHeartbeat, ServerInv, TypeOK
  <2>4. ASSUME NEW s \in Servers, NEW m \in Methods, HasRefreshed(s, m)'
        PROVE  Fresh(s, m)
    <3>1. SinceRefresh(s, m) \in Nat
      BY SinceRefreshBound
    <3>2. CASE m = at[r]
      <4>1. SinceRefresh(s, m)' \in Nat
        BY SinceRefreshIsNatNext DEF SinceRefreshIsNat
      <4> QED
        BY <2>3, <3>2, <4>1
    <3>3. CASE m # at[r]
      <4>1. registry'[m] = registry[m]
        BY <1>6, <3>3 DEF AddOrHeartbeat, ServerInv, TypeOK
      <4>2. CASE s # r
        <5>1. /\ phase'[s] = phase[s] /\ at'[s] = at[s]
              /\ wait'[s] = wait[s] /\ lag'[s] = lag[s]
          BY <1>6, <4>2 DEF AddOrHeartbeat, ServerInv, TypeOK
        <5>2. HasRefreshed(s, m) /\ SinceRefresh(s, m)' >= SinceRefresh(s, m)
          BY <2>4, <3>1, <5>1 DEF SinceRefresh
        <5> QED
          BY <1>0, <2>1, <4>1, <5>2
      <4>3. CASE s = r
        <5>1. at'[r] = at[r] + 1 /\ lag'[r] = 0 /\ phase'[r] = phase[r]
          BY <1>6 DEF AddOrHeartbeat, ServerInv, TypeOK
        <5>2. phase[r] # "sleeping"
          BY <2>2 DEF ServerInv, CommandInv
        <5>3. HasRefreshed(r, m)
          BY <1>00, <2>4, <3>3, <4>3, <5>1, <5>2
        <5>4. /\ at[r] \in Nat /\ 1 <= at[r] /\ m \in Nat /\ m <= NMethods
              /\ lag[r] \in Nat /\ lag[r] <= MaxDelay
          BY <1>00
        <5>5. SinceRefresh(r, m)' >= SinceRefresh(r, m)
          <6>1. CASE m < at[r]
            <7>1. at[r] - 1 - m \in Nat /\ (at[r] + 1) - 1 - m = (at[r] - 1 - m) + 1
              BY <5>4, <6>1
            <7>2. /\ Delays(at[r] - 1 - m) \in Nat
                  /\ Delays((at[r] - 1 - m) + 1) = Delays(at[r] - 1 - m) + MaxDelay
              BY <7>1, DelaysAdd
            <7>3. SinceRefresh(r, m) = Delays(at[r] - 1 - m) + lag[r]
              BY <5>2, <6>1 DEF SinceRefresh
            <7>4. SinceRefresh(r, m)' = Delays((at[r] - 1 - m) + 1) + 0
              BY <5>1, <5>2, <5>4, <6>1, <7>1 DEF SinceRefresh
            <7> QED
              BY <5>4, <7>2, <7>3, <7>4
          <6>2. CASE ~(m < at[r])
            <7>1. /\ at[r] - 1 \in Nat /\ (at[r] + 1) - 1 = (at[r] - 1) + 1
                  /\ NMethods - m \in Nat /\ ~(m < at[r] + 1)
              BY <3>3, <5>4, <6>2
            <7>2. /\ Delays(at[r] - 1) \in Nat /\ Delays(NMethods - m) \in Nat
                  /\ Delays((at[r] - 1) + 1) = Delays(at[r] - 1) + MaxDelay
              BY <7>1, DelaysAdd
            <7>3. SinceRefresh(r, m) =
                    Delays(NMethods - m) + Interval + Delays(at[r] - 1) + lag[r]
              BY <5>2, <6>2 DEF SinceRefresh
            <7>4. SinceRefresh(r, m)' =
                    Delays(NMethods - m) + Interval + Delays((at[r] - 1) + 1) + 0
              BY <5>1, <5>2, <7>1 DEF SinceRefresh
            <7> QED
              BY <5>4, <7>2, <7>3, <7>4, IntervalIsNat
          <6> QED
            BY <6>1, <6>2
        <5> QED
          BY <1>0, <2>1, <4>1, <4>3, <5>3, <5>5
      <4> QED
        BY <4>2, <4>3
    <3> QED
      BY <3>2, <3>3
  <2> QED
    BY <2>1, <2>4
<1>7. ASSUME UNCHANGED <<up, blocked, serverVars, upsets>>,
             \A m \in Methods : registry'[m] \in {registry[m], Prune(registry[m])}
      PROVE  Goal
  <2>1. upsets = 0 /\ up'
    BY <1>7 DEF FreshInv
  <2>2. ASSUME NEW s \in Servers, NEW m \in Methods, HasRefreshed(s, m)'
        PROVE  Fresh(s, m)
    <3>1. HasRefreshed(s, m) /\ SinceRefresh(s, m)' = SinceRefresh(s, m)
      BY <1>7, <2>2 DEF SinceRefresh
    <3>2. registry'[m] = registry[m]
      BY <1>7, <2>1, <3>1, FreshIsKept
    <3>3. SinceRefresh(s, m) \in Nat
      BY SinceRefreshBound
    <3>4. SinceRefresh(s, m)' >= SinceRefresh(s, m)
      BY <3>1, <3>3
    <3> QED
      BY <1>0, <2>1, <3>1, <3>2, <3>4
  <2> QED
    BY <2>1, <2>2
<1>8. ASSUME NEW m \in Methods, Query(m) PROVE Goal
  <2>1. \A k \in Methods : registry'[k] \in {registry[k], Prune(registry[k])}
    BY <1>8 DEF Query, ServerInv, TypeOK
  <2> QED
    BY <1>7, <1>8, <2>1 DEF Query
<1>9. CASE Lookup
  <2>1. \A k \in Methods : registry'[k] \in {registry[k], Prune(registry[k])}
    BY <1>9 DEF Lookup
  <2> QED
    BY <1>7, <1>9, <2>1 DEF Lookup
<1>10. /\ ~\E m \in Methods : Delete(m)
       /\ ~\E m \in Methods, s \in Servers : Modify(m, s)
       /\ ~CentreCrashes
  BY DEF Delete, Modify, CentreCrashes, ServerInv, TypeOK
<1>11. CASE Block \/ Unblock \/ CentreStarts \/ UNCHANGED vars
  <2>1. upsets = 0 /\ up' /\ registry' = registry
    BY <1>11 DEF Block, Unblock, CentreStarts, vars, FreshInv
  <2>2. phase' = phase /\ at' = at /\ wait' = wait /\ lag' = lag
    BY <1>11 DEF Block, Unblock, CentreStarts, vars
  <2>3. ASSUME NEW s \in Servers, NEW m \in Methods, HasRefreshed(s, m)'
        PROVE  HasRefreshed(s, m) /\ SinceRefresh(s, m)' >= SinceRefresh(s, m)
    <3>1. SinceRefresh(s, m) \in Nat
      BY SinceRefreshBound
    <3> QED
      BY <2>2, <2>3, <3>1 DEF SinceRefresh
  <2> QED
    BY <1>0, <2>1, <2>3
<1>12. CASE Tick
  <2>1. upsets = 0 /\ up'
    BY <1>12 DEF Tick, FreshInv
  <2>2. ASSUME NEW s \in Servers, NEW m \in Methods, HasRefreshed(s, m)'
        PROVE  Fresh(s, m)
    <3>1. HasRefreshed(s, m) /\ phase'[s] = phase[s] /\ at'[s] = at[s]
      BY <1>12, <2>2 DEF Tick
    <3>2. /\ registry[m].addr # None /\ registry[m].age <= SinceRefresh(s, m)
          /\ registry[m] \in [addr : Servers \cup {None}, age : 0..TTL+1]
      BY <2>1, <3>1 DEF FreshInv, ServerInv, TypeOK
    <3>3. /\ registry'[m].addr = registry[m].addr
          /\ registry'[m].age = Older(registry[m].age, TTL + 1)
      <4>1. registry'[m] = [registry[m] EXCEPT !.age = Older(@, TTL + 1)]
        BY <1>12, <3>2 DEF Tick
      <4> HIDE DEF HasRefreshed
      <4> QED
        BY <3>2, <4>1
    <3>4. registry'[m].age <= registry[m].age + 1 /\ registry[m].age \in Nat
      BY <3>2, <3>3 DEF Older
    <3>5. registry'[m].age \in Nat
      BY <3>2, <3>3 DEF Older
    <3>6. SinceRefresh(s, m)' = SinceRefresh(s, m) + 1
      <4>1. /\ wait[s] \in Nat /\ lag[s] \in Nat /\ Interval \in Nat
            /\ m \in Nat /\ m <= NMethods /\ at[s] \in Nat /\ 1 <= at[s]
        BY <1>00, IntervalIsNat
      <4>2. NMethods - m \in Nat /\ at[s] - 1 \in Nat
            /\ (m < at[s] => at[s] - 1 - m \in Nat)
        BY <4>1
      <4>3. Delays(NMethods - m) \in Nat /\ Delays(at[s] - 1) \in Nat
            /\ (m < at[s] => Delays(at[s] - 1 - m) \in Nat)
        BY <4>2, DelaysAdd
      <4>4. CASE phase[s] = "sleeping"
        <5>1. wait[s] > 0 /\ wait'[s] = wait[s] - 1
          BY <1>12, <4>1, <4>4 DEF Tick, Prompt
        <5>2. SinceRefresh(s, m)' = Delays(NMethods - m) + (Interval - (wait[s] - 1))
          BY <3>1, <4>4, <5>1 DEF SinceRefresh
        <5>3. SinceRefresh(s, m) = Delays(NMethods - m) + (Interval - wait[s])
          BY <4>4 DEF SinceRefresh
        <5> QED
          BY <4>1, <4>3, <5>2, <5>3
      <4>5. CASE phase[s] # "sleeping"
        <5>1. lag'[s] = lag[s] + 1
          BY <1>12, <3>1, <4>5 DEF Tick, Prompt
        <5>2. CASE m < at[s]
          BY <3>1, <4>1, <4>3, <4>5, <5>1, <5>2 DEF SinceRefresh
        <5>3. CASE ~(m < at[s])
          BY <3>1, <4>1, <4>3, <4>5, <5>1, <5>3 DEF SinceRefresh
        <5> QED
          BY <5>2, <5>3
      <4> QED
        BY <4>4, <4>5
    <3>7. SinceRefresh(s, m) \in Nat
      BY SinceRefreshBound
    <3> QED
      BY <3>2, <3>3, <3>4, <3>5, <3>6, <3>7
  <2> QED
    BY <2>1, <2>2
<1> QED
  BY <1>1, <1>2, <1>3, <1>4, <1>5, <1>6, <1>8, <1>9, <1>10, <1>11, <1>12
  DEF Next, Server, Centre

\* docs/architecture.md: heartbeats keep a node from expiring.  For any number
\* of servers, methods and delays, when the TTL leaves room for one interval of
\* startServiceHeartbeat and the commands of all methods one after the other,
\* every method of a live registered server is resolved, as long as the centre
\* does not crash and nobody removes or changes entries.
THEOREM LiveServiceIsFound ==
  ASSUME Interval + NMethods * MaxDelay <= TTL
  PROVE  Spec => []LiveServiceFound
<1>0. Room
  BY DEF Room, Delays
<1>1. Init => ServerInv /\ FreshInv
  BY InitServerInv DEF Init, FreshInv, HasRefreshed, Methods
<1>2. ServerInv /\ FreshInv /\ [Next]_vars => (ServerInv /\ FreshInv)'
  BY <1>0, NextServerInv, NextFreshInv
<1>3. ServerInv /\ FreshInv => LiveServiceFound
  BY <1>0, FreshIsKept DEF LiveServiceFound, Answer, HasRefreshed
<1> QED
  BY <1>1, <1>2, <1>3, PTL DEF Spec
=============================================================================
