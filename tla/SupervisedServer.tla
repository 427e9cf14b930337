-------------------------- MODULE SupervisedServer --------------------------
(***************************************************************************)
(* A client and a server that HighAvai restarts: requests and responses on *)
(* a connection (TcpExchange) to whichever server runs.                    *)
(*                                                                         *)
(* The end of a server takes its side of the connection with it.  What had *)
(* already come to the client's kernel may still be read, or be dropped    *)
(* with the connection (RpcChannel has both), and the client's next        *)
(* request connects again.  Nothing is sent twice.                         *)
(***************************************************************************)
EXTENDS TcpExchange

CONSTANT RestartCount

ASSUME SupervisedAssumption == RestartCount \in Nat

VARIABLES
  link,   \* the connection: "none", "up", or "broken" by the server's end
  sup, count, starts, live, zombie, ended

Sup == INSTANCE HighAvai

supVars == <<sup, count, starts, live, zombie, ended>>
allVars == <<vars, link, supVars>>

SupervisedInit == Init /\ Sup!Init /\ link = "none"

Outstanding == {m \in ToSet(written) : answers[m] = {}}

(***************************************************************************)
(* The client                                                              *)
(***************************************************************************)

\* A call whose connect is refused ends at once.
Refused(m) ==
  /\ ~Contains(written, m) /\ Outstanding = {}
  /\ written' = Append(written, m)
  /\ answers' = [answers EXCEPT ![m] = {"refused"}]
  /\ UNCHANGED <<client, server, toServer, toClient, handed, link>>

\* A request connects if there is no connection.
Call(m) ==
  /\ IF link = "none" /\ live = {}
     THEN Refused(m)
     ELSE /\ WriteMessage(m)
          /\ link' = IF link = "none" THEN "up" ELSE link
  /\ UNCHANGED supVars

\* onRead or onWrite finds the connection closed or reset, and clear() ends
\* the request that is waiting.
ConnectionLost ==
  /\ link = "broken" /\ link' = "none"
  /\ client' = Fresh({}) /\ server' = Fresh({"IN"})
  /\ toServer' = <<>> /\ toClient' = <<>> /\ handed' = <<>>
  /\ answers' = [m \in Requests |-> IF m \in Outstanding THEN {"lost"}
                                                         ELSE answers[m]]
  /\ UNCHANGED <<written, supVars>>

Sends == link = "up" /\ ClientOnWrite /\ UNCHANGED <<link, supVars>>
Reads == ClientOnRead /\ UNCHANGED <<link, supVars>>

(***************************************************************************)
(* The server and its supervisor                                           *)
(***************************************************************************)
ServerReads  == ServerOnRead /\ UNCHANGED <<link, supVars>>
ServerWrites == ServerOnWrite /\ UNCHANGED <<link, supVars>>

\* The end of the server that has the connection.
Breaks ==
  /\ link' = "broken"
  /\ server' = Fresh({"IN"}) /\ toServer' = <<>>
  /\ UNCHANGED <<client, toClient, written, handed, answers>>

Supervises(A) ==
  /\ A
  /\ IF link = "up" /\ ~(live \subseteq live') THEN Breaks
                                               ELSE UNCHANGED <<vars, link>>

(***************************************************************************)
(* Specification                                                           *)
(***************************************************************************)
SupervisedNext ==
  \/ \E m \in Requests : Call(m)
  \/ Sends \/ Reads \/ ConnectionLost
  \/ ServerReads \/ ServerWrites
  \/ Supervises(Sup!Next)

\* Loops run the handlers of ready descriptors, the kernel reports the end of
\* a connection, and the supervisor runs.  No server has to end, and nobody
\* has to send a signal or a request.
SupervisedFairness ==
  /\ WF_allVars(Sends) /\ WF_allVars(Reads) /\ WF_allVars(ConnectionLost)
  /\ WF_allVars(ServerReads) /\ WF_allVars(ServerWrites)
  /\ WF_allVars(Supervises(Sup!Steps))

SupervisedSpec ==
  SupervisedInit /\ [][SupervisedNext]_allVars /\ SupervisedFairness

(***************************************************************************)
(* Properties                                                              *)
(***************************************************************************)

\* HighAvai's two properties hold of it beside a client and its connection.
\* A second server would find its port taken.  There is never one beside the
\* first, and none at all after an interrupt that was handled.
OneServer == Sup!OneServer

\* README.md: the service is restarted after a failure, restart_count_ times.
ServiceComesBack == Sup!ServiceComesBack

\* Every request that is served ends in one way: with its own response, as
\* lost, which takes the end of the first server, or as refused.  No restart
\* leaves a call waiting, and none gives it two outcomes.
EndsOneWay ==
  \A m \in Requests : Flaw[m] \in {"none", "response"} =>
    (Contains(written, m) ~>
       [](\/ answers[m] = {IF Flaw[m] = "none" THEN "ok" ELSE "error"}
          \/ answers[m] = {"lost"} /\ 1 \notin live
          \/ answers[m] = {"refused"}))
=============================================================================
