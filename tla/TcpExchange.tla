---------------------------- MODULE TcpExchange ----------------------------
(***************************************************************************)
(* Requests and responses on one TCP connection: the client's and the      *)
(* server's TcpConnection (net/tcp/tcp_connection.cc), the kernel between  *)
(* them, and RpcDispatcher::dispatch behind the server's.                  *)
(*                                                                         *)
(* A package is a run of Parts cells, so that a write may take, and a read *)
(* may find, a part of one.  The buffers are queues (TcpBuffer implements  *)
(* that) and a clean stream is decoded to its packages (TinyPBCoder).      *)
(* Here the connection stays open: SupervisedServer has the end of the     *)
(* server, RpcChannel the other ways in which a connection is closed.      *)
(***************************************************************************)
EXTENDS Naturals, Sequences, SequencesExt, FiniteSets

CONSTANTS
  Requests,   \* the requests the client may send, named by their msg_id
  Flaw,       \* what dispatch() will find wrong with each, or "none"
  Parts,      \* how many cells a package has
  SendBuffer  \* how many cells the kernel holds per direction

ASSUME TcpExchangeAssumption ==
  /\ Flaw \in [Requests -> {"none", "name", "service", "method", "request",
                            "response"}]
  /\ Parts \in Nat \ {0} /\ SendBuffer \in Nat \ {0}

VARIABLES
  client,    \* the client's connection
  server,    \* the server's connection
  toServer,  \* cells in the kernel, in either direction
  toClient,
  written,   \* requests given to writeMessage, in order
  handed,    \* history: every cell the client's kernel took
  answers    \* the response each read callback got

vars == <<client, server, toServer, toClient, written, handed, answers>>

(***************************************************************************)
(* A connection: its buffers, the interest in its Fd_Event and, on the     *)
(* client, the callbacks it holds.  wdones is m_write_dones in order,      *)
(* rdones the keys of m_read_dones.                                        *)
(***************************************************************************)
Package(m, status) ==
  [i \in 1..Parts |-> [msg |-> m, status |-> status, part |-> i]]

Cells == [msg : Requests, status : {"request", "ok", "error"}, part : 1..Parts]

Connection == [in : Seq(Cells), out : Seq(Cells), want : SUBSET {"IN", "OUT"},
               wdones : Seq(Requests), rdones : SUBSET Requests]

Fresh(want) == [in |-> <<>>, out |-> <<>>, want |-> want, wdones |-> <<>>,
                rdones |-> {}]

Init ==
  /\ client = Fresh({}) /\ server = Fresh({"IN"})
  /\ toServer = <<>> /\ toClient = <<>>
  /\ written = <<>> /\ handed = <<>>
  /\ answers = [m \in Requests |-> {}]

\* encode() and decode() of whole packages.
Encode(messages, status) ==
  FlattenSeq([i \in DOMAIN messages |-> Package(messages[i], status)])

Complete(q) == (Len(q) \div Parts) * Parts
Decode(q) == [i \in 1..(Len(q) \div Parts) |-> q[i * Parts]]
\* Faulty: the start of an incomplete package is thrown away.
UndecodedLost(q) == <<>>

Undecoded(q) == SubSeq(q, Complete(q) + 1, Len(q))

(***************************************************************************)
(* The client                                                              *)
(***************************************************************************)

\* writeMessage: store the message with its callback, and listen.  RpcChannel
\* has one request at a time on a connection.
WriteMessage(m) ==
  /\ ~Contains(written, m)
  /\ \A i \in DOMAIN written : answers[written[i]] # {}
  /\ written' = Append(written, m)
  /\ client' = [client EXCEPT !.wdones = Append(@, m), !.want = @ \cup {"OUT"}]
  /\ UNCHANGED <<server, toServer, toClient, handed, answers>>

\* The callbacks of onWrite.  That of CallMethod calls readMessage.
RunWriteDones(c) ==
  [c EXCEPT !.wdones = <<>>, !.rdones = @ \cup ToSet(c.wdones),
            !.want = IF c.wdones = <<>> THEN @ ELSE @ \cup {"IN"}]

\* Faulty: stored messages are encoded again behind what is left over.
OutgoingAgain(c) == c.out \o Encode(c.wdones, "request")

\* What onWrite is about to send: what is left over, or else everything that
\* was stored.
Outgoing(c) == IF c.out = <<>> THEN Encode(c.wdones, "request") ELSE c.out

\* How many cells of q the kernel may take before it answers EAGAIN.
Taken(q, kernel) ==
  {n \in 0..SendBuffer : n <= Len(q) /\ n + Len(kernel) <= SendBuffer}

\* onWrite on the client.  When all is written the interest is withdrawn and
\* every stored callback runs.
ClientOnWrite ==
  /\ "OUT" \in client.want /\ Len(toServer) < SendBuffer
  /\ \E n \in Taken(Outgoing(client), toServer) :
       LET q    == Outgoing(client)
           rest == SubSeq(q, n + 1, Len(q))
           idle == [client EXCEPT !.out = <<>>, !.want = @ \ {"OUT"}]
       IN /\ toServer' = toServer \o SubSeq(q, 1, n)
          /\ handed' = handed \o SubSeq(q, 1, n)
          /\ client' = IF rest = <<>> THEN RunWriteDones(idle)
                       ELSE [client EXCEPT !.out = rest]
  /\ UNCHANGED <<server, toClient, written, answers>>

\* onRead and excute() on the client, k cells having come: a response whose
\* msg_id has a callback is given to it; any other is dropped.
ClientOnRead ==
  /\ "IN" \in client.want
  /\ \E k \in 1..Len(toClient) :
       LET q    == client.in \o SubSeq(toClient, 1, k)
           hits == {c \in ToSet(Decode(q)) : c.msg \in client.rdones}
       IN /\ toClient' = SubSeq(toClient, k + 1, Len(toClient))
          /\ answers' = [m \in Requests |->
                answers[m] \cup {c.status : c \in {h \in hits : h.msg = m}}]
          /\ client' = [client EXCEPT !.in = Undecoded(q),
                                      !.rdones = @ \ {c.msg : c \in hits}]
  /\ UNCHANGED <<server, toServer, written, handed>>

(***************************************************************************)
(* The server                                                              *)
(***************************************************************************)

\* RpcDispatcher::dispatch with a service method that answers at once: the
\* packages reply() encodes.  A request that cannot be served is noted in a
\* response that is never sent.
Dispatch(m) ==
  CASE Flaw[m] \in {"name", "service", "method", "request"} -> <<>>
    [] Flaw[m] = "response" -> Package(m, "error")
    [] Flaw[m] = "none" -> Package(m, "ok")

\* onRead and excute() on the server, k cells having come; each reply also
\* listens for writability.
ServerOnRead ==
  /\ \E k \in 1..Len(toServer) :
       LET q       == server.in \o SubSeq(toServer, 1, k)
           replies == FlattenSeq([i \in DOMAIN Decode(q) |->
                                    Dispatch(Decode(q)[i].msg)])
       IN /\ toServer' = SubSeq(toServer, k + 1, Len(toServer))
          /\ server' = [server EXCEPT !.in = Undecoded(q), !.out = @ \o replies,
                          !.want = IF replies = <<>> THEN @ ELSE @ \cup {"OUT"}]
  /\ UNCHANGED <<client, toClient, written, handed, answers>>

ServerOnWrite ==
  /\ "OUT" \in server.want /\ Len(toClient) < SendBuffer
  /\ \E n \in Taken(server.out, toClient) :
       LET rest == SubSeq(server.out, n + 1, Len(server.out))
       IN /\ toClient' = toClient \o SubSeq(server.out, 1, n)
          /\ server' = [server EXCEPT !.out = rest,
                          !.want = IF rest = <<>> THEN @ \ {"OUT"} ELSE @]
  /\ UNCHANGED <<client, toServer, written, handed, answers>>

(***************************************************************************)
(* Specification                                                           *)
(***************************************************************************)
Next ==
  \/ \E m \in Requests : WriteMessage(m)
  \/ ClientOnWrite \/ ClientOnRead \/ ServerOnRead \/ ServerOnWrite

\* Both loops run the handlers of descriptors that are ready.
Fairness == /\ WF_vars(ClientOnWrite) /\ WF_vars(ClientOnRead)
            /\ WF_vars(ServerOnRead) /\ WF_vars(ServerOnWrite)

Spec == Init /\ [][Next]_vars /\ Fairness

(***************************************************************************)
(* Properties                                                              *)
(***************************************************************************)

\* docs/known-regressions.md, BUG-TCP-001: a partial write consumes exactly
\* what the kernel took.  The cells handed to the kernel, then those still in
\* the buffer, are whole packages, each of a different request.
OutputIntact ==
  LET q     == handed \o client.out
      order == [i \in 1..(Len(q) \div Parts) |-> q[i * Parts].msg]
  IN q = Encode(order, "request") /\ IsInjective(order)

\* docs/protocol.md, "Error Handling": a request that fails on the server is
\* answered with an error code, which the client writes to the controller.
FailureIsAnswered ==
  \A m \in Requests : Flaw[m] # "none" =>
    (Contains(written, m) ~> answers[m] = {"error"})
=============================================================================
