----------------------------- MODULE Connection -----------------------------
(***************************************************************************)
(* A client TcpConnection with the Fd_Event of its descriptor and the      *)
(* descriptor's entry in the loop's epoll set, as a record and one         *)
(* operator per method (net/tcp/tcp_connection.cc, net/fd_event.cc,        *)
(* net/eventloop.cc).  All of it is touched by the loop thread only.       *)
(*                                                                         *)
(*   state   m_state                                                       *)
(*   open    m_fd >= 0; the connection is the descriptor's only owner      *)
(*   want    m_listen_event.events: "IN" is EPOLLIN | EPOLLRDHUP           *)
(*   inCb, outCb, errCb    the three callbacks of the Fd_Event             *)
(*   listed  the descriptor is in m_listen_fds and in the epoll set        *)
(*   mask    the interest epoll_ctl last registered                        *)
(*   disc    m_disconnect_callback is set                                  *)
(*   wdone, rdone    m_write_dones / m_read_dones hold the call's entry    *)
(*   unsent  bytes of the request are waiting in m_out_buffer              *)
(***************************************************************************)

Callbacks == {"null", "connectCb", "onRead", "onWrite", "clearCb"}

ConnectionState ==
  [state : {"NotConnected", "Connected", "Closed"}, open : BOOLEAN,
   want : SUBSET {"IN", "OUT"}, inCb : Callbacks, outCb : Callbacks,
   errCb : Callbacks, listed : BOOLEAN, mask : SUBSET {"IN", "OUT"},
   disc : BOOLEAN, wdone : BOOLEAN, rdone : BOOLEAN, unsent : BOOLEAN]

\* A connection whose descriptor is open (socket() succeeded) or, with
\* open = FALSE, one that socket() never gave a descriptor: TcpClient then
\* has no connection object at all, and every use of it is guarded.
NewConnection(open) ==
  [state |-> IF open THEN "NotConnected" ELSE "Closed", open |-> open,
   want |-> {}, inCb |-> "null", outCb |-> "null", errCb |-> "null",
   listed |-> FALSE, mask |-> {}, disc |-> FALSE, wdone |-> FALSE,
   rdone |-> FALSE, unsent |-> FALSE]

(***************************************************************************)
(* Fd_Event and epoll                                                      *)
(***************************************************************************)
Listen(c, event, cb, err) ==
  [c EXCEPT !.want  = @ \cup {event},
            !.inCb  = IF event = "IN" THEN cb ELSE @,
            !.outCb = IF event = "OUT" THEN cb ELSE @,
            !.errCb = err]

Cancle(c, event) == [c EXCEPT !.want = @ \ {event}]

\* addEpollEvent does nothing on a stopped loop.
AddEpollEvent(c, stopped) ==
  IF stopped THEN c ELSE [c EXCEPT !.listed = TRUE, !.mask = c.want]

DeleteEpollEvent(c) == [c EXCEPT !.listed = FALSE, !.mask = {}]

ResetFdEvent(c) ==
  [c EXCEPT !.want = {}, !.inCb = "null", !.outCb = "null", !.errCb = "null"]

(***************************************************************************)
(* TcpConnection                                                           *)
(***************************************************************************)
SetConnected(c) == [c EXCEPT !.state = "Connected"]

IsClosed(c) == c.state = "Closed" /\ ~c.open

\* What is left of a connection after clear() on a live one: interest is
\* withdrawn, the descriptor leaves epoll and only then is closed.
Clear(c) ==
  IF IsClosed(c) THEN c
  ELSE [ResetFdEvent(DeleteEpollEvent(c)) EXCEPT
          !.state = "Closed", !.open = FALSE,
          !.wdone = FALSE, !.rdone = FALSE, !.disc = FALSE]

\* clear() runs the disconnect callback of a connection that was not closed.
ClearNotifies(c) == ~IsClosed(c) /\ c.disc

ListenWrite(c, stopped) ==
  IF c.state = "Closed" \/ ~c.open THEN c
  ELSE AddEpollEvent(Listen(c, "OUT", "onWrite", "clearCb"), stopped)

ListenRead(c, stopped) ==
  IF c.state = "Closed" \/ ~c.open THEN c
  ELSE AddEpollEvent(Listen(c, "IN", "onRead", "clearCb"), stopped)

\* TcpClient::writeMessage and readMessage: store the callback, then listen.
WriteMessage(c, stopped) == ListenWrite([c EXCEPT !.wdone = TRUE], stopped)

ReadMessage(c, stopped) == ListenRead([c EXCEPT !.rdone = TRUE], stopped)
=============================================================================
