---------------------------- MODULE MCTcpServer ----------------------------
(***************************************************************************)
(* TcpServer for TLC.                                                      *)
(***************************************************************************)
EXTENDS TcpServer

\* The connect(2) of an outgoing call waits, fails at once or succeeds at once.
AllOutcomes == {"waits", "failed", "atOnce"}
=============================================================================
