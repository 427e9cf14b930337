--------------------------- MODULE MCTcpExchange ---------------------------
(***************************************************************************)
(* TcpExchange for TLC.                                                    *)
(***************************************************************************)
EXTENDS TcpExchange

CONSTANTS r1, r2, r3

ThreeRequests == {r1, r2, r3}

\* One response cannot be serialised.
OneUnserialised == [m \in Requests |-> IF m = r2 THEN "response" ELSE "none"]

\* One request names a service the server does not have.
OneUnknown == [m \in Requests |-> IF m = r1 THEN "service" ELSE "none"]
=============================================================================
