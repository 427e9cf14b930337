------------------------ MODULE MCSupervisedServer ------------------------
(***************************************************************************)
(* SupervisedServer for TLC.                                               *)
(***************************************************************************)
EXTENDS SupervisedServer

CONSTANTS r1, r2, r3

ThreeRequests == {r1, r2, r3}

\* One response cannot be serialised.
OneUnserialised == [m \in Requests |-> IF m = r2 THEN "response" ELSE "none"]
=============================================================================
