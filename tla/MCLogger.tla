------------------------------ MODULE MCLogger ------------------------------
(***************************************************************************)
(* Logger for TLC.                                                         *)
(***************************************************************************)
EXTENDS Logger

CONSTANTS u1

OneUser == {u1}
FewCalls == [c \in Channels |-> IF c = "rpc" THEN 1 ELSE 2]
UserOrLoop == {u1, "loop"}
=============================================================================
