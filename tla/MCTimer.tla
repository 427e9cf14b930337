------------------------------ MODULE MCTimer ------------------------------
(***************************************************************************)
(* Timer for TLC: two one-shot events and a repeated one.                  *)
(***************************************************************************)
EXTENDS Timer

CONSTANTS short, long, beat

ThreeEvents == {short, long, beat}
Intervals == [e \in Events |-> CASE e = short -> 1 [] e = long -> 4 [] e = beat -> 2]
OnlyBeat == {beat}
=============================================================================
