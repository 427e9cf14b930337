----------------------------- MODULE ByteQueue -----------------------------
(***************************************************************************)
(* What a TcpBuffer is to its users: a first-in first-out queue of bytes.  *)
(***************************************************************************)
EXTENDS Naturals, Sequences

CONSTANT Chunks   \* the runs of bytes that may be put in at once

VARIABLE queue

Init == queue = <<>>

Put == \E d \in Chunks : queue' = queue \o d

Take == \E n \in 0..Len(queue) : queue' = SubSeq(queue, n + 1, Len(queue))

Next == Put \/ Take

Spec == Init /\ [][Next]_queue
=============================================================================
