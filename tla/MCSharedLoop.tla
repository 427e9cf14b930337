---------------------------- MODULE MCSharedLoop ----------------------------
(***************************************************************************)
(* SharedLoop for TLC.                                                     *)
(***************************************************************************)
EXTENDS SharedLoop

AllThreads == {"user", "io", "failing"}
IoThread == {"io"}
=============================================================================
