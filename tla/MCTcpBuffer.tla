---------------------------- MODULE MCTcpBuffer ----------------------------
(***************************************************************************)
(* TcpBuffer for TLC.                                                      *)
(***************************************************************************)
EXTENDS TcpBuffer

CONSTANTS zero, one, two

Bytes == {zero, one, two}

\* Chunks whose bytes can be told apart, up to three at a time.
ChunkSet == {<<one>>, <<two>>, <<one, two>>, <<two, one, one>>}
=============================================================================
