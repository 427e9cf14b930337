---------------------------- MODULE MCRpcChannel ----------------------------
(***************************************************************************)
(* RpcChannel for TLC.                                                     *)
(***************************************************************************)
EXTENDS RpcChannel

CONSTANTS t1, t2

OneCanceller == {t1}
TwoCancellers == {t1, t2}
=============================================================================
