------------------------- MODULE MCServiceDiscovery -------------------------
(***************************************************************************)
(* ServiceDiscovery for TLC.                                               *)
(***************************************************************************)
EXTENDS ServiceDiscovery

CONSTANTS s1, s2

TwoServers == {s1, s2}
=============================================================================
