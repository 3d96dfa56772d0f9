--------------------------- MODULE MCTunnelClient ---------------------------
(* Instances of TunnelClient for TLC. *)
EXTENDS TunnelClient

CONSTANTS s1, s2

=============================================================================
