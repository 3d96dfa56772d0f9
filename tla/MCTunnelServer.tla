---------------------------- MODULE MCTunnelServer ----------------------------
(***************************************************************************)
(* Instances of TunnelServer for TLC.                                      *)
(*                                                                         *)
(* Two tokens compete: the first owner may claim every name, the others    *)
(* all but the first name, which is reserved.                              *)
(***************************************************************************)
EXTENDS TunnelServer, TLC

CONSTANTS Owner, Reserved

MCClaimable ==
    [c \in Sessions |-> IF c = Owner THEN Subdomains ELSE Subdomains \ {Reserved}]

(* Sound where no name of the instance is reserved: then no token differs. *)
MCSymmetry == Permutations(Sessions)

===============================================================================
