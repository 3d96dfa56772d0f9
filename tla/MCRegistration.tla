--------------------------- MODULE MCRegistration ---------------------------
(***************************************************************************)
(* Instances of Registration for TLC.                                      *)
(*                                                                         *)
(* Two sessions with tokens of their own ask for one valid name, in two    *)
(* spellings, and for one that is not valid.                               *)
(***************************************************************************)
EXTENDS Registration

CONSTANTS t1, t2, h1, h2, n1, N1, bad, o1

MCTokenOf == [h \in Handshakes |-> IF h = h1 THEN t1 ELSE t2]
MCLower == [s \in Spellings |-> IF s = N1 THEN n1 ELSE s]

(* Names and organizations share nothing but the process, so that a behaviour goes
   on with those it began with; and nothing reads the reservation of a name that
   nobody can register. *)
Scope ==
    /\ \/ owner = [s \in Spellings |-> None] /\ users = {} /\ \A h \in Handshakes : reg[h] = "idle"
       \/ tx = NoTx /\ orgOwner = [o \in Slugs |-> None]
    /\ owner[bad] = None
=============================================================================
