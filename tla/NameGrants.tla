------------------------------ MODULE NameGrants ------------------------------
(***************************************************************************)
(* What the registration of tunnels promises about subdomains, whoever     *)
(* reserves and registers at the same time: a name has one holder, it is   *)
(* granted in one moment in which it is free and its reservation, if there *)
(* is one, is that of the holder, and it is given back with all the others *)
(* of the same holder.  Reservations are for good and survive a restart.   *)
(* Without answers from the database every free name may be granted.       *)
(***************************************************************************)
CONSTANTS Names, Holders, Owners, OwnerOf, Nobody

VARIABLES
    reserved,   \* the owner of a name in the database
    granted,    \* the holder of a name
    answers     \* the database answers every question about an owner

grantVars == <<reserved, granted, answers>>

GrantsInit ==
    /\ reserved = [n \in Names |-> Nobody]
    /\ granted = [n \in Names |-> Nobody]
    /\ answers \in BOOLEAN

Reserve(n, t) ==
    /\ reserved[n] = Nobody
    /\ reserved' = [reserved EXCEPT ![n] = t]
    /\ UNCHANGED <<granted, answers>>

Grant(n, h) ==
    /\ granted[n] = Nobody
    /\ answers => reserved[n] \in {Nobody, OwnerOf[h]}
    /\ granted' = [granted EXCEPT ![n] = h]
    /\ UNCHANGED <<reserved, answers>>

GiveBack(h) ==
    /\ granted' = [n \in Names |-> IF granted[n] = h THEN Nobody ELSE granted[n]]
    /\ UNCHANGED <<reserved, answers>>

Restart ==
    /\ granted' = [n \in Names |-> Nobody]
    /\ UNCHANGED <<reserved, answers>>

GrantsNext ==
    \/ \E n \in Names, t \in Owners : Reserve(n, t)
    \/ \E n \in Names, h \in Holders : Grant(n, h)
    \/ \E h \in Holders : GiveBack(h)
    \/ Restart

GrantsSpec == GrantsInit /\ [][GrantsNext]_grantVars

===============================================================================
