------------------------------ MODULE ClientLink ------------------------------
(***************************************************************************)
(* What the tunnel client promises about its link to the server: the       *)
(* connections it makes are numbered, a new one is made only when none is  *)
(* up, none comes back, and once Run has returned none is made.            *)
(***************************************************************************)
EXTENDS Naturals

VARIABLES
    made,      \* connections made so far
    up,        \* whether the latest one is up
    finished   \* Run has returned

linkVars == <<made, up, finished>>

LinkInit ==
    /\ made = 0
    /\ up = FALSE
    /\ finished = FALSE

Make ==
    /\ ~up /\ ~finished
    /\ made' = made + 1
    /\ up' = TRUE
    /\ UNCHANGED finished

Break ==
    /\ up
    /\ up' = FALSE
    /\ UNCHANGED <<made, finished>>

Finish ==
    /\ ~finished
    /\ finished' = TRUE
    /\ UNCHANGED <<made, up>>

LinkNext == Make \/ Break \/ Finish

LinkSpec == LinkInit /\ [][LinkNext]_linkVars

===============================================================================
