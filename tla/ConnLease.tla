------------------------------- MODULE ConnLease -------------------------------
(***************************************************************************)
(* What the pool of local connections promises its Forwards, without a     *)
(* stack, a counter, a clock or the state of any connection.  A stream is  *)
(* lent a connection once, and has it alone; it gets one that is free, or  *)
(* dials a new one when no free one will do and fewer than MaxOpen are in  *)
(* use; it is turned away only when MaxOpen are.  What it gives back is    *)
(* free again while there is room.  A pool that is shut keeps nothing,     *)
(* lends nothing and limits nothing.                                       *)
(***************************************************************************)
EXTENDS Naturals, FiniteSets

CONSTANTS Streams, Conns, NoConn,
          MaxIdle,
          MaxOpen    \* 0 for no limit

VARIABLES
    stage,   \* of each stream: "waiting", "dialling", "leased" or "over"
    lease,   \* the connection lent to it
    free,    \* the connections kept
    shut

vars == <<stage, lease, free, shut>>

Init ==
    /\ stage = [f \in Streams |-> "waiting"]
    /\ lease = [f \in Streams |-> NoConn]
    /\ free = {}
    /\ shut = FALSE

Users == {f \in Streams : stage[f] \in {"dialling", "leased"}}
Leased == {lease[f] : f \in Streams} \ {NoConn}

Move(f, to) == stage' = [stage EXCEPT ![f] = to]

Lend(f, c) ==
    /\ Move(f, "leased")
    /\ lease' = [lease EXCEPT ![f] = c]
    /\ UNCHANGED shut

(* Free connections that will not do are dropped on the way. *)
Reuse(f, c) ==
    /\ stage[f] = "waiting" /\ ~shut
    /\ c \in free
    /\ Lend(f, c)
    /\ \E kept \in SUBSET (free \ {c}) : free' = kept

Dial(f) ==
    /\ stage[f] = "waiting" /\ ~shut
    /\ MaxOpen = 0 \/ Cardinality(Users) < MaxOpen
    /\ Move(f, "dialling")
    /\ free' = {}
    /\ UNCHANGED <<lease, shut>>

Exhausted(f) ==
    /\ stage[f] = "waiting" /\ ~shut
    /\ MaxOpen > 0 /\ Cardinality(Users) >= MaxOpen
    /\ Move(f, "over")
    /\ free' = {}
    /\ UNCHANGED <<lease, shut>>

(* After the end of the pool a stream is refused, or goes its own way. *)
AfterShut(f) ==
    /\ stage[f] = "waiting" /\ shut
    /\ Move(f, "over") \/ Move(f, "dialling")
    /\ UNCHANGED <<lease, free, shut>>

Connect(f, c) ==
    /\ stage[f] = "dialling"
    /\ c \notin free \cup Leased
    /\ Lend(f, c)
    /\ UNCHANGED free

Fail(f) ==
    /\ stage[f] = "dialling"
    /\ Move(f, "over")
    /\ UNCHANGED <<lease, free, shut>>

Return(f) ==
    /\ stage[f] = "leased"
    /\ Move(f, "over")
    /\ lease' = [lease EXCEPT ![f] = NoConn]
    /\ free' = IF ~shut /\ Cardinality(free) < MaxIdle
               THEN free \cup {lease[f]} ELSE free
    /\ UNCHANGED shut

Expire ==
    /\ \E kept \in SUBSET free : free' = kept
    /\ UNCHANGED <<stage, lease, shut>>

Shut ==
    /\ shut' = TRUE
    /\ free' = {}
    /\ UNCHANGED <<stage, lease>>

Next ==
    \/ \E f \in Streams :
          \/ Dial(f) \/ Exhausted(f) \/ AfterShut(f) \/ Fail(f) \/ Return(f)
          \/ \E c \in Conns : Reuse(f, c) \/ Connect(f, c)
    \/ Expire
    \/ Shut

Spec == Init /\ [][Next]_vars

================================================================================
