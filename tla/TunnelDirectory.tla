--------------------------- MODULE TunnelDirectory ---------------------------
(***************************************************************************)
(* What the tunnel server promises, without handlers, connections or       *)
(* locks.  A client session holds some names once, from one instant to     *)
(* another; it gets them all together and gives them all back together;    *)
(* nobody takes a name from its holder; and a public request is delivered  *)
(* to at most one session, the one that holds the name at that instant.    *)
(*                                                                         *)
(* A server that can be stopped has one exception.  Stop closes sessions   *)
(* behind the back of their handlers, and while it is closing one, the     *)
(* session may have given its names back already and still be delivered a  *)
(* request that was on its way to it.                                      *)
(***************************************************************************)
CONSTANTS Sessions, Subdomains, Requests, NoSession, Claimable,
          Stoppable   \* the server can be stopped

VARIABLES
    holder,     \* who holds each name
    life,       \* "new", "holding" or "ended"
    delivered,  \* the name and the session each request was delivered to
    closing     \* the sessions that Stop is closing

vars == <<holder, life, delivered, closing>>

Nowhere == [subdomain |-> NoSession, session |-> NoSession]

Init ==
    /\ holder = [x \in Subdomains |-> NoSession]
    /\ life = [c \in Sessions |-> "new"]
    /\ delivered = [r \in Requests |-> Nowhere]
    /\ closing = {}

(* The session gets every name it asked for that is free and its to claim. *)
Grant(c, asked) ==
    LET granted == {x \in asked \cap Claimable[c] : holder[x] = NoSession}
    IN  /\ life[c] = "new"
        /\ granted # {}
        /\ holder' = [x \in Subdomains |-> IF x \in granted THEN c ELSE holder[x]]
        /\ life' = [life EXCEPT ![c] = "holding"]
        /\ UNCHANGED <<delivered, closing>>

TurnAway(c) ==
    /\ life[c] = "new"
    /\ life' = [life EXCEPT ![c] = "ended"]
    /\ UNCHANGED <<holder, delivered, closing>>

Release(c) ==
    /\ life[c] = "holding"
    /\ holder' = [x \in Subdomains |-> IF holder[x] = c THEN NoSession ELSE holder[x]]
    /\ life' = [life EXCEPT ![c] = "ended"]
    /\ UNCHANGED <<delivered, closing>>

DeliverTo(r, x, c) ==
    /\ delivered[r] = Nowhere
    /\ delivered' = [delivered EXCEPT ![r] = [subdomain |-> x, session |-> c]]
    /\ UNCHANGED <<holder, life, closing>>

Deliver(r, x) == holder[x] # NoSession /\ DeliverTo(r, x, holder[x])

DeliverLate(r, x, c) ==
    /\ c \in closing /\ life[c] = "ended" /\ x \in Claimable[c]
    /\ DeliverTo(r, x, c)

(* Stop begins, and ends, to close a session; it begins while the session holds its
   names. *)
BeginClosing(c) ==
    /\ Stoppable
    /\ life[c] = "holding" /\ c \notin closing
    /\ closing' = closing \cup {c}
    /\ UNCHANGED <<holder, life, delivered>>

EndClosing(c) ==
    /\ c \in closing
    /\ closing' = closing \ {c}
    /\ UNCHANGED <<holder, life, delivered>>

Next ==
    \/ \E c \in Sessions :
          \/ \E asked \in SUBSET Subdomains : Grant(c, asked)
          \/ TurnAway(c)
          \/ Release(c)
          \/ BeginClosing(c) \/ EndClosing(c)
    \/ \E r \in Requests, x \in Subdomains :
          \/ Deliver(r, x)
          \/ \E c \in Sessions : DeliverLate(r, x, c)

Spec == Init /\ [][Next]_vars

===============================================================================
