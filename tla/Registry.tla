------------------------------- MODULE Registry -------------------------------
(***************************************************************************)
(* The subdomain registry of the server (internal/server/registry.go).     *)
(*                                                                         *)
(* Every method takes Registry.mu for its whole body, so each of them is   *)
(* one atomic operator here.  They are operators and not actions because   *)
(* it is the control plane and the HTTP proxy that call them, as parts of  *)
(* their own steps.                                                        *)
(*                                                                         *)
(* A Session object is identified with the connection it is made from:     *)
(* session identifiers are unique (GenerateSessionID ends in an atomic     *)
(* counter) and a connection makes at most one session.                    *)
(***************************************************************************)
EXTENDS Session

CONSTANTS
    Subdomains,   \* normalised (lower case) subdomain names
    NoSession,    \* "no entry" in the tunnels map
    Claimable     \* Claimable[s]: names that pass ValidateSubdomain and the
                  \* ownership check for the token of s

ASSUME RegistryAssumption ==
    /\ NoSession \notin Sessions
    /\ Claimable \in [Sessions -> SUBSET Subdomains]

VARIABLES
    tunnels,      \* Registry.tunnels: subdomain -> session, or NoSession
    regSessions   \* Registry.sessions: the sessions the registry knows

registryVars == <<tunnels, regSessions>>

RegistryTypeOK ==
    /\ tunnels \in [Subdomains -> Sessions \cup {NoSession}]
    /\ regSessions \in SUBSET Sessions

RegistryInit ==
    /\ tunnels = [x \in Subdomains |-> NoSession]
    /\ regSessions = {}

-------------------------------------------------------------------------------

(* Mutated form: the name another session holds is taken over. *)
Grantable_TakesOver(s, want) == want \cap Claimable[s]

(***************************************************************************)
(* The names of the request that Register reports "active".  The loop of   *)
(* Register decides each name from its validity, its owner and the entry   *)
(* another session may hold; the entries it has just written belong to s   *)
(* itself, so the order of the names does not matter.                      *)
(***************************************************************************)
Grantable(s, want) ==
    {x \in want \cap Claimable[s] : tunnels[x] \in {NoSession, s}}

(* The session is recorded even when no name at all was granted. *)
Register(s, want) ==
    /\ tunnels' = [x \in Subdomains |->
                      IF x \in Grantable(s, want) THEN s ELSE tunnels[x]]
    /\ regSessions' = regSessions \cup {s}

(* Mutated form: only the tunnels are removed. *)
Unregister_KeepsSession(s) ==
    /\ tunnels' = [x \in Subdomains |->
                      IF tunnels[x] = s THEN NoSession ELSE tunnels[x]]
    /\ UNCHANGED regSessions

Unregister(s) ==
    /\ tunnels' = [x \in Subdomains |->
                      IF tunnels[x] = s THEN NoSession ELSE tunnels[x]]
    /\ regSessions' = regSessions \ {s}

(* Mutated form: the second result of Lookup is ignored. *)
Registered_Ignored(x) == TRUE

(* Lookup succeeds on a name some session holds. *)
Registered(x) == tunnels[x] # NoSession

GetTunnelsForSession(s) == {x \in Subdomains : tunnels[x] = s}

===============================================================================
