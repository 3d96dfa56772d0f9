------------------------------- MODULE HTTPProxy -------------------------------
(***************************************************************************)
(* The public side of the server: handleRequest of internal/server/        *)
(* proxy.go, with ControlPlane.ProxyRequest and Session.OpenStream, which  *)
(* it calls.  One goroutine of net/http runs each request.                 *)
(*                                                                         *)
(* keys[r] are the names under which the request can find a tunnel, in the *)
(* order handleRequest tries them: the subdomain of the Host header, the   *)
(* first segment of the path, the X-Tunnel-Subdomain header; a request has *)
(* any of the three, so MaxKeys is 3 at most.  Each name takes one         *)
(* registry.Lookup, hence one read lock: the registry may change between   *)
(* two of them.  entry[r] is the TunnelEntry found; the goroutine holds on *)
(* to that pointer whatever the registry does next.                        *)
(*                                                                         *)
(* rpc[r] is the next step of the goroutine of request r:                  *)
(*   "idle"      the request has not arrived                               *)
(*   "lookup"    the next name is to be looked up                          *)
(*   "check"     handleRequest's own IsActive() next                       *)
(*   "recheck"   the IsActive() of ProxyRequest and OpenStream next        *)
(*   "open"      OpenStreamWithHeader next                                  *)
(*   "stream"    the stream is open, request and response being forwarded  *)
(*   "upgraded"  a hijacked WebSocket, waiting for the copies both ways    *)
(*   "served"    the response was forwarded, or both copies have ended     *)
(*   "broken"    the stream failed before that                             *)
(*   "notFound" (404), "unavailable" (503), "badGateway" (502)             *)
(***************************************************************************)
EXTENDS ControlPlane, Sequences

CONSTANTS
    Requests,    \* public HTTP (and WebSocket) requests
    MaxKeys      \* names a request may carry, bound of the model

ASSUME HTTPProxyAssumption == MaxKeys \in 0..3

VARIABLES
    rpc,     \* the request goroutines
    keys,    \* names still to be looked up
    entry    \* the TunnelEntry found: its subdomain and its session

proxyVars == <<rpc, keys, entry>>

RequestSteps == {"idle", "lookup", "check", "recheck", "open", "stream",
                 "upgraded", "served", "broken", "notFound", "unavailable", "badGateway"}

KeySeqs == UNION {[1..n -> Subdomains] : n \in 0..MaxKeys}

Entries == [subdomain : Subdomains, session : Sessions]
NoEntry == [subdomain |-> NoSession, session |-> NoSession]

ProxyTypeOK ==
    /\ rpc \in [Requests -> RequestSteps]
    /\ keys \in [Requests -> Seq(Subdomains)]
    /\ entry \in [Requests -> Entries \cup {NoEntry}]

ProxyInit ==
    /\ rpc = [r \in Requests |-> "idle"]
    /\ keys = [r \in Requests |-> <<>>]
    /\ entry = [r \in Requests |-> NoEntry]

Step(r, step) == rpc' = [rpc EXCEPT ![r] = step]

(* A stream of r is open on the session of its entry. *)
InFlight(r, c) == rpc[r] \in {"stream", "upgraded"} /\ entry[r].session = c

RequestOver(r) ==
    rpc[r] \in {"served", "broken", "notFound", "unavailable", "badGateway"}

-------------------------------------------------------------------------------

(* httpProxy.Stop closes the listeners while the server is "draining". *)
Arrive(r, names) ==
    /\ rpc[r] = "idle"
    /\ phase \in {"running", "draining"}
    /\ keys' = [keys EXCEPT ![r] = names]
    /\ Step(r, "lookup")
    /\ UNCHANGED <<entry, sessionVars, registryVars, cpVars>>

LookupHit(r) ==
    /\ rpc[r] = "lookup"
    /\ keys[r] # <<>>
    /\ Registered(Head(keys[r]))
    /\ entry' = [entry EXCEPT ![r] = [subdomain |-> Head(keys[r]),
                                      session |-> tunnels[Head(keys[r])]]]
    /\ keys' = [keys EXCEPT ![r] = <<>>]
    /\ Step(r, "check")
    /\ UNCHANGED <<sessionVars, registryVars, cpVars>>

LookupMiss(r) ==
    /\ rpc[r] = "lookup"
    /\ keys[r] # <<>>
    /\ ~Registered(Head(keys[r]))
    /\ keys' = [keys EXCEPT ![r] = Tail(keys[r])]
    /\ UNCHANGED <<rpc, entry, sessionVars, registryVars, cpVars>>

NotFound(r) ==
    /\ rpc[r] = "lookup"
    /\ keys[r] = <<>>
    /\ Step(r, "notFound")
    /\ UNCHANGED <<keys, entry, sessionVars, registryVars, cpVars>>

CheckActive(r) ==
    /\ rpc[r] = "check"
    /\ Step(r, IF IsActive(entry[r].session) THEN "recheck" ELSE "unavailable")
    /\ UNCHANGED <<keys, entry, sessionVars, registryVars, cpVars>>

ProxyRequest(r) ==
    /\ rpc[r] = "recheck"
    /\ Step(r, IF IsActive(entry[r].session) THEN "open" ELSE "badGateway")
    /\ UNCHANGED <<keys, entry, sessionVars, registryVars, cpVars>>

(* OpenStreamWithHeader: the state of the session is not looked at again, only
   yamux can refuse.  The stream counts as activity as soon as it is open. *)
OpenStream(r) ==
    /\ rpc[r] = "open"
    /\ CanOpenStream(entry[r].session)
    /\ UpdateActivity(entry[r].session)
    /\ Step(r, "stream")
    /\ UNCHANGED <<keys, entry, state, mux, registryVars, cpVars>>

OpenFails(r) ==
    /\ rpc[r] = "open"
    /\ StreamMayFail(entry[r].session)
    /\ Step(r, "badGateway")
    /\ UNCHANGED <<keys, entry, sessionVars, registryVars, cpVars>>

(* The header is too long (MaxStreamHeaderSize), or cannot be written. *)
HeaderFails(r) ==
    /\ rpc[r] = "open"
    /\ CanOpenStream(entry[r].session)
    /\ UpdateActivity(entry[r].session)
    /\ Step(r, "badGateway")
    /\ UNCHANGED <<keys, entry, state, mux, registryVars, cpVars>>

(* The tunnel client answers; yamux still delivers what it received before it
   was closed.  No timer of the proxy watches for the answer. *)
ResponseForwarded(r) ==
    /\ rpc[r] = "stream"
    /\ Step(r, "served")
    /\ UNCHANGED <<keys, entry, sessionVars, registryVars, cpVars>>

(* The stream ends without a response: the tunnel client or the public client
   drops it, ... *)
StreamReset(r) ==
    /\ rpc[r] = "stream"
    /\ Step(r, "broken")
    /\ UNCHANGED <<keys, entry, sessionVars, registryVars, cpVars>>
(* ... or yamux fails it with the session it belongs to, which ends the read or write
   that the goroutine is in. *)
StreamClosed(r) ==
    /\ rpc[r] = "stream"
    /\ IsClosed(entry[r].session)
    /\ Step(r, "broken")
    /\ UNCHANGED <<keys, entry, sessionVars, registryVars, cpVars>>

(* handleWebSocket: the connection is hijacked, so that no deadline and no Shutdown of
   net/http is about it any more, and the upgrade request is written to the stream. *)
Upgrade(r) ==
    /\ rpc[r] = "stream"
    /\ ~IsClosed(entry[r].session)
    /\ Step(r, "upgraded")
    /\ UNCHANGED <<keys, entry, sessionVars, registryVars, cpVars>>

(* wg.Wait returns when both copies have ended.  The end of the session ends the one to
   the visitor only; the other one is in a read until the visitor sends or leaves. *)
UpgradeEnds(r) ==
    /\ rpc[r] = "upgraded"
    /\ Step(r, "served")
    /\ UNCHANGED <<keys, entry, sessionVars, registryVars, cpVars>>

===============================================================================
