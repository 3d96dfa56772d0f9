----------------------------- MODULE ControlPlane -----------------------------
(***************************************************************************)
(* The control plane of the server: the goroutine that handles one client  *)
(* connection from its handshake to its cleanup, and the shutdown.         *)
(*                                                                         *)
(* Transport says which binary is modelled.  "tcp" is cmd/server: raw TCP  *)
(* connections (control.go), stopped by Server.Stop.  "ws" is cmd/unified: *)
(* the connections are WebSockets (wscontrol.go), the handler has no       *)
(* handshake deadline, closes the connection when it returns, and nothing  *)
(* calls Server.Stop: the process ends.  After the handshake both handlers *)
(* take the same steps.                                                    *)
(*                                                                         *)
(* pc[c] is the next step of the handler of connection c:                  *)
(*   "idle"        not connected yet                                       *)
(*   "handshake"   waiting for the HandshakeRequest                        *)
(*   "register"    request accepted, Registry.Register next                *)
(*   "refuse"      no tunnel granted, the refusal is to be sent            *)
(*   "respond"     the success response is to be sent                      *)
(*   "store"       cp.sessions[id] = session next                          *)
(*   "activate"    SetState(active) next                                   *)
(*   "serve"       in handleSession                                        *)
(*   "close"       its deferred Close next                                 *)
(*   "closemux"    inside Close, the CompareAndSwap won                    *)
(*   "cleanup"     delete(cp.sessions, id) next                            *)
(*   "unregister"  Registry.Unregister next                                *)
(*   "done"        returned                                                *)
(***************************************************************************)
EXTENDS Registry, Naturals, FiniteSets

CONSTANTS
    Transport,    \* "tcp" or "ws"
    MaxTunnels    \* Limits.MaxTunnelsPerConnection

ASSUME ControlPlaneAssumption ==
    /\ Transport \in {"tcp", "ws"}
    /\ MaxTunnels \in Nat \ {0}

VARIABLES
    pc,          \* the handler goroutines
    want,        \* HandshakeRequest.Tunnels of each connection
    cpSessions,  \* ControlPlane.sessions
    accepting,   \* acceptLoop (or the HTTP server) still takes connections
    phase,       \* how far Server.Stop is
    notice,      \* the goroutines BroadcastShutdown starts, one per session
    stopper      \* the goroutines ControlPlane.Stop starts, one per session

cpVars == <<pc, want, cpSessions, accepting, phase, notice, stopper>>

HandlerSteps == {"idle", "handshake", "register", "refuse", "respond", "store",
                 "activate", "serve", "close", "closemux", "cleanup",
                 "unregister", "done"}

Phases == {"running", "draining", "signalled", "waiting", "stopped", "timedout"}

ControlPlaneTypeOK ==
    /\ pc \in [Sessions -> HandlerSteps]
    /\ want \in [Sessions -> SUBSET Subdomains]
    /\ cpSessions \in SUBSET Sessions
    /\ accepting \in BOOLEAN
    /\ phase \in Phases
    /\ notice \in [Sessions -> {"none", "pending", "opening", "over"}]
    /\ stopper \in [Sessions -> {"none", "spawned", "closemux", "finished"}]

ControlPlaneInit ==
    /\ pc = [c \in Sessions |-> "idle"]
    /\ want = [c \in Sessions |-> {}]
    /\ cpSessions = {}
    /\ accepting = TRUE
    /\ phase = "running"
    /\ notice = [c \in Sessions |-> "none"]
    /\ stopper = [c \in Sessions |-> "none"]

GoTo(c, step) == pc' = [pc EXCEPT ![c] = step]

(* cp.ctx.Done(): Stop has called cp.cancel. *)
Cancelled == phase \in {"waiting", "stopped", "timedout"}

(* What `defer conn.Close()` of handleWebSocketConnection leaves of a
   connection when the handler returns; the TCP handler has no such defer. *)
MuxAfterReturn(c) ==
    IF Transport = "ws" /\ mux[c] = "up" THEN [mux EXCEPT ![c] = "lost"] ELSE mux

(* session.Close() and return, for a session no other goroutine can reach. *)
CloseAndReturn(c) ==
    /\ IF CloseWins(c) THEN FinishClose(c)
                       ELSE mux' = MuxAfterReturn(c) /\ UNCHANGED state
    /\ GoTo(c, "done")

-------------------------------------------------------------------------------
(* handleConnection and handleWebSocketConnection *)

Accept(c) ==
    /\ accepting
    /\ pc[c] = "idle"
    /\ GoTo(c, "handshake")
    /\ mux' = [mux EXCEPT ![c] = "up"]
    /\ UNCHANGED <<state, idle, registryVars, want, cpSessions, accepting,
                   phase, notice, stopper>>

(* A request with at least one tunnel (Validate) and no more than the limit,
   of a supported version and with a valid token. *)
ReadHandshake(c, names) ==
    /\ pc[c] = "handshake"
    /\ ~IsClosed(c)
    /\ names # {} /\ Cardinality(names) <= MaxTunnels
    /\ GoTo(c, "register")
    /\ want' = [want EXCEPT ![c] = names]
    /\ NewSession(c)
    /\ UNCHANGED <<mux, idle, registryVars, cpSessions, accepting, phase,
                   notice, stopper>>

(* Every other outcome of the handshake closes the connection: a request that
   fails one of the checks, a connection that fails, and for TCP the deadline. *)
LeaveHandshake(c) ==
    /\ pc[c] = "handshake"
    /\ GoTo(c, "done")
    /\ mux' = [mux EXCEPT ![c] = "closed"]
    /\ UNCHANGED <<state, idle, registryVars, want, cpSessions, accepting,
                   phase, notice, stopper>>
RejectHandshake(c) == ~IsClosed(c) /\ LeaveHandshake(c)
HandshakeError(c) == mux[c] # "up" /\ LeaveHandshake(c)
HandshakeTimeout(c) == Transport = "tcp" /\ LeaveHandshake(c)

RegisterTunnels(c) ==
    /\ pc[c] = "register"
    /\ Register(c, want[c])
    /\ GoTo(c, IF Grantable(c, want[c]) = {} THEN "refuse" ELSE "respond")
    /\ UNCHANGED <<sessionVars, want, cpSessions, accepting, phase, notice,
                   stopper>>

(* The refusal is sent at best effort; nothing is unregistered, and Close is
   called on a session that has never been active. *)
RefuseSession(c) ==
    /\ pc[c] = "refuse"
    /\ CloseAndReturn(c)
    /\ UNCHANGED <<idle, registryVars, want, cpSessions, accepting, phase,
                   notice, stopper>>

SendResponse(c) ==
    /\ pc[c] = "respond"
    /\ CanOpenStream(c)
    /\ GoTo(c, "store")
    /\ UNCHANGED <<sessionVars, registryVars, want, cpSessions, accepting,
                   phase, notice, stopper>>

(* Mutated form: the names stay registered. *)
AbortSession_KeepsNames(c) ==
    /\ pc[c] = "respond"
    /\ CloseAndReturn(c)
    /\ UNCHANGED <<idle, registryVars, want, cpSessions, accepting, phase,
                   notice, stopper>>

(* The response cannot be written: the connection is gone, or the client has
   reset the handshake stream. *)
AbortSession(c) ==
    /\ pc[c] = "respond"
    /\ Unregister(c)
    /\ CloseAndReturn(c)
    /\ UNCHANGED <<idle, want, cpSessions, accepting, phase, notice, stopper>>

(* Mutated form: the session is made active before it is stored. *)
StoreSession_ActiveFirst(c) ==
    /\ pc[c] = "store"
    /\ SetState(c, "active")
    /\ GoTo(c, "activate")
    /\ UNCHANGED <<mux, idle, registryVars, want, cpSessions, accepting, phase,
                   notice, stopper>>

StoreSession(c) ==
    /\ pc[c] = "store"
    /\ cpSessions' = cpSessions \cup {c}
    /\ GoTo(c, "activate")
    /\ UNCHANGED <<sessionVars, registryVars, want, accepting, phase, notice,
                   stopper>>

ActivateSession(c) ==
    /\ pc[c] = "activate"
    /\ SetState(c, "active")
    /\ GoTo(c, "serve")
    /\ UNCHANGED <<mux, idle, registryVars, want, cpSessions, accepting, phase,
                   notice, stopper>>

-------------------------------------------------------------------------------
(* handleSession: the select returns on each of these; the two conditions of
   the ticker are read at its next tick. *)

LeaveServe(c) ==
    /\ pc[c] = "serve"
    /\ GoTo(c, "close")
    /\ UNCHANGED <<sessionVars, registryVars, want, cpSessions, accepting,
                   phase, notice, stopper>>
ServeCancelled_Missing(c) == FALSE    \* mutated form: no case for cp.ctx
ServeCancelled(c) == Cancelled /\ LeaveServe(c)
ServeContextDone(c) == ContextDone(c) /\ LeaveServe(c)
TickClosed_Missing(c) == FALSE        \* mutated form: no check at the tick
TickClosed(c) == IsClosed(c) /\ LeaveServe(c)
TickIdle(c) == ~IsClosed(c) /\ idle[c] /\ LeaveServe(c)

(* Mutated form: the names are given back while the session is still open. *)
HandlerClose_AtTheEnd(c) ==
    /\ pc[c] = "close"
    /\ GoTo(c, "cleanup")
    /\ UNCHANGED <<sessionVars, registryVars, want, cpSessions, accepting,
                   phase, notice, stopper>>

(* The deferred session.Close(). *)
HandlerClose(c) ==
    /\ pc[c] = "close"
    /\ BeginClose(c)
    /\ GoTo(c, IF CloseWins(c) THEN "closemux" ELSE "cleanup")
    /\ UNCHANGED <<mux, idle, registryVars, want, cpSessions, accepting, phase,
                   notice, stopper>>

HandlerCloseMux(c) ==
    /\ pc[c] = "closemux"
    /\ FinishClose(c)
    /\ GoTo(c, "cleanup")
    /\ UNCHANGED <<idle, registryVars, want, cpSessions, accepting, phase,
                   notice, stopper>>

ForgetSession(c) ==
    /\ pc[c] = "cleanup"
    /\ cpSessions' = cpSessions \ {c}
    /\ GoTo(c, "unregister")
    /\ UNCHANGED <<sessionVars, registryVars, want, accepting, phase, notice,
                   stopper>>

UnregisterSession(c) ==
    /\ pc[c] = "unregister"
    /\ Unregister(c)
    /\ mux' = MuxAfterReturn(c)
    /\ GoTo(c, "done")
    /\ UNCHANGED <<state, idle, want, cpSessions, accepting, phase, notice,
                   stopper>>

-------------------------------------------------------------------------------
(* Server.Stop *)

(* BroadcastShutdown starts a goroutine for every session it finds; then
   httpProxy.Stop waits for the running requests or for the grace period. *)
StopServer ==
    /\ Transport = "tcp"
    /\ phase = "running"
    /\ phase' = "draining"
    /\ notice' = [c \in Sessions |-> IF c \in cpSessions THEN "pending" ELSE "none"]
    /\ UNCHANGED <<sessionVars, registryVars, pc, want, cpSessions, accepting,
                   stopper>>

(* One of those goroutines: the check of OpenStream, then the stream. *)
NotifyShutdown(c) ==
    /\ notice[c] = "pending"
    /\ notice' = [notice EXCEPT ![c] = IF IsActive(c) THEN "opening" ELSE "over"]
    /\ UNCHANGED <<sessionVars, registryVars, pc, want, cpSessions, accepting,
                   phase, stopper>>
SendShutdown(c) ==
    /\ notice[c] = "opening"
    /\ CanOpenStream(c)
    /\ notice' = [notice EXCEPT ![c] = "over"]
    /\ UpdateActivity(c)
    /\ UNCHANGED <<state, mux, registryVars, pc, want, cpSessions, accepting,
                   phase, stopper>>
ShutdownNotSent(c) ==
    /\ notice[c] = "opening"
    /\ StreamMayFail(c)
    /\ notice' = [notice EXCEPT ![c] = "over"]
    /\ UNCHANGED <<sessionVars, registryVars, pc, want, cpSessions, accepting,
                   phase, stopper>>

(* ControlPlane.Stop: a goroutine for each session found under the read lock,
   which nothing waits for, then the cancellation. *)
StopControlPlane ==
    /\ phase = "draining"
    /\ phase' = "signalled"
    /\ stopper' = [c \in Sessions |-> IF c \in cpSessions THEN "spawned" ELSE "none"]
    /\ UNCHANGED <<sessionVars, registryVars, pc, want, cpSessions, accepting,
                   notice>>
CancelControlPlane ==
    /\ phase = "signalled"
    /\ phase' = "waiting"
    /\ UNCHANGED <<sessionVars, registryVars, pc, want, cpSessions, accepting,
                   notice, stopper>>

StopperClose(c) ==
    /\ stopper[c] = "spawned"
    /\ BeginClose(c)
    /\ stopper' = [stopper EXCEPT ![c] = IF CloseWins(c) THEN "closemux" ELSE "finished"]
    /\ UNCHANGED <<mux, idle, registryVars, pc, want, cpSessions, accepting,
                   phase, notice>>
StopperCloseMux(c) ==
    /\ stopper[c] = "closemux"
    /\ FinishClose(c)
    /\ stopper' = [stopper EXCEPT ![c] = "finished"]
    /\ UNCHANGED <<idle, registryVars, pc, want, cpSessions, accepting, phase,
                   notice>>

(* The listener is closed after the cancellation, and acceptLoop ends. *)
EndAccepting ==
    /\ Cancelled
    /\ accepting
    /\ accepting' = FALSE
    /\ UNCHANGED <<sessionVars, registryVars, pc, want, cpSessions, phase,
                   notice, stopper>>

(* Mutated form: cp.wg.Done() before the cleanup. *)
HandlersReturned_BeforeCleanup ==
    \A c \in Sessions : pc[c] \in {"idle", "cleanup", "unregister", "done"}

HandlersReturned == \A c \in Sessions : pc[c] \in {"idle", "done"}

(* cp.wg.Wait() returns, or the grace period is over. *)
StopGracefully ==
    /\ phase = "waiting"
    /\ ~accepting
    /\ HandlersReturned
    /\ phase' = "stopped"
    /\ UNCHANGED <<sessionVars, registryVars, pc, want, cpSessions, accepting,
                   notice, stopper>>
StopTimesOut ==
    /\ phase = "waiting"
    /\ phase' = "timedout"
    /\ UNCHANGED <<sessionVars, registryVars, pc, want, cpSessions, accepting,
                   notice, stopper>>

===============================================================================
