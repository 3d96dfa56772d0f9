----------------------------- MODULE TunnelServer -----------------------------
(***************************************************************************)
(* The tunnel server: the control plane, the registry and the HTTP proxy   *)
(* running side by side, with their clients and their network.  This       *)
(* module composes the actions, says which of them are fair, and states    *)
(* what must be true of the whole.                                         *)
(***************************************************************************)
EXTENDS HTTPProxy

vars == <<sessionVars, registryVars, cpVars, proxyVars>>

TypeOK ==
    /\ SessionTypeOK
    /\ RegistryTypeOK
    /\ ControlPlaneTypeOK
    /\ ProxyTypeOK

Init ==
    /\ SessionInit
    /\ RegistryInit
    /\ ControlPlaneInit
    /\ ProxyInit

-------------------------------------------------------------------------------
(* What the handler of connection c does by itself. *)
HandlerStep(c) ==
    \/ HandshakeError(c)    \/ HandshakeTimeout(c)
    \/ RegisterTunnels(c)   \/ RefuseSession(c)
    \/ SendResponse(c)      \/ AbortSession(c)
    \/ StoreSession(c)      \/ ActivateSession(c)
    \/ ServeCancelled(c)    \/ ServeContextDone(c)
    \/ TickClosed(c)        \/ TickIdle(c)
    \/ HandlerClose(c)      \/ HandlerCloseMux(c)
    \/ ForgetSession(c)     \/ UnregisterSession(c)

(* What needs a client that connects and speaks. *)
ClientStep(c) ==
    \/ Accept(c)
    \/ \E names \in SUBSET Subdomains : ReadHandshake(c, names)
    \/ RejectHandshake(c)

StopperStep(c) == StopperClose(c) \/ StopperCloseMux(c)
NoticeStep(c) == NotifyShutdown(c) \/ SendShutdown(c) \/ ShutdownNotSent(c)

(* Server.Stop once it has been called. *)
StopStep ==
    \/ StopControlPlane \/ CancelControlPlane \/ EndAccepting
    \/ StopGracefully   \/ StopTimesOut

(* What the goroutine of request r does by itself. *)
RequestStep(r) ==
    \/ LookupHit(r)   \/ LookupMiss(r)  \/ NotFound(r)
    \/ CheckActive(r) \/ ProxyRequest(r)
    \/ OpenStream(r)  \/ OpenFails(r)  \/ HeaderFails(r)
    \/ StreamClosed(r)

(* What needs a public client that asks and a tunnel client that answers. *)
PublicStep(r) ==
    \/ \E names \in KeySeqs : Arrive(r, names)
    \/ ResponseForwarded(r)
    \/ StreamReset(r)
    \/ Upgrade(r) \/ UpgradeEnds(r)

EnvironmentStep(c) ==
    /\ \/ LoseConnection(c)
       \/ NoticeLoss(c)
       \/ GrowIdle(c)
    /\ UNCHANGED <<registryVars, cpVars>>

Next ==
    \/ /\ \/ \E c \in Sessions : \/ HandlerStep(c)
                                 \/ ClientStep(c)
                                 \/ StopperStep(c)
                                 \/ NoticeStep(c)
                                 \/ EnvironmentStep(c)
          \/ StopServer
          \/ StopStep
       /\ UNCHANGED proxyVars
    \/ \E r \in Requests : RequestStep(r) \/ PublicStep(r)

(* The goroutines of the server are scheduled, its ticker ticks, yamux's
   keepalive finds out about a dead connection, the grace period ends.  No
   client has to connect, ask or answer, no visitor has to leave a WebSocket,
   and nobody has to stop the server. *)
Fairness ==
    /\ \A c \in Sessions :
          /\ WF_vars(HandlerStep(c) /\ UNCHANGED proxyVars)
          /\ WF_vars(StopperStep(c) /\ UNCHANGED proxyVars)
          /\ WF_vars(NoticeStep(c) /\ UNCHANGED proxyVars)
          /\ WF_vars(NoticeLoss(c) /\ UNCHANGED <<registryVars, cpVars, proxyVars>>)
    /\ WF_vars(StopControlPlane /\ UNCHANGED proxyVars)
    /\ WF_vars(CancelControlPlane /\ UNCHANGED proxyVars)
    /\ WF_vars(EndAccepting /\ UNCHANGED proxyVars)
    /\ \A r \in Requests : WF_vars(RequestStep(r))

Spec == Init /\ [][Next]_vars

FairSpec == Spec /\ Fairness

-------------------------------------------------------------------------------
(* Safety *)

(* A name in the registry belongs to a session whose token may claim it, and
   whose handler is still to take the step that gives it back: no path out of
   handleConnection, not even a failed response, leaves an entry behind. *)
HolderWillRelease ==
    \A x \in Subdomains, c \in Sessions :
        tunnels[x] = c =>
            /\ x \in want[c] \cap Claimable[c]
            /\ pc[c] \notin {"idle", "handshake", "register", "refuse", "done"}

(* Whenever a session accepts requests, Stop and BroadcastShutdown can find it
   in ControlPlane.sessions, and some name leads to it. *)
ActiveIsTracked ==
    \A c \in Sessions :
        IsActive(c) => c \in cpSessions /\ GetTunnelsForSession(c) # {}

(* Session.Close is called by the handler and by the goroutines of Stop: while
   a session is "closing" exactly one of them is inside. *)
OneCloser ==
    \A c \in Sessions :
        /\ ~ (pc[c] = "closemux" /\ stopper[c] = "closemux")
        /\ state[c] = "closing" <=> pc[c] = "closemux" \/ stopper[c] = "closemux"

(* A public request is never answered by a session that no longer holds the
   name it asked for: handleRequest keeps a TunnelEntry across two checks and
   an open, while the session may end and the name go to somebody else.  The
   exception is a goroutine of Stop between the CompareAndSwap and the closing
   of yamux: the context it cancelled lets the handler give the name away. *)
LiveStreamAtHolder ==
    \A r \in Requests, c \in Sessions :
        InFlight(r, c) /\ ~IsClosed(c) /\ stopper[c] # "closemux"
            => tunnels[entry[r].subdomain] = c

(* When Stop reports that it stopped gracefully, no session can be used, found
   or routed to any more. *)
StopComplete ==
    phase = "stopped" =>
        /\ cpSessions = {}
        /\ \A x \in Subdomains : ~Registered(x)
        /\ \A c \in Sessions : ~IsActive(c)

(* What Registry.sessions keeps of handlers that have returned are sessions
   that were refused: they never were active and hold no name. *)
OnlyRefusedLinger ==
    \A c \in regSessions :
        pc[c] = "done" => state[c] = "connecting" /\ GetTunnelsForSession(c) = {}

(* A handler that has returned leaves a connection open behind it in two cases:
   its TCP session never became active, so that Close did nothing and nobody is
   left to close it, or a goroutine of Stop is about to. *)
OnlyRefusedStayOpen ==
    \A c \in Sessions :
        pc[c] = "done" /\ mux[c] = "up" =>
            /\ Transport = "tcp"
            /\ state[c] = "connecting" \/ stopper[c] = "closemux"

(* What a handler leaves behind when it returns, by whatever path and in whatever
   race with Stop: an entry in Registry.sessions or an open connection of a session
   that was refused, and nothing else. *)
OnlyRefusalsRemain == OnlyRefusedLinger /\ OnlyRefusedStayOpen

(* The atomic SessionState only moves forward: SetState, which stores blindly,
   never revives a session that Close has seen. *)
Age(s) == CASE s = "none" -> 0 [] s = "connecting" -> 1 [] s = "active" -> 2
            [] s = "closing" -> 3 [] s = "closed" -> 4
StateMovesForward ==
    [][\A c \in Sessions : Age(state'[c]) >= Age(state[c])]_vars

(* Nothing that Fairness makes happen can happen: handlers wait for a client or
   serve one, with nothing for the select and the ticker of handleSession to find;
   Close and Stop are not under way, yamux knows of every loss, and requests that are
   not over wait for the response on their stream, or for the visitor of a WebSocket. *)
AtRest ==
    /\ \A c \in Sessions :
          /\ \/ pc[c] \in {"idle", "done"}
             \/ pc[c] = "handshake" /\ Transport = "ws" /\ mux[c] = "up"
             \/ pc[c] = "serve" /\ ~ (Cancelled \/ ContextDone(c) \/ IsClosed(c) \/ idle[c])
          /\ stopper[c] \in {"none", "finished"}
          /\ notice[c] \in {"none", "over"}
          /\ mux[c] # "lost"
    /\ phase \notin {"draining", "signalled"} /\ ~ (Cancelled /\ accepting)
    /\ \A r \in Requests :
          \/ rpc[r] = "idle" \/ RequestOver(r)
          \/ rpc[r] = "stream" /\ ~IsClosed(entry[r].session)
          \/ rpc[r] = "upgraded"

(* When the server comes to rest its tables agree, whatever was lost, refused or
   stopped on the way: a name leads to a session that is active over a connection
   that is up, ControlPlane.sessions are the active sessions, a stream of a session
   that is not closed is one of the holder of its name; and once Stop has cancelled, no
   handler is left, and of the requests only hijacked WebSockets, cut off from their
   session, whose visitors nobody has told. *)
SettlesClean ==
    AtRest =>
        /\ \A x \in Subdomains :
              Registered(x) => IsActive(tunnels[x]) /\ mux[tunnels[x]] = "up"
        /\ cpSessions = {c \in Sessions : IsActive(c)}
        /\ \A r \in Requests, c \in Sessions :
              InFlight(r, c) /\ ~IsClosed(c) => tunnels[entry[r].subdomain] = c
        /\ Cancelled =>
              /\ HandlersReturned
              /\ \A r \in Requests, c \in Sessions :
                    InFlight(r, c) => rpc[r] = "upgraded" /\ IsClosed(c)

-------------------------------------------------------------------------------
(* The inductive invariant: what the properties above rest on *)

(* Steps in which the session has a name, and in which it is in cp.sessions. *)
Holding == {"respond", "store", "activate", "serve", "close", "closemux",
            "cleanup", "unregister"}
Stored == {"activate", "serve", "close", "closemux", "cleanup"}

(* The step of the handler bounds the state of the session, which Stop may
   have moved on; a closed session has its yamux session shut down; and Stop
   starts its goroutines once. *)
StateFollowsHandler ==
    \A c \in Sessions :
        /\ pc[c] \in {"idle", "handshake"} => state[c] = "none"
        /\ pc[c] \in {"register", "refuse", "respond", "store", "activate"}
              => state[c] = "connecting"
        /\ pc[c] \in {"serve", "close"} => state[c] \in {"active", "closing", "closed"}
        /\ pc[c] \in {"cleanup", "unregister"} => state[c] \in {"closing", "closed"}
        /\ pc[c] = "done" => state[c] # "active"
        /\ state[c] = "closed" => IsClosed(c)
        /\ phase \in {"running", "draining"} => stopper[c] = "none"

TracksHandlers ==
    /\ \A c \in Sessions : c \in cpSessions <=> pc[c] \in Stored
    /\ \A c \in Sessions : pc[c] \in Holding => \E x \in Subdomains : tunnels[x] = c
    /\ \A c \in regSessions : pc[c] \notin {"idle", "handshake", "register"}
    /\ phase = "stopped" => ~accepting /\ HandlersReturned
    /\ phase # "running" => Transport = "tcp"

(* A request that has found an entry finds its session still holding the name,
   or its handler gone, and the name is one the session may claim; past the
   checks, that session has been active. *)
EntryOf(r) ==
    /\ rpc[r] \in {"check", "recheck", "open", "stream", "upgraded"} =>
          /\ entry[r] \in Entries
          /\ entry[r].subdomain \in Claimable[entry[r].session]
          /\ \/ tunnels[entry[r].subdomain] = entry[r].session
             \/ pc[entry[r].session] = "done"
    /\ rpc[r] \in {"recheck", "open", "stream", "upgraded"} =>
          state[entry[r].session] \in {"active", "closing", "closed"}
EntryStays == \A r \in Requests : EntryOf(r)

IInv ==
    /\ TypeOK
    /\ StateFollowsHandler
    /\ OneCloser
    /\ HolderWillRelease
    /\ TracksHandlers
    /\ OnlyRefusedLinger
    /\ OnlyRefusedStayOpen
    /\ EntryStays

-------------------------------------------------------------------------------
(* What the server promises as a whole (refinement) *)

Life(c) ==
    CASE pc[c] \in {"idle", "handshake", "register"} -> "new"
      [] pc[c] \in {"refuse", "done"} -> "ended"
      [] OTHER -> "holding"

Delivery(r) ==
    IF rpc[r] \in {"stream", "upgraded", "served", "broken"} THEN entry[r] ELSE NoEntry

Directory == INSTANCE TunnelDirectory WITH
    holder <- tunnels,
    life <- [c \in Sessions |-> Life(c)],
    delivered <- [r \in Requests |-> Delivery(r)],
    closing <- {c \in Sessions : stopper[c] = "closemux"},
    Stoppable <- Transport = "tcp"

(* The server is a tunnel directory: the eleven steps of a handler, the two
   checks and the open of a request, lost connections, late ticks and the steps
   of Stop add up to its few.  cmd/unified, which nothing stops, delivers to the
   holder of a name only; cmd/server has the exception of the directory. *)
ImplementsDirectory == Directory!Spec

-------------------------------------------------------------------------------
(* Liveness *)

(* After the connection of a client is lost, its names are given back, whatever
   its handler was doing, and every request whose answer it owed ends.  A WebSocket
   that was hijacked does not: its goroutine stays as long as the visitor is silent. *)
LostClientForgotten ==
    \A c \in Sessions :
        mux[c] = "lost" ~>
            [](/\ GetTunnelsForSession(c) = {}
               /\ \A r \in Requests : ~(InFlight(r, c) /\ rpc[r] = "stream"))

(* Once Stop has cancelled the control plane, every handler returns and every
   request is over without the help of the grace period, but for the WebSockets, which
   Shutdown does not wait for either. *)
StopDrains ==
    phase = "waiting" ~>
        [](/\ HandlersReturned
           /\ \A r \in Requests :
                 rpc[r] \in {"idle", "upgraded"} \/ RequestOver(r))

-------------------------------------------------------------------------------
(* Statements of the repository that the code does not keep. *)

(* registry.go:230, "GetAllSessions returns all active sessions". *)
RegistryForgetsEnded == \A c \in regSessions : pc[c] # "done"

(* config.go:115, "IdleTimeout is the timeout for idle connections." *)
NoBusyIdleClose ==
    [][\A c \in Sessions, r \in Requests :
          TickIdle(c) => ~InFlight(r, c)]_vars

===============================================================================
