------------------------ MODULE TunnelDirectoryProofs ------------------------
(***************************************************************************)
(* The server implements TunnelDirectory, for both transports and any      *)
(* number of connections, names and requests.                              *)
(***************************************************************************)
EXTENDS TunnelServerProofs

LifeOf == [c \in Sessions |-> Life(c)]
DeliveryOf == [r \in Requests |-> Delivery(r)]

ClosingOf == {c \in Sessions : stopper[c] = "closemux"}

LEMMA InitDirectory == Init => Directory!Init
<1> SUFFICES ASSUME Init PROVE Directory!Init
  OBVIOUS
<1>1. \A c \in Sessions : Life(c) = "new"
  BY DEF Init, ControlPlaneInit, Life
<1>2. \A r \in Requests : Delivery(r) = NoEntry
  BY DEF Init, ProxyInit, Delivery
<1>3. \A c \in Sessions : stopper[c] # "closemux"
  BY DEF Init, ControlPlaneInit
<1> QED
  BY <1>1, <1>2, <1>3 DEF Init, RegistryInit, Directory!Init, Directory!Nowhere, NoEntry

-------------------------------------------------------------------------------

(* A step of the handler of c changes the life of no other session. *)
LEMMA LifeStep ==
    ASSUME IInv, NEW c \in Sessions, NEW step, GoTo(c, step)
    PROVE  LifeOf' = [LifeOf EXCEPT ![c] = Life(c)']
<1>1. \A d \in Sessions : pc'[d] = IF d = c THEN step ELSE pc[d]
  BY DEF GoTo, IInv, TypeOK, ControlPlaneTypeOK
<1>2. \A d \in Sessions \ {c} : Life(d)' = Life(d)
  BY <1>1 DEF Life
<1> QED
  BY <1>2 DEF LifeOf

(* Steps of a handler that neither give nor take names: the session keeps its
   life, unless it leaves the handshake without having registered. *)
LEMMA HandlerStutters ==
    ASSUME IInv, NEW c \in Sessions, NEW step, GoTo(c, step),
           UNCHANGED <<tunnels, stopper>>, UNCHANGED proxyVars,
           Life(c)' = Life(c)
    PROVE  UNCHANGED Directory!vars
<1>1. LifeOf' = LifeOf
  <2>1. LifeOf' = [LifeOf EXCEPT ![c] = Life(c)']
    BY LifeStep
  <2> QED
    BY <2>1 DEF LifeOf
<1>2. DeliveryOf' = DeliveryOf
  BY DEF DeliveryOf, Delivery, proxyVars
<1> QED
  BY <1>1, <1>2 DEF Directory!vars, LifeOf, DeliveryOf, ClosingOf

(* Leaving the handshake, or registering without a grant, turns c away. *)
LEMMA HandlerTurnsAway ==
    ASSUME IInv, NEW c \in Sessions, NEW step, GoTo(c, step),
           UNCHANGED <<tunnels, stopper>>, UNCHANGED proxyVars,
           Life(c) = "new", Life(c)' = "ended"
    PROVE  Directory!TurnAway(c)
<1>1. LifeOf' = [LifeOf EXCEPT ![c] = "ended"]
  BY LifeStep
<1>2. DeliveryOf' = DeliveryOf
  BY DEF DeliveryOf, Delivery, proxyVars
<1> QED
  BY <1>1, <1>2 DEF Directory!TurnAway, LifeOf, DeliveryOf, ClosingOf

(* Unregister is a release. *)
LEMMA HandlerReleases ==
    ASSUME IInv, NEW c \in Sessions, GoTo(c, "done"), Unregister(c),
           UNCHANGED stopper, UNCHANGED proxyVars, pc[c] \in Holding
    PROVE  Directory!Release(c)
<1>1. Life(c) = "holding" /\ Life(c)' = "ended"
  BY DEF Life, Holding, GoTo, IInv, TypeOK, ControlPlaneTypeOK
<1>2. LifeOf' = [LifeOf EXCEPT ![c] = "ended"]
  BY <1>1, LifeStep
<1>3. DeliveryOf' = DeliveryOf
  BY DEF DeliveryOf, Delivery, proxyVars
<1> QED
  BY <1>1, <1>2, <1>3 DEF Directory!Release, Unregister, LifeOf, DeliveryOf, ClosingOf

(* Register is a grant of the free names c asked for and may claim: nothing is
   registered for c yet. *)
LEMMA HandlerIsGranted ==
    ASSUME IInv, NEW c \in Sessions, RegisterTunnels(c), UNCHANGED proxyVars
    PROVE  Directory!Grant(c, want[c]) \/ Directory!TurnAway(c)
<1>1. \A x \in Subdomains : tunnels[x] # c
  BY DEF IInv, HolderWillRelease, RegisterTunnels
<1>2. Grantable(c, want[c]) = {x \in want[c] \cap Claimable[c] : tunnels[x] = NoSession}
  <2>1. want[c] \subseteq Subdomains
    BY DEF IInv, TypeOK, ControlPlaneTypeOK
  <2> QED
    BY <1>1, <2>1 DEF Grantable
<1>3. CASE Grantable(c, want[c]) = {}
  <2>1. GoTo(c, "refuse") /\ Life(c) = "new" /\ Life(c)' = "ended"
    BY <1>3 DEF RegisterTunnels, Life, GoTo, IInv, TypeOK, ControlPlaneTypeOK
  <2>2. UNCHANGED <<tunnels, stopper>>
    BY <1>3 DEF RegisterTunnels, Register, IInv, TypeOK, RegistryTypeOK
  <2> QED
    BY <2>1, <2>2, HandlerTurnsAway
<1>4. CASE Grantable(c, want[c]) # {}
  <2>1. GoTo(c, "respond") /\ Life(c) = "new" /\ Life(c)' = "holding"
    BY <1>4 DEF RegisterTunnels, Life, GoTo, IInv, TypeOK, ControlPlaneTypeOK
  <2>2. LifeOf' = [LifeOf EXCEPT ![c] = "holding"]
    BY <2>1, LifeStep
  <2>3. DeliveryOf' = DeliveryOf
    BY DEF DeliveryOf, Delivery, proxyVars
  <2>4. tunnels' = [x \in Subdomains |->
                      IF x \in Grantable(c, want[c]) THEN c ELSE tunnels[x]]
    BY DEF RegisterTunnels, Register
  <2>5. UNCHANGED stopper
    BY DEF RegisterTunnels
  <2> QED
    BY <1>2, <1>4, <2>1, <2>2, <2>3, <2>4, <2>5
    DEF Directory!Grant, LifeOf, DeliveryOf, ClosingOf
<1> QED
  BY <1>3, <1>4

(* A stream that opens, opens on the holder of the name, or on a session that Stop is
   closing: the session has been active, and yamux not shut down means that a Close
   has not finished; with the handler gone it is that of a goroutine of Stop. *)
LEMMA OpenDelivers ==
    ASSUME IInv, NEW r \in Requests, OpenStream(r)
    PROVE  \E x \in Subdomains, c \in Sessions :
              Directory!Deliver(r, x) \/ Directory!DeliverLate(r, x, c)
<1> DEFINE c == entry[r].session
           x == entry[r].subdomain
<1>1. rpc[r] = "open" /\ ~IsClosed(c)
  BY DEF OpenStream, CanOpenStream, IsClosed
<1>2. /\ entry[r] \in Entries
      /\ x \in Claimable[c]
      /\ tunnels[x] = c \/ pc[c] = "done"
      /\ state[c] \in {"active", "closing", "closed"}
  BY <1>1 DEF IInv, EntryStays, EntryOf
<1>3. c \in Sessions /\ x \in Subdomains /\ entry[r] = [subdomain |-> x, session |-> c]
  BY <1>2 DEF Entries
<1>4. Delivery(r) = NoEntry
  BY <1>1 DEF Delivery
<1>5. DeliveryOf' = [DeliveryOf EXCEPT ![r] = entry[r]]
  <2>1. rpc' = [rpc EXCEPT ![r] = "stream"] /\ entry' = entry
    BY DEF OpenStream, Step
  <2>2. rpc \in [Requests -> RequestSteps]
    BY DEF IInv, TypeOK, ProxyTypeOK
  <2> QED
    BY <2>1, <2>2 DEF DeliveryOf, Delivery
<1>6. LifeOf' = LifeOf /\ tunnels' = tunnels /\ ClosingOf' = ClosingOf
  BY DEF OpenStream, LifeOf, Life, ClosingOf, registryVars, cpVars
<1>7. Directory!DeliverTo(r, x, c)
  BY <1>3, <1>4, <1>5, <1>6
  DEF Directory!DeliverTo, Directory!Nowhere, NoEntry, LifeOf, DeliveryOf, ClosingOf
<1>8. CASE tunnels[x] = c
  BY <1>3, <1>7, <1>8, RegistryAssumption DEF Directory!Deliver
<1>9. CASE tunnels[x] # c
  <2>1. pc[c] = "done" /\ Life(c) = "ended"
    BY <1>2, <1>9 DEF Life
  <2>2. state[c] # "active" /\ (state[c] = "closed" => IsClosed(c))
    BY <1>3, <2>1 DEF IInv, StateFollowsHandler
  <2>3. stopper[c] = "closemux"
    BY <1>1, <1>2, <1>3, <2>1, <2>2 DEF IInv, OneCloser
  <2> QED
    BY <1>2, <1>3, <1>7, <2>1, <2>3 DEF Directory!DeliverLate
<1> QED
  BY <1>8, <1>9

(* The CompareAndSwap of a goroutine of Stop begins to close a session, which holds its
   names: only a session in service is active.  The goroutines exist under TCP only. *)
LEMMA StopperCloses ==
    ASSUME IInv, NEW c \in Sessions, StopperClose(c), UNCHANGED proxyVars
    PROVE  [Directory!Next]_(Directory!vars)
<1>1. UNCHANGED <<tunnels, pc, rpc, entry>>
  BY DEF StopperClose, registryVars, proxyVars
<1>2. LifeOf' = LifeOf /\ DeliveryOf' = DeliveryOf
  BY <1>1 DEF LifeOf, Life, DeliveryOf, Delivery
<1>3. stopper \in [Sessions -> {"none", "spawned", "closemux", "finished"}]
  BY DEF IInv, TypeOK, ControlPlaneTypeOK
<1>4. CASE CloseWins(c)
  <2>1. stopper[c] = "spawned" /\ stopper' = [stopper EXCEPT ![c] = "closemux"]
    BY <1>4 DEF StopperClose
  <2>2. ClosingOf' = ClosingOf \cup {c} /\ c \notin ClosingOf
    BY <1>3, <2>1 DEF ClosingOf
  <2>3. pc[c] \in {"serve", "close"}
    BY <1>4 DEF CloseWins, IInv, TypeOK, ControlPlaneTypeOK, HandlerSteps,
       StateFollowsHandler, OneCloser
  <2>4. Life(c) = "holding"
    BY <2>3 DEF Life
  <2>5. Transport = "tcp"
    BY <2>1 DEF IInv, StateFollowsHandler, TracksHandlers
  <2> QED
    BY <1>1, <1>2, <2>2, <2>4, <2>5
    DEF Directory!Next, Directory!BeginClosing, LifeOf, DeliveryOf, ClosingOf
<1>5. CASE ~CloseWins(c)
  <2>1. ClosingOf' = ClosingOf
    BY <1>3, <1>5 DEF StopperClose, ClosingOf
  <2> QED
    BY <1>1, <1>2, <2>1 DEF Directory!vars, LifeOf, DeliveryOf, ClosingOf
<1> QED
  BY <1>4, <1>5

LEMMA StopperEnds ==
    ASSUME IInv, NEW c \in Sessions, StopperCloseMux(c), UNCHANGED proxyVars
    PROVE  Directory!EndClosing(c)
<1>1. UNCHANGED <<tunnels, pc, rpc, entry>>
  BY DEF StopperCloseMux, registryVars, proxyVars
<1>2. LifeOf' = LifeOf /\ DeliveryOf' = DeliveryOf
  BY <1>1 DEF LifeOf, Life, DeliveryOf, Delivery
<1>3. c \in ClosingOf /\ ClosingOf' = ClosingOf \ {c}
  BY DEF StopperCloseMux, ClosingOf, IInv, TypeOK, ControlPlaneTypeOK
<1> QED
  BY <1>1, <1>2, <1>3 DEF Directory!EndClosing, LifeOf, DeliveryOf, ClosingOf

(* Every other step of a request is invisible: it is delivered once. *)
LEMMA RequestStutters ==
    ASSUME IInv, NEW r \in Requests, RequestStep(r) \/ PublicStep(r), ~OpenStream(r)
    PROVE  UNCHANGED Directory!vars
<1>1. UNCHANGED <<tunnels, pc, stopper>>
  BY RequestFrame DEF registryVars, cpVars
<1>2. LifeOf' = LifeOf
  BY <1>1 DEF LifeOf, Life
<1>3. /\ rpc \in [Requests -> RequestSteps]
      /\ entry \in [Requests -> Entries \cup {NoEntry}]
  BY DEF IInv, TypeOK, ProxyTypeOK
<1>4. \A q \in Requests : Delivery(q)' = Delivery(q)
  BY <1>3 DEF RequestStep, PublicStep, LookupHit, LookupMiss, NotFound, CheckActive,
     ProxyRequest, OpenFails, HeaderFails, StreamClosed, Arrive, ResponseForwarded,
     StreamReset, Upgrade, UpgradeEnds, Step, Delivery
<1>5. DeliveryOf' = DeliveryOf
  BY <1>4 DEF DeliveryOf
<1> QED
  BY <1>1, <1>2, <1>5 DEF Directory!vars, LifeOf, DeliveryOf, ClosingOf

(* Every step of the server is a step of the directory, or none. *)
LEMMA NextDirectory ==
    ASSUME IInv, [Next]_vars
    PROVE  [Directory!Next]_(Directory!vars)
<1> USE DEF GoTo
<1>1. ASSUME NEW c \in Sessions, HandlerStep(c) \/ ClientStep(c), UNCHANGED proxyVars
      PROVE  [Directory!Next]_(Directory!vars)
  <2>0. pc \in [Sessions -> HandlerSteps]
    BY DEF IInv, TypeOK, ControlPlaneTypeOK
  <2>1. CASE pc[c] = "handshake" /\ LeaveHandshake(c)
    <3>1. Life(c) = "new" /\ Life(c)' = "ended"
      BY <2>0, <2>1 DEF LeaveHandshake, Life
    <3>2. GoTo(c, "done") /\ UNCHANGED <<tunnels, stopper>>
      BY <2>1 DEF LeaveHandshake, registryVars
    <3> QED
      BY <1>1, <3>1, <3>2, HandlerTurnsAway DEF Directory!Next
  <2>2. CASE RegisterTunnels(c)
    <3>1. want[c] \in SUBSET Subdomains
      BY DEF IInv, TypeOK, ControlPlaneTypeOK
    <3> QED
      BY <1>1, <2>2, <3>1, HandlerIsGranted DEF Directory!Next
  <2>3. CASE AbortSession(c) \/ UnregisterSession(c)
    <3>1. GoTo(c, "done") /\ Unregister(c) /\ pc[c] \in Holding /\ UNCHANGED stopper
      BY <2>3 DEF AbortSession, CloseAndReturn, UnregisterSession, Holding
    <3> QED
      BY <1>1, <3>1, HandlerReleases DEF Directory!Next
  <2>4. CASE /\ UNCHANGED <<tunnels, stopper>>
             /\ \E step \in HandlerSteps : GoTo(c, step)
             /\ Life(c)' = Life(c)
    BY <1>1, <2>4, HandlerStutters
  <2>5. CASE Accept(c) \/ \E names \in SUBSET Subdomains : ReadHandshake(c, names)
    BY <2>0, <2>4, <2>5 DEF Accept, ReadHandshake, Life, HandlerSteps, registryVars
  <2>6. CASE \/ RefuseSession(c) \/ SendResponse(c) \/ StoreSession(c)
             \/ ActivateSession(c) \/ LeaveServe(c)
    BY <2>0, <2>4, <2>6 DEF RefuseSession, CloseAndReturn, SendResponse, StoreSession,
       ActivateSession, LeaveServe, Life, HandlerSteps, registryVars
  <2>7. CASE HandlerClose(c) \/ HandlerCloseMux(c) \/ ForgetSession(c)
    BY <2>0, <2>4, <2>7 DEF HandlerClose, HandlerCloseMux, ForgetSession, Life,
       HandlerSteps, registryVars
  <2> QED
    BY <1>1, <2>1, <2>2, <2>3, <2>5, <2>6, <2>7
    DEF HandlerStep, ClientStep, HandshakeError, HandshakeTimeout,
        RejectHandshake, LeaveHandshake, ServeCancelled, ServeContextDone,
        TickClosed, TickIdle
<1>2. ASSUME NEW c \in Sessions, UNCHANGED proxyVars,
             StopperStep(c) \/ NoticeStep(c) \/ EnvironmentStep(c)
      PROVE  [Directory!Next]_(Directory!vars)
  <2>1. CASE StopperStep(c)
    BY <1>2, <2>1, StopperCloses, StopperEnds DEF StopperStep, Directory!Next
  <2>2. CASE NoticeStep(c) \/ EnvironmentStep(c)
    <3>1. UNCHANGED <<tunnels, pc, rpc, entry, stopper>>
      BY <1>2, <2>2 DEF NoticeStep, EnvironmentStep, NotifyShutdown, SendShutdown,
         ShutdownNotSent, registryVars, cpVars, proxyVars
    <3> QED
      BY <3>1 DEF Directory!vars, Life, Delivery
  <2> QED
    BY <1>2, <2>1, <2>2
<1>3. ASSUME StopServer \/ StopStep, UNCHANGED proxyVars
      PROVE  UNCHANGED Directory!vars
  <2>1. UNCHANGED <<tunnels, pc, rpc, entry>>
    BY <1>3 DEF StopServer, StopStep, StopControlPlane, CancelControlPlane,
       EndAccepting, StopGracefully, StopTimesOut, registryVars, proxyVars
  <2>2. ClosingOf' = ClosingOf
    BY <1>3 DEF StopServer, StopStep, StopControlPlane, CancelControlPlane,
       EndAccepting, StopGracefully, StopTimesOut, ClosingOf, IInv, StateFollowsHandler
  <2> QED
    BY <2>1, <2>2 DEF Directory!vars, Life, Delivery, ClosingOf
<1>4. ASSUME NEW r \in Requests, RequestStep(r) \/ PublicStep(r)
      PROVE  [Directory!Next]_(Directory!vars)
  <2>1. CASE OpenStream(r)
    BY <2>1, OpenDelivers DEF Directory!Next
  <2>2. CASE ~OpenStream(r)
    BY <1>4, <2>2, RequestStutters
  <2> QED
    BY <2>1, <2>2
<1>5. CASE UNCHANGED vars
  <2>1. UNCHANGED <<tunnels, pc, rpc, entry, stopper>>
    BY <1>5 DEF vars, registryVars, cpVars, proxyVars
  <2> QED
    BY <2>1 DEF Directory!vars, Life, Delivery
<1> QED
  BY <1>1, <1>2, <1>3, <1>4, <1>5 DEF Next

-------------------------------------------------------------------------------

(* The server is a tunnel directory: cmd/unified one that delivers to holders only,
   cmd/server one that can be stopped. *)
THEOREM ServerIsDirectory == Spec => ImplementsDirectory
<1>1. Init => Directory!Init
  BY InitDirectory
<1>2. IInv /\ [Next]_vars => [Directory!Next]_(Directory!vars)
  BY NextDirectory
<1> QED
  BY <1>1, <1>2, Inductive, PTL DEF Spec, ImplementsDirectory, Directory!Spec

===============================================================================
