-------------------------- MODULE TunnelServerProofs --------------------------
(***************************************************************************)
(* Proofs about TunnelServer, for any number of connections, names and     *)
(* requests, both transports and every assignment of names to tokens.      *)
(*                                                                         *)
(* The argument: IInv is inductive.  Each of the lemmas below takes one    *)
(* group of its conjuncts through every action of Next; the safety         *)
(* properties and the action property then follow from IInv.               *)
(***************************************************************************)
EXTENDS TunnelServer, SequenceTheorems, TLAPS

(* The names a request carries are a sequence of subdomains. *)
LEMMA KeySeqsAreSequences == KeySeqs \subseteq Seq(Subdomains)
BY HTTPProxyAssumption, SeqDef DEF KeySeqs

(* Register and Unregister keep the type of the registry. *)
LEMMA RegisterTypeOK ==
    ASSUME RegistryTypeOK, NEW c \in Sessions, NEW names \in SUBSET Subdomains,
           Register(c, names)
    PROVE  RegistryTypeOK'
BY DEF RegistryTypeOK, Register

LEMMA UnregisterTypeOK ==
    ASSUME RegistryTypeOK, NEW c \in Sessions, Unregister(c)
    PROVE  RegistryTypeOK'
BY DEF RegistryTypeOK, Unregister

(* What a request does is invisible to the control plane: it changes its own
   variables, and the idle clock of a session when it opens a stream. *)
LEMMA RequestFrame ==
    ASSUME NEW r \in Requests, RequestStep(r) \/ PublicStep(r)
    PROVE  UNCHANGED <<state, mux, registryVars, cpVars>>
BY DEF RequestStep, PublicStep, LookupHit, LookupMiss, NotFound, CheckActive,
       ProxyRequest, OpenStream, OpenFails, HeaderFails, StreamClosed, Arrive,
       ResponseForwarded, StreamReset, Upgrade, UpgradeEnds, sessionVars

-------------------------------------------------------------------------------

LEMMA InitIInv == Init => IInv
<1> SUFFICES ASSUME Init PROVE IInv
  OBVIOUS
<1> USE DEF Init, SessionInit, RegistryInit, ControlPlaneInit, ProxyInit
<1>1. TypeOK
  BY DEF TypeOK, SessionTypeOK, SessionStates, RegistryTypeOK, ControlPlaneTypeOK,
         HandlerSteps, Phases, ProxyTypeOK, RequestSteps
<1>2. StateFollowsHandler /\ OneCloser /\ OnlyRefusedStayOpen
  BY DEF StateFollowsHandler, OneCloser, OnlyRefusedStayOpen
<1>3. HolderWillRelease /\ TracksHandlers /\ OnlyRefusedLinger
  BY RegistryAssumption
  DEF HolderWillRelease, TracksHandlers, OnlyRefusedLinger, Stored, Holding
<1>4. EntryStays
  BY DEF EntryStays, EntryOf
<1> QED
  BY <1>1, <1>2, <1>3, <1>4 DEF IInv

LEMMA NextTypeOK ==
    ASSUME TypeOK, [Next]_vars
    PROVE  TypeOK'
<1> USE DEF TypeOK, SessionTypeOK, SessionStates, ControlPlaneTypeOK, HandlerSteps,
            Phases, ProxyTypeOK, RequestSteps, GoTo,
            sessionVars, registryVars, cpVars, proxyVars
<1>1. ASSUME NEW c \in Sessions, HandlerStep(c), UNCHANGED proxyVars
      PROVE  TypeOK'
  <2>1. CASE HandshakeError(c)
    BY <2>1, <1>1 DEF HandshakeError, LeaveHandshake, RegistryTypeOK
  <2>2. CASE HandshakeTimeout(c)
    BY <2>2, <1>1 DEF HandshakeTimeout, LeaveHandshake, RegistryTypeOK
  <2>3. CASE RegisterTunnels(c)
    BY <2>3, <1>1, RegisterTypeOK DEF RegisterTunnels
  <2>4. CASE RefuseSession(c)
    BY <2>4, <1>1 DEF RefuseSession, CloseAndReturn, CloseWins,
       MuxAfterReturn, FinishClose, RegistryTypeOK
  <2>5. CASE SendResponse(c) BY <2>5, <1>1 DEF SendResponse, RegistryTypeOK
  <2>6. CASE AbortSession(c)
    BY <2>6, <1>1, UnregisterTypeOK DEF AbortSession, CloseAndReturn,
       CloseWins, MuxAfterReturn, FinishClose
  <2>7. CASE StoreSession(c) BY <2>7, <1>1 DEF StoreSession, RegistryTypeOK
  <2>8. CASE ActivateSession(c)
    BY <2>8, <1>1 DEF ActivateSession, SetState, RegistryTypeOK
  <2>9. CASE LeaveServe(c) BY <2>9, <1>1 DEF LeaveServe, RegistryTypeOK
  <2>10. CASE HandlerClose(c)
    BY <2>10, <1>1 DEF HandlerClose, BeginClose, CloseWins, RegistryTypeOK
  <2>11. CASE HandlerCloseMux(c)
    BY <2>11, <1>1 DEF HandlerCloseMux, FinishClose, RegistryTypeOK
  <2>12. CASE ForgetSession(c) BY <2>12, <1>1 DEF ForgetSession, RegistryTypeOK
  <2>13. CASE UnregisterSession(c)
    BY <2>13, <1>1, UnregisterTypeOK DEF UnregisterSession, MuxAfterReturn
  <2> QED
    BY <1>1, <2>1, <2>2, <2>3, <2>4, <2>5, <2>6, <2>7, <2>8, <2>9, <2>10,
       <2>11, <2>12, <2>13 DEF HandlerStep, ServeCancelled,
       ServeContextDone, TickClosed, TickIdle
<1>2. ASSUME NEW c \in Sessions, ClientStep(c), UNCHANGED proxyVars
      PROVE  TypeOK'
  <2>1. CASE Accept(c) BY <2>1, <1>2 DEF Accept, RegistryTypeOK
  <2>2. CASE \E names \in SUBSET Subdomains : ReadHandshake(c, names)
    BY <2>2, <1>2 DEF ReadHandshake, NewSession, RegistryTypeOK
  <2>3. CASE RejectHandshake(c)
    BY <2>3, <1>2 DEF RejectHandshake, LeaveHandshake, RegistryTypeOK
  <2> QED
    BY <1>2, <2>1, <2>2, <2>3 DEF ClientStep
<1>3. ASSUME NEW c \in Sessions, StopperStep(c), UNCHANGED proxyVars
      PROVE  TypeOK'
  <2>1. CASE StopperClose(c)
    BY <2>1, <1>3 DEF StopperClose, BeginClose, CloseWins, RegistryTypeOK
  <2>2. CASE StopperCloseMux(c)
    BY <2>2, <1>3 DEF StopperCloseMux, FinishClose, RegistryTypeOK
  <2> QED
    BY <1>3, <2>1, <2>2 DEF StopperStep
<1>4. ASSUME NEW c \in Sessions, NoticeStep(c), UNCHANGED proxyVars
      PROVE  TypeOK'
  <2>1. CASE NotifyShutdown(c) BY <2>1, <1>4 DEF NotifyShutdown, RegistryTypeOK
  <2>2. CASE SendShutdown(c)
    BY <2>2, <1>4 DEF SendShutdown, UpdateActivity, RegistryTypeOK
  <2>3. CASE ShutdownNotSent(c)
    BY <2>3, <1>4 DEF ShutdownNotSent, RegistryTypeOK
  <2> QED
    BY <1>4, <2>1, <2>2, <2>3 DEF NoticeStep
<1>5. ASSUME NEW c \in Sessions, EnvironmentStep(c), UNCHANGED proxyVars
      PROVE  TypeOK'
    BY <1>5 DEF EnvironmentStep, LoseConnection, NoticeLoss, GrowIdle, RegistryTypeOK
<1>6. ASSUME StopServer \/ StopStep, UNCHANGED proxyVars
      PROVE  TypeOK'
  <2>1. CASE StopServer BY <2>1, <1>6 DEF StopServer, RegistryTypeOK
  <2>2. CASE StopControlPlane
    BY <2>2, <1>6 DEF StopControlPlane, RegistryTypeOK
  <2>3. CASE CancelControlPlane
    BY <2>3, <1>6 DEF CancelControlPlane, RegistryTypeOK
  <2>4. CASE EndAccepting BY <2>4, <1>6 DEF EndAccepting, RegistryTypeOK
  <2>5. CASE StopGracefully BY <2>5, <1>6 DEF StopGracefully, RegistryTypeOK
  <2>6. CASE StopTimesOut BY <2>6, <1>6 DEF StopTimesOut, RegistryTypeOK
  <2> QED
    BY <1>6, <2>1, <2>2, <2>3, <2>4, <2>5, <2>6 DEF StopStep
<1>7. ASSUME NEW r \in Requests, RequestStep(r)
      PROVE  TypeOK'
  <2>1. CASE LookupHit(r)
    BY <2>1, <1>7 DEF LookupHit, Step, RegistryTypeOK, Entries, Registered
  <2>2. CASE LookupMiss(r) BY <2>2 DEF LookupMiss, Step, RegistryTypeOK
  <2>3. CASE NotFound(r) BY <2>3 DEF NotFound, Step, RegistryTypeOK
  <2>4. CASE CheckActive(r) BY <2>4 DEF CheckActive, Step, RegistryTypeOK
  <2>5. CASE ProxyRequest(r) BY <2>5 DEF ProxyRequest, Step, RegistryTypeOK
  <2>6. CASE OpenStream(r)
    BY <2>6 DEF OpenStream, UpdateActivity, Step, RegistryTypeOK
  <2>7. CASE OpenFails(r) BY <2>7 DEF OpenFails, Step, RegistryTypeOK
  <2>8. CASE HeaderFails(r)
    BY <2>8 DEF HeaderFails, UpdateActivity, Step, RegistryTypeOK
  <2>9. CASE StreamClosed(r) BY <2>9 DEF StreamClosed, Step, RegistryTypeOK
  <2> QED
    BY <1>7, <2>1, <2>2, <2>3, <2>4, <2>5, <2>6, <2>7, <2>8, <2>9 DEF
       RequestStep
<1>9. ASSUME NEW r \in Requests, PublicStep(r)
      PROVE  TypeOK'
  <2>1. CASE \E names \in KeySeqs : Arrive(r, names)
    BY <2>1, KeySeqsAreSequences DEF Arrive, Step, RegistryTypeOK
  <2>2. CASE ResponseForwarded(r)
    BY <2>2 DEF ResponseForwarded, Step, RegistryTypeOK
  <2>3. CASE StreamReset(r)
    BY <2>3 DEF StreamReset, Step, RegistryTypeOK
  <2>4. CASE Upgrade(r)
    BY <2>4 DEF Upgrade, Step, RegistryTypeOK
  <2>5. CASE UpgradeEnds(r)
    BY <2>5 DEF UpgradeEnds, Step, RegistryTypeOK
  <2> QED
    BY <1>9, <2>1, <2>2, <2>3, <2>4, <2>5 DEF PublicStep
<1>8. CASE UNCHANGED vars
    BY <1>8 DEF vars, RegistryTypeOK
<1> QED
  BY <1>1, <1>2, <1>3, <1>4, <1>5, <1>6, <1>7, <1>8, <1>9 DEF Next

(* The state of a session against the step of its handler. *)
LEMMA NextState ==
    ASSUME TypeOK, StateFollowsHandler, OneCloser, OnlyRefusedStayOpen, [Next]_vars
    PROVE  StateFollowsHandler' /\ OneCloser' /\ OnlyRefusedStayOpen'
<1> USE DEF TypeOK, SessionTypeOK, SessionStates, ControlPlaneTypeOK, HandlerSteps,
            StateFollowsHandler, OneCloser, OnlyRefusedStayOpen,
            IsClosed, GoTo,
            sessionVars, registryVars, cpVars
<1>1. ASSUME NEW c \in Sessions, HandlerStep(c), UNCHANGED proxyVars
      PROVE  StateFollowsHandler' /\ OneCloser' /\ OnlyRefusedStayOpen'
  <2>1. CASE HandshakeError(c) BY <2>1 DEF HandshakeError, LeaveHandshake
  <2>2. CASE HandshakeTimeout(c) BY <2>2 DEF HandshakeTimeout, LeaveHandshake
  <2>3. CASE RegisterTunnels(c) BY <2>3 DEF RegisterTunnels
  <2>4. CASE RefuseSession(c)
    <3>1. ~CloseWins(c)
      BY <2>4 DEF RefuseSession, CloseWins
    <3>2. /\ state' = state
          /\ mux' = MuxAfterReturn(c)
          /\ pc' = [pc EXCEPT ![c] = "done"]
          /\ UNCHANGED <<idle, phase, stopper>>
      BY <2>4, <3>1 DEF RefuseSession, CloseAndReturn
    <3>3. state[c] = "connecting"
      BY <2>4 DEF RefuseSession
    <3>4. StateFollowsHandler' /\ OneCloser'
      BY <3>2, <3>3 DEF MuxAfterReturn
    <3>5. OnlyRefusedStayOpen'
      BY <3>2, <3>3, ControlPlaneAssumption DEF MuxAfterReturn
    <3> QED
      BY <3>4, <3>5
  <2>5. CASE SendResponse(c) BY <2>5 DEF SendResponse
  <2>6. CASE AbortSession(c)
    <3>1. ~CloseWins(c)
      BY <2>6 DEF AbortSession, CloseWins
    <3>2. /\ state' = state
          /\ mux' = MuxAfterReturn(c)
          /\ pc' = [pc EXCEPT ![c] = "done"]
          /\ UNCHANGED <<idle, phase, stopper>>
      BY <2>6, <3>1 DEF AbortSession, CloseAndReturn
    <3>3. state[c] = "connecting"
      BY <2>6 DEF AbortSession
    <3>4. StateFollowsHandler' /\ OneCloser'
      BY <3>2, <3>3 DEF MuxAfterReturn
    <3>5. OnlyRefusedStayOpen'
      BY <3>2, <3>3, ControlPlaneAssumption DEF MuxAfterReturn
    <3> QED
      BY <3>4, <3>5
  <2>7. CASE StoreSession(c) BY <2>7 DEF StoreSession
  <2>8. CASE ActivateSession(c) BY <2>8 DEF ActivateSession, SetState
  <2>9. CASE LeaveServe(c) BY <2>9 DEF LeaveServe
  <2>10. CASE HandlerClose(c) BY <2>10 DEF HandlerClose, BeginClose, CloseWins
  <2>11. CASE HandlerCloseMux(c) BY <2>11 DEF HandlerCloseMux, FinishClose
  <2>12. CASE ForgetSession(c) BY <2>12 DEF ForgetSession
  <2>13. CASE UnregisterSession(c)
    <3>1. /\ mux' = MuxAfterReturn(c)
          /\ pc' = [pc EXCEPT ![c] = "done"]
          /\ UNCHANGED <<state, idle, phase, stopper>>
      BY <2>13 DEF UnregisterSession
    <3>2. state[c] \in {"closing", "closed"} /\ pc[c] = "unregister"
      BY <2>13 DEF UnregisterSession
    <3>3. state[c] = "closing" => stopper[c] = "closemux"
      BY <3>2
    <3>4. StateFollowsHandler' /\ OneCloser'
      BY <3>1, <3>2 DEF MuxAfterReturn
    <3>5. OnlyRefusedStayOpen'
      BY <3>1, <3>2, <3>3, ControlPlaneAssumption DEF MuxAfterReturn
    <3> QED
      BY <3>4, <3>5
  <2> QED
    BY <1>1, <2>1, <2>2, <2>3, <2>4, <2>5, <2>6, <2>7, <2>8, <2>9, <2>10,
       <2>11, <2>12, <2>13 DEF HandlerStep, ServeCancelled,
       ServeContextDone, TickClosed, TickIdle
<1>2. ASSUME NEW c \in Sessions, ClientStep(c), UNCHANGED proxyVars
      PROVE  StateFollowsHandler' /\ OneCloser' /\ OnlyRefusedStayOpen'
  <2>1. CASE Accept(c) BY <2>1 DEF Accept
  <2>2. CASE \E names \in SUBSET Subdomains : ReadHandshake(c, names)
    BY <2>2 DEF ReadHandshake, NewSession
  <2>3. CASE RejectHandshake(c) BY <2>3 DEF RejectHandshake, LeaveHandshake
  <2> QED
    BY <1>2, <2>1, <2>2, <2>3 DEF ClientStep
<1>3. ASSUME NEW c \in Sessions, StopperStep(c), UNCHANGED proxyVars
      PROVE  StateFollowsHandler' /\ OneCloser' /\ OnlyRefusedStayOpen'
  <2>1. CASE StopperClose(c) BY <2>1 DEF StopperClose, BeginClose, CloseWins
  <2>2. CASE StopperCloseMux(c) BY <2>2 DEF StopperCloseMux, FinishClose
  <2> QED
    BY <1>3, <2>1, <2>2 DEF StopperStep
<1>4. ASSUME NEW c \in Sessions, NoticeStep(c), UNCHANGED proxyVars
      PROVE  StateFollowsHandler' /\ OneCloser' /\ OnlyRefusedStayOpen'
  <2>1. CASE NotifyShutdown(c) BY <2>1 DEF NotifyShutdown
  <2>2. CASE SendShutdown(c) BY <2>2 DEF SendShutdown, UpdateActivity
  <2>3. CASE ShutdownNotSent(c) BY <2>3 DEF ShutdownNotSent
  <2> QED
    BY <1>4, <2>1, <2>2, <2>3 DEF NoticeStep
<1>5. ASSUME NEW c \in Sessions, EnvironmentStep(c), UNCHANGED proxyVars
      PROVE  StateFollowsHandler' /\ OneCloser' /\ OnlyRefusedStayOpen'
    BY <1>5 DEF EnvironmentStep, LoseConnection, NoticeLoss, GrowIdle
<1>6. ASSUME StopServer \/ StopStep, UNCHANGED proxyVars
      PROVE  StateFollowsHandler' /\ OneCloser' /\ OnlyRefusedStayOpen'
    BY <1>6 DEF StopServer, StopStep, StopControlPlane, CancelControlPlane,
       EndAccepting, StopGracefully, StopTimesOut
<1>7. ASSUME NEW r \in Requests, RequestStep(r) \/ PublicStep(r)
      PROVE  StateFollowsHandler' /\ OneCloser' /\ OnlyRefusedStayOpen'
    BY <1>7, RequestFrame
<1>8. CASE UNCHANGED vars
    BY <1>8 DEF vars, proxyVars
<1> QED
  BY <1>1, <1>2, <1>3, <1>4, <1>5, <1>6, <1>7, <1>8 DEF Next

(* The registry and ControlPlane.sessions against the step of the handler. *)
LEMMA NextRegistry ==
    ASSUME TypeOK, StateFollowsHandler, OneCloser, HolderWillRelease,
           TracksHandlers, OnlyRefusedLinger, [Next]_vars
    PROVE  /\ HolderWillRelease'
           /\ TracksHandlers'
           /\ OnlyRefusedLinger'
<1> USE DEF TypeOK, SessionTypeOK, SessionStates, RegistryTypeOK, ControlPlaneTypeOK,
            HandlerSteps, StateFollowsHandler, OneCloser, HolderWillRelease,
            TracksHandlers, OnlyRefusedLinger, Holding, Stored, HandlersReturned,
            GetTunnelsForSession, GoTo, sessionVars, registryVars, cpVars
<1>1. ASSUME NEW c \in Sessions, HandlerStep(c), UNCHANGED proxyVars
      PROVE  HolderWillRelease' /\ TracksHandlers' /\ OnlyRefusedLinger'
  <2>1. CASE HandshakeError(c) BY <2>1 DEF HandshakeError, LeaveHandshake
  <2>2. CASE HandshakeTimeout(c) BY <2>2 DEF HandshakeTimeout, LeaveHandshake
  <2>3. CASE RegisterTunnels(c)
    BY <2>3, <1>1, RegistryAssumption DEF RegisterTunnels, Register,
       Grantable
  <2>4. CASE RefuseSession(c)
    BY <2>4, <1>1 DEF RefuseSession, CloseAndReturn, CloseWins,
       MuxAfterReturn, FinishClose
  <2>5. CASE SendResponse(c) BY <2>5 DEF SendResponse
  <2>6. CASE AbortSession(c)
    BY <2>6, <1>1, RegistryAssumption DEF AbortSession, CloseAndReturn,
       CloseWins, MuxAfterReturn, Unregister, FinishClose
  <2>7. CASE StoreSession(c) BY <2>7 DEF StoreSession
  <2>8. CASE ActivateSession(c) BY <2>8 DEF ActivateSession, SetState
  <2>9. CASE LeaveServe(c) BY <2>9 DEF LeaveServe
  <2>10. CASE HandlerClose(c) BY <2>10 DEF HandlerClose, BeginClose, CloseWins
  <2>11. CASE HandlerCloseMux(c) BY <2>11 DEF HandlerCloseMux, FinishClose
  <2>12. CASE ForgetSession(c) BY <2>12 DEF ForgetSession
  <2>13. CASE UnregisterSession(c)
    BY <2>13, <1>1, RegistryAssumption DEF UnregisterSession,
       MuxAfterReturn, Unregister
  <2> QED
    BY <1>1, <2>1, <2>2, <2>3, <2>4, <2>5, <2>6, <2>7, <2>8, <2>9, <2>10,
       <2>11, <2>12, <2>13 DEF HandlerStep, ServeCancelled,
       ServeContextDone, TickClosed, TickIdle
<1>2. ASSUME NEW c \in Sessions, ClientStep(c), UNCHANGED proxyVars
      PROVE  HolderWillRelease' /\ TracksHandlers' /\ OnlyRefusedLinger'
  <2>1. CASE Accept(c) BY <2>1 DEF Accept
  <2>2. CASE \E names \in SUBSET Subdomains : ReadHandshake(c, names)
    BY <2>2 DEF ReadHandshake, NewSession
  <2>3. CASE RejectHandshake(c) BY <2>3 DEF RejectHandshake, LeaveHandshake
  <2> QED
    BY <1>2, <2>1, <2>2, <2>3 DEF ClientStep
<1>3. ASSUME NEW c \in Sessions, StopperStep(c), UNCHANGED proxyVars
      PROVE  HolderWillRelease' /\ TracksHandlers' /\ OnlyRefusedLinger'
  <2>1. CASE StopperClose(c) BY <2>1 DEF StopperClose, BeginClose, CloseWins
  <2>2. CASE StopperCloseMux(c) BY <2>2 DEF StopperCloseMux, FinishClose
  <2> QED
    BY <1>3, <2>1, <2>2 DEF StopperStep
<1>4. ASSUME NEW c \in Sessions, NoticeStep(c), UNCHANGED proxyVars
      PROVE  HolderWillRelease' /\ TracksHandlers' /\ OnlyRefusedLinger'
  <2>1. CASE NotifyShutdown(c) BY <2>1 DEF NotifyShutdown
  <2>2. CASE SendShutdown(c) BY <2>2 DEF SendShutdown, UpdateActivity
  <2>3. CASE ShutdownNotSent(c) BY <2>3 DEF ShutdownNotSent
  <2> QED
    BY <1>4, <2>1, <2>2, <2>3 DEF NoticeStep
<1>5. ASSUME NEW c \in Sessions, EnvironmentStep(c), UNCHANGED proxyVars
      PROVE  HolderWillRelease' /\ TracksHandlers' /\ OnlyRefusedLinger'
    BY <1>5 DEF EnvironmentStep, LoseConnection, NoticeLoss, GrowIdle
<1>6. ASSUME StopServer \/ StopStep, UNCHANGED proxyVars
      PROVE  HolderWillRelease' /\ TracksHandlers' /\ OnlyRefusedLinger'
    BY <1>6 DEF StopServer, StopStep, StopControlPlane, CancelControlPlane,
       EndAccepting, StopGracefully, StopTimesOut
<1>7. ASSUME NEW r \in Requests, RequestStep(r) \/ PublicStep(r)
      PROVE  HolderWillRelease' /\ TracksHandlers' /\ OnlyRefusedLinger'
    BY <1>7, RequestFrame
<1>8. CASE UNCHANGED vars
    BY <1>8 DEF vars, proxyVars
<1> QED
  BY <1>1, <1>2, <1>3, <1>4, <1>5, <1>6, <1>7, <1>8 DEF Next

(* What one step may do to a session: it stays past the point it has reached,
   and it keeps its names until its handler returns. *)
MovesOn(c) ==
    /\ state[c] \in {"active", "closing", "closed"}
          => state'[c] \in {"active", "closing", "closed"}
    /\ state[c] \in {"closing", "closed"} => state'[c] \in {"closing", "closed"}
    /\ state[c] = "closed" => state'[c] = "closed"
    /\ state[c] = "connecting" => state'[c] # "none"
    /\ \A x \in Subdomains :
          tunnels[x] = c => tunnels'[x] = c \/ pc'[c] = "done"
    /\ pc[c] = "done" => pc'[c] = "done"

LEMMA SessionsMoveOn ==
    ASSUME IInv, [Next]_vars
    PROVE  \A d \in Sessions : MovesOn(d)
<1> SUFFICES ASSUME NEW d \in Sessions PROVE MovesOn(d)
  OBVIOUS
<1> USE DEF IInv, TypeOK, SessionTypeOK, SessionStates, RegistryTypeOK,
            ControlPlaneTypeOK, HandlerSteps, StateFollowsHandler, OneCloser,
            MovesOn, GoTo, sessionVars, registryVars, cpVars
<1>1. ASSUME NEW c \in Sessions, HandlerStep(c), UNCHANGED proxyVars
      PROVE  MovesOn(d)
  <2>1. CASE HandshakeError(c) BY <2>1 DEF HandshakeError, LeaveHandshake
  <2>2. CASE HandshakeTimeout(c) BY <2>2 DEF HandshakeTimeout, LeaveHandshake
  <2>3. CASE RegisterTunnels(c)
    BY <2>3, <1>1, RegistryAssumption DEF RegisterTunnels, Register,
       Grantable
  <2>4. CASE RefuseSession(c)
    BY <2>4, <1>1 DEF RefuseSession, CloseAndReturn, CloseWins,
       MuxAfterReturn, FinishClose
  <2>5. CASE SendResponse(c) BY <2>5 DEF SendResponse
  <2>6. CASE AbortSession(c)
    BY <2>6, <1>1, RegistryAssumption DEF AbortSession, CloseAndReturn,
       CloseWins, MuxAfterReturn, Unregister, FinishClose
  <2>7. CASE StoreSession(c) BY <2>7 DEF StoreSession
  <2>8. CASE ActivateSession(c) BY <2>8 DEF ActivateSession, SetState
  <2>9. CASE LeaveServe(c) BY <2>9 DEF LeaveServe
  <2>10. CASE HandlerClose(c) BY <2>10 DEF HandlerClose, BeginClose, CloseWins
  <2>11. CASE HandlerCloseMux(c) BY <2>11 DEF HandlerCloseMux, FinishClose
  <2>12. CASE ForgetSession(c) BY <2>12 DEF ForgetSession
  <2>13. CASE UnregisterSession(c)
    BY <2>13, <1>1, RegistryAssumption DEF UnregisterSession,
       MuxAfterReturn, Unregister
  <2> QED
    BY <1>1, <2>1, <2>2, <2>3, <2>4, <2>5, <2>6, <2>7, <2>8, <2>9, <2>10,
       <2>11, <2>12, <2>13 DEF HandlerStep, ServeCancelled,
       ServeContextDone, TickClosed, TickIdle
<1>2. ASSUME NEW c \in Sessions, ClientStep(c), UNCHANGED proxyVars
      PROVE  MovesOn(d)
  <2>1. CASE Accept(c) BY <2>1 DEF Accept
  <2>2. CASE \E names \in SUBSET Subdomains : ReadHandshake(c, names)
    BY <2>2 DEF ReadHandshake, NewSession
  <2>3. CASE RejectHandshake(c) BY <2>3 DEF RejectHandshake, LeaveHandshake
  <2> QED
    BY <1>2, <2>1, <2>2, <2>3 DEF ClientStep
<1>3. ASSUME NEW c \in Sessions, StopperStep(c), UNCHANGED proxyVars
      PROVE  MovesOn(d)
  <2>1. CASE StopperClose(c) BY <2>1 DEF StopperClose, BeginClose, CloseWins
  <2>2. CASE StopperCloseMux(c) BY <2>2 DEF StopperCloseMux, FinishClose
  <2> QED
    BY <1>3, <2>1, <2>2 DEF StopperStep
<1>4. ASSUME NEW c \in Sessions, NoticeStep(c), UNCHANGED proxyVars
      PROVE  MovesOn(d)
  <2>1. CASE NotifyShutdown(c) BY <2>1 DEF NotifyShutdown
  <2>2. CASE SendShutdown(c) BY <2>2 DEF SendShutdown, UpdateActivity
  <2>3. CASE ShutdownNotSent(c) BY <2>3 DEF ShutdownNotSent
  <2> QED
    BY <1>4, <2>1, <2>2, <2>3 DEF NoticeStep
<1>5. ASSUME NEW c \in Sessions, EnvironmentStep(c), UNCHANGED proxyVars
      PROVE  MovesOn(d)
    BY <1>5 DEF EnvironmentStep, LoseConnection, NoticeLoss, GrowIdle
<1>6. ASSUME StopServer \/ StopStep, UNCHANGED proxyVars
      PROVE  MovesOn(d)
    BY <1>6 DEF StopServer, StopStep, StopControlPlane, CancelControlPlane,
       EndAccepting, StopGracefully, StopTimesOut
<1>7. ASSUME NEW r \in Requests, RequestStep(r) \/ PublicStep(r)
      PROVE  MovesOn(d)
    BY <1>7, RequestFrame
<1>8. CASE UNCHANGED vars
    BY <1>8 DEF vars, proxyVars
<1> QED
  BY <1>1, <1>2, <1>3, <1>4, <1>5, <1>6, <1>7, <1>8 DEF Next

(* The entry a request holds against the session it points to. *)
LEMMA NextEntryStays ==
    ASSUME IInv, [Next]_vars
    PROVE  EntryStays'
<1> SUFFICES ASSUME NEW q \in Requests PROVE EntryOf(q)'
  BY DEF EntryStays
<1>1. \A c \in Sessions : MovesOn(c)
  BY SessionsMoveOn
<1>2. EntryOf(q)
  BY DEF IInv, EntryStays
<1>3. /\ rpc \in [Requests -> RequestSteps]
      /\ entry \in [Requests -> Entries \cup {NoEntry}]
      /\ tunnels \in [Subdomains -> Sessions \cup {NoSession}]
  BY DEF IInv, TypeOK, ProxyTypeOK, RegistryTypeOK
<1>4. CASE UNCHANGED <<rpc[q], entry[q]>>
  BY <1>1, <1>2, <1>4 DEF EntryOf, MovesOn, Entries
<1>5. ASSUME NEW r \in Requests, RequestStep(r), ~ UNCHANGED <<rpc[q], entry[q]>>
      PROVE  EntryOf(q)'
  <2> USE DEF EntryOf, Entries, Step
  <2>1. CASE LookupHit(r)
    <3> DEFINE x == Head(keys[r])
    <3>1. x \in Subdomains
      <4>1. keys[r] \in Seq(Subdomains) /\ keys[r] # <<>>
        BY <2>1 DEF LookupHit, IInv, TypeOK, ProxyTypeOK
      <4> QED
        BY <4>1
    <3>2. tunnels[x] \in Sessions /\ tunnels'[x] = tunnels[x]
      BY <2>1, <3>1, <1>3 DEF LookupHit, Registered, registryVars
    <3>3. r = q
      BY <2>1, <1>3, <1>5 DEF LookupHit
    <3>4. rpc'[q] = "check" /\ entry'[q] = [subdomain |-> x, session |-> tunnels[x]]
      BY <2>1, <3>3, <1>3 DEF LookupHit
    <3>5. x \in Claimable[tunnels[x]]
      BY <3>1, <3>2 DEF IInv, HolderWillRelease
    <3> QED
      BY <3>1, <3>2, <3>4, <3>5
  <2>2. CASE \/ LookupMiss(r) \/ NotFound(r)
             \/ OpenFails(r) \/ HeaderFails(r) \/ StreamClosed(r)
    BY <2>2, <1>3, <1>5 DEF LookupMiss, NotFound, OpenFails, HeaderFails, StreamClosed
  <2>3. CASE CheckActive(r)
    BY <2>3, <1>2, <1>3, <1>5 DEF CheckActive, IsActive, registryVars, cpVars, sessionVars
  <2>4. CASE ProxyRequest(r)
    BY <2>4, <1>2, <1>3, <1>5 DEF ProxyRequest, registryVars, cpVars, sessionVars
  <2>5. CASE OpenStream(r)
    BY <2>5, <1>2, <1>3, <1>5 DEF OpenStream, registryVars, cpVars
  <2> QED
    BY <1>5, <2>1, <2>2, <2>3, <2>4, <2>5 DEF RequestStep
<1>6. ASSUME NEW r \in Requests, PublicStep(r), ~ UNCHANGED <<rpc[q], entry[q]>>
      PROVE  EntryOf(q)'
  <2>1. CASE Upgrade(r)
    BY <2>1, <1>2, <1>3, <1>6 DEF EntryOf, Entries, Upgrade, Step, registryVars, cpVars,
       sessionVars
  <2>2. CASE ~Upgrade(r)
    BY <2>2, <1>3, <1>6 DEF EntryOf, PublicStep, Arrive, ResponseForwarded, StreamReset,
       UpgradeEnds, Step
  <2> QED
    BY <2>1, <2>2
<1>7. CASE UNCHANGED proxyVars \/ UNCHANGED vars
  BY <1>4, <1>7 DEF vars, proxyVars
<1> QED
  BY <1>4, <1>5, <1>6, <1>7 DEF Next

-------------------------------------------------------------------------------

LEMMA NextIInv ==
    ASSUME IInv, [Next]_vars
    PROVE  IInv'
BY NextTypeOK, NextState, NextRegistry, NextEntryStays DEF IInv

(* IInv is an invariant of the server. *)
THEOREM Inductive == Spec => []IInv
<1>1. Init => IInv
  BY InitIInv
<1>2. IInv /\ [Next]_vars => IInv'
  BY NextIInv
<1> QED
  BY <1>1, <1>2, PTL DEF Spec

(* Every variable keeps its type: in particular a request that goes on has a
   tunnel entry with a session in it. *)
THEOREM TypeCorrect == Spec => []TypeOK
<1>1. IInv => TypeOK
  BY DEF IInv
<1> QED
  BY Inductive, <1>1, PTL

(* No way out of handleConnection leaves a name registered. *)
THEOREM NamesAreReleased == Spec => []HolderWillRelease
<1>1. IInv => HolderWillRelease
  BY DEF IInv
<1> QED
  BY Inductive, <1>1, PTL

(* The handler and the goroutines of Stop never close one session twice. *)
THEOREM ClosedOnce == Spec => []OneCloser
<1>1. IInv => OneCloser
  BY DEF IInv
<1> QED
  BY Inductive, <1>1, PTL

(* Registry.sessions keeps no session that ever was active; the handler of an active
   session, and of every WebSocket, ends with its connection closed, or with a
   goroutine of Stop closing it. *)
THEOREM LeakIsBounded == Spec => []OnlyRefusalsRemain
<1>1. IInv => OnlyRefusalsRemain
  BY DEF IInv, OnlyRefusalsRemain
<1> QED
  BY Inductive, <1>1, PTL

(* A session that takes requests is stored and has a name. *)
THEOREM ActiveSessionsTracked == Spec => []ActiveIsTracked
<1>1. ASSUME IInv PROVE ActiveIsTracked
  <2> SUFFICES ASSUME NEW c \in Sessions, IsActive(c)
               PROVE  c \in cpSessions /\ GetTunnelsForSession(c) # {}
    BY DEF ActiveIsTracked
  <2>1. pc[c] \in {"serve", "close"}
    BY <1>1 DEF IInv, TypeOK, ControlPlaneTypeOK, HandlerSteps,
                StateFollowsHandler, OneCloser, IsActive
  <2> QED
    BY <1>1, <2>1 DEF IInv, TracksHandlers, Stored, Holding, GetTunnelsForSession
<1> QED
  BY Inductive, <1>1, PTL

(* A graceful stop leaves nothing to use, to find or to route to. *)
THEOREM StopIsComplete == Spec => []StopComplete
<1>1. ASSUME IInv PROVE StopComplete
  <2> SUFFICES ASSUME phase = "stopped"
               PROVE  /\ cpSessions = {}
                      /\ \A x \in Subdomains : ~Registered(x)
                      /\ \A c \in Sessions : ~IsActive(c)
    BY DEF StopComplete
  <2>1. \A c \in Sessions : pc[c] \in {"idle", "done"}
    BY <1>1 DEF IInv, TracksHandlers, HandlersReturned
  <2>2. cpSessions = {}
    BY <1>1, <2>1 DEF IInv, TypeOK, ControlPlaneTypeOK, TracksHandlers, Stored
  <2>3. \A x \in Subdomains : ~Registered(x)
    BY <1>1, <2>1 DEF IInv, TypeOK, RegistryTypeOK, HolderWillRelease, Registered
  <2>4. \A c \in Sessions : ~IsActive(c)
    BY <1>1, <2>1 DEF IInv, StateFollowsHandler, IsActive
  <2> QED
    BY <2>2, <2>3, <2>4
<1> QED
  BY Inductive, <1>1, PTL

(* Between the lookup and the open the session may end and its name may be
   granted again; the stream is open on the holder of the name all the same.
   Suppose the handler of the session has returned.  Past the checks the
   session was active once, so Close has seen it; a Close that has finished has
   shut yamux down, and one that has not is in a goroutine of Stop. *)
THEOREM StreamsAtHolder == Spec => []LiveStreamAtHolder
<1>1. ASSUME IInv PROVE LiveStreamAtHolder
  <2> SUFFICES ASSUME NEW r \in Requests, NEW c \in Sessions, InFlight(r, c),
                      ~IsClosed(c), stopper[c] # "closemux"
               PROVE  tunnels[entry[r].subdomain] = c
    BY DEF LiveStreamAtHolder
  <2>1. tunnels[entry[r].subdomain] = c \/ pc[c] = "done"
    BY <1>1 DEF IInv, EntryStays, EntryOf, InFlight
  <2>2. state[c] \in {"active", "closing", "closed"}
    BY <1>1 DEF IInv, EntryStays, EntryOf, InFlight
  <2>3. state[c] # "closed"
    BY <1>1 DEF IInv, StateFollowsHandler
  <2>4. state[c] = "closing" => pc[c] = "closemux"
    BY <1>1 DEF IInv, OneCloser
  <2>5. pc[c] = "done" => state[c] # "active"
    BY <1>1 DEF IInv, StateFollowsHandler
  <2> QED
    BY <2>1, <2>2, <2>3, <2>4, <2>5
<1> QED
  BY Inductive, <1>1, PTL

(* A server at rest has no entry, no stored session and no stream but those of
   sessions that are served; after Stop it has none, but for WebSockets that are cut off
   from theirs. *)
THEOREM AlwaysSettlesClean == Spec => []SettlesClean
<1>1. ASSUME IInv, LiveStreamAtHolder, AtRest
      PROVE  /\ \A x \in Subdomains :
                   Registered(x) => IsActive(tunnels[x]) /\ mux[tunnels[x]] = "up"
             /\ cpSessions = {c \in Sessions : IsActive(c)}
             /\ \A r \in Requests, c \in Sessions :
                   InFlight(r, c) /\ ~IsClosed(c) => tunnels[entry[r].subdomain] = c
             /\ Cancelled =>
                   /\ HandlersReturned
                   /\ \A r \in Requests, c \in Sessions :
                         InFlight(r, c) => rpc[r] = "upgraded" /\ IsClosed(c)
  <2>1. \A c \in Sessions :
            /\ pc[c] \in {"idle", "handshake", "serve", "done"}
            /\ pc[c] = "serve" <=> IsActive(c)
            /\ pc[c] = "serve" => mux[c] = "up" /\ ~Cancelled
    BY <1>1 DEF AtRest, IInv, TypeOK, SessionTypeOK, SessionStates, StateFollowsHandler,
                IsActive, ContextDone, IsClosed
  <2>2. \A x \in Subdomains :
            Registered(x) => tunnels[x] \in Sessions /\ pc[tunnels[x]] = "serve"
    <3> SUFFICES ASSUME NEW x \in Subdomains, Registered(x)
                 PROVE  tunnels[x] \in Sessions /\ pc[tunnels[x]] = "serve"
      OBVIOUS
    <3>1. tunnels[x] \in Sessions
      BY <1>1 DEF IInv, TypeOK, RegistryTypeOK, Registered
    <3> QED
      BY <1>1, <2>1, <3>1 DEF IInv, HolderWillRelease
  <2>3. cpSessions = {c \in Sessions : IsActive(c)}
    BY <1>1, <2>1 DEF IInv, TypeOK, ControlPlaneTypeOK, TracksHandlers, Stored
  <2>4. \A r \in Requests, c \in Sessions :
            InFlight(r, c) /\ ~IsClosed(c) => /\ entry[r].subdomain \in Subdomains
                                             /\ tunnels[entry[r].subdomain] = c
    <3> SUFFICES ASSUME NEW r \in Requests, NEW c \in Sessions,
                        InFlight(r, c), ~IsClosed(c)
                 PROVE  /\ entry[r].subdomain \in Subdomains
                        /\ tunnels[entry[r].subdomain] = c
      OBVIOUS
    <3>1. entry[r].subdomain \in Subdomains
      BY <1>1 DEF IInv, EntryStays, EntryOf, Entries, InFlight
    <3>2. stopper[c] # "closemux"
      BY <1>1 DEF AtRest
    <3> QED
      BY <1>1, <3>1, <3>2 DEF LiveStreamAtHolder
  <2>5. Cancelled => HandlersReturned
    <3>1. Cancelled => Transport = "tcp"
      BY <1>1 DEF IInv, TracksHandlers, Cancelled
    <3> QED
      BY <1>1, <2>1, <3>1 DEF AtRest, HandlersReturned
  <2>6. ASSUME Cancelled, NEW r \in Requests, NEW c \in Sessions, InFlight(r, c)
        PROVE  rpc[r] = "upgraded" /\ IsClosed(c)
    <3>1. IsClosed(c)
      BY <2>1, <2>2, <2>4, <2>6, RegistryAssumption DEF Registered
    <3> QED
      BY <1>1, <2>6, <3>1 DEF AtRest, RequestOver, InFlight
  <2> QED
    BY <2>1, <2>2, <2>3, <2>4, <2>5, <2>6
<1>2. IInv /\ LiveStreamAtHolder => SettlesClean
  BY <1>1 DEF SettlesClean
<1> QED
  BY Inductive, StreamsAtHolder, <1>2, PTL

(* No store to the atomic SessionState moves it back. *)
THEOREM StateOnlyAdvances == Spec => StateMovesForward
<1>1. ASSUME IInv, [Next]_vars
      PROVE  \A c \in Sessions : Age(state'[c]) >= Age(state[c])
  <2>1. \A c \in Sessions : MovesOn(c)
    BY <1>1, SessionsMoveOn
  <2>2. \A c \in Sessions : state[c] \in SessionStates /\ state'[c] \in SessionStates
    BY <1>1, NextIInv DEF IInv, TypeOK, SessionTypeOK
  <2> QED
    BY <2>1, <2>2 DEF MovesOn, Age, SessionStates
<1> QED
  BY Inductive, <1>1, PTL DEF Spec, StateMovesForward

===============================================================================
