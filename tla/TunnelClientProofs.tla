-------------------------- MODULE TunnelClientProofs --------------------------
(***************************************************************************)
(* Proofs about TunnelClient, for any number of streams and dials: the     *)
(* inductive invariant ClientInv, what follows from it, and that the       *)
(* client implements ClientLink.                                           *)
(***************************************************************************)
EXTENDS TunnelClient, TLAPS

(* Connect keeps the invariant: nothing is open until the dial, and what it
   assigns afterwards is the latest connection. *)
LEMMA ConnectKeeps ==
    ASSUME ClientInv, ConnectStep
    PROVE  ClientInv'
<1> USE ClientAssumption DEF ClientInv, linkState, ctxState, loopState, streamState
<1>1. CASE StartConnect
  <2>1. TypeOK'
    BY <1>1 DEF TypeOK, TunnelStates, Dials, StartConnect
  <2>2. CallsInv' /\ AssignedInv' /\ OpenInv'
    BY <1>1 DEF TypeOK, Dials, CallsInv, Called, AssignedInv, OpenInv, StartConnect
  <2>3. CountInv' /\ EndInv'
    BY <1>1 DEF TypeOK, CallsInv, Called, CountInv, BackoffStartsOver, EndInv, Handling,
           StartConnect
  <2> QED BY <2>1, <2>2, <2>3
<1>2. CASE DialSucceeds
  <2>1. TypeOK'
    BY <1>2 DEF TypeOK, TunnelStates, Dials, DialSucceeds
  <2>2. CallsInv' /\ AssignedInv' /\ OpenInv'
    BY <1>2 DEF TypeOK, Dials, CallsInv, Called, AssignedInv, OpenInv, DialSucceeds
  <2>3. CountInv' /\ EndInv'
    BY <1>2 DEF TypeOK, CallsInv, Called, CountInv, BackoffStartsOver, EndInv, Handling,
           DialSucceeds
  <2> QED BY <2>1, <2>2, <2>3
<1>3. CASE DialFails
  <2>1. TypeOK'
    BY <1>3 DEF TypeOK, TunnelStates, Dials, DialFails, ReturnFromConnect
  <2>2. CallsInv' /\ AssignedInv' /\ OpenInv'
    BY <1>3 DEF TypeOK, Dials, CallsInv, Called, AssignedInv, OpenInv, DialFails, ReturnFromConnect
  <2>3. CountInv' /\ EndInv'
    BY <1>3 DEF TypeOK, CallsInv, Called, CountInv, BackoffStartsOver, EndInv, Handling,
           DialFails, ReturnFromConnect
  <2> QED BY <2>1, <2>2, <2>3
<1>4. CASE AssignConn
  <2>1. TypeOK'
    BY <1>4 DEF TypeOK, TunnelStates, Dials, AssignConn
  <2>2. CallsInv' /\ AssignedInv' /\ OpenInv'
    BY <1>4 DEF TypeOK, Dials, CallsInv, Called, AssignedInv, OpenInv, AssignConn
  <2>3. CountInv' /\ EndInv'
    BY <1>4 DEF TypeOK, CallsInv, Called, CountInv, BackoffStartsOver, EndInv, Handling,
           AssignConn
  <2> QED BY <2>1, <2>2, <2>3
<1>5. CASE AssignMux
  <2>1. TypeOK'
    BY <1>5 DEF TypeOK, TunnelStates, Dials, AssignMux
  <2>2. CallsInv' /\ AssignedInv' /\ OpenInv'
    BY <1>5 DEF TypeOK, Dials, CallsInv, Called, AssignedInv, OpenInv, AssignMux
  <2>3. CountInv' /\ EndInv'
    BY <1>5 DEF TypeOK, CallsInv, Called, CountInv, BackoffStartsOver, EndInv, Handling,
           AssignMux
  <2> QED BY <2>1, <2>2, <2>3
<1>6. CASE HandshakeAccepted
  <2>1. TypeOK'
    BY <1>6 DEF TypeOK, TunnelStates, Dials, HandshakeAccepted
  <2>2. CallsInv' /\ AssignedInv' /\ OpenInv'
    BY <1>6 DEF TypeOK, Dials, CallsInv, Called, AssignedInv, OpenInv, HandshakeAccepted
  <2>3. CountInv' /\ EndInv'
    BY <1>6 DEF TypeOK, CallsInv, Called, CountInv, BackoffStartsOver, EndInv, Handling,
           HandshakeAccepted
  <2> QED BY <2>1, <2>2, <2>3
<1>7. CASE HandshakeFails
  <2>1. TypeOK'
    BY <1>7 DEF TypeOK, TunnelStates, Dials, HandshakeFails
  <2>2. CallsInv' /\ AssignedInv' /\ OpenInv'
    BY <1>7 DEF TypeOK, Dials, CallsInv, Called, AssignedInv, OpenInv, HandshakeFails
  <2>3. CountInv' /\ EndInv'
    BY <1>7 DEF TypeOK, CallsInv, Called, CountInv, BackoffStartsOver, EndInv, Handling,
           HandshakeFails
  <2> QED BY <2>1, <2>2, <2>3
<1>8. CASE CloseRefused
  <2>1. TypeOK'
    BY <1>8 DEF TypeOK, TunnelStates, Dials, CloseRefused
  <2>2. CallsInv' /\ AssignedInv' /\ OpenInv'
    BY <1>8 DEF TypeOK, Dials, CallsInv, Called, AssignedInv, OpenInv, CloseRefused
  <2>3. CountInv' /\ EndInv'
    BY <1>8 DEF TypeOK, CallsInv, Called, CountInv, BackoffStartsOver, EndInv, Handling,
           CloseRefused
  <2> QED BY <2>1, <2>2, <2>3
<1>9. CASE FailConnect
  <2>1. TypeOK'
    BY <1>9 DEF TypeOK, TunnelStates, Dials, FailConnect, ReturnFromConnect
  <2>2. CallsInv' /\ AssignedInv' /\ OpenInv'
    BY <1>9 DEF TypeOK, Dials, CallsInv, Called, AssignedInv, OpenInv, FailConnect, ReturnFromConnect
  <2>3. CountInv' /\ EndInv'
    BY <1>9 DEF TypeOK, CallsInv, Called, CountInv, BackoffStartsOver, EndInv, Handling,
           FailConnect, ReturnFromConnect
  <2> QED BY <2>1, <2>2, <2>3
<1>10. CASE FinishConnect
  <2>1. TypeOK'
    BY <1>10 DEF TypeOK, TunnelStates, Dials, FinishConnect, ReturnFromConnect
  <2>2. CallsInv' /\ AssignedInv' /\ OpenInv'
    BY <1>10 DEF TypeOK, Dials, CallsInv, Called, AssignedInv, OpenInv, FinishConnect, ReturnFromConnect
  <2>3. CountInv' /\ EndInv'
    BY <1>10 DEF TypeOK, CallsInv, Called, CountInv, BackoffStartsOver, EndInv, Handling,
           FinishConnect, ReturnFromConnect
  <2> QED BY <2>1, <2>2, <2>3
<1> QED BY <1>1, <1>2, <1>3, <1>4, <1>5, <1>6, <1>7, <1>8, <1>9, <1>10 DEF ConnectStep

(* The accept loop keeps the invariant: it reconnects only once the session has
   ended, and with it the connection. *)
LEMMA LoopKeeps ==
    ASSUME ClientInv, LoopStep
    PROVE  ClientInv'
<1> USE ClientAssumption DEF ClientInv, linkState, ctxState, loopState, streamState
<1>1. CASE LoopTop
  <2>1. TypeOK'
    BY <1>1 DEF TypeOK, TunnelStates, Dials, LoopTop, LoopGoes
  <2>2. CallsInv' /\ AssignedInv' /\ OpenInv'
    BY <1>1 DEF TypeOK, Dials, CallsInv, Called, AssignedInv, OpenInv, LoopTop, LoopGoes
  <2>3. CountInv' /\ EndInv'
    BY <1>1 DEF TypeOK, CallsInv, Called, CountInv, BackoffStartsOver, EndInv, Handling,
           LoopTop, LoopGoes
  <2> QED BY <2>1, <2>2, <2>3
<1>2. CASE LoopCheck
  <2>1. TypeOK'
    BY <1>2 DEF TypeOK, TunnelStates, Dials, LoopCheck, LoopGoes
  <2>2. CallsInv' /\ AssignedInv' /\ OpenInv'
    BY <1>2 DEF TypeOK, Dials, CallsInv, Called, AssignedInv, OpenInv, LoopCheck, LoopGoes
  <2>3. CountInv' /\ EndInv'
    BY <1>2 DEF TypeOK, CallsInv, Called, CountInv, BackoffStartsOver, EndInv, Handling,
           LoopCheck, LoopGoes
  <2> QED BY <2>1, <2>2, <2>3
<1>3. CASE BeginReconnect
  <2>1. TypeOK'
    BY <1>3 DEF TypeOK, TunnelStates, Dials, BeginReconnect, NextDelay, LoopGoes
  <2>2. CallsInv' /\ AssignedInv' /\ OpenInv'
    BY <1>3 DEF TypeOK, Dials, CallsInv, Called, AssignedInv, OpenInv, BeginReconnect, NextDelay, LoopGoes
  <2>3. CountInv' /\ EndInv'
    BY <1>3 DEF TypeOK, CallsInv, Called, CountInv, BackoffStartsOver, EndInv, Handling,
           BeginReconnect, NextDelay, LoopGoes
  <2> QED BY <2>1, <2>2, <2>3
<1>4. CASE DelayPasses
  <2>1. TypeOK'
    BY <1>4 DEF TypeOK, TunnelStates, Dials, DelayPasses, LoopGoes
  <2>2. CallsInv' /\ AssignedInv' /\ OpenInv'
    BY <1>4 DEF TypeOK, Dials, CallsInv, Called, AssignedInv, OpenInv, DelayPasses, LoopGoes
  <2>3. CountInv' /\ EndInv'
    BY <1>4 DEF TypeOK, CallsInv, Called, CountInv, BackoffStartsOver, EndInv, Handling,
           DelayPasses, LoopGoes
  <2> QED BY <2>1, <2>2, <2>3
<1>5. CASE DelayCancelled
  <2>1. TypeOK'
    BY <1>5 DEF TypeOK, TunnelStates, Dials, DelayCancelled, LoopGoes
  <2>2. CallsInv' /\ AssignedInv' /\ OpenInv'
    BY <1>5 DEF TypeOK, Dials, CallsInv, Called, AssignedInv, OpenInv, DelayCancelled, LoopGoes
  <2>3. CountInv' /\ EndInv'
    BY <1>5 DEF TypeOK, CallsInv, Called, CountInv, BackoffStartsOver, EndInv, Handling,
           DelayCancelled, LoopGoes
  <2> QED BY <2>1, <2>2, <2>3
<1>6. CASE AwaitSession
  <2>1. TypeOK'
    BY <1>6 DEF TypeOK, TunnelStates, Dials, AwaitSession, LoopGoes
  <2>2. CallsInv' /\ AssignedInv' /\ OpenInv'
    BY <1>6 DEF TypeOK, Dials, CallsInv, Called, AssignedInv, OpenInv, AwaitSession, LoopGoes
  <2>3. CountInv' /\ EndInv'
    BY <1>6 DEF TypeOK, CallsInv, Called, CountInv, BackoffStartsOver, EndInv, Handling,
           AwaitSession, LoopGoes
  <2> QED BY <2>1, <2>2, <2>3
<1>7. ASSUME NEW s \in Streams, AcceptStream(s) PROVE ClientInv'
  <2>1. TypeOK'
    BY <1>7 DEF TypeOK, TunnelStates, Dials, AcceptStream, LoopGoes
  <2>2. CallsInv' /\ AssignedInv' /\ OpenInv'
    BY <1>7 DEF TypeOK, Dials, CallsInv, Called, AssignedInv, OpenInv, AcceptStream, LoopGoes
  <2>3. CountInv' /\ EndInv'
    BY <1>7 DEF TypeOK, CallsInv, Called, CountInv, BackoffStartsOver, EndInv, Handling,
           AcceptStream, LoopGoes
  <2> QED BY <2>1, <2>2, <2>3
<1>8. CASE AcceptFails
  <2>1. TypeOK'
    BY <1>8 DEF TypeOK, TunnelStates, Dials, AcceptFails, LoopGoes
  <2>2. CallsInv' /\ AssignedInv' /\ OpenInv'
    BY <1>8 DEF TypeOK, Dials, CallsInv, Called, AssignedInv, OpenInv, AcceptFails, LoopGoes
  <2>3. CountInv' /\ EndInv'
    BY <1>8 DEF TypeOK, CallsInv, Called, CountInv, BackoffStartsOver, EndInv, Handling,
           AcceptFails, LoopGoes
  <2> QED BY <2>1, <2>2, <2>3
<1>9. CASE CheckError
  <2>1. TypeOK'
    BY <1>9 DEF TypeOK, TunnelStates, Dials, CheckError, LoopGoes
  <2>2. CallsInv' /\ AssignedInv' /\ OpenInv'
    BY <1>9 DEF TypeOK, Dials, CallsInv, Called, AssignedInv, OpenInv, CheckError, LoopGoes
  <2>3. CountInv' /\ EndInv'
    BY <1>9 DEF TypeOK, CallsInv, Called, CountInv, BackoffStartsOver, EndInv, Handling,
           CheckError, LoopGoes
  <2> QED BY <2>1, <2>2, <2>3
<1>10. CASE ConnectionLost
  <2>1. TypeOK'
    BY <1>10 DEF TypeOK, TunnelStates, Dials, ConnectionLost, LoopGoes
  <2>2. CallsInv' /\ AssignedInv' /\ OpenInv'
    BY <1>10 DEF TypeOK, Dials, CallsInv, Called, AssignedInv, OpenInv, ConnectionLost, LoopGoes
  <2>3. CountInv' /\ EndInv'
    BY <1>10 DEF TypeOK, CallsInv, Called, CountInv, BackoffStartsOver, EndInv, Handling,
           ConnectionLost, LoopGoes
  <2> QED BY <2>1, <2>2, <2>3
<1> QED BY <1>1, <1>2, <1>3, <1>4, <1>5, <1>6, <1>7, <1>8, <1>9, <1>10 DEF LoopStep

(* Close keeps the invariant: what it finds assigned it closes, and what is open
   after that is still in the hands of Connect, or was connected later. *)
LEMMA CloseKeeps ==
    ASSUME ClientInv, CloseStep
    PROVE  ClientInv'
<1> USE ClientAssumption DEF ClientInv, linkState, ctxState, loopState, streamState
<1>1. CASE MarkClosed
  <2>1. TypeOK'
    BY <1>1 DEF TypeOK, TunnelStates, Dials, MarkClosed, RunGoes
  <2>2. CallsInv' /\ AssignedInv' /\ OpenInv'
    BY <1>1 DEF TypeOK, Dials, CallsInv, Called, AssignedInv, OpenInv, MarkClosed, RunGoes
  <2>3. CountInv' /\ EndInv'
    BY <1>1 DEF TypeOK, CallsInv, Called, CountInv, BackoffStartsOver, EndInv, Handling,
           MarkClosed, RunGoes
  <2> QED BY <2>1, <2>2, <2>3
<1>2. CASE Cancel
  <2>1. TypeOK'
    BY <1>2 DEF TypeOK, TunnelStates, Dials, Cancel, RunGoes
  <2>2. CallsInv' /\ AssignedInv' /\ OpenInv'
    BY <1>2 DEF TypeOK, Dials, CallsInv, Called, AssignedInv, OpenInv, Cancel, RunGoes
  <2>3. CountInv' /\ EndInv'
    BY <1>2 DEF TypeOK, CallsInv, Called, CountInv, BackoffStartsOver, EndInv, Handling,
           Cancel, RunGoes
  <2> QED BY <2>1, <2>2, <2>3
<1>3. CASE CloseRouter
  <2>1. TypeOK'
    BY <1>3 DEF TypeOK, TunnelStates, Dials, CloseRouter, RunGoes
  <2>2. CallsInv' /\ AssignedInv' /\ OpenInv'
    BY <1>3 DEF TypeOK, Dials, CallsInv, Called, AssignedInv, OpenInv, CloseRouter, RunGoes
  <2>3. CountInv' /\ EndInv'
    BY <1>3 DEF TypeOK, CallsInv, Called, CountInv, BackoffStartsOver, EndInv, Handling,
           CloseRouter, RunGoes
  <2> QED BY <2>1, <2>2, <2>3
<1>4. CASE CloseMux
  <2>1. TypeOK'
    BY <1>4 DEF TypeOK, TunnelStates, Dials, CloseMux, RunGoes
  <2>2. CallsInv' /\ AssignedInv' /\ OpenInv'
    BY <1>4 DEF TypeOK, Dials, CallsInv, Called, AssignedInv, OpenInv, CloseMux, RunGoes
  <2>3. CountInv' /\ EndInv'
    BY <1>4 DEF TypeOK, CallsInv, Called, CountInv, BackoffStartsOver, EndInv, Handling,
           CloseMux, RunGoes
  <2> QED BY <2>1, <2>2, <2>3
<1>5. CASE CloseConn
  <2>1. TypeOK'
    BY <1>5 DEF TypeOK, TunnelStates, Dials, CloseConn, RunGoes
  <2>2. CallsInv' /\ AssignedInv' /\ OpenInv'
    BY <1>5 DEF TypeOK, Dials, CallsInv, Called, AssignedInv, OpenInv, CloseConn, RunGoes
  <2>3. CountInv' /\ EndInv'
    BY <1>5 DEF TypeOK, CallsInv, Called, CountInv, BackoffStartsOver, EndInv, Handling,
           CloseConn, RunGoes
  <2> QED BY <2>1, <2>2, <2>3
<1>6. CASE WaitForGoroutines
  <2>1. TypeOK'
    BY <1>6 DEF TypeOK, TunnelStates, Dials, WaitForGoroutines, RunGoes
  <2>2. CallsInv' /\ AssignedInv' /\ OpenInv'
    BY <1>6 DEF TypeOK, Dials, CallsInv, Called, AssignedInv, OpenInv, WaitForGoroutines, RunGoes
  <2>3. CountInv' /\ EndInv'
    BY <1>6 DEF TypeOK, CallsInv, Called, CountInv, BackoffStartsOver, EndInv, Handling,
           WaitForGoroutines, RunGoes
  <2> QED BY <2>1, <2>2, <2>3
<1> QED BY <1>1, <1>2, <1>3, <1>4, <1>5, <1>6 DEF CloseStep

(* A handler changes nothing but where it is, and none starts after Close. *)
LEMMA HandlerKeeps ==
    ASSUME ClientInv, NEW s \in Streams, HandlerStep(s)
    PROVE  ClientInv'
<1> USE DEF ClientInv, linkState, ctxState, loopState
<1>1. /\ UNCHANGED <<state, linkState, ctxState, run, loopState, dialing, fresh, carrier>>
      /\ stream[s] \in {"header", "forward"}
      /\ \E to \in {"forward", "done"} : stream' = [stream EXCEPT ![s] = to]
  BY DEF HandlerStep, ReadHeader, HeaderFails, ForwardReturns, HandlerGoes
<1>2. TypeOK'
  BY <1>1 DEF TypeOK, Dials
<1>3. CallsInv' /\ AssignedInv' /\ OpenInv' /\ CountInv'
  BY <1>1 DEF CallsInv, Called, AssignedInv, OpenInv, CountInv, BackoffStartsOver
<1>4. EndInv'
  BY <1>1 DEF EndInv, Handling
<1> QED BY <1>2, <1>3, <1>4

(* So do the signal, the server and the network. *)
LEMMA EnvironmentKeeps ==
    ASSUME ClientInv,
           Signal \/ (\E s \in Streams : ServerOpens(s)) \/ LinkLost \/ UNCHANGED vars
    PROVE  ClientInv'
<1> USE ClientAssumption DEF ClientInv, linkState, ctxState, loopState, streamState
<1>1. CASE Signal
  <2>1. TypeOK'
    BY <1>1 DEF TypeOK, TunnelStates, Dials, Signal, RunGoes
  <2>2. CallsInv' /\ AssignedInv' /\ OpenInv' /\ CountInv' /\ EndInv'
    BY <1>1 DEF TypeOK, CallsInv, Called, AssignedInv, OpenInv, CountInv, BackoffStartsOver,
               EndInv, Signal, RunGoes
  <2> QED BY <2>1, <2>2
<1>2. ASSUME NEW s \in Streams, ServerOpens(s) PROVE ClientInv'
  <2>1. TypeOK'
    BY <1>2 DEF TypeOK, TunnelStates, Dials, ServerOpens
  <2>2. CallsInv' /\ AssignedInv' /\ OpenInv' /\ CountInv'
    BY <1>2 DEF CallsInv, Called, AssignedInv, OpenInv, CountInv, BackoffStartsOver, ServerOpens
  <2>3. EndInv'
    BY <1>2 DEF TypeOK, EndInv, Handling, ServerOpens
  <2> QED BY <2>1, <2>2, <2>3
<1>3. CASE LinkLost
  <2>1. TypeOK'
    BY <1>3 DEF TypeOK, TunnelStates, Dials, LinkLost
  <2>2. CallsInv' /\ AssignedInv' /\ OpenInv' /\ CountInv' /\ EndInv'
    BY <1>3 DEF TypeOK, CallsInv, Called, AssignedInv, OpenInv, CountInv, BackoffStartsOver,
               EndInv, Handling, LinkLost
  <2> QED BY <2>1, <2>2
<1>4. CASE UNCHANGED vars
  BY <1>4 DEF vars, TypeOK, CallsInv, Called, AssignedInv, OpenInv, CountInv, BackoffStartsOver,
             EndInv, Handling
<1> QED BY <1>1, <1>2, <1>3, <1>4

LEMMA InitialInv == Init => ClientInv
<1> SUFFICES ASSUME Init PROVE ClientInv
  OBVIOUS
<1>1. TypeOK
  <2>1. 0 \in Dials /\ 0 \in 0 .. MaxCount
    BY ClientAssumption DEF Dials
  <2>2. stream \in [Streams -> {"none", "queued", "header", "forward", "done"}]
    BY DEF Init
  <2>3. carrier \in [Streams -> Dials]
    BY <2>1 DEF Init
  <2>4. reconnect \in BOOLEAN /\ ctxDone \in BOOLEAN
    BY DEF Init
  <2> QED BY <2>1, <2>2, <2>3, <2>4 DEF Init, TypeOK, TunnelStates
<1>2. CallsInv /\ AssignedInv /\ OpenInv /\ CountInv /\ EndInv
  BY DEF Init, CallsInv, Called, AssignedInv, OpenInv, CountInv, BackoffStartsOver, EndInv
<1> QED BY <1>1, <1>2 DEF ClientInv

(* Every step keeps the invariant. *)
LEMMA StepKeeps == ClientInv /\ [Next]_vars => ClientInv'
BY ConnectKeeps, LoopKeeps, CloseKeeps, HandlerKeeps, EnvironmentKeeps DEF Next

LEMMA InvAlways == Spec => []ClientInv
BY InitialInv, StepKeeps, PTL DEF Spec

-------------------------------------------------------------------------------
(* Who waits for whom. *)

LEMMA ConnectKeepsWaits ==
    ASSUME ClientInv, WaitInv, ConnectStep
    PROVE  WaitInv'
<1> USE ClientAssumption DEF ClientInv, TypeOK, Dials, CallsInv, Called, AssignedInv, CountInv,
            WaitInv, Handling, linkState, ctxState, loopState, streamState
<1>1. CASE StartConnect
  BY <1>1 DEF StartConnect
<1>2. CASE DialSucceeds
  BY <1>2 DEF DialSucceeds, OpenInv
<1>3. CASE AssignConn \/ HandshakeAccepted \/ HandshakeFails
  BY <1>3 DEF AssignConn, HandshakeAccepted, HandshakeFails
<1>4. CASE AssignMux
  BY <1>4 DEF AssignMux
<1>5. CASE CloseRefused
  BY <1>5 DEF CloseRefused
<1>6. CASE DialFails \/ FailConnect \/ FinishConnect
  BY <1>6 DEF DialFails, FailConnect, FinishConnect, ReturnFromConnect
<1> QED BY <1>1, <1>2, <1>3, <1>4, <1>5, <1>6 DEF ConnectStep

LEMMA LoopKeepsWaits ==
    ASSUME ClientInv, WaitInv, LoopStep
    PROVE  WaitInv'
<1> USE ClientAssumption DEF ClientInv, TypeOK, Dials, CallsInv, Called, AssignedInv, CountInv,
            WaitInv, Handling, LoopGoes, linkState, ctxState, loopState, streamState
<1>1. CASE LoopTop \/ LoopCheck \/ DelayPasses \/ DelayCancelled
  BY <1>1 DEF LoopTop, LoopCheck, DelayPasses, DelayCancelled
<1>2. CASE BeginReconnect
  BY <1>2 DEF BeginReconnect, NextDelay
<1>3. CASE AwaitSession \/ AcceptFails \/ CheckError \/ ConnectionLost
  BY <1>3 DEF AwaitSession, AcceptFails, CheckError, ConnectionLost
<1>4. ASSUME NEW s \in Streams, AcceptStream(s) PROVE WaitInv'
  BY <1>4 DEF AcceptStream
<1> QED BY <1>1, <1>2, <1>3, <1>4 DEF LoopStep

(* When Close closes the session, the handlers have that session or an older one. *)
LEMMA CloseKeepsWaits ==
    ASSUME ClientInv, WaitInv, CloseStep
    PROVE  WaitInv'
<1> USE ClientAssumption DEF ClientInv, TypeOK, Dials, CallsInv, Called, AssignedInv, CountInv,
            WaitInv, Handling, RunGoes, linkState, ctxState, loopState, streamState
<1>1. CASE MarkClosed \/ Cancel \/ CloseRouter
  BY <1>1 DEF MarkClosed, Cancel, CloseRouter
<1>2. CASE CloseMux
  <2>1. /\ run = "mux" /\ run' = "conn" /\ open' = open \ {mux}
        /\ UNCHANGED <<state, mux, dialed, ctxDone, loop, dialing, stream, carrier>>
    BY <1>2 DEF CloseMux
  <2>2. \/ open' = {}
        \/ dialing \in {"assign", "mux"} /\ open' \subseteq {dialed} /\ mux < dialed
    BY <2>1 DEF OpenInv
  <2>3. \A s \in Streams : carrier[s] \notin open'
    BY <2>2
  <2>4. loop \in {"check", "accept"} => open' = {}
    BY <2>1, <2>2
  <2> QED BY <2>1, <2>3, <2>4
<1>3. CASE CloseConn \/ WaitForGoroutines
  BY <1>3 DEF CloseConn, WaitForGoroutines
<1> QED BY <1>1, <1>2, <1>3 DEF CloseStep

LEMMA OthersKeepWaits ==
    ASSUME ClientInv, WaitInv,
           \/ \E s \in Streams : HandlerStep(s) \/ ServerOpens(s)
           \/ Signal \/ LinkLost \/ UNCHANGED vars
    PROVE  WaitInv'
<1> USE ClientAssumption DEF ClientInv, TypeOK, Dials, WaitInv, Handling,
            linkState, ctxState, loopState, streamState
<1>1. ASSUME NEW s \in Streams, HandlerStep(s) PROVE WaitInv'
  <2>1. /\ UNCHANGED <<state, linkState, ctxState, run, loopState, dialing, fresh, carrier>>
        /\ stream[s] \in {"header", "forward"}
        /\ \E to \in {"forward", "done"} : stream' = [stream EXCEPT ![s] = to]
    BY <1>1 DEF HandlerStep, ReadHeader, HeaderFails, ForwardReturns, HandlerGoes
  <2>2. Handling' \subseteq Handling
    BY <2>1
  <2> QED BY <2>1, <2>2
<1>2. ASSUME NEW s \in Streams, ServerOpens(s) PROVE WaitInv'
  BY <1>2 DEF ServerOpens
<1>3. CASE Signal
  BY <1>3 DEF Signal, RunGoes
<1>4. CASE LinkLost
  BY <1>4 DEF LinkLost
<1>5. CASE UNCHANGED vars
  BY <1>5 DEF vars
<1> QED BY <1>1, <1>2, <1>3, <1>4, <1>5

LEMMA WaitsAlways == Spec => [](ClientInv /\ WaitInv)
<1>1. Init => WaitInv
  BY DEF Init, WaitInv, Handling
<1>2. ClientInv /\ WaitInv /\ [Next]_vars => WaitInv'
  BY ConnectKeepsWaits, LoopKeepsWaits, CloseKeepsWaits, OthersKeepWaits DEF Next
<1> QED BY InvAlways, <1>1, <1>2, PTL DEF Spec

(* When every goroutine of the client waits, Run has returned or the client is
   connected. *)
THEOREM ClientNeverStuck == Spec => []NeverStuck
<1>1. ClientInv /\ WaitInv => NeverStuck
  <2> SUFFICES ASSUME ClientInv, WaitInv, AllWait PROVE
          \/ run \in {"done", "failed"}
          \/ run = "select" /\ loop = "accept" /\ state = "connected" /\ mux \in open
    BY DEF NeverStuck
  <2>1. CASE run = "wait"
    <3>1. loop = "done" \/ (loop = "accept" /\ mux \in open)
      BY <2>1 DEF AllWait, ClientInv, CallsInv
    <3>2. Handling = {}
      BY <2>1 DEF AllWait, WaitInv
    <3> QED BY <2>1, <3>1, <3>2 DEF AllWait, WaitInv
  <2>2. CASE run = "select"
    <3>1. loop = "accept" /\ mux \in open
      BY <2>2 DEF AllWait, ClientInv, CallsInv, CountInv, WaitInv
    <3>2. state = "connected"
      BY <2>2, <3>1 DEF AllWait, ClientInv, TypeOK, TunnelStates, OpenInv, WaitInv
    <3> QED BY <2>2, <3>1, <3>2
  <2> QED BY <2>1, <2>2 DEF AllWait
<1> QED BY WaitsAlways, <1>1, PTL

(* Every variable keeps its type. *)
THEOREM ClientTypeCorrect == Spec => []TypeOK
<1>1. ClientInv => TypeOK
  BY DEF ClientInv
<1> QED BY InvAlways, <1>1, PTL

(* No reconnection leaves an older connection open: at any moment at most the
   latest is, and Tunnel.conn or the running Connect holds it. *)
THEOREM NoOlderConnection == Spec => []OnlyLatestOpen
<1>1. ClientInv => OnlyLatestOpen
  BY DEF ClientInv, TypeOK, AssignedInv, OpenInv, OnlyLatestOpen
<1> QED BY InvAlways, <1>1, PTL

(* A tunnel that says connected has had its latest handshake accepted, and its
   three pointers agree. *)
THEOREM ConnectedOnlyAccepted == Spec => []ConnectedIsAccepted
<1>1. ClientInv => ConnectedIsAccepted
  BY DEF ClientInv, AssignedInv, ConnectedIsAccepted
<1> QED BY InvAlways, <1>1, PTL

(* The count of attempts is zero whenever the tunnel is connected. *)
THEOREM BackoffAlwaysStartsOver == Spec => []BackoffStartsOver
<1>1. ClientInv => BackoffStartsOver
  BY DEF ClientInv, CountInv
<1> QED BY InvAlways, <1>1, PTL

(* When Run has returned from Close, the only thing it can leave behind is the
   connection of a Connect that outlived Close, and then the state shows it. *)
THEOREM CloseLeavesNothing == Spec => []NothingLeftBehind
<1>1. ClientInv => NothingLeftBehind
  BY DEF ClientInv, CallsInv, Called, AssignedInv, OpenInv, EndInv, NothingLeftBehind
<1> QED BY InvAlways, <1>1, PTL

-------------------------------------------------------------------------------
(* The refinement. *)

(* A step of the client is a step of its link, or none. *)
LEMMA LinkStep ==
    ASSUME ClientInv, [Next]_vars
    PROVE  [Link!LinkNext]_(Link!linkVars)
<1> USE DEF ClientInv, linkState, ctxState, loopState, streamState, Link!LinkNext, Link!linkVars,
            Link!Make, Link!Break, Link!Finish
<1>1. CASE ConnectStep
  <2>1. CASE DialSucceeds
    <3>1. open = {} /\ run \notin {"done", "failed"}
      BY <2>1 DEF CallsInv, Called, OpenInv, EndInv, DialSucceeds
    <3>2. dialed' = dialed + 1 /\ dialed + 1 \in open' /\ run' = run
      BY <2>1 DEF DialSucceeds
    <3>3. (open' # {}) = TRUE
      BY <3>2
    <3>4. (run \in {"done", "failed"})' = (run \in {"done", "failed"})
      BY <3>2
    <3>5. Link!Make
      BY <3>1, <3>2, <3>3, <3>4
    <3> QED BY <3>5
  <2>2. CASE DialFails \/ FailConnect \/ FinishConnect
    BY <2>2 DEF CallsInv, Called, DialFails, FailConnect, FinishConnect, ReturnFromConnect
  <2>3. CASE CloseRefused
    BY <2>3 DEF OpenInv, CloseRefused
  <2>4. CASE StartConnect \/ AssignConn \/ AssignMux \/ HandshakeAccepted \/ HandshakeFails
    BY <2>4 DEF StartConnect, AssignConn, AssignMux, HandshakeAccepted, HandshakeFails
  <2> QED BY <1>1, <2>1, <2>2, <2>3, <2>4 DEF ConnectStep
<1>2. CASE LoopStep
  <2>1. UNCHANGED <<dialed, open, run>>
    BY <1>2 DEF LoopStep, LoopTop, LoopCheck, BeginReconnect, DelayPasses, DelayCancelled,
               AwaitSession, AcceptStream, AcceptFails, CheckError, ConnectionLost
  <2> QED BY <2>1
<1>3. CASE CloseStep \/ Signal
  <2>1. CASE CloseMux \/ CloseConn
    BY <2>1 DEF OpenInv, CloseMux, CloseConn, RunGoes
  <2>2. CASE WaitForGoroutines
    BY <2>2 DEF WaitForGoroutines, RunGoes
  <2>3. CASE Signal \/ MarkClosed \/ Cancel \/ CloseRouter
    BY <2>3 DEF Signal, MarkClosed, Cancel, CloseRouter, RunGoes
  <2> QED BY <1>3, <2>1, <2>2, <2>3 DEF CloseStep
<1>4. CASE \E s \in Streams : HandlerStep(s) \/ ServerOpens(s)
  <2>1. UNCHANGED <<dialed, open, run>>
    BY <1>4 DEF HandlerStep, ReadHeader, HeaderFails, ForwardReturns, HandlerGoes, ServerOpens
  <2> QED BY <2>1
<1>5. CASE LinkLost
  BY <1>5 DEF OpenInv, LinkLost
<1>6. CASE UNCHANGED vars
  BY <1>6 DEF vars
<1> QED BY <1>1, <1>2, <1>3, <1>4, <1>5, <1>6 DEF Next

(* The client makes one connection at a time, never uses one again that broke,
   and makes none after Run has returned: it implements ClientLink. *)
THEOREM ClientIsLink == Spec => ImplementsLink
<1>1. Init => Link!LinkInit
  BY DEF Init, Link!LinkInit
<1>2. ClientInv /\ [Next]_vars => [Link!LinkNext]_(Link!linkVars)
  BY LinkStep
<1> QED BY InvAlways, <1>1, <1>2, PTL DEF Spec, ImplementsLink, Link!LinkSpec

===============================================================================
