----------------------------- MODULE TunnelClient -----------------------------
(***************************************************************************)
(* The client of the tunnel: Run, Connect, the accept loop with its        *)
(* reconnector, the goroutines that handle streams, and Close              *)
(* (internal/client/tunnel.go, internal/client/reconnect.go).              *)
(*                                                                         *)
(* Run connects, starts the accept loop, waits for a signal and closes;    *)
(* the loop accepts streams and connects again when the link is lost.      *)
(* They share the state, the connection and the session without a lock,    *)
(* so that every read and every write of them is a step.                   *)
(*                                                                         *)
(* A connection and the yamux session on it are one number: closing either *)
(* ends both.  The numbers are those of the dials that succeeded; 0 is nil.*)
(***************************************************************************)
EXTENDS Naturals, FiniteSets

CONSTANTS
    Streams,       \* streams the server opens, over all sessions
    MaxAttempts,   \* ReconnectConfig.MaxAttempts, 0 for no limit
    MaxDials,      \* bound: dials that succeed
    MaxCount       \* bound: the counter of attempts is not told apart beyond it

ASSUME ClientAssumption ==
    /\ MaxAttempts \in Nat
    /\ MaxDials \in Nat
    /\ MaxCount \in Nat /\ MaxCount > MaxAttempts

VARIABLES
    state,      \* Tunnel.state
    conn,       \* Tunnel.conn
    mux,        \* Tunnel.muxSession
    session,    \* Tunnel.sessionID: the connection whose handshake gave it
    ctxDone,    \* Tunnel.ctx is cancelled
    reconnect,  \* Tunnel.reconnect is not nil, as ReconnectConfig.Enabled says
    attempts,   \* Reconnector.attempts
    run,        \* where Run, and the Close it calls, is
    loop,       \* where acceptLoop is
    dialing,    \* where Connect is, called by one or the other
    fresh,      \* conn, the local variable of Connect
    verdict,    \* what NextDelay answered last: a delay, or -1 to stop
    dialed,     \* the latest connection
    open,       \* the connections the client has open
    stream,     \* where the handler of each stream is
    carrier     \* the connection each stream came on

linkState == <<conn, mux, session, dialed, open>>
ctxState == <<ctxDone, reconnect>>
loopState == <<loop, attempts, verdict>>
streamState == <<stream, carrier>>
vars == <<state, linkState, ctxState, run, loopState, dialing, fresh, streamState>>

TunnelStates == {"disconnected", "connecting", "connected", "reconnecting", "closed"}

Dials == 0 .. MaxDials

TypeOK ==
    /\ state \in TunnelStates
    /\ conn \in Dials
    /\ mux \in Dials
    /\ session \in Dials
    /\ ctxDone \in BOOLEAN
    /\ reconnect \in BOOLEAN
    /\ attempts \in 0 .. MaxCount
    /\ run \in {"connect", "select", "close", "cancel", "router", "mux", "conn",
                "wait", "done", "failed"}
    /\ loop \in {"off", "top", "check", "reconnect", "delay", "connect", "accept",
                 "error", "lost", "done"}
    /\ dialing \in {"idle", "dial", "assign", "mux", "handshake", "refused",
                    "disconnect", "accepted"}
    /\ fresh \in Dials
    /\ verdict \in {"wait", "stop"}
    /\ dialed \in Dials
    /\ open \subseteq Dials
    /\ stream \in [Streams -> {"none", "queued", "header", "forward", "done"}]
    /\ carrier \in [Streams -> Dials]

(* NewTunnel, and Run up to its call of Connect. *)
Init ==
    /\ state = "disconnected"
    /\ conn = 0 /\ mux = 0 /\ session = 0
    /\ ctxDone = FALSE
    /\ reconnect \in BOOLEAN
    /\ attempts = 0
    /\ run = "connect"
    /\ loop = "off"
    /\ dialing = "idle"
    /\ fresh = 0
    /\ verdict = "wait"
    /\ dialed = 0
    /\ open = {}
    /\ stream = [s \in Streams |-> "none"]
    /\ carrier = [s \in Streams |-> 0]

-------------------------------------------------------------------------------
(* Connect. *)

Called == run = "connect" \/ loop = "connect"

(* It overwrites the state, whatever that is. *)
StartConnect ==
    /\ Called /\ dialing = "idle"
    /\ state' = "connecting"
    /\ dialing' = "dial"
    /\ UNCHANGED <<linkState, ctxState, run, loopState, fresh, streamState>>

(* The Reconnector is reset to one attempt too few, or not at all. *)
ReturnFromConnect_OffByOne(ok) ==
    /\ dialing' = "idle"
    /\ \/ /\ run = "connect"
          /\ IF ok \/ reconnect
             THEN run' = "select" /\ loop' = "top"
             ELSE run' = "failed" /\ UNCHANGED loop
          /\ UNCHANGED attempts
       \/ /\ loop = "connect"
          /\ loop' = "top"
          /\ attempts' = IF ok THEN 0 - 1 ELSE attempts
          /\ UNCHANGED run
    /\ UNCHANGED verdict

ReturnFromConnect_WithoutReset(ok) ==
    /\ dialing' = "idle"
    /\ \/ /\ run = "connect"
          /\ IF ok \/ reconnect
             THEN run' = "select" /\ loop' = "top"
             ELSE run' = "failed" /\ UNCHANGED loop
       \/ loop = "connect" /\ loop' = "top" /\ UNCHANGED run
    /\ UNCHANGED <<attempts, verdict>>

(* Connect returns to Run, which starts the accept loop unless the attempt
   failed and there is no Reconnector, or to handleReconnect, which resets the
   Reconnector after a success; either way the loop is then at its top. *)
ReturnFromConnect(ok) ==
    /\ dialing' = "idle"
    /\ \/ /\ run = "connect"
          /\ IF ok \/ reconnect
             THEN run' = "select" /\ loop' = "top"
             ELSE run' = "failed" /\ UNCHANGED loop
          /\ UNCHANGED attempts
       \/ /\ loop = "connect"
          /\ loop' = "top"
          /\ attempts' = IF ok THEN 0 ELSE attempts
          /\ UNCHANGED run
    /\ UNCHANGED verdict

(* The dial of dialTCP or dialWebSocket, both with a limit of ten seconds. *)
DialSucceeds ==
    /\ dialing = "dial"
    /\ dialed < MaxDials
    /\ dialed' = dialed + 1
    /\ open' = open \cup {dialed + 1}
    /\ fresh' = dialed + 1
    /\ dialing' = "assign"
    /\ UNCHANGED <<state, conn, mux, session, ctxState, run, loopState, streamState>>

DialFails ==
    /\ dialing = "dial"
    /\ state' = "disconnected"
    /\ ReturnFromConnect(FALSE)
    /\ UNCHANGED <<linkState, ctxState, fresh, streamState>>

AssignConn ==
    /\ dialing = "assign"
    /\ conn' = fresh
    /\ dialing' = "mux"
    /\ UNCHANGED <<state, mux, session, dialed, open, ctxState, run, loopState, fresh, streamState>>

(* yamux.Client fails only for an invalid configuration, and defaultYamuxConfig
   is a valid one. *)
AssignMux ==
    /\ dialing = "mux"
    /\ mux' = fresh
    /\ dialing' = "handshake"
    /\ UNCHANGED <<state, conn, session, dialed, open, ctxState, run, loopState, fresh, streamState>>

(* performHandshake.  The server accepts; or it refuses, the answer is not a
   handshake response or cannot be decoded, or the session ends first.  Nothing
   but that ends the wait for the answer: no deadline is set.  An answer that has
   arrived is read although the link is lost meanwhile. *)
HandshakeAccepted ==
    /\ dialing = "handshake"
    /\ session' = fresh
    /\ dialing' = "accepted"
    /\ UNCHANGED <<state, conn, mux, dialed, open, ctxState, run, loopState, fresh, streamState>>

(* The success flag of the answer is not looked at. *)
HandshakeFails_Unchecked ==
    /\ dialing = "handshake"
    /\ dialing' = "accepted"
    /\ UNCHANGED <<state, linkState, ctxState, run, loopState, fresh, streamState>>

HandshakeFails ==
    /\ dialing = "handshake"
    /\ dialing' = "refused"
    /\ UNCHANGED <<state, linkState, ctxState, run, loopState, fresh, streamState>>

CloseRefused_KeepsConn ==
    /\ dialing = "refused"
    /\ dialing' = "disconnect"
    /\ UNCHANGED <<state, linkState, ctxState, run, loopState, fresh, streamState>>

CloseRefused ==
    /\ dialing = "refused"
    /\ open' = open \ {fresh}
    /\ dialing' = "disconnect"
    /\ UNCHANGED <<state, conn, mux, session, dialed, ctxState, run, loopState, fresh, streamState>>

FailConnect ==
    /\ dialing = "disconnect"
    /\ state' = "disconnected"
    /\ ReturnFromConnect(FALSE)
    /\ UNCHANGED <<linkState, ctxState, fresh, streamState>>

FinishConnect ==
    /\ dialing = "accepted"
    /\ state' = "connected"
    /\ ReturnFromConnect(TRUE)
    /\ UNCHANGED <<linkState, ctxState, fresh, streamState>>

ConnectStep ==
    \/ StartConnect \/ DialSucceeds \/ DialFails \/ AssignConn \/ AssignMux
    \/ HandshakeAccepted \/ HandshakeFails \/ CloseRefused \/ FailConnect \/ FinishConnect

-------------------------------------------------------------------------------
(* acceptLoop and handleReconnect. *)

LoopGoes(from, to) == loop = from /\ loop' = to

LoopTop_IgnoresContext ==
    /\ LoopGoes("top", "check")
    /\ UNCHANGED <<state, linkState, ctxState, run, attempts, verdict, dialing, fresh, streamState>>

LoopTop ==
    /\ LoopGoes("top", IF ctxDone THEN "done" ELSE "check")
    /\ UNCHANGED <<state, linkState, ctxState, run, attempts, verdict, dialing, fresh, streamState>>

(* Any state but connected calls for a reconnection, closed as well. *)
LoopCheck_NotConnected ==
    /\ LoopGoes("check", IF state # "connected" /\ reconnect THEN "reconnect" ELSE "accept")
    /\ UNCHANGED <<state, linkState, ctxState, run, attempts, verdict, dialing, fresh, streamState>>

LoopCheck ==
    /\ LoopGoes("check", IF state = "disconnected" /\ reconnect THEN "reconnect" ELSE "accept")
    /\ UNCHANGED <<state, linkState, ctxState, run, attempts, verdict, dialing, fresh, streamState>>

(* NextDelay counts the attempt and answers -1 beyond the limit. *)
NextDelay ==
    /\ attempts' = IF attempts < MaxCount THEN attempts + 1 ELSE MaxCount
    /\ verdict' = IF MaxAttempts > 0 /\ attempts + 1 > MaxAttempts THEN "stop" ELSE "wait"

(* handleReconnect overwrites the state the loop has just read. *)
BeginReconnect ==
    /\ LoopGoes("reconnect", "delay")
    /\ state' = "reconnecting"
    /\ NextDelay
    /\ UNCHANGED <<linkState, ctxState, run, dialing, fresh, streamState>>

(* The delay has passed, at once if it is -1; the select may take this branch
   although the context is done as well. *)
DelayPasses ==
    /\ LoopGoes("delay", "connect")
    /\ UNCHANGED <<state, linkState, ctxState, run, attempts, verdict, dialing, fresh, streamState>>

DelayCancelled ==
    /\ ctxDone
    /\ LoopGoes("delay", "top")
    /\ UNCHANGED <<state, linkState, ctxState, run, attempts, verdict, dialing, fresh, streamState>>

(* No session yet: look again after 100 ms. *)
AwaitSession ==
    /\ mux = 0
    /\ LoopGoes("accept", "top")
    /\ UNCHANGED <<state, linkState, ctxState, run, attempts, verdict, dialing, fresh, streamState>>

(* The handler of the stream is a goroutine of its own. *)
AcceptStream(s) ==
    /\ stream[s] = "queued" /\ carrier[s] = mux
    /\ LoopGoes("accept", "top")
    /\ stream' = [stream EXCEPT ![s] = "header"]
    /\ UNCHANGED <<state, linkState, ctxState, run, attempts, verdict, dialing, fresh, carrier>>

(* AcceptStream fails when the session has ended.  The other error, a write of yamux
   that times out on a session that is up, is left out: it is logged and the loop tries
   again. *)
AcceptFails ==
    /\ mux # 0 /\ mux \notin open
    /\ LoopGoes("accept", "error")
    /\ UNCHANGED <<state, linkState, ctxState, run, attempts, verdict, dialing, fresh, streamState>>

CheckError ==
    /\ LoopGoes("error", IF ctxDone THEN "done" ELSE "lost")
    /\ UNCHANGED <<state, linkState, ctxState, run, attempts, verdict, dialing, fresh, streamState>>

ConnectionLost_KeepsState ==
    /\ LoopGoes("lost", "top")
    /\ UNCHANGED <<state, linkState, ctxState, run, attempts, verdict, dialing, fresh, streamState>>

ConnectionLost ==
    /\ LoopGoes("lost", "top")
    /\ state' = "disconnected"
    /\ UNCHANGED <<linkState, ctxState, run, attempts, verdict, dialing, fresh, streamState>>

LoopStep ==
    \/ LoopTop \/ LoopCheck \/ BeginReconnect \/ DelayPasses \/ DelayCancelled
    \/ AwaitSession \/ (\E s \in Streams : AcceptStream(s)) \/ AcceptFails
    \/ CheckError \/ ConnectionLost

-------------------------------------------------------------------------------
(* handleStream. *)

HandlerGoes(s, from, to) ==
    /\ stream[s] = from
    /\ stream' = [stream EXCEPT ![s] = to]
    /\ UNCHANGED <<state, linkState, ctxState, run, loopState, dialing, fresh, carrier>>

ReadHeader(s) == HandlerGoes(s, "header", "forward")

(* The header is malformed, or the stream ended before it. *)
HeaderFails(s) == HandlerGoes(s, "header", "done")

(* Router.Forward returns: ConnPool says when. *)
ForwardReturns(s) == HandlerGoes(s, "forward", "done")

HandlerStep(s) == ReadHeader(s) \/ HeaderFails(s) \/ ForwardReturns(s)

-------------------------------------------------------------------------------
(* Run after Connect, and Close. *)

RunGoes(from, to) == run = from /\ run' = to

Signal ==
    /\ RunGoes("select", "close")
    /\ UNCHANGED <<state, linkState, ctxState, loopState, dialing, fresh, streamState>>

MarkClosed ==
    /\ RunGoes("close", "cancel")
    /\ state' = "closed"
    /\ UNCHANGED <<linkState, ctxState, loopState, dialing, fresh, streamState>>

Cancel ==
    /\ RunGoes("cancel", "router")
    /\ ctxDone' = TRUE
    /\ UNCHANGED <<state, linkState, reconnect, loopState, dialing, fresh, streamState>>

(* Router.Close is ConnPool's: it ends no handler. *)
CloseRouter ==
    /\ RunGoes("router", "mux")
    /\ UNCHANGED <<state, linkState, ctxState, loopState, dialing, fresh, streamState>>

(* Whatever Tunnel.muxSession and Tunnel.conn hold at these moments is closed. *)
CloseMux ==
    /\ RunGoes("mux", "conn")
    /\ open' = open \ {mux}
    /\ UNCHANGED <<state, conn, mux, session, dialed, ctxState, loopState, dialing, fresh, streamState>>

CloseConn ==
    /\ RunGoes("conn", "wait")
    /\ open' = open \ {conn}
    /\ UNCHANGED <<state, conn, mux, session, dialed, ctxState, loopState, dialing, fresh, streamState>>

(* The goroutines that Tunnel.wg counts. *)
Handling == {s \in Streams : stream[s] \in {"header", "forward"}}

WaitForGoroutines_LoopOnly ==
    /\ RunGoes("wait", "done")
    /\ loop = "done"
    /\ UNCHANGED <<state, linkState, ctxState, loopState, dialing, fresh, streamState>>

WaitForGoroutines ==
    /\ RunGoes("wait", "done")
    /\ loop = "done" /\ Handling = {}
    /\ UNCHANGED <<state, linkState, ctxState, loopState, dialing, fresh, streamState>>

CloseStep ==
    MarkClosed \/ Cancel \/ CloseRouter \/ CloseMux \/ CloseConn \/ WaitForGoroutines

-------------------------------------------------------------------------------
(* The server and the network. *)

(* A stream arrives, for a request or for the notice of a shutdown, as soon as
   there is a session: the server may be ahead of the client. *)
ServerOpens(s) ==
    /\ stream[s] = "none"
    /\ mux \in open
    /\ stream' = [stream EXCEPT ![s] = "queued"]
    /\ carrier' = [carrier EXCEPT ![s] = mux]
    /\ UNCHANGED <<state, linkState, ctxState, run, loopState, dialing, fresh>>

(* The server ends the session, or the keepalive gives up: yamux closes the
   connection. *)
LinkLost ==
    /\ mux \in open
    /\ open' = open \ {mux}
    /\ UNCHANGED <<state, conn, mux, session, dialed, ctxState, run, loopState, dialing, fresh,
                   streamState>>

Next ==
    \/ ConnectStep
    \/ LoopStep
    \/ \E s \in Streams : HandlerStep(s)
    \/ Signal
    \/ CloseStep
    \/ \E s \in Streams : ServerOpens(s)
    \/ LinkLost

Spec == Init /\ [][Next]_vars

(* Fairness: the goroutines run, a dial ends within its ten seconds, and the
   server answers a handshake or the connection breaks, because its handler
   answers every handshake it has read (TunnelServer).  A handler whose session
   has ended gets errors from its stream; it ends if the local service ends its
   side as well, see router.go:112.  Nobody has to send a signal, to open a
   stream or to send a header, and no link has to break. *)
FairSpec ==
    /\ Spec
    /\ WF_vars(ConnectStep)
    /\ WF_vars(LoopStep)
    /\ WF_vars(CloseStep)
    /\ \A s \in Streams : WF_vars(carrier[s] \notin open /\ HandlerStep(s))

-------------------------------------------------------------------------------
(* Properties. *)

(* Whatever was lost, refused or closed in between, the client has at most one
   connection open, the latest, and Tunnel.conn or the running Connect knows it:
   no reconnection leaves an older one behind. *)
OnlyLatestOpen ==
    \A c \in open : c = dialed /\ c = (IF dialing = "assign" THEN fresh ELSE conn)

(* While it says connected, the session, the connection and the session
   identifier are those of one accepted handshake, the latest. *)
ConnectedIsAccepted ==
    state = "connected" => session = dialed /\ conn = dialed /\ mux = dialed

(* A loss that nobody's Close has caused finds the back-off reset, however many
   attempts the link that was lost had taken: it is first retried after the
   initial delay, and has all the attempts of the limit. *)
BackoffStartsOver ==
    loop \in {"error", "lost"} /\ run = "select" => attempts = 0

(* When Run has returned from Close, every goroutine has ended, and a connection
   is left open only by the race of Close with a Connect that went on after it,
   which shows: the state of the closed tunnel is connected. *)
NothingLeftBehind ==
    run = "done" =>
        /\ loop = "done" /\ dialing = "idle" /\ Handling = {}
        /\ open # {} => state = "connected" /\ conn = dialed

(* Nothing that FairSpec makes happen can happen: no Connect is running or due, the
   loop has ended or sits in AcceptStream, Close is not under way or waits for the
   goroutines, and every handler has its stream. *)
AllWait ==
    /\ dialing = "idle" /\ ~Called
    /\ \/ loop \in {"off", "done"}
       \/ /\ loop = "accept" /\ mux \in open
          /\ \A s \in Streams : ~(stream[s] = "queued" /\ carrier[s] = mux)
    /\ \/ run \in {"select", "done", "failed"}
       \/ run = "wait" /\ (loop # "done" \/ Handling # {})
    /\ \A s \in Handling : carrier[s] \in open

(* The client never gets stuck: when all its goroutines wait, Run has returned, or
   the client is connected and waits for the next stream of the server.  Close, in
   particular, never waits for a loop that sits in AcceptStream on an open session,
   nor for a handler whose session is still open, although a Connect that outlives it
   opens one behind its back. *)
NeverStuck ==
    AllWait =>
        \/ run \in {"done", "failed"}
        \/ run = "select" /\ loop = "accept" /\ state = "connected" /\ mux \in open

(* The inductive invariant. *)

(* Connect has one caller, and the loop starts when the first call returns. *)
CallsInv ==
    /\ loop = "off" <=> run \in {"connect", "failed"}
    /\ dialing # "idle" => Called
    /\ dialing # "idle" => state \in {"connecting", "closed"}

(* What Connect has assigned so far. *)
AssignedInv ==
    /\ dialing \in {"assign", "mux", "handshake", "refused", "disconnect", "accepted"}
           => fresh = dialed
    /\ dialing # "assign" => conn = dialed
    /\ dialing \notin {"assign", "mux"} => mux = dialed
    /\ dialing = "accepted" \/ state = "connected" => session = dialed
    /\ state = "connected" => dialing = "idle"

(* When nothing is open. *)
OpenInv ==
    /\ open \subseteq {dialed} \ {0}
    /\ state \in {"disconnected", "reconnecting"} => open = {}
    /\ loop \in {"reconnect", "delay", "error", "lost"} => open = {}
    /\ Called /\ dialing \in {"idle", "dial", "disconnect"} => open = {}
    /\ run \in {"wait", "done"} /\ dialing = "idle" /\ open # {} => state = "connected"

(* When the counter of attempts is 0, which the loop relies on. *)
CountInv ==
    /\ loop = "off" \/ state = "connected" => attempts = 0
    /\ loop \in {"reconnect", "delay", "connect"} => reconnect
    /\ ctxDone => run \in {"router", "mux", "conn", "wait", "done"}
    /\ run = "select" =>
          /\ loop \in {"top", "check"} =>
                attempts = 0 \/ (state = "disconnected" /\ reconnect)
          /\ loop = "accept" => attempts = 0
    /\ BackoffStartsOver

EndInv == run = "done" => loop = "done" /\ Handling = {}

ClientInv == TypeOK /\ CallsInv /\ AssignedInv /\ OpenInv /\ CountInv /\ EndInv

(* Inductive with ClientInv.  What the goroutines may wait for: a stream is as old as a session that was
   assigned, the loop ends by the context only, and once Close has closed the session
   nobody uses an open one. *)
WaitInv ==
    /\ \A s \in Streams : carrier[s] <= mux
    /\ dialing \in {"assign", "mux"} => mux < dialed
    /\ loop = "done" \/ run \in {"router", "mux", "conn", "wait"} => ctxDone
    /\ state = "connecting" => dialing # "idle"
    /\ state = "closed" => run \notin {"connect", "select", "close"}
    /\ run \in {"conn", "wait"} /\ loop \in {"check", "accept"} => open = {}
    /\ run \in {"conn", "wait"} => \A s \in Handling : carrier[s] \notin open

(* The client implements its link. *)
Link == INSTANCE ClientLink WITH
    made <- dialed, up <- open # {}, finished <- run \in {"done", "failed"}

ImplementsLink == Link!LinkSpec

(* A lost connection is noticed, and a client without one tries again, for as
   long as it is not being closed: no interleaving of the loop with Close or
   with the server leaves it idle. *)
LossIsRetried ==
    (reconnect /\ loop # "off" /\ mux \notin open) ~> (dialing # "idle" \/ ctxDone)

(* Close returns, also when it races a Connect and when streams are handled. *)
CloseReturns == run = "close" ~> run = "done"

(* When NextDelay says stop, because MaxAttempts reconnections have failed, the
   client does not connect again.  Violated by the code, which takes -1 for a
   delay that is over. *)
StopSignalHeeded == loop = "connect" => verdict = "wait"

===============================================================================
