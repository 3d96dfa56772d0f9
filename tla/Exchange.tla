------------------------------- MODULE Exchange -------------------------------
(***************************************************************************)
(* One proxied exchange from end to end: a visitor, the handler of the     *)
(* proxy (internal/server/proxy.go), a yamux stream, the Forward and pipe  *)
(* of the client (internal/client/router.go, tunnel.go) and the local      *)
(* service behind it.                                                      *)
(*                                                                         *)
(* TunnelServer has the way of a request to a stream, ConnPool that of a   *)
(* stream to a local connection; here is what happens in between, where    *)
(* each goroutine waits for another: every hop has a buffer that may be    *)
(* full, and an end that may or may not be told to the next.               *)
(*                                                                         *)
(* Bytes are counted in units; each counter is what has passed one point.  *)
(***************************************************************************)
EXTENDS Naturals

CONSTANTS
    Up,       \* units the visitor sends
    Down,     \* units the local service sends
    Window,   \* units a stream takes before it is read, MaxStreamWindowSize
    Buffer    \* units the connection to the local service takes

ASSUME ExchangeAssumption == {Up, Down, Window, Buffer} \subseteq Nat \ {0}

VARIABLES
    kind,       \* a response that is framed, one that is not, one to HEAD, an upgrade
    visitor,    \* the public connection can be read and written
    proxy,      \* where handleRequest is
    outcome,    \* what handleRequest reports of the exchange
    copying,    \* the goroutines of handleWebSocket that run
    link,       \* the session of the stream is alive
    proxyEnd,   \* the proxy has closed its side of the stream
    clientEnd,  \* the client has closed its side
    reset,      \* yamux has given the stream up
    forward,    \* where handleStream is
    piping,     \* the goroutines of pipe that run
    halfClosed, \* pipe has called CloseWrite on the local connection
    service,    \* the local service has the connection open
    sent, copied, got,        \* from the visitor: into the stream, out of it, read
    written, relayed, shown   \* from the service: written, into the stream, out of it

proxyVars == <<proxy, outcome, copying, proxyEnd>>
clientVars == <<forward, piping, halfClosed, clientEnd>>
worldVars == <<kind, visitor, link, reset, service>>
upVars == <<sent, copied, got>>
downVars == <<written, relayed, shown>>
vars == <<proxyVars, clientVars, worldVars, upVars, downVars>>

(* A framed response tells where it ends, by its length or in chunks.  The response to
   HEAD is a head only, and tells the length of the body that GET would have. *)
Kinds == {"framed", "unframed", "head", "websocket"}

(* What the local service sends. *)
Answer == IF kind = "head" THEN 1 ELSE Down

TypeOK ==
    /\ kind \in Kinds
    /\ {visitor, link, reset, service, proxyEnd, clientEnd, halfClosed} \subseteq BOOLEAN
    /\ proxy \in {"request", "response", "copy", "close", "done"}
    /\ outcome \in {"none", "refused", "served", "failed"}
    /\ copying \subseteq {"up", "down"}
    /\ forward \in {"dial", "pipe", "close", "done"}
    /\ piping \subseteq {"toLocal", "toServer"}
    /\ sent \in 0 .. Up /\ copied \in 0 .. sent /\ got \in 0 .. copied
    /\ written \in 0 .. Answer /\ relayed \in 0 .. written /\ shown \in 0 .. relayed
    /\ sent - copied <= Window /\ relayed - shown <= Window
    /\ copied - got <= Buffer /\ written - relayed <= Buffer

(* The stream is open and its header written. *)
Init ==
    /\ kind \in Kinds
    /\ visitor = TRUE /\ link = TRUE /\ reset = FALSE /\ service = TRUE
    /\ proxy = "request" /\ outcome = "none" /\ copying = {} /\ proxyEnd = FALSE
    /\ forward = "dial" /\ piping = {} /\ halfClosed = FALSE /\ clientEnd = FALSE
    /\ sent = 0 /\ copied = 0 /\ got = 0
    /\ written = 0 /\ relayed = 0 /\ shown = 0

-------------------------------------------------------------------------------
(* yamux.  A stream of a session that has ended delivers what has arrived and then
   its end, not an error; nobody knows how much had arrived. *)

Writable == link /\ ~reset
Full == sent - copied = Window

AtEnd == ~link \/ (clientEnd /\ shown = relayed)

(* Five minutes after one side has closed a stream that the other has not, yamux
   resets it. *)
StreamCloseTimeout_Never == FALSE /\ UNCHANGED vars

StreamCloseTimeout ==
    /\ Writable /\ proxyEnd # clientEnd
    /\ reset' = TRUE
    /\ UNCHANGED <<proxyVars, clientVars, kind, visitor, link, service, upVars, downVars>>

-------------------------------------------------------------------------------
(* The proxy. *)

Finish(result) == proxy' = "close" /\ outcome' = result

(* forwardRequest writes all of a request before anything of the response is read; of
   HEAD and of an upgrade, the first unit, which like any head has been read before. *)
Request == IF kind \in {"head", "websocket"} THEN 1 ELSE Up

SendRequest ==
    /\ proxy = "request" /\ sent < Request
    /\ (visitor \/ sent = 0) /\ Writable /\ ~Full
    /\ sent' = sent + 1
    /\ UNCHANGED <<proxyVars, clientVars, worldVars, copied, got, downVars>>

(* The visitor gets an error, or the end of a connection that is hijacked. *)
RequestFails ==
    /\ proxy = "request" /\ sent < Request
    /\ (~visitor /\ sent > 0) \/ ~Writable
    /\ Finish("refused")
    /\ UNCHANGED <<copying, proxyEnd, clientVars, worldVars, upVars, downVars>>

EndRequest ==
    /\ proxy = "request" /\ sent = Request
    /\ IF kind = "websocket" THEN proxy' = "copy" /\ copying' = {"up", "down"}
                             ELSE proxy' = "response" /\ UNCHANGED copying
    /\ UNCHANGED <<outcome, proxyEnd, clientVars, worldVars, upVars, downVars>>

(* forwardResponse.  It does not look at the context of the request: that the visitor
   has gone shows only in a write, and not in that of the head, which net/http keeps.
   ReadResponse is not told the method: after HEAD it waits for a body as after GET. *)
Whole == kind = "framed" /\ shown = Down

ShowResponse ==
    /\ proxy = "response" /\ shown < relayed
    /\ (visitor \/ shown = 0) /\ ~reset
    /\ shown' = shown + 1
    /\ UNCHANGED <<proxyVars, clientVars, worldVars, upVars, written, relayed>>

ResponseComplete_AtEnd ==
    /\ proxy = "response" /\ Whole /\ AtEnd
    /\ Finish("served")
    /\ UNCHANGED <<copying, proxyEnd, clientVars, worldVars, upVars, downVars>>

ResponseComplete ==
    /\ proxy = "response" /\ Whole
    /\ Finish("served")
    /\ UNCHANGED <<copying, proxyEnd, clientVars, worldVars, upVars, downVars>>

(* The end of the stream is that of a response without a length, and an error in
   any other and before the head. *)
ResponseEnds_AnyEnd ==
    /\ proxy = "response" /\ ~Whole
    /\ AtEnd /\ ~reset
    /\ Finish(IF shown > 0 THEN "served" ELSE "failed")
    /\ UNCHANGED <<copying, proxyEnd, clientVars, worldVars, upVars, downVars>>

ResponseEnds ==
    /\ proxy = "response" /\ ~Whole
    /\ AtEnd /\ ~reset
    /\ Finish(IF kind = "unframed" /\ shown > 0 THEN "served" ELSE "failed")
    /\ UNCHANGED <<copying, proxyEnd, clientVars, worldVars, upVars, downVars>>

(* The error of a visitor who has gone is swallowed if it says "broken pipe" or
   "connection reset by peer", which that of yamux does not. *)
ResponseFails ==
    /\ proxy = "response" /\ ~Whole
    /\ \/ reset /\ Finish("failed")
       \/ /\ ~visitor /\ 0 < shown /\ shown < relayed
          /\ \E result \in {"served", "failed"} : Finish(result)
    /\ UNCHANGED <<copying, proxyEnd, clientVars, worldVars, upVars, downVars>>

(* handleWebSocket: two copies, and neither tells the other that it has ended. *)
CopyUp ==
    /\ "up" \in copying /\ sent < Up
    /\ visitor /\ Writable /\ ~Full
    /\ sent' = sent + 1
    /\ UNCHANGED <<proxyVars, clientVars, worldVars, copied, got, downVars>>

UpEnds ==
    /\ "up" \in copying
    /\ ~visitor \/ (sent < Up /\ ~Writable)
    /\ copying' = copying \ {"up"}
    /\ UNCHANGED <<proxy, outcome, proxyEnd, clientVars, worldVars, upVars, downVars>>

CopyDown ==
    /\ "down" \in copying /\ shown < relayed
    /\ visitor /\ ~reset
    /\ shown' = shown + 1
    /\ UNCHANGED <<proxyVars, clientVars, worldVars, upVars, written, relayed>>

DownEnds ==
    /\ "down" \in copying
    /\ AtEnd \/ reset \/ (~visitor /\ shown < relayed)
    /\ copying' = copying \ {"down"}
    /\ UNCHANGED <<proxy, outcome, proxyEnd, clientVars, worldVars, upVars, downVars>>

EndCopies ==
    /\ proxy = "copy" /\ copying = {}
    /\ Finish("served")
    /\ UNCHANGED <<copying, proxyEnd, clientVars, worldVars, upVars, downVars>>

(* The deferred Close of the stream. *)
CloseStream ==
    /\ proxy = "close"
    /\ proxy' = "done" /\ proxyEnd' = TRUE
    /\ UNCHANGED <<outcome, copying, clientVars, worldVars, upVars, downVars>>

-------------------------------------------------------------------------------
(* The client. *)

Dial ==
    /\ forward = "dial"
    /\ forward' = "pipe" /\ piping' = {"toLocal", "toServer"}
    /\ UNCHANGED <<halfClosed, clientEnd, proxyVars, worldVars, upVars, downVars>>

(* No connection to the local service, or no header. *)
DialFails ==
    /\ forward = "dial"
    /\ forward' = "close"
    /\ UNCHANGED <<piping, halfClosed, clientEnd, proxyVars, worldVars, upVars, downVars>>

CopyToLocal ==
    /\ "toLocal" \in piping /\ copied < sent
    /\ ~reset /\ service /\ copied - got < Buffer
    /\ copied' = copied + 1
    /\ UNCHANGED <<proxyVars, clientVars, worldVars, sent, got, downVars>>

(* The end of the stream, or a failed read or write; either way CloseWrite. *)
ToLocalEnds_WithoutCloseWrite ==
    /\ "toLocal" \in piping
    /\ ~Writable \/ (proxyEnd /\ copied = sent) \/ (~service /\ copied < sent)
    /\ piping' = piping \ {"toLocal"}
    /\ UNCHANGED <<forward, halfClosed, clientEnd, proxyVars, worldVars, upVars, downVars>>

ToLocalEnds ==
    /\ "toLocal" \in piping
    /\ ~Writable \/ (proxyEnd /\ copied = sent) \/ (~service /\ copied < sent)
    /\ piping' = piping \ {"toLocal"}
    /\ halfClosed' = TRUE
    /\ UNCHANGED <<forward, clientEnd, proxyVars, worldVars, upVars, downVars>>

CopyToServer_WithoutLimit ==
    /\ "toServer" \in piping /\ relayed < written
    /\ Writable
    /\ relayed' = relayed + 1
    /\ UNCHANGED <<proxyVars, clientVars, worldVars, upVars, written, shown>>

CopyToServer ==
    /\ "toServer" \in piping /\ relayed < written
    /\ Writable /\ relayed - shown < Window
    /\ relayed' = relayed + 1
    /\ UNCHANGED <<proxyVars, clientVars, worldVars, upVars, written, shown>>

(* The local service has closed, losing what it wrote if it has not read all; or the
   stream cannot be written.  The end is not passed on: the side of the server is a
   yamux stream and not the TCP connection the code asks for. *)
ToServerEnds ==
    /\ "toServer" \in piping
    /\ \/ ~service /\ (relayed = written \/ got < copied)
       \/ relayed < written /\ ~Writable
    /\ piping' = piping \ {"toServer"}
    /\ UNCHANGED <<forward, halfClosed, clientEnd, proxyVars, worldVars, upVars, downVars>>

(* Mutated form: a pipe that has ended dials again for the same stream. *)
EndForward_DialsAgain ==
    /\ forward = "pipe" /\ piping = {}
    /\ forward' = "dial"
    /\ UNCHANGED <<piping, halfClosed, clientEnd, proxyVars, worldVars, upVars, downVars>>

EndForward ==
    /\ forward = "pipe" /\ piping = {}
    /\ forward' = "close"
    /\ UNCHANGED <<piping, halfClosed, clientEnd, proxyVars, worldVars, upVars, downVars>>

(* The deferred Close of handleStream. *)
CloseHandler ==
    /\ forward = "close"
    /\ forward' = "done" /\ clientEnd' = TRUE
    /\ UNCHANGED <<piping, halfClosed, proxyVars, worldVars, upVars, downVars>>

-------------------------------------------------------------------------------
(* The local service, the visitor and the network. *)

ServiceReads ==
    /\ service /\ got < copied
    /\ got' = got + 1
    /\ UNCHANGED <<proxyVars, clientVars, worldVars, sent, copied, downVars>>

ServiceWrites ==
    /\ service /\ got > 0 /\ written < Answer
    /\ written - relayed < Buffer
    /\ written' = written + 1
    /\ UNCHANGED <<proxyVars, clientVars, worldVars, upVars, relayed, shown>>

ServiceCloses ==
    /\ service
    /\ service' = FALSE
    /\ UNCHANGED <<proxyVars, clientVars, kind, visitor, link, reset, upVars, downVars>>

(* The visitor goes, or ReadTimeout or WriteTimeout of the public server has passed. *)
VisitorLeaves ==
    /\ visitor
    /\ visitor' = FALSE
    /\ UNCHANGED <<proxyVars, clientVars, kind, link, reset, service, upVars, downVars>>

LinkLost ==
    /\ link
    /\ link' = FALSE
    /\ UNCHANGED <<proxyVars, clientVars, kind, visitor, reset, service, upVars, downVars>>

-------------------------------------------------------------------------------

HandleRequest ==
    \/ SendRequest \/ RequestFails \/ EndRequest
    \/ ShowResponse \/ ResponseComplete \/ ResponseEnds \/ ResponseFails
    \/ EndCopies \/ CloseStream

HandleStream == Dial \/ DialFails \/ EndForward \/ CloseHandler

Next ==
    \/ HandleRequest
    \/ CopyUp \/ UpEnds
    \/ CopyDown \/ DownEnds
    \/ HandleStream
    \/ CopyToLocal \/ ToLocalEnds
    \/ CopyToServer \/ ToServerEnds
    \/ StreamCloseTimeout
    \/ ServiceReads \/ ServiceWrites \/ ServiceCloses
    \/ VisitorLeaves \/ LinkLost

Spec == Init /\ [][Next]_vars

(* A local service closes when there is nothing more to read, or when the end of the
   connection is that of its response. *)
ServiceMayClose ==
    \/ halfClosed /\ got = copied
    \/ kind = "unframed" /\ written = Down

(* A goroutine that copies is in a read or in a write, and units do not tell which.  The
   actions allow both; but where the write of a unit that has been read blocks, it cannot
   be asked of the goroutine to find out what a read would tell. *)
RequestBlocked == proxy = "request" /\ sent < Request /\ Writable /\ Full
UpBlocked == sent < Up /\ Writable /\ Full
RelayBlocked == relayed < written /\ Writable /\ relayed - shown = Window

(* The goroutines run, and the timer of the stream; the visitor sends the body of his
   request, or ReadTimeout ends it, but owes no message after an upgrade; the local
   service reads, answers and closes, without which no proxy can promise an answer. *)
FairSpec ==
    /\ Spec
    /\ WF_vars(~RequestBlocked /\ HandleRequest)
    /\ WF_vars(~visitor /\ ~UpBlocked /\ UpEnds)
    /\ WF_vars(CopyDown \/ DownEnds)
    /\ WF_vars(HandleStream)
    /\ WF_vars(CopyToLocal \/ ToLocalEnds)
    /\ WF_vars(~RelayBlocked /\ (CopyToServer \/ ToServerEnds))
    /\ WF_vars(StreamCloseTimeout)
    /\ WF_vars(ServiceReads)
    /\ WF_vars(ServiceWrites)
    /\ WF_vars(ServiceMayClose /\ ServiceCloses)

-------------------------------------------------------------------------------
(* Properties. *)

(* What the proxy reports as completed to a visitor who is still there is the answer of
   the local service: a framed one without exception, one that is not unless the session
   was lost or the service closed on a request it had not read, which the proxy cannot
   tell from the end. *)
CompletedIsWhole ==
    outcome = "served" /\ kind # "websocket" /\ visitor =>
        IF kind = "unframed" THEN shown = written \/ ~link \/ (~service /\ got < copied)
                             ELSE shown = Answer

(* The session was lost; the service closed before it had answered, on a request it had
   not read, or so long ago that the timer took the stream from a visitor who reads
   slowly; or there was no connection to it. *)
Cut ==
    \/ ~link
    \/ ~service /\ (written < Answer \/ got < copied \/ reset)
    \/ clientEnd /\ shown = 0

(* What a visitor gets is decided by what he was shown and not by the report: whatever
   the error was, the handler returns, and net/http ends a chunked response, one without
   a length, and an empty one as if they were whole.  So it matters when that can be
   less than the answer: for one of the reasons of Cut, and no order of ends, of closes
   and of full buffers is another. *)
ShortIsCut ==
    outcome \in {"served", "failed"} /\ kind # "websocket" /\ visitor =>
        shown = Answer \/ Cut

ServedIsWhole == CompletedIsWhole /\ ShortIsCut

(* Whatever way an exchange ends for the proxy, also in the middle of a response that
   fills every buffer, the goroutines of the client end and give the stream and the
   local connection back; and a lost session ends it on both sides, but for an upgraded
   one whose visitor stays: nobody tells him. *)
ExchangeEnds ==
    (proxy = "done" \/ ~link)
        ~> forward = "done" /\ (proxy = "done" \/ (kind = "websocket" /\ visitor))

(* However large the request and the response are, no buffer makes the five parties
   wait for each other: a service that reads and answers has its answer delivered, if it
   is a framed one.  Of one that is not the end is not told (EndIsSignalled), and after
   HEAD the proxy waits for a body that nobody sends. *)
Answered ==
    (kind = "framed" /\ forward = "pipe")
        ~> (outcome = "served" \/ ~visitor \/ ~link \/ ~service)

(* The parties wait: each of them is done, or at a read or write that blocks; the timer
   does not run, and the local service has no reason to close.  No action is possible
   that FairSpec calls fair. *)
NothingToShow == shown = relayed /\ ~AtEnd /\ ~reset

ProxyWaits ==
    \/ proxy = "done"
    \/ RequestBlocked
    \/ proxy = "response" /\ ~Whole /\ NothingToShow
    \/ /\ proxy = "copy" /\ copying # {}
       /\ "up" \in copying => visitor \/ UpBlocked
       /\ "down" \in copying => NothingToShow

ClientWaits ==
    \/ forward = "done"
    \/ /\ forward = "pipe" /\ piping # {}
       /\ "toLocal" \in piping =>
             /\ Writable
             /\ IF copied < sent THEN service /\ copied - got = Buffer ELSE ~proxyEnd
       /\ "toServer" \in piping => RelayBlocked \/ (relayed = written /\ service)

ServiceWaits ==
    service =>
        /\ got = copied /\ ~ServiceMayClose
        /\ got = 0 \/ written = Answer \/ written - relayed = Buffer

AllWait == ProxyWaits /\ ClientWaits /\ ServiceWaits /\ ~(Writable /\ proxyEnd # clientEnd)

(* When all parties wait, both handlers have returned; or an upgraded connection is
   idle, which only a visitor who stays, or a session that lives, may keep; or the
   server waits for the end that nobody signals; or, after HEAD, for a body that nobody
   sends, whether the visitor stays or not; or both ends of the stream are stuck in
   a write, because the service has answered at length and closed before it had read a
   long request, and the proxy, which writes all of it first, reads nothing.  No buffer,
   no order of ends and no failure makes the parties wait in any other way. *)
NoCircularWait ==
    AllWait =>
        \/ proxy = "done" /\ forward = "done"
        \/ proxy = "copy" /\ (visitor \/ link) /\ (link \/ forward = "done")
        \/ /\ proxy = "response" /\ forward = "pipe"
           /\ link /\ ~service /\ "toServer" \notin piping
        \/ /\ proxy = "response" /\ forward = "pipe"
           /\ link /\ service /\ kind = "head" /\ shown = Answer
        \/ /\ proxy = "request" /\ forward = "pipe"
           /\ link /\ ~service /\ RequestBlocked /\ RelayBlocked

(* Each step brings the exchange nearer to its end: no goroutine, no retry and no timer
   goes round in a circle, and sizes alone bound the number of steps. *)
Rank(step) ==
    IF step \in {"request", "dial"} THEN 0
    ELSE IF step = "close" THEN 4
    ELSE IF step = "done" THEN 5 ELSE 3

Gone(there) == IF there THEN 0 ELSE 1

Work ==
    sent + copied + got + written + relayed + shown + Rank(proxy) + Rank(forward)
    + Gone("up" \in copying) + Gone("down" \in copying)
    + Gone("toLocal" \in piping) + Gone("toServer" \in piping)
    + Gone(visitor) + Gone(link) + Gone(service) + Gone(~reset)

StepsAreBounded == [][Work < Work' /\ Work' <= 3 * Up + 3 * Down + 18]_vars

(* When the local service has ended its side, the end is passed on to the server.
   Violated by the code, which has no way to half-close a yamux stream. *)
EndIsSignalled ==
    (forward = "pipe" /\ "toServer" \notin piping) ~> (clientEnd \/ proxy = "done")

(* The inductive invariant. *)

(* Who runs when, that the timer waits for one side, and what the end of the copy to the
   server says. *)
PipeInv ==
    /\ piping # {} => forward = "pipe"
    /\ clientEnd <=> forward = "done"
    /\ reset => proxyEnd \/ clientEnd
    /\ forward = "dial" => relayed = 0
    /\ forward # "dial" /\ "toServer" \notin piping =>
           /\ relayed = 0 \/ ~Writable \/ (~service /\ (relayed = written \/ got < copied))
           /\ relayed = 0 \/ ~link \/ ~service \/ proxyEnd

(* Once the proxy has judged the response, nothing it was judged by changes. *)
OutcomeInv ==
    /\ copying # {} => proxy = "copy"
    /\ proxy = "copy" => kind = "websocket"
    /\ outcome # "none" => proxy \in {"close", "done"}
    /\ outcome = "served" /\ kind = "framed" /\ visitor => shown = Down
    /\ outcome = "served" => kind # "head"
    /\ outcome = "served" /\ kind = "unframed" /\ visitor =>
           ~link \/ (~service /\ (shown = written \/ got < copied))
    /\ ShortIsCut

(* Ends are told as far as the code tells them: a handler that has returned has closed
   its stream, and a copy that has ended has a reason and has told the local service. *)
WaitInv ==
    /\ proxyEnd <=> proxy = "done"
    /\ proxy = "response" => kind # "websocket" /\ sent = Request
    /\ forward = "pipe" /\ "toLocal" \notin piping => halfClosed
    /\ forward = "pipe" /\ "toServer" \notin piping => ~Writable \/ ~service

ExchangeInv == TypeOK /\ PipeInv /\ OutcomeInv /\ WaitInv

===============================================================================
