# AnyHost (GoTunnel) in TLA+

This directory is a verification project for AnyHost, a tunnel service: a
client behind a NAT keeps one connection to a public server; the server gives
it subdomains, and carries every public HTTP request for such a name to the
client over a yamux stream, where the client forwards it to a local port. The
modules are translated from the Go source (`src/internal`, `src/cmd`), not from
its documents; where a document, a comment or a configuration key says
something the code does not do, a run shows it.

## 1. The system

| component | state | operations | interacts with |
|---|---|---|---|
| Session (`internal/server/session.go`) | atomic `SessionState`, context, yamux session, `lastActivity` | `NewSessionWithMux`, `SetState`, `Close`, `OpenStream`, `IsClosed`, `IdleDuration` | called by the control plane and the proxy |
| Registry (`registry.go`) | `tunnels`: name to entry, `sessions`, under one RWMutex | `Register`, `Unregister`, `Lookup` | reads name owners from the database while it holds its lock |
| Control plane (`control.go`, `wscontrol.go`) | one goroutine per connection, `sessions` under an RWMutex, context, WaitGroup | accept, handshake, `handleSession`, cleanup, `BroadcastShutdown`, `Stop` | registry, sessions; goroutines of `Stop` close sessions behind the handler's back |
| HTTP proxy (`proxy.go`) | one goroutine per request, holding a `TunnelEntry` | `handleRequest`: three lookups, two checks, open, forward | registry (read), session, `ControlPlane.ProxyRequest` |
| Server (`server.go`) | composition | `Start`, `Stop`, `Run` | proxy first, then control plane |
| Unified routing (`wscontrol.go`) | none | path prefixes before tunnel hosts | all of the above |
| API and database (`api.go`, `internal/database`) | users, reservations, organizations in SQLite | check-then-insert handlers | the registry reads reservations |
| Authentication (`auth.go`) | token table, JWT secret | `Validate`, `AddToken` | handshake, API |
| Tunnel client (`internal/client/tunnel.go`) | client state, connection, yamux session | `Connect`, accept loop, `handleReconnect`, `Close` | server, reconnector, router |
| Reconnector (`reconnect.go`) | attempts, delay | `NextDelay`, `Reset` | tunnel client |
| Pool and router (`pool.go`, `router.go`) | idle connections, counters, closed flag | `Get`, `Put`, `Close`, cleanup loop, `pipe` | local services |
| Wire protocol (`internal/protocol`) | none; a lock per direction | length-prefixed JSON frames, stream headers | client and server |
| WebSocket adapter (`common/wsconn.go`) | unread rest of a message | `Read`, `Write`, `Close` | yamux |
| Configuration, commands, dashboard, deployment | - | - | - |

There are two servers. `cmd/server` takes raw TCP connections and ends with
`Server.Stop`. `cmd/unified` takes WebSockets on the port of the proxy and just
ends its process. The constant `Transport` ("tcp" or "ws") chooses between
them.

What is hard here: a handler goroutine, the goroutines of `Stop`, yamux's own
goroutines and every request goroutine share a session through an atomic state
with one compare-and-swap and one blind store; the registry and
`ControlPlane.sessions` are updated in separate critical sections; a request
uses a registry entry long after the lock that protected it is gone; and a lost
client is discovered only by a 30 second tick. In the client, the accept loop,
`Connect` and `Close` read and assign the state, the connection and the yamux
session with no lock in common, and the loop decides by what it finds there
whether to connect again. In the registry, a name is granted after a query of a
database that the API writes at the same time, by handlers that check in one
statement and insert in another, in a process that may end between the two. The
list `hazards` of `PROJECT.json` has each of them with its line. Only three test files exist in
the repository (registry, codec and configuration), none of which runs two
goroutines.

What makes each component correct:

* Session: one `Close` takes effect; the state only moves forward.
* Registry: a name has one holder; only the holder gives it back; the maps
  know exactly the sessions that are alive.
* Control plane: no way out of a handler leaves a name or a stored session
  behind; `Stop` ends everything it must; a lost client is forgotten.
* Proxy: a request reaches the current holder of the name it asks for, or
  nobody; it ends.
* Exchange: what is passed on as whole is whole; no full buffer and no lost party
  leaves a goroutine waiting that could have been told, but for the waits listed in section 3.
* Pool: the counter counts, the limit holds, no connection is shared or lost.
* Client: one connection at most, always the latest; connected means accepted;
  a loss is retried, with the back-off started over; `Close` returns, and leaves
  nothing behind but what a `Connect` that outlives it makes.
* Registration and accounts: names are granted as if each were granted in one
  moment; a client is told the truth about every name it asked for; an
  organization has an owner, and only administrators add to it.

## 2. The modules

| module | models |
|---|---|
| `Session` | `session.go` and the yamux session under it |
| `Registry` | `registry.go`, `EXTENDS Session` |
| `ControlPlane` | both connection handlers, `handleSession`, `Stop`, `EXTENDS Registry` |
| `HTTPProxy` | `handleRequest`, `ProxyRequest`, `EXTENDS ControlPlane` |
| `TunnelServer` | the composition: `Next`, fairness, properties, `EXTENDS HTTPProxy` |
| `TunnelDirectory` | what the server promises, abstractly |
| `MCTunnelServer` | the instances for TLC |
| `TunnelServerProofs` | the inductive invariant and what follows from it |
| `TunnelDirectoryProofs` | the server implements the directory |
| `TunnelClient` | `Run`, `Connect`, the accept loop, `handleReconnect`, `Close`, the Reconnector |
| `ClientLink` | what the client promises about its link, abstractly |
| `MCTunnelClient` | the instances for TLC |
| `TunnelClientProofs` | the client's invariants, that it never gets stuck, and that it implements the link |
| `Accounts` | the database and the API handlers that write it |
| `Registration` | handshakes: the token, the loop of `Register` item by item, restarts, `EXTENDS Accounts` |
| `NameGrants` | what registration promises about names, abstractly |
| `MCRegistration` | the instances for TLC |
| `RegistrationProofs` | the invariant of registration, and that it implements the grants |
| `Exchange` | one exchange from the visitor to the local service: `forwardRequest`, `forwardResponse`, `handleWebSocket`, the stream, `handleStream`, `pipe` |
| `MCExchange` | the instances for TLC |
| `ExchangeProofs` | what is served is whole, who can wait for whom, and a bound on the steps |
| `ConnPool` | the client's `Router` with the pool of one port |
| `ConnLease` | what the pool promises its Forwards, abstractly |
| `MCConnPool` | the instances for TLC |
| `ConnPoolProofs` | the counter, the limit and the place of every connection |
| `ConnLeaseProofs` | the pool implements the lease |

The server, the client, registration, an exchange and the pool are five systems, each
checked and proved on its own. They meet where one is an environment of another: the
client takes from `TunnelServer` that a handshake is answered or the connection
breaks; its `ForwardReturns` is the end of a `Forward` of `ConnPool`; `Exchange` begins where
the proxy of `TunnelServer` has opened its stream, and says what `ResponseForwarded`,
`StreamReset` and `StreamClosed` come from, and why a hijacked WebSocket
(`Upgrade`) has an end that nothing guarantees (`UpgradeEnds`);
`Registration` refines the one step in which the server registers. What is left
for a later version is in section 5.

### How the modules correspond to the code

`Session` and `Registry` are state and operators, without a next-state
relation of their own: a method that runs under one lock, or does one atomic
operation, is one operator, and it is the step of its caller that says when it
happens. A
Session object is identified with its connection (identifiers are unique and a
connection makes at most one session), so everything is indexed by
`Sessions`; a client that reconnects is another element.

`Session.Close` is split where other goroutines can see a difference:
`BeginClose` (the CompareAndSwap, and the cancellation of the context right
after it) and `FinishClose` (yamux and connection closed, "closed" stored).
Everybody else reads the state, the context or yamux, and sees no difference
between the moments inside each half.

`ControlPlane.pc[c]` is the program counter of a handler; each action is the
code from one access to shared state to the next: registering, sending the
response, storing, activating, leaving the select, the compare-and-swap of the
deferred `Close`, the closing of yamux, the delete from `cp.sessions` and
`Unregister`. The many early returns of the handshake, which all close the
connection, are `RejectHandshake` (a check fails), `HandshakeError` (the
connection fails) and `HandshakeTimeout` (the TCP deadline). `phase` is how far
`Server.Stop` is; `notice` and `stopper` are the goroutines it starts and does
not wait for.

`HTTPProxy.rpc[r]` is the program counter of a request goroutine. It takes one
registry lookup per step, because each takes the lock on its own, then
`handleRequest`'s check, then that of `ProxyRequest` and `OpenStream` (two reads
of one atomic in a row, whose outcome is that of the second), then the open
with its header. A request in "stream" ends at the latest when its session does: the
stream gives an end. A WebSocket goes on to "upgraded": `handleWebSocket` has
hijacked the connection and waits for two copies, of which the one that reads from
the visitor does not hear of the session (proxy.go:332).

Abstractions of the server: names are normalised (`ToLower`) elements of a set; `Claimable`
stands for validation, the reserved list and the owner in the database, and is
constant; a handshake asks for a set of names and registers them in one step
(`Registration` has duplicates, the loop and a changing database); messages and bodies have no content. yamux is modelled by what
the server uses of it: a stream opens unless the session is shut down, and a
dead connection is noticed eventually. Metrics and logging are left out.

`ConnPool` stands alone: the pools of different ports share nothing, and a
stream header selects one. What `Get`, `Put`, `Close` and the cleaner do under
`p.mu` is one step each; `Get` is three actions (an entry is valid; none is; the
pool is closed), and the dial, which is outside the lock, is a step of its own.
`fwd[f]` is the program counter of the `Forward` of stream f and `copying[f]`
the goroutines of its `pipe`. `Router.Close` holds `r.mu` over closing and
forgetting the pool, so it is one step for every lookup; a stream that looks up
after it takes the direct path. `live`, `halfClosed`, `peerClosed` and `unread`
are what the operating system knows of the connections: what a read or a write
would return. The clock counts units in which the configuration gives its
limits. Bytes have no content. `ConnLease` forgets the stack, the counter, the clock
and the state of the connections: `Get` is a lend from the set of free connections,
a dial, or a refusal that is allowed only when `MaxOpen` streams dial or hold one.

`TunnelClient` has the goroutine of `Run` (`run`, which is also inside `Close`),
that of `acceptLoop` (`loop`) and one per stream (`stream[s]`). `Connect` is called
by the first two, never by both at once, and has a program counter of its own
(`dialing`). The fields they share are read and written without a common lock, so
every access is a step, and each of these is an action named for what the code
does there. A connection and the yamux session on it are one number, that of the
dial: closing either ends both, and yamux notices. `reconnect` is chosen in
`Init`, so that one run has clients with and without a Reconnector. Of
`NextDelay` the counter and the -1 are kept; how long a delay lasts is
abstracted to over or not over. The counter saturates at `MaxCount`, which is
beyond the limit, where the code no longer tells values apart.

`Exchange` counts units of bytes at six points between the visitor and the local
service; the difference of two neighbours is what a buffer holds, and `Window` and
`Buffer` limit it, so that every goroutine can be stuck in a write. `proxy`,
`copying`, `forward` and `piping` are the goroutines; `proxyEnd` and `clientEnd` are
which side has closed the stream; `reset` is yamux's timer for a stream that only one
side has closed (`StreamCloseTimeout` in both configurations). An ended session gives
the end of the stream and not an error, as yamux does, at any point of what was under
way. `kind` is a response that tells its length (or is chunked), one that ends with its
connection, the response to HEAD, which announces a length and has no body (`Answer`),
and an upgrade. `outcome` is what `handleRequest` reports and not what the visitor gets:
`forwardResponse` swallows the error of a visitor who has gone if it is worded as a broken
pipe or a reset, so `ResponseFails` may end as "served", and after any other error the
handler returns all the same, so that net/http ends a chunked response as if it were
whole. What the visitor gets is `shown`. The visitor's time limits are `VisitorLeaves`.

`Accounts` has a row of a table as an element of a function, and a statement as
a step: SQLite has one writer (`Writable`), and a reader sees what is committed.
The transaction of `CreateOrganization` is four steps, the handler that adds a
member is two. `Registration` adds the handshakes: `reg[h]` is where one is,
`lock` is `Registry.mu`, and inside the lock every item of `Register` goes
through validation, the query for the owner and the entry, with any step of the
API in between. `item[n]` is the place in the handshake from which an entry
comes, and stands for its port, host and protocol. `Lower` is `strings.ToLower`
on spellings. `answers` says whether queries of the database succeed; it is
chosen once for a behaviour, and a database that answers sometimes is the choice
FALSE, under which each query may answer or fail. `RestartServer` ends the
process anywhere: tables stay, sessions, the registry and an open transaction do
not.

## 3. What TLC checks

| run | bounds | shows |
|---|---|---|
| `tcp_server` | TCP, 2 connections, 1 name that nobody reserved, 1 request | `TypeOK`, `HolderWillRelease`, `ActiveIsTracked`, `OneCloser`, `LiveStreamAtHolder`, `StopComplete`, `OnlyRefusalsRemain`, `SettlesClean`, `StateMovesForward`, the refinement `ImplementsDirectory` |
| `tcp_shutdown` | TCP, 2 connections, 1 name reserved for the first, 1 request | `StopDrains` |
| `ws_directory` | WebSocket, 2 connections, 2 names, one of them reserved, 1 request with up to 2 names | the refinement `ImplementsDirectory`, and `LostClientForgotten` |
| `client_link` | 3 connections, 2 streams, limit of 1 attempt, counter up to 2 | `TypeOK`, `OnlyLatestOpen`, `ConnectedIsAccepted`, `BackoffStartsOver`, `NothingLeftBehind`, `NeverStuck`, the refinement `ImplementsLink`, `LossIsRetried`, `CloseReturns` |
| `name_grants` | 2 tokens, 2 handshakes of up to 2 items, 3 spellings of 2 names, 1 organization | `TypeOK`, `StatusesAreTrue`, `OrganizationHasOwner`, `AdmittedByAdmin`, the refinement `ImplementsGrants`, `RegistrationEnds` |
| `exchange` | request and response of 3 units, buffers of 1 | `TypeOK`, `ServedIsWhole`, `NoCircularWait`, `StepsAreBounded`, `ExchangeEnds`, `Answered` |
| `pool_accounting` | 3 streams, 2 connections, 1 idle place, limit 2, clock up to 2 | `TypeOK`, `CounterIsExact`, `NeverShared`, `NoLeak`, `WithinLimit`, the refinement `ImplementsLease` |

For the client, three connections are one that is lost, one that replaces it and
one that `Close` may race; two streams, one in a handler while the other is
queued; a limit of one attempt makes the second of two failures exceed it. For
registration, two items are what a duplicate needs, and two spellings of one name
make it; one handshake has a token that the configured authenticator knows, the
other needs a user in the database; the third spelling is no valid name.
`Scope` in `MCRegistration` divides the behaviours: names and organizations share
nothing but the process and the writer of the database, so each behaviour goes on
with those it began with, and nothing reads the reservation of a name that cannot
be registered. For an exchange, three units through buffers of one fill every buffer
while there is more to come, and three are what it takes to see the wait of the two
writers described below (with two the response always fits); request and response of
two suffice for the counterexamples.

For the pool, three streams at a limit of two make one caller meet the limit
while another dials and a third copies; a clock that reaches 2 with an idle
limit of 1 lets entries expire, both in `Get` and in the cleaner. Streams and
connections are symmetric there, and so are the connections of `tcp_server`,
where no name is reserved; where one is, the owner differs and no symmetry is
declared.

In the server, every connection and every request is used once, so the state spaces are
finite without a constraint. Two connections are what the hazards need: one
that ends and one that takes over its name; a third adds no new pair, and the
theorems of section 4 hold for any number. The first connection may claim every
name, the others all but the first name (`MCClaimable`), so that refusals for
want of ownership and for want of a free name both occur. `MaxKeys` bounds the
names a request carries (the code knows three).
Deadlock checking is off: all connections and requests may have come and gone.

`LiveStreamAtHolder` is the property to read first. In `cmd/server` it has an
exception: a goroutine of `Stop` that has won the compare-and-swap has cancelled
the context, and until it closes yamux the handler may run ahead, unregister,
and another session may be granted the name, while a request that passed its
checks still opens a stream to the old session. In `cmd/unified` there is no such
goroutine and no exception. `TunnelDirectory` has the same exception as an action of
its own, `DeliverLate`, which only a directory that is `Stoppable` can take; without
it TLC finds `tcp_server` to be no directory.

### Fairness

`Fairness` is weak fairness of what the server does by itself: goroutines are
scheduled, the ticker ticks, the grace period and the handshake deadline pass,
yamux finds out about a dead connection. A client need not connect, send its
handshake or answer; a connection need not be lost; nobody need stop the server; a
visitor need not leave a WebSocket, so `Upgrade` and `UpgradeEnds` are not fair, and
`LostClientForgotten` and `StopDrains` except what has been upgraded.
The client's is that its goroutines run, that a dial ends within its ten
seconds, that a handshake is answered or its connection breaks, and that the
handler of a stream ends once its session has ended; no signal, stream, header or
loss is due. In `Exchange` it is the goroutines, yamux's timer, a
visitor who sends the body of his request or runs into `ReadTimeout`, and
a local service that reads, answers and closes in the end, without which
no proxy can promise an answer. Where a goroutine may be in a write that
blocks (`RequestBlocked`, `UpBlocked`, `RelayBlocked`), it is not expected to
notice what only a read would tell it.
Registration's is `WF_vars(Register(h))`: a query ends, and the
mutex goes to every goroutine that waits for it, which is what Go's mutex
does; nobody needs to send a handshake or to end a session.

No strong fairness is used. `ConnPool` claims no liveness: whether a copy ends is
up to the local service, of which the code assumes nothing.

### Disagreements found

Each is a run that TLC ends with a counterexample.

| run | what is said | what happens |
|---|---|---|
| `refused_leak` | registry.go:230 "GetAllSessions returns all active sessions" | a session refused all its names stays in the map for ever |
| `busy_idle` | config.go:115 "IdleTimeout is the timeout for idle connections" | a session busy with one long request counts as idle |
| `exchange_eof` | router.go:106 "Signal EOF to server" | a yamux stream is not the `*net.TCPConn` the code asks for: client and server each wait for the other to close, until the session ends |
| `client_stop` | reconnect.go:46 "Signal to stop reconnecting", config.go:278 "MaxAttempts is the maximum number of reconnection attempts" | the loop takes -1 for a delay that is over and dials at once, then for ever without a delay |
| `pool_reuse` | pool.go:57 "a pool of reusable connections" | every connection given back has been half-closed |

Others were met while reading, and no run has them as its question:

* "HandshakeTimeout is the timeout for completing the handshake" (config.go:112):
  there is none for WebSockets, where `AcceptStream` and `ReadMessage` wait without a
  deadline (wscontrol.go:74);
* "RequestTimeout is the timeout for proxied requests" (config.go:118): nothing reads
  it, and a request whose service is silent waits as long as the service and the
  session live (proxy.go:208);
* "ConnMaxLifetime is the maximum lifetime of a connection" (pool.go:19): `Put`
  stores the connection with both time stamps set to now (pool.go:168), so that its
  lifetime starts again with every use;
* a local service that answers at length and closes before it has read a long request
  (a refused upload) can leave client and server waiting for each other: the
  proxy writes all of the request before it reads (proxy.go:201), `pipe` has
  stopped reading it (router.go:88), and each waits for room in the stream, without a
  deadline, until the session ends. It takes a response and a request that are both
  longer than the window, which is why TLC finds it with three units and not with two;
  it is the last alternative of `NoCircularWait`;
* an upgraded connection whose visitor has left is not ended (proxy.go:332): each of
  the two copies ends alone, and neither tells the client; it goes with the session.
  `ExchangeEnds` says that it does then;
* one whose visitor stays and is silent outlives its session, and a `Stop`: the copy that
  reads from the visitor is told nothing, and the public server does not wait for
  hijacked connections (server.go:152). Here the exchange and the server agree:
  `ExchangeEnds`, `LostClientForgotten`, `StopDrains` and `SettlesClean` except it;
* the answer to HEAD is read as one to GET (`ReadResponse(reader, nil)`, proxy.go:265):
  if it announces a length, the proxy waits for a body that nobody sends, with visitor,
  session and service all there, until one of them goes. `Answered` is about framed
  responses to other methods, and `NoCircularWait` names this wait;
* "Response may have already started, so we can't send an error" (proxy.go:210): the
  handler returns, and net/http ends a chunked response that was cut as if it were
  whole, and one of which not even the head came as an empty 200. And a visitor who goes
  in the middle may count as "request completed" (proxy.go:282). `ServedIsWhole`
  therefore speaks of what a visitor was shown, whatever is reported;
* `ConnectionPool.Close`, which "closes the pool and all connections"
  (pool.go:175), closes the idle ones; the others stay open until their `Forward`
  returns;
* `Session.Close` (session.go:335) on a session that is still connecting does
  nothing, so that the TCP connection of a handshake that is refused or fails after
  the session was made stays open until the client closes it.
  `OnlyRefusedStayOpen` says that no other handler leaves one open;
* "tunnel has been permanently closed" (tunnel.go:39), of the state "closed": a
  `Connect` that `Close` does not find in the fields it reads completes, overwrites
  the state, and the process ends with the link up. The exception in
  `NothingLeftBehind` is this;
* without a Reconnector the accept loop does not end when its session does: it
  sees the error again and again (tunnel.go:345);
* the jitter of a quarter is added after the limit of `MaxDelay` (reconnect.go:58);
* the reserved spelling is not folded (api.go:72) while the registry looks up
  the folded name: a reservation with a capital letter protects nothing. The
  instance of `name_grants` has such a spelling;
* messages.go:139 sets the defaults of a tunnel on the copy of a loop variable, where
  they are lost.

## 4. What is proved

For every value of the constants: any number of connections, names, requests,
streams and items, both transports and any assignment of names to tokens. The
assumptions are the named `ASSUME`s of the modules (`RegistryAssumption`,
`ControlPlaneAssumption`, `HTTPProxyAssumption`, `ClientAssumption`,
`AccountsAssumption`, `RegistrationAssumption`, `ExchangeAssumption`, `PoolAssumption`): types of the
constants, null values that are none of the others, and that folding a valid name
leaves it as it is. TLC evaluates them in the runs.

| theorem | property |
|---|---|
| `TypeCorrect` | `[]TypeOK` |
| `NamesAreReleased` | `[]HolderWillRelease` |
| `ClosedOnce` | `[]OneCloser` |
| `LeakIsBounded` | `[]OnlyRefusalsRemain` |
| `ActiveSessionsTracked` | `[]ActiveIsTracked` |
| `StopIsComplete` | `[]StopComplete` |
| `StreamsAtHolder` | `[]LiveStreamAtHolder` |
| `AlwaysSettlesClean` | `[]SettlesClean` |
| `StateOnlyAdvances` | `StateMovesForward` |
| `ServerIsDirectory` | `Spec => ImplementsDirectory`, for both transports |
| `ClientTypeCorrect` | `[]TypeOK` of `TunnelClient` |
| `NoOlderConnection` | `[]OnlyLatestOpen` |
| `ConnectedOnlyAccepted` | `[]ConnectedIsAccepted` |
| `BackoffAlwaysStartsOver` | `[]BackoffStartsOver` |
| `CloseLeavesNothing` | `[]NothingLeftBehind` |
| `ClientNeverStuck` | `[]NeverStuck` |
| `ClientIsLink` | `Spec => ImplementsLink` |
| `RegistrationTypeCorrect` | `[]TypeOK` of `Registration` |
| `StatusesAlwaysTrue` | `[]StatusesAreTrue` |
| `OrganizationsHaveOwners` | `[]OrganizationHasOwner` |
| `AdmissionsByAdmins` | `[]AdmittedByAdmin` |
| `RegistrationGrants` | `Spec => ImplementsGrants` |
| `ExchangeTypeCorrect` | `[]TypeOK` of `Exchange` |
| `ServedAlwaysWhole` | `[]ServedIsWhole` |
| `WaitsAreKnown` | `[]NoCircularWait` |
| `StepsAlwaysBounded` | `StepsAreBounded` |
| `PoolTypeCorrect` | `[]TypeOK` of `ConnPool` |
| `CounterAlwaysExact`, `LimitAlwaysKept` | `[]CounterIsExact`, `[]WithinLimit` |
| `ConnectionsNeverShared`, `ConnectionsNeverLeak` | `[]NeverShared`, `[]NoLeak` |
| `PoolIsLease` | `Spec => ImplementsLease` |

The server. `IInv` (in `TunnelServer`) is inductive. Its parts, beyond the
properties themselves: `StateFollowsHandler` bounds the state of a session by
the step of its handler, says that "closed" implies that yamux is shut down, and
that `Stop` starts its goroutines once (without this `OneCloser` is not
inductive); `TracksHandlers` ties `cp.sessions`, the registry and the end of
`Stop` to the steps of the handlers; `EntryStays` says that the session of an
entry a request holds still has the name or has no handler any more, and that a
session past the checks has been active. `LiveStreamAtHolder` follows without
induction: were the handler gone, the session could not be active; "closed" means
yamux is shut down; "closing" means somebody is inside `Close`, and with the
handler gone that is a goroutine of `Stop`. The lemma `SessionsMoveOn` says what
a step may do to a session at all, and gives both `EntryStays` and
`StateMovesForward`.

`SettlesClean` is a statement about rest: `AtRest` spells out that no action is
possible which `Fairness` calls fair. A handler is then done, or serves a session
that nobody closes; `StateFollowsHandler` makes that session active,
`HolderWillRelease` leads from every name to it, and `LiveStreamAtHolder` from every
open stream to the name. After the cancellation nobody serves, so nothing is left but WebSockets cut off from
their session: for all sizes, the state that `StopDrains` and `LostClientForgotten` say
is reached.

For the refinement, `Register` maps to `Grant` or `TurnAway`, `Unregister` to
`Release`, the two halves of a `Close` by a goroutine of `Stop` to `BeginClosing` and
`EndClosing`, and everything else but `OpenStream` to a stutter. `OpenStream` is
`Deliver` while the name is still held; when it is not, `EntryStays` says that the
handler is gone, and the argument of `LiveStreamAtHolder` leaves a goroutine of
`Stop` inside `Close`: that is `DeliverLate`. The last part of `TracksHandlers` keeps
`cmd/unified` from all of this: only TCP leaves the phase "running".

The client. `ClientInv` is inductive. `CallsInv` says that `Connect` has one
caller, so that its local variable and its program counter are one; `AssignedInv`
says which fields a `Connect` has assigned so far; `OpenInv` says when nothing is
open: the loop comes to `Connect` only through a state it read as "disconnected",
and between that read and the dial nobody opens anything. That is why an attempt,
which overwrites `conn` and `muxSession` without closing them, loses no connection.
`CountInv` follows the counter from the one place that resets it through the loop
back to an error, as long as `Run` waits for its signal: after that, `Close` may
write "closed" between two reads of the loop and the argument does not hold.
`EndInv` is the wait for the goroutines. `WaitInv`, inductive together with
`ClientInv`, says what they may wait for, and with it `NeverStuck`, the same kind of
statement as `SettlesClean`, follows: when `Close` closes the session, either nothing
is open any more or a `Connect` is between its dial and the new session, and then every
handler has an older one; the loop does not come back to `AcceptStream` after that,
because the context is done when it is next at its top. For the refinement, `DialSucceeds` maps to
`Make`, what closes the open connection to `Break`, the end of `Run` to `Finish`, all
else to a stutter.

Registration. `RegistrationInv` is inductive. `LockInv` ties the lock to the one
handshake inside `Register`, `ProgressInv` says how far that is, and
`StatusesAreTrue` itself is strong enough to be inductive with them: an item that is
answered "active" is the last with its name, and its entry replaces the one before.
`OrganizationInv` adds that nobody creates the organization of a running
transaction, which is where the single writer enters. The refinement is linearised
at the query for the owner: `Granted` counts a name as granted as soon as `Register`
has let it through, before the entry is there, because a reservation that comes
between the two must be later than the grant. Nobody sees the difference: the
registry is locked.

The exchange. `ExchangeInv` is inductive. `PipeInv` says what it means that the copy to
the server has ended while the session is alive: the service has closed, and either
all it wrote is in the stream or it had not read its request. So when the proxy
comes to the end of the stream nothing more can follow, and `OutcomeInv` keeps that:
a service that has closed writes nothing, and a counter that has met the one in front
of it stays. `WaitInv` says who has told whom of an end. `ServedIsWhole` has two halves:
`CompletedIsWhole` is about what the proxy reports, and `ShortIsCut` says that, whatever
it reports, a visitor who is there has been shown the answer but for the reasons in
`Cut`. The second is where the timer enters: it can take the stream from a visitor who
reads slowly only after the client has closed its side, for which the service must have
closed or the session ended, if there ever was a connection to it.

`NoCircularWait` is a statement about states: `AllWait` spells out that no action is
possible which `FairSpec` calls fair, and the property lists what such a state can be.
The proof is by the client's side: with the service alive both copies of `pipe` run,
what was sent has been read and what was written has been passed on, so that only an
upgraded connection has nothing more to do, and only HEAD leaves the proxy waiting for
more (`ServiceAlive`); with the service gone
the copy that is left waits for room in the stream or for its end (`ServiceGone`);
with the handler gone the timer or the loss of the session has taken the stream from
the proxy (`HandlerGone`). `StepsAreBounded` is the other half: every step adds to
`Work`, which the sizes bound. Together they say, for all sizes, what TLC checks as
liveness for small ones: a behaviour that is fair ends, and where it ends all parties
wait. The last inference is about fairness and is not checked by the prover.

The pool. `PoolInv` is inductive with one addition, `PathOK` (a closed pool keeps nothing; only `Lookup` chooses the
direct path): without it a Forward that leaves "get" could be one that does not
count. The proof follows two accounts through every action: the counter, where
`Busy` gains or loses one member whenever `numOpen` or the stack moves, and the
places, where a connection moves between stack and hand and is never copied.

For the refinement these accounts are the mapping: the set of free connections is
what is on the stack, and no connection is there twice, so that the length `Put`
compares with its limit is the size of the set (`PooledCount`); `numOpen` less the
stack is the number of streams that dial or hold a connection, so that `Get` turns a
stream away exactly when the abstract limit is reached (`MissDialsOrEnds`). This
takes one more invariant, `RouteOK`: the router has the pool just as long as it is
open, and until then nobody dials past it. The `Close` of a connection of one's own
is then a return to a pool that is shut.

Only model-checked: the liveness properties (`LostClientForgotten`,
`StopDrains`, `LossIsRetried`, `CloseReturns`, `RegistrationEnds`, `ExchangeEnds`,
`Answered`), since fairness and ENABLED are out of the prover's reach; and the
counterexamples. `SettlesClean`, `NeverStuck` and `NoCircularWait` are what is
proved in their place: where a server, a client or an exchange ends up if it comes
to rest. That it does is proved for the exchange only (`StepsAreBounded`).

## 5. What is not modelled

The table of components in `PROJECT.json` gives the reason for each. In short:

* Not composed: the control of client and server in one behaviour (one exchange is,
  in `Exchange`). What the two owe each other
  is listed in section 2; the product of their states is out of TLC's reach at the
  sizes at which either is interesting.
* Sequential and without shared state, where tests reach what a model would: the
  codec and the stream header, the WebSocket adapter, the decision of the unified
  server by path and host (which gives `/api/` and the other prefixes to the server
  before it looks at the host), configuration, identifiers, flags.
* Only reads, or no code calls it: the list handlers of the API, login, the request
  log, `RemoveOrganizationMember`, the token tables, `AddToken` and `RemoveToken`,
  `NewSession`, `AcceptStream`, `UnregisterTunnel`, `AddPool`, `RemovePool`.
* In the client: half-written values. `Tunnel.conn` and the others are assigned
  without a lock, which is a data race; the model has every order of whole
  accesses, but not the reading of an interface value between its two words, which
  could only happen for the first connection (later ones have the same type); a
  signal during the first `Connect`, which ends the process; the error of
  `yamux.Client`, which the fixed configuration cannot give; a second caller of
  `Close`, which no program has; the length of a delay and its jitter.
* In the server: the partial failure of `Start`, and the metrics.
* The dashboard and the deployment files have no logic of the tunnel.

## 6. Running

    tlc -config tcp_server.cfg MCTunnelServer.tla       # tcp_shutdown, ws_directory, ...
    tlc -config client_link.cfg MCTunnelClient.tla      # client_stop
    tlc -config name_grants.cfg MCRegistration.tla
    tlc -config pool_accounting.cfg MCConnPool.tla      # pool_reuse
    tlc -config exchange.cfg MCExchange.tla             # exchange_eof
    tlapm TunnelServerProofs.tla
    tlapm TunnelDirectoryProofs.tla
    tlapm TunnelClientProofs.tla
    tlapm RegistrationProofs.tla
    tlapm ConnPoolProofs.tla
    tlapm ConnLeaseProofs.tla
    tlapm ExchangeProofs.tla

Operators whose name has an underscore (`CloseWins_NotClosed`, ...) are mutated
forms of the definition they stand before, each a plausible bug. `PROJECT.json`
pairs each with the property that must fail when it replaces the original; the
models never use them.
