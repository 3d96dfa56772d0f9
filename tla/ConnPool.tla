-------------------------------- MODULE ConnPool --------------------------------
(***************************************************************************)
(* The client's Router with the ConnectionPool of one local port           *)
(* (internal/client/router.go, internal/client/pool.go).                   *)
(*                                                                         *)
(* Every stream of the server is forwarded by a goroutine of its own: it   *)
(* looks up the pool, takes or dials a connection to the local service,    *)
(* copies in both directions and gives the connection back.  Everything    *)
(* the pool does under p.mu is one step; the dial is outside the lock.     *)
(*                                                                         *)
(* The bytes are abstracted to what the code can tell apart: a connection  *)
(* has something to read (unread), or has been closed by the local         *)
(* service (peerClosed), or has had its sending half shut (halfClosed).    *)
(***************************************************************************)
EXTENDS Integers, Sequences, FiniteSets

CONSTANTS
    Streams,           \* streams of the server, one Forward each
    Conns,             \* names for TCP connections to the local service
    NoConn,
    MaxIdleConns, MaxOpenConns, ConnMaxIdleTime, ConnMaxLifetime,
    MaxTime            \* bound on the clock

ASSUME PoolAssumption ==
    /\ NoConn \notin Conns
    /\ {MaxIdleConns, MaxOpenConns, ConnMaxIdleTime, ConnMaxLifetime} \subseteq Nat
    /\ IsFiniteSet(Streams)

VARIABLES
    idle,         \* ConnectionPool.idle, a stack of pooledConn
    numOpen,      \* ConnectionPool.numOpen
    closed,       \* ConnectionPool.closed
    routed,       \* Router.pools holds the pool
    fwd,          \* where the goroutine of each stream is
    via,          \* whether Forward uses the pool or the direct fallback
    held,         \* localConn of each Forward
    copying,      \* the goroutines of pipe that still run
    streamEnded,  \* the server, or the multiplexed session, closed the stream
    live,         \* connections the client has open
    halfClosed,   \* of those, the ones on which CloseWrite was called
    peerClosed,   \* of those, the ones the local service has closed
    unread,       \* of those, the ones with bytes waiting
    now

poolVars == <<idle, numOpen, closed>>
fwdVars == <<fwd, via, held, copying, streamEnded>>
connVars == <<live, halfClosed, peerClosed, unread>>
vars == <<poolVars, routed, fwdVars, connVars, now>>

Entries == [conn : Conns, createdAt : Nat, lastUsed : Nat]
Directions == {"toLocal", "toServer"}

Pooled == {idle[i].conn : i \in DOMAIN idle}
Held == {held[f] : f \in {g \in Streams : fwd[g] = "pipe"}}

(* The Forwards that count against MaxOpenConns: Get has let them past the
   limit and Put has not taken their connection back. *)
Busy == {f \in Streams : via[f] = "pool" /\ fwd[f] \in {"dial", "pipe"}}

TypeOK ==
    /\ idle \in Seq(Entries)
    /\ numOpen \in Int
    /\ closed \in BOOLEAN
    /\ routed \in BOOLEAN
    /\ fwd \in [Streams -> {"new", "get", "dial", "pipe", "done"}]
    /\ via \in [Streams -> {"pool", "direct"}]
    /\ held \in [Streams -> Conns \cup {NoConn}]
    /\ \A f \in Streams : fwd[f] = "pipe" => held[f] # NoConn
    /\ copying \in [Streams -> SUBSET Directions]
    /\ streamEnded \in [Streams -> BOOLEAN]
    /\ live \subseteq Conns
    /\ halfClosed \subseteq Conns
    /\ peerClosed \subseteq Conns
    /\ unread \subseteq Conns
    /\ now \in Nat

Init ==
    /\ idle = <<>>
    /\ numOpen = 0
    /\ closed = FALSE
    /\ routed = TRUE
    /\ fwd = [f \in Streams |-> "new"]
    /\ via = [f \in Streams |-> "pool"]
    /\ held = [f \in Streams |-> NoConn]
    /\ copying = [f \in Streams |-> {}]
    /\ streamEnded = [f \in Streams |-> FALSE]
    /\ live = {}
    /\ halfClosed = {}
    /\ peerClosed = {}
    /\ unread = {}
    /\ now = 0

-------------------------------------------------------------------------------
(* Connections. *)

(* conn.Close on each connection of C: the names are free again. *)
Disconnect(C) ==
    /\ live' = live \ C
    /\ halfClosed' = halfClosed \ C
    /\ peerClosed' = peerClosed \ C

CloseConns(C) == Disconnect(C) /\ unread' = unread \ C

(* The local service writes, or closes its side, at any time. *)
LocalSends(c) ==
    /\ c \in live \ (peerClosed \cup unread)
    /\ unread' = unread \cup {c}
    /\ UNCHANGED <<poolVars, routed, fwdVars, live, halfClosed, peerClosed, now>>

LocalCloses(c) ==
    /\ c \in live \ peerClosed
    /\ peerClosed' = peerClosed \cup {c}
    /\ UNCHANGED <<poolVars, routed, fwdVars, live, halfClosed, unread, now>>

-------------------------------------------------------------------------------
(* ConnectionPool. *)

IdleTooLong(e) == ConnMaxIdleTime > 0 /\ now - e.lastUsed > ConnMaxIdleTime
TooOld(e) == ConnMaxLifetime > 0 /\ now - e.createdAt > ConnMaxLifetime

(* isValidConnection: the read of one byte tells a dead connection by its
   EOF, but a connection with bytes waiting passes. *)
Valid(e) ==
    /\ ~TooOld(e)
    /\ ~IdleTooLong(e)
    /\ e.conn \in unread \/ e.conn \notin peerClosed

ConnsFrom(i) == {idle[j].conn : j \in i .. Len(idle)}

Step(f, to) == fwd' = [fwd EXCEPT ![f] = to]

Hand(f, c) ==
    /\ Step(f, "pipe")
    /\ held' = [held EXCEPT ![f] = c]
    /\ copying' = [copying EXCEPT ![f] = Directions]
    /\ UNCHANGED <<via, streamEnded>>

(* Mutated form: the entry handed out stays on the stack. *)
Popped_Keeps(i) == SubSeq(idle, 1, i)

(* The stack after Get has popped down to entry i, that entry included. *)
Popped(i) == SubSeq(idle, 1, i - 1)

(* Get pops entries until one is valid; those it passes over are closed.  The
   check has consumed a byte when there was one. *)
GetReuse(f) ==
    /\ fwd[f] = "get" /\ ~closed
    /\ \E i \in DOMAIN idle :
        /\ Valid(idle[i])
        /\ \A j \in i + 1 .. Len(idle) : ~Valid(idle[j])
        /\ idle' = Popped(i)
        /\ numOpen' = numOpen - (Len(idle) - i)
        /\ Hand(f, idle[i].conn)
        /\ Disconnect(ConnsFrom(i + 1))
        /\ unread' \in {unread \ ConnsFrom(i + 1), unread \ ConnsFrom(i)}
    /\ UNCHANGED <<closed, routed, now>>

(* Mutated form: the limit is compared with > instead of >=. *)
AtLimit_OffByOne(n) == MaxOpenConns > 0 /\ n > MaxOpenConns

AtLimit(n) == MaxOpenConns > 0 /\ n >= MaxOpenConns

(* No entry is valid: all are closed, and the limit decides between a new
   connection and the error "connection pool exhausted". *)
GetMiss(f) ==
    /\ fwd[f] = "get" /\ ~closed
    /\ \A i \in DOMAIN idle : ~Valid(idle[i])
    /\ idle' = <<>>
    /\ CloseConns(Pooled)
    /\ LET n == numOpen - Len(idle) IN
        \/ ~AtLimit(n) /\ Step(f, "dial") /\ numOpen' = n + 1
        \/ AtLimit(n) /\ Step(f, "done") /\ numOpen' = n
    /\ UNCHANGED <<closed, routed, via, held, copying, streamEnded, now>>

GetClosed(f) ==
    /\ fwd[f] = "get" /\ closed
    /\ Step(f, "done")
    /\ UNCHANGED <<poolVars, routed, via, held, copying, streamEnded, connVars, now>>

DialSucceeds(f) ==
    /\ fwd[f] = "dial"
    /\ \E c \in Conns \ live :
        /\ Hand(f, c)
        /\ live' = live \cup {c}
    /\ UNCHANGED <<poolVars, routed, halfClosed, peerClosed, unread, now>>

(* Mutated forms: the place taken for the dial is not given back; the error is
   ignored. *)
DialFails_KeepsPlace(f) ==
    /\ fwd[f] = "dial"
    /\ Step(f, "done")
    /\ UNCHANGED <<poolVars, routed, via, held, copying, streamEnded, connVars, now>>

DialFails_Ignored(f) ==
    /\ fwd[f] = "dial"
    /\ Hand(f, NoConn)
    /\ UNCHANGED <<poolVars, routed, connVars, now>>

DialFails(f) ==
    /\ fwd[f] = "dial"
    /\ Step(f, "done")
    /\ numOpen' = IF via[f] = "pool" THEN numOpen - 1 ELSE numOpen
    /\ UNCHANGED <<idle, closed, routed, via, held, copying, streamEnded, connVars, now>>

(* Mutated forms: Put does not look whether the pool is closed; it keeps one too many. *)
Full_WhenClosed == Len(idle) >= MaxIdleConns
Full_OffByOne == closed \/ Len(idle) > MaxIdleConns

(* Put closes the connection instead of keeping it. *)
Full == closed \/ Len(idle) >= MaxIdleConns

(* Put: a kept connection gets both its time stamps anew. *)
Put(c) ==
    \/ /\ Full
       /\ CloseConns({c})
       /\ numOpen' = numOpen - 1
       /\ UNCHANGED idle
    \/ /\ ~Full
       /\ idle' = Append(idle, [conn |-> c, createdAt |-> now, lastUsed |-> now])
       /\ UNCHANGED <<connVars, numOpen>>

(* A tick of the cleaner that finds something to close: g enumerates, in their
   order, the positions it keeps. *)
CleanIdle ==
    LET gone == {i \in DOMAIN idle : IdleTooLong(idle[i]) \/ TooOld(idle[i])}
        kept == DOMAIN idle \ gone
    IN  /\ ~closed
        /\ gone # {}
        /\ \E n \in 0 .. Len(idle) : \E g \in [1 .. n -> kept] :
            /\ \A j, k \in 1 .. n : j < k => g[j] < g[k]
            /\ kept = {g[k] : k \in 1 .. n}
            /\ idle' = [k \in 1 .. n |-> idle[g[k]]]
            /\ numOpen' = numOpen - (Len(idle) - n)
        /\ CloseConns({idle[i].conn : i \in gone})
        /\ UNCHANGED <<closed, routed, fwdVars, now>>

-------------------------------------------------------------------------------
(* Router. *)

(* Forward looks the port up; a port without a pool, as every port is after
   Router.Close, is dialled directly. *)
Lookup(f) ==
    /\ fwd[f] = "new"
    /\ \/ routed /\ Step(f, "get") /\ UNCHANGED via
       \/ ~routed /\ Step(f, "dial") /\ via' = [via EXCEPT ![f] = "direct"]
    /\ UNCHANGED <<poolVars, routed, held, copying, streamEnded, connVars, now>>

(* The request is over on the server's side; Tunnel.Close ends every stream, by
   closing the multiplexed session. *)
StreamEnds(f) ==
    /\ ~streamEnded[f]
    /\ streamEnded' = [streamEnded EXCEPT ![f] = TRUE]
    /\ UNCHANGED <<poolVars, routed, fwd, via, held, copying, connVars, now>>

StopCopy(f, d) == copying' = [copying EXCEPT ![f] = @ \ {d}]

(* Server to local: the copy ends with the stream, or when writing to a closed
   connection fails; either way the sending half is shut. *)
EndToLocal(f) ==
    /\ fwd[f] = "pipe" /\ "toLocal" \in copying[f]
    /\ streamEnded[f] \/ held[f] \in peerClosed
    /\ StopCopy(f, "toLocal")
    /\ halfClosed' = halfClosed \cup {held[f]}
    /\ UNCHANGED <<poolVars, routed, fwd, via, held, streamEnded,
                   live, peerClosed, unread, now>>

(* Local to server: bytes are copied; a write to an ended stream may fail. *)
CopyToServer(f) ==
    /\ fwd[f] = "pipe" /\ "toServer" \in copying[f]
    /\ held[f] \in unread
    /\ unread' \in {unread, unread \ {held[f]}}
    /\ \/ streamEnded[f] /\ StopCopy(f, "toServer")
       \/ unread' # unread /\ UNCHANGED copying
    /\ UNCHANGED <<poolVars, routed, fwd, via, held, streamEnded,
                   live, halfClosed, peerClosed, now>>

EndToServer(f) ==
    /\ fwd[f] = "pipe" /\ "toServer" \in copying[f]
    /\ held[f] \in peerClosed \ unread
    /\ StopCopy(f, "toServer")
    /\ UNCHANGED <<poolVars, routed, fwd, via, held, streamEnded, connVars, now>>

(* Forward returns: its deferred Put, or Close of a direct connection. *)
Release(f) ==
    /\ fwd[f] = "pipe" /\ copying[f] = {}
    /\ Step(f, "done")
    /\ held' = [held EXCEPT ![f] = NoConn]
    /\ \/ via[f] = "pool" /\ Put(held[f])
       \/ via[f] = "direct" /\ CloseConns({held[f]}) /\ UNCHANGED <<idle, numOpen>>
    /\ UNCHANGED <<closed, routed, via, copying, streamEnded, now>>

(* Router.Close, from Tunnel.Close: the pool is closed and forgotten under
   r.mu, so that no Lookup comes between. *)
CloseRouter ==
    /\ ~closed
    /\ closed' = TRUE
    /\ routed' = FALSE
    /\ idle' = <<>>
    /\ numOpen' = 0
    /\ CloseConns(Pooled)
    /\ UNCHANGED <<fwdVars, now>>

Tick ==
    /\ now < MaxTime
    /\ now' = now + 1
    /\ UNCHANGED <<poolVars, routed, fwdVars, connVars>>

Forward(f) ==
    \/ Lookup(f)
    \/ GetReuse(f)
    \/ GetMiss(f)
    \/ GetClosed(f)
    \/ DialSucceeds(f)
    \/ DialFails(f)
    \/ EndToLocal(f)
    \/ CopyToServer(f)
    \/ EndToServer(f)
    \/ Release(f)

Next ==
    \/ \E f \in Streams : Forward(f) \/ StreamEnds(f)
    \/ \E c \in Conns : LocalSends(c) \/ LocalCloses(c)
    \/ CleanIdle
    \/ CloseRouter
    \/ Tick

Spec == Init /\ [][Next]_vars

-------------------------------------------------------------------------------
(* Properties. *)

(* The counter of an open pool is the number of idle connections and of
   Forwards that dial or use one: no path of Get, Put, the cleaner or a failed
   dial forgets to count, or counts twice. *)
CounterIsExact == ~closed => numOpen = Len(idle) + Cardinality(Busy)

(* A connection is in one place: once in the idle stack, or with one Forward.
   Two requests never share a connection. *)
NeverShared ==
    /\ \A i, j \in DOMAIN idle : idle[i].conn = idle[j].conn => i = j
    /\ \A f, g \in Streams :
        fwd[f] = "pipe" /\ fwd[g] = "pipe" /\ held[f] = held[g] => f = g
    /\ Pooled \cap Held = {}

(* The open connections are those in use and, while the pool is open, the idle
   ones: nothing leaks, also when the pool is closed while a dial or a copy is
   running, and nobody is handed a connection the pool has closed. *)
NoLeak == live = IF closed THEN Held ELSE Pooled \cup Held

(* The pool never keeps more connections than MaxOpenConns, dials included,
   also while it is being closed. *)
WithinLimit == MaxOpenConns > 0 => Len(idle) + Cardinality(Busy) <= MaxOpenConns

(* pool.go: a pool of reusable connections, each checked to be still valid.
   What Get hands out can still be written to. *)
ReusedIsWritable ==
    [][\A f \in Streams :
        fwd[f] = "get" /\ fwd'[f] = "pipe" => held'[f] \notin halfClosed]_vars

-------------------------------------------------------------------------------
(* What the pool promises as a whole (refinement). *)

Stage(f) ==
    IF fwd[f] \in {"new", "get"} THEN "waiting"
    ELSE IF fwd[f] = "dial" THEN "dialling"
    ELSE IF fwd[f] = "pipe" THEN "leased" ELSE "over"

Lent(f) == IF fwd[f] = "pipe" THEN held[f] ELSE NoConn

Lease == INSTANCE ConnLease WITH
    stage <- [f \in Streams |-> Stage(f)],
    lease <- [f \in Streams |-> Lent(f)],
    free <- Pooled,
    shut <- closed,
    MaxIdle <- MaxIdleConns,
    MaxOpen <- MaxOpenConns

(* Router and pool lend connections as ConnLease says: the stack, the counter and the
   two places where Forward takes a connection from add up to a set of free
   connections, a lease for each stream and a limit that is neither exceeded nor
   claimed to be reached when it is not, with Close at any moment. *)
ImplementsLease == Lease!Spec

=================================================================================
