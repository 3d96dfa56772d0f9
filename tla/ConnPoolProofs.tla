----------------------------- MODULE ConnPoolProofs -----------------------------
(***************************************************************************)
(* Proofs about ConnPool, for any number of streams and connections and    *)
(* every configuration of the pool.                                        *)
(*                                                                         *)
(* The argument: PoolInv is inductive.  Its parts follow three accounts,   *)
(* each with a lemma: the types, the counter and the limit (how numOpen,   *)
(* the idle stack and the set Busy move together), and the places a        *)
(* connection can be in.                                                   *)
(***************************************************************************)
EXTENDS ConnPool, FiniteSetTheorems, SequenceTheorems, TLAPS

(* A closed pool keeps nothing, and only Lookup chooses the direct path: what
   the two accounts need to know of the control. *)
PathOK ==
    /\ closed => idle = <<>>
    /\ \A f \in Streams : fwd[f] \in {"new", "get"} => via[f] = "pool"

PoolInv ==
    /\ TypeOK
    /\ PathOK
    /\ CounterIsExact
    /\ WithinLimit
    /\ NeverShared
    /\ NoLeak

LEMMA BusyIsFinite == IsFiniteSet(Busy) /\ Cardinality(Busy) \in Nat
BY PoolAssumption, FS_Subset, FS_CardinalityType, Busy \subseteq Streams DEF Busy

(* A Forward that starts, or stops, to count against the limit. *)
LEMMA BusyGains ==
    ASSUME NEW f \in Streams, f \notin Busy, Busy' = Busy \cup {f}
    PROVE  Cardinality(Busy') = Cardinality(Busy) + 1
BY BusyIsFinite, FS_AddElement

LEMMA BusyLoses ==
    ASSUME NEW f \in Streams, f \in Busy, Busy' = Busy \ {f}
    PROVE  Cardinality(Busy') = Cardinality(Busy) - 1
BY BusyIsFinite, FS_RemoveElement

(* The entries below position i of the idle stack. *)
LEMMA PoppedProperties ==
    ASSUME TypeOK, NEW i \in DOMAIN idle
    PROVE  /\ Popped(i) \in Seq(Entries)
           /\ Len(Popped(i)) = i - 1
           /\ \A j \in 1 .. i - 1 : Popped(i)[j] = idle[j]
BY SubSeqProperties, LenProperties DEF TypeOK, Popped

-------------------------------------------------------------------------------

LEMMA InitPoolInv == Init => PoolInv
<1> SUFFICES ASSUME Init PROVE PoolInv
  OBVIOUS
<1> USE DEF Init
<1>1. TypeOK
  <2>1. idle \in Seq(Entries)
    BY EmptySeq
  <2>2. /\ numOpen = 0 /\ closed \in BOOLEAN /\ routed \in BOOLEAN /\ now = 0
        /\ live = {} /\ halfClosed = {} /\ peerClosed = {} /\ unread = {}
    OBVIOUS
  <2>3. /\ fwd = [f \in Streams |-> "new"]
        /\ via = [f \in Streams |-> "pool"]
        /\ held = [f \in Streams |-> NoConn]
        /\ copying = [f \in Streams |-> {}]
        /\ streamEnded = [f \in Streams |-> FALSE]
    OBVIOUS
  <2> HIDE DEF Init
  <2> QED
    BY <2>1, <2>2, <2>3 DEF TypeOK
<1>2. PathOK
  BY DEF PathOK
<1>3. Busy = {} /\ Pooled = {} /\ Held = {}
  BY DEF Busy, Pooled, Held
<1>4. CounterIsExact /\ WithinLimit
  BY <1>3, FS_EmptySet, PoolAssumption DEF CounterIsExact, WithinLimit
<1>5. NeverShared /\ NoLeak
  BY <1>3 DEF NeverShared, NoLeak
<1> QED
  BY <1>1, <1>2, <1>4, <1>5 DEF PoolInv

(* Every step keeps the types. *)
LEMMA NextTypeOK ==
    ASSUME TypeOK, [Next]_vars
    PROVE  TypeOK'
<1> USE DEF Step, Hand, Directions, StopCopy
<1>1. ASSUME NEW f \in Streams, GetReuse(f)
      PROVE  TypeOK'
  <2>1. PICK i \in DOMAIN idle :
            /\ idle' = Popped(i)
            /\ numOpen' = numOpen - (Len(idle) - i)
            /\ Hand(f, idle[i].conn)
            /\ Disconnect(ConnsFrom(i + 1))
            /\ unread' \in {unread \ ConnsFrom(i + 1), unread \ ConnsFrom(i)}
    BY <1>1 DEF GetReuse
  <2>2. Popped(i) \in Seq(Entries) /\ idle[i] \in Entries /\ i \in Nat
    BY PoppedProperties, ElementOfSeq, LenProperties DEF TypeOK
  <2>3. idle' \in Seq(Entries) /\ numOpen' \in Int
    BY <2>1, <2>2, LenProperties DEF TypeOK
  <2>4. idle[i].conn \in Conns /\ idle[i].conn # NoConn
    BY <2>2, PoolAssumption DEF Entries
  <2>5. UNCHANGED <<closed, routed, now>>
    BY <1>1 DEF GetReuse
  <2> QED
    BY <2>1, <2>3, <2>4, <2>5 DEF TypeOK, Disconnect
<1>2. ASSUME NEW f \in Streams, GetMiss(f)
      PROVE  TypeOK'
  <2>1. Len(idle) \in Nat
    BY LenProperties DEF TypeOK
  <2> QED
    BY <1>2, <2>1, EmptySeq DEF GetMiss, TypeOK, CloseConns, Disconnect
<1>3. ASSUME NEW f \in Streams, DialSucceeds(f)
      PROVE  TypeOK'
  BY <1>3, PoolAssumption DEF DialSucceeds, TypeOK, poolVars
<1>4. ASSUME NEW f \in Streams, Release(f)
      PROVE  TypeOK'
  <2>1. held[f] \in Conns
    BY <1>4 DEF TypeOK, Release
  <2>2. [conn |-> held[f], createdAt |-> now, lastUsed |-> now] \in Entries
    BY <2>1 DEF TypeOK, Entries
  <2>3. CASE via[f] = "pool" /\ Put(held[f])
    <3>1. CASE Full
      <4>1. CloseConns({held[f]}) /\ numOpen' = numOpen - 1 /\ UNCHANGED idle
        BY <2>3, <3>1 DEF Put
      <4> QED
        BY <1>4, <4>1 DEF Release, TypeOK, CloseConns, Disconnect
    <3>2. CASE ~Full
      <4>0. idle' = Append(idle, [conn |-> held[f], createdAt |-> now, lastUsed |-> now])
        BY <2>3, <3>2 DEF Put
      <4>1. idle' \in Seq(Entries) /\ UNCHANGED numOpen
        BY <4>0, <2>2, <2>3, <3>2, AppendProperties DEF Put, TypeOK
      <4>2. UNCHANGED connVars
        BY <2>3, <3>2 DEF Put
      <4> QED
        BY <1>4, <4>1, <4>2 DEF Release, TypeOK, connVars
    <3> QED
      BY <3>1, <3>2
  <2>4. CASE via[f] = "direct" /\ CloseConns({held[f]}) /\ UNCHANGED <<idle, numOpen>>
    BY <1>4, <2>4 DEF Release, TypeOK, CloseConns, Disconnect
  <2> QED
    BY <1>4, <2>3, <2>4 DEF Release
<1>5. CASE CleanIdle
  <2> DEFINE gone == {i \in DOMAIN idle : IdleTooLong(idle[i]) \/ TooOld(idle[i])}
             kept == DOMAIN idle \ gone
  <2>1. PICK n \in 0 .. Len(idle) : \E g \in [1 .. n -> kept] :
            /\ idle' = [k \in 1 .. n |-> idle[g[k]]]
            /\ numOpen' = numOpen - (Len(idle) - n)
    BY <1>5 DEF CleanIdle
  <2>2. PICK g \in [1 .. n -> kept] :
            /\ idle' = [k \in 1 .. n |-> idle[g[k]]]
            /\ numOpen' = numOpen - (Len(idle) - n)
    BY <2>1
  <2>3. n \in Nat /\ Len(idle) \in Nat
    BY LenProperties DEF TypeOK
  <2>4. ASSUME NEW k \in 1 .. n PROVE idle[g[k]] \in Entries
    BY ElementOfSeq, LenProperties DEF TypeOK
  <2>5. idle' \in Seq(Entries) /\ numOpen' \in Int
    BY <2>2, <2>3, <2>4, IsASeq DEF TypeOK
  <2> QED
    BY <1>5, <2>5 DEF CleanIdle, TypeOK, CloseConns, Disconnect, fwdVars
<1>6. CASE CloseRouter
  <2>1. idle' \in Seq(Entries)
    BY <1>6, EmptySeq DEF CloseRouter
  <2>2. /\ numOpen' = 0 /\ closed' \in BOOLEAN /\ routed' \in BOOLEAN
        /\ CloseConns(Pooled) /\ UNCHANGED <<fwdVars, now>>
    BY <1>6 DEF CloseRouter
  <2> QED
    BY <2>1, <2>2 DEF TypeOK, CloseConns, Disconnect, fwdVars
<1>7. ASSUME NEW f \in Streams,
             \/ Lookup(f) \/ GetClosed(f) \/ DialFails(f) \/ EndToLocal(f)
             \/ CopyToServer(f) \/ EndToServer(f) \/ StreamEnds(f)
      PROVE  TypeOK'
  <2>1. CASE Lookup(f) BY <2>1 DEF Lookup, TypeOK, poolVars, connVars
  <2>2. CASE GetClosed(f) BY <2>2 DEF GetClosed, TypeOK, poolVars, connVars
  <2>3. CASE DialFails(f) BY <2>3 DEF DialFails, TypeOK, connVars
  <2>4. CASE EndToLocal(f)
    BY <2>4, PoolAssumption DEF EndToLocal, TypeOK, poolVars
  <2>5. CASE CopyToServer(f) BY <2>5 DEF CopyToServer, TypeOK, poolVars
  <2>6. CASE EndToServer(f) BY <2>6 DEF EndToServer, TypeOK, poolVars, connVars
  <2>7. CASE StreamEnds(f) BY <2>7 DEF StreamEnds, TypeOK, poolVars, connVars
  <2> QED
    BY <1>7, <2>1, <2>2, <2>3, <2>4, <2>5, <2>6, <2>7
<1>8. ASSUME NEW c \in Conns, LocalSends(c) \/ LocalCloses(c)
      PROVE  TypeOK'
  BY <1>8 DEF LocalSends, LocalCloses, TypeOK, poolVars, fwdVars
<1>9. CASE Tick
  BY <1>9 DEF Tick, TypeOK, poolVars, fwdVars, connVars
<1>10. CASE UNCHANGED vars
  BY <1>10 DEF vars, TypeOK, poolVars, fwdVars, connVars
<1> QED
  BY <1>1, <1>2, <1>3, <1>4, <1>5, <1>6, <1>7, <1>8, <1>9, <1>10
  DEF Next, Forward

(* The step of a Forward that neither starts nor stops to count. *)
LEMMA BusySame ==
    ASSUME \A f \in Streams : (f \in Busy)' <=> f \in Busy
    PROVE  Busy' = Busy
BY DEF Busy

Account == PathOK /\ CounterIsExact /\ WithinLimit

(* A step that changes neither the pool nor who is Busy keeps the account. *)
LEMMA AccountFrame ==
    ASSUME Account, UNCHANGED poolVars,
           \A f \in Streams : (f \in Busy)' <=> f \in Busy,
           \A f \in Streams : fwd'[f] \in {"new", "get"} => via'[f] = "pool"
    PROVE  Account'
BY BusySame DEF Account, PathOK, CounterIsExact, WithinLimit, poolVars

(* The counter and the set of counted Forwards move together. *)
LEMMA NextAccount ==
    ASSUME TypeOK, Account, [Next]_vars
    PROVE  Account'
<1> DEFINE b == Cardinality(Busy)
<1>0. b \in Nat /\ Len(idle) \in Nat /\ numOpen \in Int /\ MaxOpenConns \in Nat
  BY BusyIsFinite, LenProperties, PoolAssumption DEF TypeOK
<1>1. ASSUME NEW f \in Streams, GetReuse(f)
      PROVE  Account'
  <2>1. PICK i \in DOMAIN idle :
            idle' = Popped(i) /\ numOpen' = numOpen - (Len(idle) - i) /\ Hand(f, idle[i].conn)
    BY <1>1 DEF GetReuse
  <2>2. Len(idle') = i - 1 /\ i \in 1 .. Len(idle)
    BY <2>1, PoppedProperties, LenProperties DEF TypeOK
  <2>3. fwd[f] = "get" /\ ~closed /\ ~closed' /\ via[f] = "pool" /\ UNCHANGED via
    BY <1>1, <2>1 DEF GetReuse, Hand, Account, PathOK
  <2>4. f \notin Busy /\ Busy' = Busy \cup {f}
    BY <2>1, <2>3 DEF Busy, Hand, Step, TypeOK
  <2>5. Cardinality(Busy') = b + 1
    BY <2>4, BusyGains
  <2>6. CounterIsExact' /\ WithinLimit'
    <3>1. numOpen' = numOpen - (Len(idle) - i) /\ i \in Nat
      BY <2>1, <2>2
    <3>2. i <= Len(idle)
      BY <1>0, <2>2
    <3>3. numOpen = Len(idle) + b
      BY <2>3 DEF Account, CounterIsExact
    <3>4. numOpen' = Len(idle') + Cardinality(Busy')
      BY <1>0, <2>2, <2>5, <3>1, <3>3
    <3>5. Len(idle') + Cardinality(Busy') <= Len(idle) + b
      BY <1>0, <2>2, <2>5, <3>1, <3>2
    <3>6. WithinLimit'
      BY <1>0, <2>2, <2>5, <3>1, <3>5 DEF Account, WithinLimit
    <3> QED
      BY <3>4, <3>6 DEF CounterIsExact
  <2>7. PathOK'
    BY <2>1, <2>3 DEF Account, PathOK, Hand, Step, TypeOK
  <2> QED
    BY <2>6, <2>7 DEF Account
<1>2. ASSUME NEW f \in Streams, GetMiss(f)
      PROVE  Account'
  <2>1. /\ fwd[f] = "get" /\ ~closed /\ ~closed' /\ via[f] = "pool" /\ UNCHANGED via
        /\ idle' = <<>>
    BY <1>2 DEF GetMiss, Account, PathOK
  <2>2. Len(idle') = 0
    BY <2>1, EmptySeq
  <2>3. f \notin Busy
    BY <2>1 DEF Busy
  <2>4. CASE /\ ~AtLimit(numOpen - Len(idle)) /\ Step(f, "dial")
             /\ numOpen' = numOpen - Len(idle) + 1
    <3>1. Busy' = Busy \cup {f}
      BY <2>1, <2>4 DEF Busy, Step, TypeOK
    <3>2. Cardinality(Busy') = b + 1
      BY <3>1, <2>3, BusyGains
    <3>3. PathOK'
      BY <2>1, <2>4 DEF Account, PathOK, Step, TypeOK
    <3> QED
      BY <1>0, <2>1, <2>2, <2>4, <3>2, <3>3
      DEF Account, CounterIsExact, WithinLimit, AtLimit
  <2>5. CASE Step(f, "done") /\ numOpen' = numOpen - Len(idle)
    <3>1. Busy' = Busy
      BY <2>1, <2>5 DEF Busy, Step, TypeOK
    <3>2. PathOK'
      BY <2>1, <2>5 DEF Account, PathOK, Step, TypeOK
    <3> QED
      BY <1>0, <2>1, <2>2, <2>5, <3>1, <3>2 DEF Account, CounterIsExact, WithinLimit
  <2> QED
    BY <1>2, <2>4, <2>5 DEF GetMiss
<1>3. ASSUME NEW f \in Streams, GetClosed(f)
      PROVE  Account'
  BY <1>3, AccountFrame DEF GetClosed, Busy, Step, TypeOK, Account, PathOK
<1>4. ASSUME NEW f \in Streams, DialSucceeds(f)
      PROVE  Account'
  BY <1>4, AccountFrame DEF DialSucceeds, Hand, Busy, Step, TypeOK, Account, PathOK
<1>5. ASSUME NEW f \in Streams, DialFails(f)
      PROVE  Account'
  <2>1. fwd[f] = "dial" /\ Step(f, "done") /\ UNCHANGED <<idle, closed, via>>
    BY <1>5 DEF DialFails
  <2>2. PathOK'
    BY <2>1 DEF Account, PathOK, Step, TypeOK
  <2>3. CASE via[f] = "pool"
    <3>1. f \in Busy /\ Busy' = Busy \ {f} /\ numOpen' = numOpen - 1
      BY <1>5, <2>1, <2>3 DEF Busy, Step, TypeOK, DialFails
    <3>2. Cardinality(Busy') = b - 1
      BY <3>1, BusyLoses
    <3> QED
      BY <1>0, <2>1, <2>2, <3>1, <3>2 DEF Account, CounterIsExact, WithinLimit
  <2>4. CASE via[f] # "pool"
    <3>1. Busy' = Busy /\ numOpen' = numOpen
      BY <1>5, <2>1, <2>4 DEF Busy, Step, TypeOK, DialFails
    <3> QED
      BY <2>1, <2>2, <3>1 DEF Account, CounterIsExact, WithinLimit
  <2> QED
    BY <2>3, <2>4
<1>6. ASSUME NEW f \in Streams, Release(f)
      PROVE  Account'
  <2>1. fwd[f] = "pipe" /\ Step(f, "done") /\ UNCHANGED <<closed, via>>
    BY <1>6 DEF Release
  <2>2. CASE via[f] = "pool" /\ Put(held[f])
    <3>1. f \in Busy /\ Busy' = Busy \ {f}
      BY <2>1, <2>2 DEF Busy, Step, TypeOK
    <3>2. Cardinality(Busy') = b - 1
      BY <3>1, BusyLoses
    <3>3. CASE numOpen' = numOpen - 1 /\ UNCHANGED idle
      <4>1. PathOK'
        BY <2>1, <3>3 DEF Account, PathOK, Step, TypeOK
      <4> QED
        BY <1>0, <2>1, <3>2, <3>3, <4>1 DEF Account, CounterIsExact, WithinLimit
    <3>4. CASE ~closed /\ Len(idle') = Len(idle) + 1 /\ UNCHANGED numOpen
      <4>1. PathOK'
        BY <2>1, <3>4 DEF Account, PathOK, Step, TypeOK
      <4> QED
        BY <1>0, <2>1, <3>2, <3>4, <4>1 DEF Account, CounterIsExact, WithinLimit
    <3>5. [conn |-> held[f], createdAt |-> now, lastUsed |-> now] \in Entries
      BY <2>1 DEF TypeOK, Entries
    <3>6. ASSUME NEW e \in Entries PROVE Len(Append(idle, e)) = Len(idle) + 1
      BY AppendProperties DEF TypeOK
    <3> QED
      BY <2>2, <3>3, <3>4, <3>5, <3>6 DEF Put, Full
  <2>3. CASE via[f] = "direct" /\ UNCHANGED <<idle, numOpen>>
    <3>1. \A g \in Streams : (g \in Busy)' <=> g \in Busy
      BY <2>1, <2>3 DEF Busy, Step, TypeOK
    <3> QED
      BY <2>1, <2>3, <3>1, AccountFrame DEF Account, PathOK, poolVars, Step, TypeOK
  <2> QED
    BY <1>6, <2>2, <2>3 DEF Release
<1>7. CASE CleanIdle
  <2>1. PICK n \in 0 .. Len(idle) :
            /\ numOpen' = numOpen - (Len(idle) - n)
            /\ \E g : idle' = [k \in 1 .. n |-> idle[g[k]]]
    BY <1>7 DEF CleanIdle
  <2>2. Len(idle') = n
    <3>1. DOMAIN idle' = 1 .. n /\ n \in Nat
      BY <1>0, <2>1
    <3>2. Len(idle') \in Nat /\ DOMAIN idle' = 1 .. Len(idle')
      BY NextTypeOK, LenProperties DEF TypeOK
    <3> QED
      BY <3>1, <3>2
  <2>3. ~closed /\ ~closed' /\ UNCHANGED <<fwd, via>>
    BY <1>7 DEF CleanIdle, fwdVars
  <2>4. Busy' = Busy
    BY <2>3 DEF Busy
  <2>5. PathOK'
    BY <2>3 DEF Account, PathOK
  <2> QED
    BY <1>0, <2>1, <2>2, <2>3, <2>4, <2>5 DEF Account, CounterIsExact, WithinLimit
<1>8. CASE CloseRouter
  <2>1. closed' /\ idle' = <<>> /\ UNCHANGED <<fwd, via>>
    BY <1>8 DEF CloseRouter, fwdVars
  <2>2. Len(idle') = 0 /\ Busy' = Busy
    BY <2>1, EmptySeq DEF Busy
  <2> QED
    BY <1>0, <2>1, <2>2 DEF Account, PathOK, CounterIsExact, WithinLimit
<1>9. ASSUME NEW f \in Streams, Lookup(f)
      PROVE  Account'
  BY <1>9, AccountFrame DEF Lookup, Busy, Step, TypeOK, Account, PathOK
<1>10. CASE UNCHANGED <<poolVars, fwd, via>>
  BY <1>10, AccountFrame DEF Busy, Account, PathOK
<1>11. ASSUME NEW f \in Streams,
              EndToLocal(f) \/ CopyToServer(f) \/ EndToServer(f) \/ StreamEnds(f)
       PROVE  Account'
  BY <1>10, <1>11 DEF EndToLocal, CopyToServer, EndToServer, StreamEnds
<1>12. ASSUME NEW c \in Conns, LocalSends(c) \/ LocalCloses(c)
       PROVE  Account'
  BY <1>10, <1>12 DEF LocalSends, LocalCloses, fwdVars
<1>13. CASE Tick \/ UNCHANGED vars
  BY <1>10, <1>13 DEF Tick, vars, fwdVars
<1> QED
  BY <1>1, <1>2, <1>3, <1>4, <1>5, <1>6, <1>7, <1>8, <1>9, <1>11, <1>12, <1>13
  DEF Next, Forward

-------------------------------------------------------------------------------

Places == NeverShared /\ NoLeak

(* A step that moves no connection. *)
LEMMA PlacesFrame ==
    ASSUME Places, UNCHANGED <<idle, closed, live, held>>,
           \A f \in Streams : fwd'[f] = "pipe" <=> fwd[f] = "pipe"
    PROVE  Places'
<1>1. Pooled' = Pooled /\ Held' = Held
  BY DEF Pooled, Held
<1> QED
  BY <1>1 DEF Places, NeverShared, NoLeak

(* A Forward that takes a connection in its hand, and one that lets it go. *)
LEMMA HeldGains ==
    ASSUME TypeOK, NEW f \in Streams, NEW c \in Conns, fwd[f] # "pipe", Hand(f, c)
    PROVE  Held' = Held \cup {c}
BY DEF Held, Hand, Step, TypeOK

LEMMA HeldLoses ==
    ASSUME TypeOK, NeverShared, NEW f \in Streams, fwd[f] = "pipe", Step(f, "done"),
           held' = [held EXCEPT ![f] = NoConn]
    PROVE  Held' = Held \ {held[f]}
BY DEF Held, Step, TypeOK, NeverShared

(* A connection that was nobody's goes to one Forward. *)
LEMMA OneHolder ==
    ASSUME TypeOK, NeverShared, NEW f \in Streams, NEW c \in Conns \ Held,
           fwd[f] # "pipe", Hand(f, c)
    PROVE  \A g, h \in Streams :
             fwd'[g] = "pipe" /\ fwd'[h] = "pipe" /\ held'[g] = held'[h] => g = h
BY DEF Held, Hand, Step, TypeOK, NeverShared

(* Every step moves connections without copying or losing one. *)
LEMMA NextPlaces ==
    ASSUME TypeOK, PathOK, Places, [Next]_vars
    PROVE  Places'
<1>0. /\ Len(idle) \in Nat /\ DOMAIN idle = 1 .. Len(idle)
      /\ \A i \in DOMAIN idle : idle[i] \in Entries /\ idle[i].conn \in Conns
  <2>1. /\ Len(idle) \in Nat /\ DOMAIN idle = 1 .. Len(idle)
        /\ \A i \in DOMAIN idle : idle[i] \in Entries
    BY LenProperties, ElementOfSeq DEF TypeOK
  <2> QED
    BY <2>1 DEF Entries
<1>1. ASSUME NEW f \in Streams, GetReuse(f)
      PROVE  Places'
  <2>1. PICK i \in DOMAIN idle :
            idle' = Popped(i) /\ Hand(f, idle[i].conn) /\ Disconnect(ConnsFrom(i + 1))
    BY <1>1 DEF GetReuse
  <2>2. fwd[f] = "get" /\ ~closed /\ ~closed'
    BY <1>1 DEF GetReuse
  <2>3. /\ i \in Nat /\ i - 1 \in Nat /\ i <= Len(idle)
        /\ DOMAIN idle' = 1 .. i - 1
        /\ \A j \in 1 .. i - 1 : idle'[j] = idle[j] /\ j \in DOMAIN idle /\ j # i
    <3>1. idle' \in Seq(Entries) /\ Len(idle') = i - 1
      BY <2>1, PoppedProperties
    <3>2. \A j \in 1 .. i - 1 : idle'[j] = idle[j]
      BY <2>1, PoppedProperties
    <3>3. DOMAIN idle' = 1 .. i - 1
      BY <3>1, LenProperties
    <3> QED
      BY <1>0, <3>2, <3>3
  <2>4. idle[i].conn \in Pooled /\ idle[i].conn \in Conns \ Held
    BY <1>0 DEF Pooled, Places, NeverShared
  <2>5. Held' = Held \cup {idle[i].conn}
    BY <2>1, <2>2, <2>4, HeldGains
  <2>6. Pooled' = {idle[j].conn : j \in 1 .. i - 1}
    BY <2>3 DEF Pooled
  <2>7. Pooled = {idle[j].conn : j \in 1 .. i - 1} \cup {idle[i].conn} \cup ConnsFrom(i + 1)
    BY <1>0, <2>3 DEF Pooled, ConnsFrom
  <2>8. /\ idle[i].conn \notin Pooled'
        /\ ConnsFrom(i + 1) \cap (Pooled' \cup {idle[i].conn} \cup Held) = {}
    <3>1. \A j \in i + 1 .. Len(idle) : j \in DOMAIN idle /\ j # i /\ j \notin 1 .. i - 1
      BY <1>0, <2>3
    <3>2. ConnsFrom(i + 1) \subseteq Pooled
      BY <2>7
    <3> QED
      BY <2>3, <2>6, <3>1, <3>2 DEF Places, NeverShared, ConnsFrom
  <2>9. NeverShared'
    <3>1. Pooled' \cap Held' = {}
      BY <2>5, <2>7, <2>6, <2>8 DEF Places, NeverShared
    <3>2. \A j, k \in DOMAIN idle' : idle'[j].conn = idle'[k].conn => j = k
      BY <2>3 DEF Places, NeverShared
    <3> QED
      BY <2>1, <2>2, <2>4, <3>1, <3>2, OneHolder DEF Places, NeverShared
  <2>10. NoLeak'
    BY <2>1, <2>2, <2>5, <2>6, <2>7, <2>8 DEF Places, NoLeak, Disconnect
  <2> QED
    BY <2>9, <2>10 DEF Places
<1>2. ASSUME NEW f \in Streams, GetMiss(f)
      PROVE  Places'
  <2>1. /\ ~closed /\ ~closed' /\ idle' = <<>> /\ live' = live \ Pooled /\ UNCHANGED held
        /\ \A g \in Streams : fwd'[g] = "pipe" <=> fwd[g] = "pipe"
    BY <1>2 DEF GetMiss, CloseConns, Disconnect, Step, TypeOK
  <2>2. DOMAIN idle' = {}
    BY <2>1
  <2>3. Pooled' = {} /\ Held' = Held
    BY <2>1, <2>2 DEF Pooled, Held
  <2> QED
    BY <2>1, <2>2, <2>3 DEF Places, NeverShared, NoLeak
<1>3. ASSUME NEW f \in Streams, DialSucceeds(f)
      PROVE  Places'
  <2>1. PICK c \in Conns \ live : Hand(f, c) /\ live' = live \cup {c}
    BY <1>3 DEF DialSucceeds
  <2>2. fwd[f] = "dial" /\ UNCHANGED <<idle, closed>>
    BY <1>3 DEF DialSucceeds, poolVars
  <2>3. Held' = Held \cup {c} /\ Pooled' = Pooled
    BY <2>1, <2>2, HeldGains DEF Pooled
  <2>4. c \notin Held /\ c \notin Pooled
    <3>1. CASE closed
      BY <2>1, <3>1 DEF Places, NoLeak, PathOK, Pooled
    <3>2. CASE ~closed
      BY <2>1, <3>2 DEF Places, NoLeak
    <3> QED
      BY <3>1, <3>2
  <2>5. NeverShared'
    BY <2>1, <2>2, <2>3, <2>4, OneHolder DEF Places, NeverShared
  <2>6. NoLeak'
    BY <2>1, <2>2, <2>3 DEF Places, NoLeak
  <2> QED
    BY <2>5, <2>6 DEF Places
<1>4. ASSUME NEW f \in Streams, Release(f)
      PROVE  Places'
  <2> DEFINE c == held[f]
  <2>1. /\ fwd[f] = "pipe" /\ Step(f, "done") /\ UNCHANGED closed
        /\ held' = [held EXCEPT ![f] = NoConn]
    BY <1>4 DEF Release
  <2>2. Held' = Held \ {c} /\ c \in Held /\ c \notin Pooled
    <3>1. Held' = Held \ {c}
      BY <2>1, HeldLoses DEF Places
    <3> QED
      BY <2>1, <3>1 DEF Places, NeverShared, Held
  <2>3. \A g, h \in Streams :
          fwd'[g] = "pipe" /\ fwd'[h] = "pipe" /\ held'[g] = held'[h] => g = h
    BY <2>1 DEF Step, TypeOK, Places, NeverShared
  <2>4. CASE UNCHANGED idle /\ live' = live \ {c}
    <3>1. Pooled' = Pooled
      BY <2>4 DEF Pooled
    <3> QED
      BY <2>1, <2>2, <2>3, <2>4, <3>1 DEF Places, NeverShared, NoLeak
  <2>5. CASE ~closed /\ live' = live
             /\ idle' = Append(idle, [conn |-> c, createdAt |-> now, lastUsed |-> now])
    <3> DEFINE e == [conn |-> c, createdAt |-> now, lastUsed |-> now]
    <3>1. e \in Entries /\ e.conn = c
      BY <2>1 DEF TypeOK, Entries
    <3>2. /\ DOMAIN idle' = DOMAIN idle \cup {Len(idle) + 1}
          /\ idle'[Len(idle) + 1] = e
          /\ \A j \in DOMAIN idle : idle'[j] = idle[j]
      <4>1. /\ idle' \in Seq(Entries) /\ Len(idle') = Len(idle) + 1
            /\ \A j \in 1 .. Len(idle) : idle'[j] = idle[j]
            /\ idle'[Len(idle) + 1] = e
        BY <2>5, <3>1, AppendProperties DEF TypeOK
      <4>2. DOMAIN idle' = 1 .. Len(idle) + 1
        BY <4>1, LenProperties
      <4> QED
        BY <1>0, <4>1, <4>2
    <3>3. Pooled' = Pooled \cup {c}
      BY <3>1, <3>2 DEF Pooled
    <3>4. \A j \in DOMAIN idle : idle[j].conn # c
      BY <2>2 DEF Pooled
    <3>5. \A j, k \in DOMAIN idle' : idle'[j].conn = idle'[k].conn => j = k
      BY <3>1, <3>2, <3>4 DEF Places, NeverShared
    <3> QED
      BY <2>1, <2>2, <2>3, <2>5, <3>3, <3>5 DEF Places, NeverShared, NoLeak
  <2> QED
    BY <1>4, <2>4, <2>5 DEF Release, Put, Full, CloseConns, Disconnect, connVars
<1>5. CASE CleanIdle
  <2> DEFINE gone == {i \in DOMAIN idle : IdleTooLong(idle[i]) \/ TooOld(idle[i])}
             kept == DOMAIN idle \ gone
  <2>1. PICK n \in 0 .. Len(idle) : \E g \in [1 .. n -> kept] :
            /\ \A j, k \in 1 .. n : j < k => g[j] < g[k]
            /\ kept = {g[k] : k \in 1 .. n}
            /\ idle' = [k \in 1 .. n |-> idle[g[k]]]
    BY <1>5 DEF CleanIdle
  <2>2. PICK g \in [1 .. n -> kept] :
            /\ \A j, k \in 1 .. n : j < k => g[j] < g[k]
            /\ kept = {g[k] : k \in 1 .. n}
            /\ idle' = [k \in 1 .. n |-> idle[g[k]]]
    BY <2>1
  <2>3. /\ ~closed /\ ~closed' /\ UNCHANGED <<fwd, held>>
        /\ live' = live \ {idle[i].conn : i \in gone}
    BY <1>5 DEF CleanIdle, fwdVars, CloseConns, Disconnect
  <2>4. Pooled' = {idle[i].conn : i \in kept} /\ Held' = Held
    BY <2>2, <2>3 DEF Pooled, Held
  <2>5. Pooled = Pooled' \cup {idle[i].conn : i \in gone}
    BY <2>4 DEF Pooled
  <2>6. Pooled' \cap {idle[i].conn : i \in gone} = {}
    BY <2>4 DEF Places, NeverShared
  <2>7. \A j, k \in DOMAIN idle' : idle'[j].conn = idle'[k].conn => j = k
    <3>1. \A j, k \in 1 .. n : g[j] = g[k] => j = k
      <4>1. \A j \in 1 .. n : g[j] \in Nat
        BY <1>0
      <4>2. \A j, k \in 1 .. n : j < k => g[j] # g[k]
        <5>1. \A j, k \in 1 .. n : j < k => g[j] < g[k]
          BY <2>2
        <5> QED
          BY ONLY <4>1, <5>1
      <4>3. \A j, k \in 1 .. n : j = k \/ j < k \/ k < j
        <5>1. n \in Nat
          BY <1>0
        <5> QED
          BY ONLY <5>1
      <4> QED
        BY ONLY <4>2, <4>3
    <3>2. \A j, k \in 1 .. n : idle[g[j]].conn = idle[g[k]].conn => j = k
      BY <3>1 DEF Places, NeverShared
    <3> QED
      BY <2>2, <3>2
  <2> QED
    BY <2>3, <2>4, <2>5, <2>6, <2>7 DEF Places, NeverShared, NoLeak
<1>6. CASE CloseRouter
  <2>1. /\ ~closed /\ closed' /\ DOMAIN idle' = {} /\ live' = live \ Pooled
        /\ UNCHANGED <<fwd, held>>
    BY <1>6 DEF CloseRouter, fwdVars, CloseConns, Disconnect
  <2>2. Pooled' = {} /\ Held' = Held
    BY <2>1 DEF Pooled, Held
  <2> QED
    BY <2>1, <2>2 DEF Places, NeverShared, NoLeak
<1>7. ASSUME NEW f \in Streams,
             \/ Lookup(f) \/ GetClosed(f) \/ DialFails(f) \/ EndToLocal(f)
             \/ CopyToServer(f) \/ EndToServer(f) \/ StreamEnds(f)
      PROVE  Places'
  <2>1. UNCHANGED <<idle, closed, live, held>>
    BY <1>7 DEF Lookup, GetClosed, DialFails, EndToLocal, CopyToServer, EndToServer,
                StreamEnds, poolVars, connVars
  <2>2. \A g \in Streams : fwd'[g] = "pipe" <=> fwd[g] = "pipe"
    BY <1>7 DEF Lookup, GetClosed, DialFails, EndToLocal, CopyToServer, EndToServer,
                StreamEnds, Step, TypeOK
  <2> QED
    BY <2>1, <2>2, PlacesFrame
<1>8. ASSUME NEW c \in Conns, LocalSends(c) \/ LocalCloses(c)
      PROVE  Places'
  BY <1>8, PlacesFrame DEF LocalSends, LocalCloses, poolVars, fwdVars
<1>9. CASE Tick \/ UNCHANGED vars
  BY <1>9, PlacesFrame DEF Tick, vars, poolVars, fwdVars, connVars
<1> QED
  BY <1>1, <1>2, <1>3, <1>4, <1>5, <1>6, <1>7, <1>8, <1>9 DEF Next, Forward

-------------------------------------------------------------------------------

THEOREM PoolInvariant == Spec => []PoolInv
<1>1. PoolInv /\ [Next]_vars => PoolInv'
  BY NextTypeOK, NextAccount, NextPlaces DEF PoolInv, Account, Places
<1> QED
  BY <1>1, InitPoolInv, PTL DEF Spec

(* The numOpen of an open pool counts its idle connections and the Forwards
   between Get and Put, whatever the interleaving of Get, Put, failed dials and
   the cleaner. *)
THEOREM CounterAlwaysExact == Spec => []CounterIsExact
BY PoolInvariant, PTL DEF PoolInv

(* A pool never exceeds MaxOpenConns, dials in progress included. *)
THEOREM LimitAlwaysKept == Spec => []WithinLimit
BY PoolInvariant, PTL DEF PoolInv

(* No two requests are ever given the same local connection. *)
THEOREM ConnectionsNeverShared == Spec => []NeverShared
BY PoolInvariant, PTL DEF PoolInv

(* Every open local connection is idle in an open pool or in the hands of a
   Forward that will close it or give it back. *)
THEOREM ConnectionsNeverLeak == Spec => []NoLeak
BY PoolInvariant, PTL DEF PoolInv

(* The types of the router and the pool. *)
THEOREM PoolTypeCorrect == Spec => []TypeOK
BY PoolInvariant, PTL DEF PoolInv

===============================================================================
