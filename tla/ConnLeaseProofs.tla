---------------------------- MODULE ConnLeaseProofs ----------------------------
(***************************************************************************)
(* The router and its pool implement ConnLease, for any number of streams  *)
(* and connections and every configuration of the pool.                    *)
(***************************************************************************)
EXTENDS ConnPoolProofs

StageOf == [f \in Streams |-> Stage(f)]
LentOf == [f \in Streams |-> Lent(f)]

(* The router has the pool exactly while it is open, and nobody dials past an open pool:
   its limit is one on all that dial or hold a connection. *)
RouteOK ==
    /\ closed <=> ~routed
    /\ ~closed => \A f \in Streams : via[f] = "pool"

LeaseInv == PoolInv /\ RouteOK

LEMMA NextRouteOK ==
    ASSUME TypeOK, RouteOK, [Next]_vars
    PROVE  RouteOK'
<1>1. ASSUME NEW f \in Streams, Lookup(f)
      PROVE  RouteOK'
  BY <1>1 DEF Lookup, RouteOK, TypeOK, poolVars
<1>2. CASE CloseRouter
  BY <1>2 DEF CloseRouter, RouteOK
<1>3. CASE UNCHANGED <<closed, routed, via>>
  BY <1>3 DEF RouteOK
<1>4. ASSUME NEW f \in Streams, Forward(f) \/ StreamEnds(f), ~Lookup(f)
      PROVE  UNCHANGED <<closed, routed, via>>
  BY <1>4 DEF Forward, GetReuse, Hand, GetMiss, GetClosed, DialSucceeds, DialFails,
     EndToLocal, CopyToServer, EndToServer, Release, StreamEnds, poolVars
<1>5. ASSUME NEW c \in Conns, LocalSends(c) \/ LocalCloses(c)
      PROVE  UNCHANGED <<closed, routed, via>>
  BY <1>5 DEF LocalSends, LocalCloses, poolVars, fwdVars
<1>6. ASSUME CleanIdle \/ Tick \/ UNCHANGED vars
      PROVE  UNCHANGED <<closed, routed, via>>
  BY <1>6 DEF CleanIdle, Tick, vars, poolVars, fwdVars
<1> QED
  BY <1>1, <1>2, <1>3, <1>4, <1>5, <1>6 DEF Next

LEMMA LeaseInvariant == Spec => []LeaseInv
<1>1. Init => RouteOK
  BY DEF Init, RouteOK
<1>2. PoolInv /\ RouteOK /\ [Next]_vars => RouteOK'
  BY NextRouteOK DEF PoolInv
<1> QED
  BY <1>1, <1>2, PoolInvariant, PTL DEF Spec, LeaseInv

-------------------------------------------------------------------------------

(* A step of f alone changes its stage and what is lent to it, and nobody else's. *)
LEMMA StageStep ==
    ASSUME TypeOK, NEW f \in Streams, NEW to, Step(f, to)
    PROVE  StageOf' = [StageOf EXCEPT ![f] = Stage(f)']
BY DEF StageOf, Stage, Step, TypeOK

LEMMA LentStep ==
    ASSUME TypeOK, NEW f \in Streams, NEW to, Step(f, to),
           \A g \in Streams \ {f} : held'[g] = held[g]
    PROVE  LentOf' = [LentOf EXCEPT ![f] = Lent(f)']
BY DEF LentOf, Lent, Step, TypeOK

(* Steps that move no stream from one stage to the next, and no connection. *)
LEMMA LeaseStutters ==
    ASSUME UNCHANGED <<idle, closed>>,
           \A g \in Streams : Stage(g)' = Stage(g) /\ Lent(g)' = Lent(g)
    PROVE  UNCHANGED Lease!vars
BY DEF Lease!vars, Pooled

(* The abstract pool counts as its implementation does. *)
LEMMA SameCount ==
    ASSUME NEW S
    PROVE  Lease!Cardinality(S) = Cardinality(S)
BY DEF Lease!Cardinality, Cardinality

(* The lends of the abstract pool are the connections in the hands of Forwards. *)
LEMMA LeasedIsHeld ==
    ASSUME TypeOK
    PROVE  Lease!Leased = Held
BY PoolAssumption DEF Lease!Leased, Lent, Held, TypeOK

(* Those who count are those the counter of an open pool counts. *)
LEMMA UsersAreBusy ==
    ASSUME TypeOK, RouteOK, ~closed
    PROVE  Lease!Users = Busy
BY DEF Lease!Users, Stage, Busy, RouteOK, TypeOK

(* No connection is on the stack twice, so that the length of the stack is the number of
   free connections. *)
LEMMA PooledCount ==
    ASSUME TypeOK, NeverShared
    PROVE  Cardinality(Pooled) = Len(idle)
<1> DEFINE h == [i \in 1 .. Len(idle) |-> idle[i].conn]
<1>1. Len(idle) \in Nat /\ DOMAIN idle = 1 .. Len(idle)
  BY LenProperties DEF TypeOK
<1>2. h \in [1 .. Len(idle) -> Pooled]
  BY <1>1 DEF Pooled
<1>3. \A i, j \in 1 .. Len(idle) : h[i] = h[j] => i = j
  BY <1>1 DEF NeverShared
<1>4. \A c \in Pooled : \E i \in 1 .. Len(idle) : h[i] = c
  BY <1>1 DEF Pooled
<1>5. h \in Bijection(1 .. Len(idle), Pooled)
  BY <1>2, <1>3, <1>4 DEF Bijection, Injection, Surjection, IsInjective
<1>6. ExistsBijection(1 .. Len(idle), Pooled)
  BY <1>5 DEF ExistsBijection
<1> QED
  BY <1>1, <1>6, FS_CountingElements

(* Get finds a valid entry: the connections above it are dropped, the rest stay free. *)
LEMMA ReuseLends ==
    ASSUME LeaseInv, PoolInv', NEW f \in Streams, GetReuse(f)
    PROVE  \E c \in Conns : Lease!Reuse(f, c)
<1>1. TypeOK
  BY DEF LeaseInv, PoolInv
<1>2. PICK i \in DOMAIN idle : idle' = Popped(i) /\ Hand(f, idle[i].conn)
  BY DEF GetReuse
<1> DEFINE c == idle[i].conn
<1>3. fwd[f] = "get" /\ ~closed /\ closed' = closed
  BY DEF GetReuse
<1>4. c \in Conns /\ c \in Pooled
  <2>1. idle[i] \in Entries
    BY <1>1, ElementOfSeq, LenProperties DEF TypeOK
  <2> QED
    BY <2>1 DEF Entries, Pooled
<1>5. /\ Step(f, "pipe") /\ held' = [held EXCEPT ![f] = c]
  BY <1>2 DEF Hand
<1>6. StageOf' = [StageOf EXCEPT ![f] = "leased"]
  BY <1>1, <1>5, StageStep DEF Stage, Step, TypeOK
<1>7. LentOf' = [LentOf EXCEPT ![f] = c]
  <2>1. (\A g \in Streams \ {f} : held'[g] = held[g]) /\ Lent(f)' = c
    BY <1>1, <1>5 DEF Lent, Step, TypeOK
  <2> QED
    BY <1>1, <1>5, <2>1, LentStep
<1>8. Pooled' \in SUBSET (Pooled \ {c})
  <2>1. /\ idle' \in Seq(Entries) /\ Len(idle') = i - 1 /\ i \in 1 .. Len(idle)
        /\ \A j \in 1 .. i - 1 : idle'[j] = idle[j]
    BY <1>1, <1>2, PoppedProperties, LenProperties DEF TypeOK
  <2>2. DOMAIN idle' = 1 .. i - 1 /\ DOMAIN idle = 1 .. Len(idle) /\ Len(idle) \in Nat
    BY <1>1, <2>1, LenProperties DEF TypeOK
  <2>3. \A j \in DOMAIN idle' : j \in DOMAIN idle /\ idle'[j] = idle[j]
    BY <2>1, <2>2
  <2>4. Pooled' \subseteq Pooled
    BY <2>3 DEF Pooled
  <2>5. c \in Held'
    BY <1>1, <1>5 DEF Held, Step, TypeOK
  <2> QED
    BY <2>4, <2>5 DEF PoolInv, NeverShared
<1>9. Stage(f) = "waiting"
  BY <1>3 DEF Stage
<1> QED
  BY <1>3, <1>4, <1>6, <1>7, <1>8, <1>9
  DEF Lease!Reuse, Lease!Lend, Lease!Move, StageOf, LentOf

(* Get finds none: the counter without the stack is the number of users. *)
LEMMA MissDialsOrEnds ==
    ASSUME LeaseInv, NEW f \in Streams, GetMiss(f)
    PROVE  Lease!Dial(f) \/ Lease!Exhausted(f)
<1>1. TypeOK /\ RouteOK /\ CounterIsExact
  BY DEF LeaseInv, PoolInv
<1>2. /\ fwd[f] = "get" /\ ~closed /\ closed' = closed /\ held' = held
      /\ idle' = <<>>
  BY DEF GetMiss
<1>3. Pooled' = {}
  <2>1. DOMAIN idle' = {}
    BY <1>2
  <2> QED
    BY <2>1 DEF Pooled
<1>4. numOpen - Len(idle) = Cardinality(Lease!Users)
  <2>1. Len(idle) \in Nat /\ Cardinality(Busy) \in Nat
    BY <1>1, BusyIsFinite, LenProperties DEF TypeOK
  <2>2. Lease!Users = Busy
    BY <1>1, <1>2, UsersAreBusy
  <2> QED
    BY <1>1, <1>2, <2>1, <2>2 DEF CounterIsExact
<1>5. Stage(f) = "waiting"
  BY <1>2 DEF Stage
<1>6. Cardinality(Lease!Users) \in Nat /\ MaxOpenConns \in Nat
  BY <1>1, <1>2, UsersAreBusy, BusyIsFinite, PoolAssumption
<1>7. CASE ~AtLimit(numOpen - Len(idle)) /\ Step(f, "dial")
  <2>1. StageOf' = [StageOf EXCEPT ![f] = "dialling"]
    BY <1>1, <1>7, StageStep DEF Stage, Step, TypeOK
  <2>2. LentOf' = LentOf
    BY <1>1, <1>2, <1>7 DEF LentOf, Lent, Step, TypeOK
  <2>3. MaxOpenConns = 0 \/ Cardinality(Lease!Users) < MaxOpenConns
    BY <1>4, <1>6, <1>7 DEF AtLimit
  <2> QED
    BY <1>2, <1>3, <1>5, <2>1, <2>2, <2>3, SameCount
    DEF Lease!Dial, Lease!Move, StageOf, LentOf
<1>8. CASE AtLimit(numOpen - Len(idle)) /\ Step(f, "done")
  <2>1. StageOf' = [StageOf EXCEPT ![f] = "over"]
    BY <1>1, <1>8, StageStep DEF Stage, Step, TypeOK
  <2>2. LentOf' = LentOf
    BY <1>1, <1>2, <1>8 DEF LentOf, Lent, Step, TypeOK
  <2>3. MaxOpenConns > 0 /\ Cardinality(Lease!Users) >= MaxOpenConns
    BY <1>4, <1>8 DEF AtLimit
  <2> QED
    BY <1>2, <1>3, <1>5, <2>1, <2>2, <2>3, SameCount
    DEF Lease!Exhausted, Lease!Move, StageOf, LentOf
<1> QED
  BY <1>7, <1>8 DEF GetMiss

(* A new connection is none that is free or lent. *)
LEMMA DialConnects ==
    ASSUME LeaseInv, NEW f \in Streams, DialSucceeds(f)
    PROVE  \E c \in Conns : Lease!Connect(f, c)
<1>1. TypeOK /\ PathOK /\ NoLeak
  BY DEF LeaseInv, PoolInv
<1>2. PICK c \in Conns \ live : Hand(f, c)
  BY DEF DialSucceeds
<1>3. fwd[f] = "dial" /\ UNCHANGED <<idle, closed>> /\ Stage(f) = "dialling"
  BY DEF DialSucceeds, poolVars, Stage
<1>4. Step(f, "pipe") /\ held' = [held EXCEPT ![f] = c]
  BY <1>2 DEF Hand
<1>5. StageOf' = [StageOf EXCEPT ![f] = "leased"]
  BY <1>1, <1>4, StageStep DEF Stage, Step, TypeOK
<1>6. LentOf' = [LentOf EXCEPT ![f] = c]
  <2>1. (\A g \in Streams \ {f} : held'[g] = held[g]) /\ Lent(f)' = c
    BY <1>1, <1>4 DEF Lent, Step, TypeOK
  <2> QED
    BY <1>1, <1>4, <2>1, LentStep
<1>7. c \notin Pooled \cup Lease!Leased
  <2>1. c \notin Pooled \cup Held
    BY <1>1 DEF NoLeak, PathOK, Pooled
  <2> QED
    BY <1>1, <2>1, LeasedIsHeld
<1>8. Pooled' = Pooled
  BY <1>3 DEF Pooled
<1> QED
  BY <1>3, <1>5, <1>6, <1>7, <1>8
  DEF Lease!Connect, Lease!Lend, Lease!Move, StageOf, LentOf

(* The deferred Put is a return, and so is the Close of a connection of one's own: it
   exists only once the pool is shut. *)
LEMMA ReleaseReturns ==
    ASSUME LeaseInv, NEW f \in Streams, Release(f)
    PROVE  Lease!Return(f)
<1>1. TypeOK /\ PathOK /\ RouteOK /\ NeverShared
  BY DEF LeaseInv, PoolInv
<1>2. /\ fwd[f] = "pipe" /\ Step(f, "done") /\ closed' = closed
      /\ held' = [held EXCEPT ![f] = NoConn]
      /\ Stage(f) = "leased" /\ Lent(f) = held[f]
  BY DEF Release, Stage, Lent
<1>3. StageOf' = [StageOf EXCEPT ![f] = "over"]
  BY <1>1, <1>2, StageStep DEF Stage, Step, TypeOK
<1>4. LentOf' = [LentOf EXCEPT ![f] = NoConn]
  <2>1. (\A g \in Streams \ {f} : held'[g] = held[g]) /\ Lent(f)' = NoConn
    BY <1>1, <1>2 DEF Lent, Step, TypeOK
  <2> QED
    BY <1>1, <1>2, <2>1, LentStep
<1>5. Cardinality(Pooled) = Len(idle) /\ Len(idle) \in Nat /\ MaxIdleConns \in Nat
  BY <1>1, PooledCount, LenProperties, PoolAssumption DEF TypeOK
<1>6. Pooled' = IF ~closed /\ Cardinality(Pooled) < MaxIdleConns
                THEN Pooled \cup {held[f]} ELSE Pooled
  <2>1. CASE UNCHANGED idle /\ Full
    BY <1>5, <2>1 DEF Pooled, Full
  <2>2. CASE UNCHANGED idle /\ via[f] = "direct"
    BY <1>1, <2>2 DEF Pooled, RouteOK
  <2>3. CASE ~Full /\ idle' = Append(idle, [conn |-> held[f], createdAt |-> now,
                                            lastUsed |-> now])
    <3> DEFINE e == [conn |-> held[f], createdAt |-> now, lastUsed |-> now]
    <3>1. e \in Entries /\ e.conn = held[f]
      BY <1>1, <1>2 DEF TypeOK, Entries
    <3>2. /\ idle' \in Seq(Entries) /\ Len(idle') = Len(idle) + 1
          /\ \A j \in 1 .. Len(idle) : idle'[j] = idle[j]
          /\ idle'[Len(idle) + 1] = e
      BY <1>1, <2>3, <3>1, AppendProperties DEF TypeOK
    <3>3. /\ DOMAIN idle' = DOMAIN idle \cup {Len(idle) + 1}
          /\ DOMAIN idle = 1 .. Len(idle)
      <4>1. DOMAIN idle' = 1 .. Len(idle) + 1 /\ DOMAIN idle = 1 .. Len(idle)
        BY <1>1, <3>2, LenProperties DEF TypeOK
      <4> QED
        BY <1>5, <4>1
    <3>4. Pooled' = Pooled \cup {held[f]}
      BY <3>1, <3>2, <3>3 DEF Pooled
    <3> QED
      BY <1>5, <2>3, <3>4 DEF Full
  <2> QED
    BY <2>1, <2>2, <2>3 DEF Release, Put
<1> QED
  BY <1>2, <1>3, <1>4, <1>6, SameCount DEF Lease!Return, Lease!Move, StageOf, LentOf

(* Every step of the router and the pool is one of the abstract pool, or none. *)
LEMMA NextLease ==
    ASSUME LeaseInv, PoolInv', [Next]_vars
    PROVE  [Lease!Next]_(Lease!vars)
<1>0. TypeOK /\ PathOK /\ RouteOK
  BY DEF LeaseInv, PoolInv
<1>1. ASSUME NEW f \in Streams, GetReuse(f)
      PROVE  Lease!Next
  BY <1>1, ReuseLends DEF Lease!Next
<1>2. ASSUME NEW f \in Streams, GetMiss(f)
      PROVE  Lease!Next
  BY <1>2, MissDialsOrEnds DEF Lease!Next
<1>3. ASSUME NEW f \in Streams, DialSucceeds(f)
      PROVE  Lease!Next
  BY <1>3, DialConnects DEF Lease!Next
<1>4. ASSUME NEW f \in Streams, Release(f)
      PROVE  Lease!Next
  BY <1>4, ReleaseReturns DEF Lease!Next
<1>5. ASSUME NEW f \in Streams, DialFails(f)
      PROVE  Lease!Next
  <2>1. fwd[f] = "dial" /\ Step(f, "done") /\ UNCHANGED <<idle, closed, held>>
    BY <1>5 DEF DialFails
  <2>2. StageOf' = [StageOf EXCEPT ![f] = "over"] /\ Stage(f) = "dialling"
    BY <1>0, <2>1, StageStep DEF Stage, Step, TypeOK
  <2>3. LentOf' = LentOf /\ Pooled' = Pooled
    BY <1>0, <2>1 DEF LentOf, Lent, Step, TypeOK, Pooled
  <2> QED
    BY <2>1, <2>2, <2>3 DEF Lease!Next, Lease!Fail, Lease!Move, StageOf, LentOf
<1>6. ASSUME NEW f \in Streams, closed, fwd[f] \in {"new", "get"},
             Step(f, "done") \/ Step(f, "dial"), UNCHANGED <<idle, closed, held>>
      PROVE  Lease!Next
  <2>1. StageOf' = [StageOf EXCEPT ![f] = "over"] \/ StageOf' = [StageOf EXCEPT ![f] = "dialling"]
    BY <1>0, <1>6, StageStep DEF Stage, Step, TypeOK
  <2>2. LentOf' = LentOf /\ Pooled' = Pooled /\ Stage(f) = "waiting"
    BY <1>0, <1>6 DEF LentOf, Lent, Step, TypeOK, Pooled, Stage
  <2> QED
    BY <1>6, <2>1, <2>2 DEF Lease!Next, Lease!AfterShut, Lease!Move, StageOf, LentOf
<1>7. ASSUME NEW f \in Streams, GetClosed(f)
      PROVE  Lease!Next
  BY <1>6, <1>7 DEF GetClosed, poolVars
<1>8. ASSUME NEW f \in Streams, Lookup(f)
      PROVE  [Lease!Next]_(Lease!vars)
  <2>1. fwd[f] = "new" /\ UNCHANGED <<idle, closed, held>>
    BY <1>8 DEF Lookup, poolVars
  <2>2. CASE Step(f, "get")
    BY <1>0, <2>1, <2>2, LeaseStutters DEF Stage, Lent, Step, TypeOK
  <2>3. CASE ~routed /\ Step(f, "dial")
    BY <1>0, <1>6, <2>1, <2>3 DEF RouteOK
  <2> QED
    BY <1>8, <2>2, <2>3 DEF Lookup
<1>9. CASE CleanIdle
  <2>1. PICK n \in 0 .. Len(idle) : \E g \in [1 .. n -> DOMAIN idle] :
            idle' = [k \in 1 .. n |-> idle[g[k]]]
    <3> DEFINE gone == {i \in DOMAIN idle : IdleTooLong(idle[i]) \/ TooOld(idle[i])}
               kept == DOMAIN idle \ gone
    <3>1. PICK n \in 0 .. Len(idle) : \E g \in [1 .. n -> kept] :
              idle' = [k \in 1 .. n |-> idle[g[k]]]
      BY <1>9 DEF CleanIdle
    <3>2. \A g \in [1 .. n -> kept] : g \in [1 .. n -> DOMAIN idle]
      OBVIOUS
    <3> QED
      BY <3>1, <3>2
  <2>2. Pooled' \in SUBSET Pooled
    BY <2>1 DEF Pooled
  <2>3. UNCHANGED <<closed, fwd, held>>
    BY <1>9 DEF CleanIdle, fwdVars
  <2> QED
    BY <2>2, <2>3 DEF Lease!Next, Lease!Expire, Stage, Lent
<1>10. CASE CloseRouter
  <2>1. closed' = TRUE /\ UNCHANGED <<fwd, held>> /\ DOMAIN idle' = {}
    BY <1>10 DEF CloseRouter, fwdVars
  <2>2. Pooled' = {}
    BY <2>1 DEF Pooled
  <2> QED
    BY <2>1, <2>2 DEF Lease!Next, Lease!Shut, Stage, Lent
<1>11. CASE UNCHANGED <<idle, closed, fwd, held>>
  BY <1>11, LeaseStutters DEF Stage, Lent
<1>12. ASSUME NEW f \in Streams,
              EndToLocal(f) \/ CopyToServer(f) \/ EndToServer(f) \/ StreamEnds(f)
       PROVE  UNCHANGED <<idle, closed, fwd, held>>
  BY <1>12 DEF EndToLocal, CopyToServer, EndToServer, StreamEnds, poolVars
<1>13. ASSUME NEW c \in Conns, LocalSends(c) \/ LocalCloses(c)
       PROVE  UNCHANGED <<idle, closed, fwd, held>>
  BY <1>13 DEF LocalSends, LocalCloses, poolVars, fwdVars
<1>14. ASSUME Tick \/ UNCHANGED vars
       PROVE  UNCHANGED <<idle, closed, fwd, held>>
  BY <1>14 DEF Tick, vars, poolVars, fwdVars
<1> QED
  BY <1>1, <1>2, <1>3, <1>4, <1>5, <1>7, <1>8, <1>9, <1>10, <1>11, <1>12, <1>13, <1>14
  DEF Next, Forward

(* The router and its pool, with stack, counter and Close, are a lease of connections:
   nobody is turned away while there is room, and nobody is let in when there is none. *)
THEOREM PoolIsLease == Spec => ImplementsLease
<1>1. Init => Lease!Init
  <2> SUFFICES ASSUME Init PROVE Lease!Init
    OBVIOUS
  <2>1. \A f \in Streams : Stage(f) = "waiting" /\ Lent(f) = NoConn
    BY DEF Init, Stage, Lent
  <2>2. Pooled = {} /\ closed = FALSE
    BY DEF Init, Pooled
  <2> QED
    BY <2>1, <2>2 DEF Lease!Init
<1>2. LeaseInv /\ LeaseInv' /\ [Next]_vars => [Lease!Next]_(Lease!vars)
  BY NextLease DEF LeaseInv
<1> QED
  BY <1>1, <1>2, LeaseInvariant, PTL DEF Spec, ImplementsLease, Lease!Spec

================================================================================
