----------------------------- MODULE Registration -----------------------------
(***************************************************************************)
(* Handshakes that register tunnels while the API writes the database they *)
(* read: the authentication of the token, the loop of Registry.Register    *)
(* item by item under the lock of the registry, and Unregister             *)
(* (internal/server/registry.go, auth.go, control.go).                     *)
(*                                                                         *)
(* A tunnel of a handshake is a name as the client writes it; its entry    *)
(* remembers which item of the handshake it comes from, which stands for   *)
(* port, host and protocol.                                                *)
(***************************************************************************)
EXTENDS Accounts, Sequences

CONSTANTS
    Handshakes,   \* sessions, each with one handshake
    TokenOf,      \* the token of a handshake
    Lower,        \* strings.ToLower
    Valid,        \* names ValidateSubdomain accepts
    Listed,       \* tokens the configured authenticator accepts by itself
    MaxItems      \* bound: Limits.MaxTunnelsPerConnection

ASSUME RegistrationAssumption ==
    /\ None \notin Handshakes
    /\ TokenOf \in [Handshakes -> Tokens]
    /\ Lower \in [Spellings -> Spellings]
    /\ Valid \subseteq Spellings
    /\ \A n \in Valid : Lower[n] = n
    /\ Listed \subseteq Tokens
    /\ MaxItems \in Nat \ {0}

VARIABLES
    answers,   \* no read of the database fails; chosen once, for a whole behaviour
    reg,       \* where a handshake is
    items,     \* its tunnels
    done,      \* how many of them Register has gone through
    status,    \* the status of each of them in the response
    lock,      \* Registry.mu: the handshake whose Register holds it
    holder,    \* Registry.tunnels: the session of the entry of a name
    item       \* the item an entry comes from

handshakeVars == <<reg, items, done, status>>
registryVars == <<lock, holder, item>>
accountVars == <<nameTable, orgTables>>
vars == <<accountVars, answers, handshakeVars, registryVars>>

(* Validate wants at least one tunnel, and the limit is checked after it. *)
Requests == UNION {[1 .. k -> Spellings] : k \in 1 .. MaxItems}

NoStatus == [i \in 1 .. MaxItems |-> "none"]

Registering == {"item", "enter"}

HandshakesTypeOK ==
    /\ answers \in BOOLEAN
    /\ reg \in [Handshakes -> {"idle", "auth", "lock", "served", "gone"} \cup Registering]
    /\ items \in [Handshakes -> Requests \cup {<<>>}]
    /\ done \in [Handshakes -> 0 .. MaxItems]
    /\ status \in [Handshakes -> [1 .. MaxItems -> {"none", "active", "error"}]]
    /\ \A h \in Handshakes, i \in 1 .. MaxItems : i <= done[h] <=> status[h][i] # "none"
    /\ lock \in Handshakes \cup {None}
    /\ holder \in [Valid -> Handshakes \cup {None}]
    /\ item \in [Valid -> 0 .. MaxItems]

TypeOK == AccountsTypeOK /\ HandshakesTypeOK

Init ==
    /\ AccountsInit
    /\ answers \in BOOLEAN
    /\ reg = [h \in Handshakes |-> "idle"]
    /\ items = [h \in Handshakes |-> <<>>]
    /\ done = [h \in Handshakes |-> 0]
    /\ status = [h \in Handshakes |-> NoStatus]
    /\ lock = None
    /\ holder = [n \in Valid |-> None]
    /\ item = [n \in Valid |-> 0]

-------------------------------------------------------------------------------
(* The handshake up to Register. *)

Goes(h, from, to) ==
    /\ reg[h] = from
    /\ reg' = [reg EXCEPT ![h] = to]
    /\ UNCHANGED <<accountVars, answers>>

Receive(h, request) ==
    /\ Goes(h, "idle", "auth")
    /\ items' = [items EXCEPT ![h] = request]
    /\ UNCHANGED <<done, status, registryVars>>

(* DatabaseAuthenticator.Validate: a user of the database, or a token that the
   configured authenticator knows.  A failed query counts as no. *)
MayAccept(t) == UserExists(t) \/ t \in Listed
MayReject(t) == t \notin Listed /\ (UserExists(t) => ~answers)

Authenticate(h) ==
    /\ MayAccept(TokenOf[h])
    /\ Goes(h, "auth", "lock")
    /\ UNCHANGED <<items, done, status, registryVars>>

(* The handler and its variables are gone. *)
Leave(h) ==
    /\ items' = [items EXCEPT ![h] = <<>>]
    /\ done' = [done EXCEPT ![h] = 0]
    /\ status' = [status EXCEPT ![h] = NoStatus]

RejectToken(h) ==
    /\ MayReject(TokenOf[h])
    /\ Goes(h, "auth", "gone")
    /\ Leave(h)
    /\ UNCHANGED registryVars

LockRegistry(h) ==
    /\ lock = None
    /\ lock' = h
    /\ Goes(h, "lock", "item")
    /\ UNCHANGED <<items, done, status, holder, item>>

-------------------------------------------------------------------------------
(* The loop of Register.  The API takes no part in its lock, so that another row
   may be inserted between the query for the owner and the entry, and between two
   items. *)

Left(h) == done[h] < Len(items[h])
Current(h) == done[h] + 1
Name(h) == Lower[items[h][Current(h)]]

(* The item gets its status and the loop goes on. *)
Answer_SkipsNext(h, st) ==
    /\ status' = [status EXCEPT ![h][Current(h)] = st]
    /\ done' = [done EXCEPT ![h] = @ + 2]

Answer(h, st) ==
    /\ status' = [status EXCEPT ![h][Current(h)] = st]
    /\ done' = [done EXCEPT ![h] = Current(h)]

RefuseName(h) ==
    /\ Goes(h, "item", "item") /\ Left(h)
    /\ Name(h) \notin Valid
    /\ Answer(h, "error")
    /\ UNCHANGED <<items, registryVars>>

OwnerRefuses(h) ==
    /\ Goes(h, "item", "item") /\ Left(h)
    /\ Name(h) \in Valid
    /\ GetSubdomainOwner(Name(h)) \notin {None, TokenOf[h]}
    /\ Answer(h, "error")
    /\ UNCHANGED <<items, registryVars>>

(* After an error of the query the name is first come, first served. *)
OwnerAllows(h) ==
    /\ Goes(h, "item", "enter") /\ Left(h)
    /\ Name(h) \in Valid
    /\ answers => GetSubdomainOwner(Name(h)) \in {None, TokenOf[h]}
    /\ UNCHANGED <<items, done, status, registryVars>>

Taken_Never(h) == FALSE

Taken(h) == holder[Name(h)] \notin {None, h}

NameTaken_NotReported(h) ==
    /\ Goes(h, "enter", "item")
    /\ Taken(h)
    /\ Answer(h, "active")
    /\ UNCHANGED <<items, registryVars>>

NameTaken(h) ==
    /\ Goes(h, "enter", "item")
    /\ Taken(h)
    /\ Answer(h, "error")
    /\ UNCHANGED <<items, registryVars>>

(* The entry replaces that of an earlier item with the same name. *)
EnterTunnel(h) ==
    /\ Goes(h, "enter", "item")
    /\ ~Taken(h)
    /\ holder' = [holder EXCEPT ![Name(h)] = h]
    /\ item' = [item EXCEPT ![Name(h)] = Current(h)]
    /\ Answer(h, "active")
    /\ UNCHANGED <<items, lock>>

HasActive(h) == \E i \in 1 .. Len(items[h]) : status[h][i] = "active"

FinishRegister(h) ==
    /\ Goes(h, "item", "served")
    /\ ~Left(h) /\ HasActive(h)
    /\ lock' = None
    /\ UNCHANGED <<items, done, status, holder, item>>

RefuseSession_KeepsLock(h) ==
    /\ Goes(h, "item", "gone")
    /\ ~Left(h) /\ ~HasActive(h)
    /\ Leave(h)
    /\ UNCHANGED registryVars

(* No tunnels could be registered. *)
RefuseSession(h) ==
    /\ Goes(h, "item", "gone")
    /\ ~Left(h) /\ ~HasActive(h)
    /\ lock' = None
    /\ Leave(h)
    /\ UNCHANGED <<holder, item>>

Register(h) ==
    \/ LockRegistry(h) \/ RefuseName(h) \/ OwnerRefuses(h) \/ OwnerAllows(h)
    \/ NameTaken(h) \/ EnterTunnel(h) \/ FinishRegister(h) \/ RefuseSession(h)

(* The handler of the session ends. *)
Unregister(h) ==
    /\ Goes(h, "served", "gone")
    /\ lock = None
    /\ holder' = [n \in Valid |-> IF holder[n] = h THEN None ELSE holder[n]]
    /\ item' = [n \in Valid |-> IF holder[n] = h THEN 0 ELSE item[n]]
    /\ Leave(h)
    /\ UNCHANGED lock

-------------------------------------------------------------------------------

Handshake(h) ==
    \/ \E request \in Requests : Receive(h, request)
    \/ Authenticate(h) \/ RejectToken(h)
    \/ Register(h)
    \/ Unregister(h)

Request ==
    /\ OrganizationStep \/ NameStep
    /\ UNCHANGED <<answers, handshakeVars, registryVars>>

(* The sessions and the registry end with the process. *)
RestartServer ==
    /\ RestartDatabase
    /\ reg' = [h \in Handshakes |-> IF reg[h] = "idle" THEN "idle" ELSE "gone"]
    /\ lock' = None
    /\ holder' = [n \in Valid |-> None]
    /\ item' = [n \in Valid |-> 0]
    /\ items' = [h \in Handshakes |-> <<>>]
    /\ done' = [h \in Handshakes |-> 0]
    /\ status' = [h \in Handshakes |-> NoStatus]
    /\ UNCHANGED answers

Next ==
    \/ \E h \in Handshakes : Handshake(h)
    \/ Request
    \/ RestartServer

Spec == Init /\ [][Next]_vars

(* Goroutines run, a query ends, and the mutex goes to every goroutine that waits
   for it.  Nobody needs to send a handshake or to end a session. *)
FairSpec == Spec /\ \A h \in Handshakes : WF_vars(Register(h))

-------------------------------------------------------------------------------
(* Properties. *)

(* The items of a handshake with the name n that were reported active. *)
Active(h, n) ==
    {i \in 1 .. Len(items[h]) : Lower[items[h][i]] = n /\ status[h][i] = "active"}

(* The statuses a client is told are those of the registry, also when a handshake
   names a subdomain twice and the database changes in between: a name is routed to
   the session if and only if one of its items is active, and to the last of these. *)
StatusesAreTrue ==
    \A h \in Handshakes, n \in Valid :
        /\ holder[n] = h <=> Active(h, n) # {}
        /\ holder[n] = h => item[n] \in Active(h, n) /\ \A i \in Active(h, n) : i <= item[n]

(* No handshake holds the lock of the registry for ever, whatever becomes of its
   items, so that every other one gets its answer. *)
RegistrationEnds ==
    \A h \in Handshakes : reg[h] = "lock" ~> reg[h] \in {"served", "gone"}

(* The name a Register has let through counts as granted: nobody else can see that
   its entry is not there yet. *)
Granted ==
    [n \in Valid |->
        IF holder[n] = None /\ lock # None /\ reg[lock] = "enter" /\ Name(lock) = n
        THEN lock
        ELSE holder[n]]

Grants == INSTANCE NameGrants WITH
    Names <- Valid, Holders <- Handshakes, Owners <- Tokens, OwnerOf <- TokenOf, Nobody <- None,
    reserved <- [n \in Valid |-> owner[n]], granted <- Granted

(* Registration item by item, with a database that anybody may write meanwhile and
   a process that may end anywhere, grants names as if each were granted in one
   moment. *)
ImplementsGrants == Grants!GrantsSpec

(* The inductive invariant. *)

(* There is one writer: nobody else creates the organization of the transaction. *)
OrganizationInv ==
    /\ OrganizationHasOwner
    /\ AdmittedByAdmin
    /\ tx # NoTx => orgOwner[tx.slug] = None

LockInv ==
    \A h \in Handshakes : reg[h] \in Registering <=> lock = h

(* How far Register is with the items. *)
ProgressInv ==
    \A h \in Handshakes :
        /\ done[h] <= Len(items[h])
        /\ reg[h] \in {"idle", "gone"} => items[h] = <<>>
        /\ reg[h] \in {"auth", "lock"} => done[h] = 0
        /\ reg[h] = "enter" => Left(h) /\ Name(h) \in Valid

RegistrationInv == TypeOK /\ OrganizationInv /\ LockInv /\ ProgressInv /\ StatusesAreTrue

===============================================================================
