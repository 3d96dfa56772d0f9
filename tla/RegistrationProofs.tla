-------------------------- MODULE RegistrationProofs --------------------------
(***************************************************************************)
(* Registration keeps its invariant, for every number of handshakes, items *)
(* and names, and every database.                                          *)
(***************************************************************************)
EXTENDS Registration, TLAPS

(* The tables, which no step of a handshake touches. *)
AccountsInv == AccountsTypeOK /\ OrganizationInv

LEMMA AccountsInitial == AccountsInit => AccountsInv
  BY AccountsAssumption, SMT
     DEF AccountsInit, AccountsInv, AccountsTypeOK, OrganizationInv, OrganizationHasOwner,
         AdmittedByAdmin, NoTx, Transactions, Roles

(* An insertion into the tables of names, and a step of an organization. *)
LEMMA NamesKeepAccounts ==
  ASSUME AccountsInv, NameStep
  PROVE  AccountsInv'
<1>1. CASE \E t \in Tokens : HandleRegister(t)
  BY <1>1 DEF AccountsInv, AccountsTypeOK, OrganizationInv, OrganizationHasOwner, AdmittedByAdmin,
              HandleRegister, orgTables
<1>2. CASE \E t \in Tokens, s \in Spellings : HandleReserve(t, s)
  BY <1>2 DEF AccountsInv, AccountsTypeOK, OrganizationInv, OrganizationHasOwner, AdmittedByAdmin,
              HandleReserve, orgTables
<1> QED BY <1>1, <1>2 DEF NameStep

LEMMA CreationKeepsAccounts ==
  ASSUME AccountsInv, CreateOrganization
  PROVE  AccountsInv'
<1> USE DEF AccountsInv, AccountsTypeOK, OrganizationInv, OrganizationHasOwner, AdmittedByAdmin, nameTable
<1>1. ASSUME NEW t \in Tokens, NEW o \in Slugs, InsertOrganization(t, o)
      PROVE  AccountsInv'
  BY <1>1 DEF InsertOrganization, Writable, Transactions
<1>2. CASE InsertOwner
  <2>1. tx \in Transactions /\ tx # NoTx
    BY <1>2 DEF InsertOwner, NoTx
  <2>2. tx' \in Transactions /\ tx'.slug = tx.slug /\ tx'.by = tx.by
    BY <1>2, <2>1 DEF InsertOwner, Transactions
  <2> QED BY <1>2, <2>1, <2>2 DEF InsertOwner
<1>3. CASE Commit
  <2>1. tx \in Transactions /\ tx # NoTx
    BY <1>3 DEF Commit, NoTx
  <2>2. tx.slug \in Slugs /\ tx.by \in Tokens
    BY <2>1 DEF Transactions
  <2>3. orgOwner[tx.slug] = None
    BY <2>1
  <2>4. \A t \in Tokens : role[tx.slug][t] = "none"
    BY <2>2, <2>3
  <2>5. orgOwner' \in [Slugs -> Tokens \cup {None}] /\ role' \in [Slugs -> [Tokens -> Roles \cup {"none"}]]
    BY <1>3, <2>2 DEF Commit, Roles
  <2>6. OrganizationHasOwner'
    <3> SUFFICES ASSUME NEW o \in Slugs
                 PROVE  IF orgOwner'[o] = None THEN \A t \in Tokens : role'[o][t] = "none"
                                               ELSE role'[o][orgOwner'[o]] = "owner"
      OBVIOUS
    <3>1. CASE o = tx.slug
      BY <1>3, <2>2, <3>1, AccountsAssumption DEF Commit
    <3>2. CASE o # tx.slug
      BY <1>3, <2>2, <3>2 DEF Commit
    <3> QED BY <3>1, <3>2
  <2>7. AdmittedByAdmin'
    <3> SUFFICES ASSUME NEW a \in adding
                 PROVE  role'[a[1]][a[2]] \in {"owner", "admin"}
      BY <1>3 DEF Commit
    <3>1. a[1] \in Slugs /\ a[2] \in Tokens /\ role[a[1]][a[2]] \in {"owner", "admin"}
      OBVIOUS
    <3>2. a[1] # tx.slug
      BY <3>1, <2>4
    <3> QED BY <1>3, <2>2, <3>1, <3>2 DEF Commit
  <2> QED BY <1>3, <2>5, <2>6, <2>7 DEF Commit
<1>4. CASE Rollback
  BY <1>4 DEF Rollback
<1> QED BY <1>1, <1>2, <1>3, <1>4 DEF CreateOrganization

LEMMA MembersKeepAccounts ==
  ASSUME AccountsInv, NEW o \in Slugs, NEW t \in Tokens, HandleAddMember(o, t)
  PROVE  AccountsInv'
<1> USE DEF AccountsInv, AccountsTypeOK, OrganizationInv, OrganizationHasOwner, AdmittedByAdmin, nameTable
<1>1. CASE CheckAdmin(o, t)
  BY <1>1 DEF CheckAdmin, GetUserRole
<1>2. ASSUME NEW member \in Tokens, NEW r \in Roles, AddMember(o, t, member, r)
      PROVE  AccountsInv'
  <2>1. role[o][t] \in {"owner", "admin"} /\ role[o][member] = "none"
    BY <1>2 DEF AddMember
  <2>2. orgOwner[o] # None /\ role[o][orgOwner[o]] = "owner" /\ orgOwner[o] \in Tokens
    BY <2>1
  <2>3. role' \in [Slugs -> [Tokens -> Roles \cup {"none"}]]
    BY <1>2 DEF AddMember
  <2>4. \A p \in Slugs, u \in Tokens : role'[p][u] = IF p = o /\ u = member THEN r ELSE role[p][u]
    BY <1>2 DEF AddMember
  <2>5. OrganizationHasOwner'
    <3> SUFFICES ASSUME NEW p \in Slugs
                 PROVE  IF orgOwner[p] = None THEN \A u \in Tokens : role'[p][u] = "none"
                                              ELSE role'[p][orgOwner[p]] = "owner"
      BY <1>2 DEF AddMember
    <3>1. CASE p = o
      <4>1. orgOwner[p] # member
        BY <2>1, <2>2, <3>1
      <4> QED BY <4>1, <3>1, <2>2, <2>4
    <3>2. CASE p # o
      BY <3>2, <2>4
    <3> QED BY <3>1, <3>2
  <2>6. AdmittedByAdmin'
    <3> SUFFICES ASSUME NEW a \in adding
                 PROVE  role'[a[1]][a[2]] \in {"owner", "admin"}
      BY <1>2 DEF AddMember
    <3>1. a[1] \in Slugs /\ a[2] \in Tokens /\ role[a[1]][a[2]] \in {"owner", "admin"}
      OBVIOUS
    <3>2. ~(a[1] = o /\ a[2] = member)
      BY <3>1, <2>1
    <3> QED BY <3>1, <3>2, <2>4
  <2> QED BY <1>2, <2>3, <2>5, <2>6 DEF AddMember
<1>3. CASE AddMemberFails(o, t)
  BY <1>3 DEF AddMemberFails
<1> QED BY <1>1, <1>2, <1>3 DEF HandleAddMember

LEMMA RestartKeepsAccounts ==
  ASSUME AccountsInv, RestartDatabase
  PROVE  AccountsInv'
  BY DEF RestartDatabase, AccountsInv, AccountsTypeOK, OrganizationInv, OrganizationHasOwner,
         AdmittedByAdmin, nameTable

LEMMA TablesUntouched ==
  ASSUME AccountsInv, UNCHANGED accountVars
  PROVE  AccountsInv'
  BY DEF accountVars, nameTable, orgTables, AccountsInv, AccountsTypeOK, OrganizationInv,
         OrganizationHasOwner, AdmittedByAdmin

(* Every step of a handshake leaves the tables alone. *)
LEMMA HandshakeLeavesTables ==
  ASSUME NEW h \in Handshakes, Handshake(h)
  PROVE  UNCHANGED <<accountVars, answers>>
  BY DEF Handshake, Register, Receive, Authenticate, RejectToken, LockRegistry, RefuseName,
         OwnerRefuses, OwnerAllows, NameTaken, EnterTunnel, FinishRegister, RefuseSession,
         Unregister, Goes

LEMMA AccountsKept ==
  ASSUME AccountsInv, [Next]_vars
  PROVE  AccountsInv'
<1>1. CASE \E h \in Handshakes : Handshake(h)
  BY <1>1, HandshakeLeavesTables, TablesUntouched
<1>2. CASE Request
  <2>1. CASE NameStep
    BY <2>1, NamesKeepAccounts
  <2>2. CASE CreateOrganization
    BY <2>2, CreationKeepsAccounts
  <2>3. CASE \E o \in Slugs, t \in Tokens : HandleAddMember(o, t)
    BY <2>3, MembersKeepAccounts
  <2> QED BY <1>2, <2>1, <2>2, <2>3 DEF Request, OrganizationStep
<1>3. CASE RestartServer
  BY <1>3, RestartKeepsAccounts DEF RestartServer
<1>4. CASE UNCHANGED vars
  BY <1>4, TablesUntouched DEF vars
<1> QED BY <1>1, <1>2, <1>3, <1>4 DEF Next

-------------------------------------------------------------------------------
(* The handshakes and the registry. *)

HandshakesInv == HandshakesTypeOK /\ LockInv /\ ProgressInv /\ StatusesAreTrue

LEMMA RequestIsSequence ==
  ASSUME NEW r \in Requests
  PROVE  r \in Seq(Spellings) /\ Len(r) \in 1 .. MaxItems
<1>1. PICK k \in 1 .. MaxItems : r \in [1 .. k -> Spellings]
  BY DEF Requests
<1>2. k \in Nat /\ MaxItems \in Nat
  BY RegistrationAssumption
<1>3. r \in Seq(Spellings)
  BY <1>1, <1>2
<1>4. Len(r) = k
  BY <1>1, <1>2, <1>3
<1> QED BY <1>3, <1>4

LEMMA ItemsAreSequences ==
  ASSUME HandshakesTypeOK, NEW h \in Handshakes
  PROVE  /\ items[h] \in Seq(Spellings)
         /\ Len(items[h]) \in 0 .. MaxItems
<1>1. items[h] \in Requests \cup {<<>>}
  BY DEF HandshakesTypeOK
<1>2. CASE items[h] \in Requests
  BY <1>2, RequestIsSequence, RegistrationAssumption
<1>3. CASE items[h] = <<>>
  BY <1>3, RegistrationAssumption
<1> QED BY <1>1, <1>2, <1>3

LEMMA CurrentItem ==
  ASSUME HandshakesInv, NEW h \in Handshakes, Left(h)
  PROVE  /\ done[h] \in Nat /\ Current(h) = done[h] + 1
         /\ Current(h) \in 1 .. Len(items[h])
         /\ Current(h) \in 1 .. MaxItems
         /\ Name(h) = Lower[items[h][Current(h)]]
<1>1. done[h] \in 0 .. MaxItems /\ MaxItems \in Nat
  BY RegistrationAssumption DEF HandshakesInv, HandshakesTypeOK
<1>2. Len(items[h]) \in 0 .. MaxItems
  BY ItemsAreSequences DEF HandshakesInv
<1>3. done[h] < Len(items[h])
  BY DEF Left
<1> QED BY <1>1, <1>2, <1>3 DEF Current, Name

(* A handshake whose items have not been looked at has none that is active. *)
LEMMA NothingActive ==
  ASSUME HandshakesTypeOK, NEW h \in Handshakes, NEW n \in Valid, done[h] = 0
  PROVE  Active(h, n) = {}
<1> SUFFICES ASSUME NEW i \in 1 .. Len(items[h])
             PROVE  status[h][i] # "active"
  BY DEF Active
<1>1. i \in 1 .. MaxItems /\ ~(i <= 0)
  BY ItemsAreSequences, RegistrationAssumption
<1> QED BY <1>1 DEF HandshakesTypeOK

(* What an answer does: the item is done, and it is one more that is active, or
   not. *)
LEMMA AnswerKeepsTypes ==
  ASSUME HandshakesInv, NEW h \in Handshakes, Left(h), NEW st \in {"active", "error"}, Answer(h, st)
  PROVE  /\ done' \in [Handshakes -> 0 .. MaxItems]
         /\ status' \in [Handshakes -> [1 .. MaxItems -> {"none", "active", "error"}]]
         /\ \A g \in Handshakes, i \in 1 .. MaxItems : i <= done'[g] <=> status'[g][i] # "none"
         /\ done'[h] <= Len(items[h])
         /\ \A g \in Handshakes \ {h} : done'[g] = done[g] /\ status'[g] = status[g]
<1>1. /\ done \in [Handshakes -> 0 .. MaxItems]
      /\ status \in [Handshakes -> [1 .. MaxItems -> {"none", "active", "error"}]]
      /\ MaxItems \in Nat
  BY RegistrationAssumption DEF HandshakesInv, HandshakesTypeOK
<1>2. /\ Current(h) = done[h] + 1 /\ Current(h) \in 1 .. MaxItems
      /\ Current(h) \in 1 .. Len(items[h])
  BY CurrentItem
<1>3. Current(h) <= Len(items[h]) /\ Current(h) \in 0 .. MaxItems
  BY <1>1, <1>2, ItemsAreSequences DEF HandshakesInv
<1>4. /\ done' = [done EXCEPT ![h] = Current(h)]
      /\ status' = [status EXCEPT ![h][Current(h)] = st]
  BY DEF Answer
<1>5. \A g \in Handshakes \ {h} : done'[g] = done[g] /\ status'[g] = status[g]
  BY <1>1, <1>4
<1>6. \A i \in 1 .. MaxItems : status'[h][i] = IF i = Current(h) THEN st ELSE status[h][i]
  BY <1>1, <1>2, <1>4
<1>7. \A i \in 1 .. MaxItems : i <= done[h] <=> status[h][i] # "none"
  BY DEF HandshakesInv, HandshakesTypeOK
<1>8. done'[h] = done[h] + 1 /\ done[h] \in Nat
  BY <1>1, <1>2, <1>4
<1>9. \A i \in 1 .. MaxItems : i <= done'[h] <=> status'[h][i] # "none"
  <2> SUFFICES ASSUME NEW i \in 1 .. MaxItems
               PROVE  i <= done[h] + 1 <=> status'[h][i] # "none"
    BY <1>8
  <2>1. CASE i = done[h] + 1
    BY <2>1, <1>2, <1>6
  <2>2. CASE i # done[h] + 1
    <3>1. i <= done[h] + 1 <=> i <= done[h]
      BY <2>2, <1>8
    <3> QED BY <3>1, <2>2, <1>2, <1>6, <1>7
  <2> QED BY <2>1, <2>2
<1>10. \A g \in Handshakes, i \in 1 .. MaxItems : i <= done'[g] <=> status'[g][i] # "none"
  BY <1>5, <1>9 DEF HandshakesInv, HandshakesTypeOK
<1> QED BY <1>1, <1>3, <1>4, <1>5, <1>10

LEMMA AnswerActivates ==
  ASSUME HandshakesInv, NEW h \in Handshakes, Left(h), NEW st \in {"active", "error"}, Answer(h, st),
         UNCHANGED items, NEW g \in Handshakes, NEW n \in Valid
  PROVE  Active(g, n)' = IF g = h /\ st = "active" /\ Name(h) = n THEN Active(g, n) \cup {Current(h)}
                                                                   ELSE Active(g, n)
<1>1. \A f \in Handshakes \ {h} : status'[f] = status[f]
  BY AnswerKeepsTypes
<1>2. CASE g # h
  BY <1>1, <1>2 DEF Active
<1>3. CASE g = h
  <2>1. Current(h) \in 1 .. Len(items[h]) /\ Name(h) = Lower[items[h][Current(h)]]
    BY CurrentItem
  <2>2. /\ Current(h) \in 1 .. MaxItems /\ ~(Current(h) <= done[h])
        /\ Len(items[h]) \in 0 .. MaxItems
    BY CurrentItem, ItemsAreSequences DEF HandshakesInv
  <2>3. status[h][Current(h)] = "none"
    BY <2>2 DEF HandshakesInv, HandshakesTypeOK
  <2>4. \A i \in 1 .. Len(items[h]) : i \in 1 .. MaxItems
    BY <2>2, RegistrationAssumption
  <2>5. \A i \in 1 .. MaxItems : status'[h][i] = IF i = Current(h) THEN st ELSE status[h][i]
    BY <2>2 DEF Answer, HandshakesInv, HandshakesTypeOK
  <2> QED BY <1>3, <2>1, <2>3, <2>4, <2>5 DEF Active
<1> QED BY <1>2, <1>3

(* A step of h that changes nothing of an item keeps the statuses true. *)
LEMMA StatusesKept ==
  ASSUME StatusesAreTrue, UNCHANGED <<items, status, holder, item>>
  PROVE  StatusesAreTrue'
  BY DEF StatusesAreTrue, Active

LEMMA ReceiveKeeps ==
  ASSUME HandshakesInv, NEW h \in Handshakes, NEW request \in Requests, Receive(h, request)
  PROVE  HandshakesInv'
<1>1. HandshakesTypeOK'
  BY DEF Receive, Goes, registryVars, HandshakesInv, HandshakesTypeOK
<1>2. LockInv'
  BY DEF Receive, Goes, registryVars, HandshakesInv, HandshakesTypeOK, LockInv, Registering
<1>3. done[h] = 0
  <2>1. items[h] = <<>> /\ done[h] <= Len(items[h]) /\ done[h] \in 0 .. MaxItems
    BY DEF Receive, Goes, HandshakesInv, HandshakesTypeOK, ProgressInv
  <2> QED BY <2>1, RegistrationAssumption
<1>4. ProgressInv'
  <2>1. Len(request) \in 1 .. MaxItems
    BY RequestIsSequence
  <2> QED BY <1>3, <2>1, RegistrationAssumption
          DEF Receive, Goes, registryVars, HandshakesInv, HandshakesTypeOK, ProgressInv, Left, Name, Current
<1>5. StatusesAreTrue'
  <2> SUFFICES ASSUME NEW g \in Handshakes, NEW n \in Valid
               PROVE  /\ holder'[n] = g <=> Active(g, n)' # {}
                      /\ holder'[n] = g => /\ item'[n] \in Active(g, n)'
                                           /\ \A i \in Active(g, n)' : i <= item'[n]
    BY DEF StatusesAreTrue
  <2>1. CASE g = h
    <3>1. done'[g] = 0
      BY <1>3, <2>1 DEF Receive
    <3>2. Active(g, n)' = {}
      <4> SUFFICES ASSUME NEW i \in 1 .. Len(items'[g])
                   PROVE  status'[g][i] # "active"
        BY DEF Active
      <4>1. i \in 1 .. MaxItems /\ ~(i <= 0)
        <5>1. items'[g] = request
          BY <2>1 DEF Receive, HandshakesInv, HandshakesTypeOK
        <5> QED BY <5>1, RequestIsSequence, RegistrationAssumption
      <4> QED BY <4>1, <3>1, <1>1 DEF HandshakesTypeOK
    <3>3. Active(g, n) = {}
      BY <1>3, <2>1, NothingActive DEF HandshakesInv
    <3> QED BY <3>2, <3>3 DEF Receive, registryVars, HandshakesInv, StatusesAreTrue
  <2>2. CASE g # h
    <3>1. Active(g, n)' = Active(g, n)
      BY <2>2 DEF Active, Receive, HandshakesInv, HandshakesTypeOK
    <3> QED BY <3>1 DEF Receive, registryVars, HandshakesInv, StatusesAreTrue
  <2> QED BY <2>1, <2>2
<1> QED BY <1>1, <1>2, <1>4, <1>5 DEF HandshakesInv

(* A handshake that only moves on. *)
LEMMA MoveKeeps ==
  ASSUME HandshakesInv, NEW h \in Handshakes,
         Authenticate(h) \/ LockRegistry(h) \/ OwnerAllows(h) \/ FinishRegister(h)
  PROVE  HandshakesInv'
<1>1. HandshakesTypeOK'
  BY DEF Authenticate, LockRegistry, OwnerAllows, FinishRegister, Goes, registryVars,
         HandshakesInv, HandshakesTypeOK, Registering
<1>2. LockInv'
  BY RegistrationAssumption
     DEF Authenticate, LockRegistry, OwnerAllows, FinishRegister, Goes, registryVars,
         HandshakesInv, HandshakesTypeOK, LockInv, Registering
<1>3. ProgressInv'
  BY DEF Authenticate, LockRegistry, OwnerAllows, FinishRegister, Goes, registryVars,
         HandshakesInv, HandshakesTypeOK, ProgressInv, Left, Name, Current
<1>4. StatusesAreTrue'
  BY StatusesKept
     DEF Authenticate, LockRegistry, OwnerAllows, FinishRegister, registryVars, HandshakesInv
<1> QED BY <1>1, <1>2, <1>3, <1>4 DEF HandshakesInv

(* An item that is refused, for its name, its owner or its holder. *)
LEMMA RefusalKeeps ==
  ASSUME HandshakesInv, NEW h \in Handshakes, RefuseName(h) \/ OwnerRefuses(h) \/ NameTaken(h)
  PROVE  HandshakesInv'
<1>1. /\ Left(h) /\ Answer(h, "error")
      /\ reg[h] \in Registering /\ reg' = [reg EXCEPT ![h] = "item"]
      /\ UNCHANGED <<answers, items, registryVars>>
  BY DEF RefuseName, OwnerRefuses, NameTaken, Goes, Registering, HandshakesInv, ProgressInv
<1>2. /\ done' \in [Handshakes -> 0 .. MaxItems]
      /\ status' \in [Handshakes -> [1 .. MaxItems -> {"none", "active", "error"}]]
      /\ \A g \in Handshakes, i \in 1 .. MaxItems : i <= done'[g] <=> status'[g][i] # "none"
      /\ done'[h] <= Len(items[h])
      /\ \A g \in Handshakes \ {h} : done'[g] = done[g] /\ status'[g] = status[g]
  BY <1>1, AnswerKeepsTypes
<1>3. HandshakesTypeOK'
  BY <1>1, <1>2 DEF HandshakesInv, HandshakesTypeOK, Registering, registryVars
<1>4. LockInv'
  BY <1>1 DEF HandshakesInv, HandshakesTypeOK, LockInv, Registering, registryVars
<1>5. ProgressInv'
  BY <1>1, <1>2 DEF HandshakesInv, HandshakesTypeOK, ProgressInv, Registering, Left, Name, Current
<1>6. \A g \in Handshakes, n \in Valid : Active(g, n)' = Active(g, n)
  BY <1>1, AnswerActivates
<1>7. StatusesAreTrue'
  BY <1>1, <1>6 DEF HandshakesInv, StatusesAreTrue, registryVars
<1> QED BY <1>3, <1>4, <1>5, <1>7 DEF HandshakesInv

LEMMA EnterKeeps ==
  ASSUME HandshakesInv, NEW h \in Handshakes, EnterTunnel(h)
  PROVE  HandshakesInv'
<1> DEFINE m == Name(h)
<1>1. /\ Left(h) /\ m \in Valid /\ Answer(h, "active")
      /\ reg[h] \in Registering /\ reg' = [reg EXCEPT ![h] = "item"]
      /\ holder[m] \in {None, h}
      /\ holder' = [holder EXCEPT ![m] = h]
      /\ item' = [item EXCEPT ![m] = Current(h)]
      /\ UNCHANGED <<answers, items, lock>>
  BY DEF EnterTunnel, Taken, Goes, Registering, HandshakesInv, ProgressInv
<1> HIDE DEF m
<1>2. /\ done' \in [Handshakes -> 0 .. MaxItems]
      /\ status' \in [Handshakes -> [1 .. MaxItems -> {"none", "active", "error"}]]
      /\ \A g \in Handshakes, i \in 1 .. MaxItems : i <= done'[g] <=> status'[g][i] # "none"
      /\ done'[h] <= Len(items[h])
      /\ \A g \in Handshakes \ {h} : done'[g] = done[g] /\ status'[g] = status[g]
  BY <1>1, AnswerKeepsTypes
<1>3. Current(h) \in 0 .. MaxItems /\ Current(h) = done[h] + 1 /\ done[h] \in Nat
  BY <1>1, CurrentItem, RegistrationAssumption
<1>4. HandshakesTypeOK'
  <2>1. holder' \in [Valid -> Handshakes \cup {None}] /\ item' \in [Valid -> 0 .. MaxItems]
    BY <1>1, <1>3 DEF HandshakesInv, HandshakesTypeOK
  <2> QED BY <1>1, <1>2, <2>1 DEF HandshakesInv, HandshakesTypeOK, Registering
<1>5. LockInv'
  BY <1>1 DEF HandshakesInv, HandshakesTypeOK, LockInv, Registering
<1>6. ProgressInv'
  BY <1>1, <1>2 DEF HandshakesInv, HandshakesTypeOK, ProgressInv, Registering, Left, Name, Current
<1>7. \A g \in Handshakes, n \in Valid :
        Active(g, n)' = IF g = h /\ m = n THEN Active(g, n) \cup {Current(h)} ELSE Active(g, n)
  BY <1>1, AnswerActivates DEF m
<1>8. \A i \in Active(h, m) : i <= Current(h)
  <2> SUFFICES ASSUME NEW i \in 1 .. Len(items[h]), status[h][i] = "active"
               PROVE  i <= Current(h)
    BY DEF Active
  <2>1. i \in 1 .. MaxItems /\ i \in Nat
    BY ItemsAreSequences, RegistrationAssumption DEF HandshakesInv
  <2>2. i <= done[h]
    BY <2>1 DEF HandshakesInv, HandshakesTypeOK
  <2> QED BY <2>1, <2>2, <1>3
<1>9. StatusesAreTrue'
  <2> SUFFICES ASSUME NEW g \in Handshakes, NEW n \in Valid
               PROVE  /\ holder'[n] = g <=> Active(g, n)' # {}
                      /\ holder'[n] = g => /\ item'[n] \in Active(g, n)'
                                           /\ \A i \in Active(g, n)' : i <= item'[n]
    BY DEF StatusesAreTrue
  <2>1. CASE n # m
    BY <2>1, <1>1, <1>7 DEF HandshakesInv, HandshakesTypeOK, StatusesAreTrue
  <2>2. CASE n = m
    <3>1. holder'[n] = h /\ item'[n] = Current(h)
      BY <2>2, <1>1 DEF HandshakesInv, HandshakesTypeOK
    <3>2. CASE g = h
      <4>1. Active(g, n)' = Active(h, m) \cup {Current(h)}
        BY <2>2, <3>2, <1>7
      <4> QED BY <4>1, <3>1, <3>2, <1>8, <1>3
    <3>3. CASE g # h
      <4>1. holder[n] # g
        BY <2>2, <3>3, <1>1, RegistrationAssumption
      <4>2. Active(g, n)' = {}
        BY <2>2, <3>3, <4>1, <1>7 DEF HandshakesInv, StatusesAreTrue
      <4> QED BY <4>2, <3>1, <3>3
    <3> QED BY <3>2, <3>3
  <2> QED BY <2>1, <2>2
<1> QED BY <1>4, <1>5, <1>6, <1>9 DEF HandshakesInv

(* The end of a handshake that holds nothing, and that of a session. *)
LEMMA EndKeeps ==
  ASSUME HandshakesInv, NEW h \in Handshakes,
         RejectToken(h) \/ RefuseSession(h) \/ Unregister(h)
  PROVE  HandshakesInv'
<1>1. /\ Leave(h) /\ reg' = [reg EXCEPT ![h] = "gone"]
      /\ UNCHANGED answers
  BY DEF RejectToken, RefuseSession, Unregister, Goes
<1>2. NoStatus \in [1 .. MaxItems -> {"none", "active", "error"}]
      /\ \A i \in 1 .. MaxItems : NoStatus[i] = "none" /\ ~(i <= 0)
  BY RegistrationAssumption DEF NoStatus
<1>3. /\ done' \in [Handshakes -> 0 .. MaxItems]
      /\ status' \in [Handshakes -> [1 .. MaxItems -> {"none", "active", "error"}]]
      /\ items' \in [Handshakes -> Requests \cup {<<>>}]
      /\ done'[h] = 0 /\ status'[h] = NoStatus /\ items'[h] = <<>>
      /\ \A g \in Handshakes \ {h} : done'[g] = done[g] /\ status'[g] = status[g] /\ items'[g] = items[g]
  BY <1>1, <1>2, RegistrationAssumption DEF Leave, HandshakesInv, HandshakesTypeOK
<1>4. /\ lock' \in Handshakes \cup {None}
      /\ holder' \in [Valid -> Handshakes \cup {None}]
      /\ item' \in [Valid -> 0 .. MaxItems]
  BY RegistrationAssumption
     DEF RejectToken, RefuseSession, Unregister, registryVars, HandshakesInv, HandshakesTypeOK
<1>5. HandshakesTypeOK'
  <2>1. \A g \in Handshakes, i \in 1 .. MaxItems : i <= done'[g] <=> status'[g][i] # "none"
    <3> SUFFICES ASSUME NEW g \in Handshakes, NEW i \in 1 .. MaxItems
                 PROVE  i <= done'[g] <=> status'[g][i] # "none"
      OBVIOUS
    <3>1. CASE g = h
      BY <3>1, <1>2, <1>3
    <3>2. CASE g # h
      BY <3>2, <1>3 DEF HandshakesInv, HandshakesTypeOK
    <3> QED BY <3>1, <3>2
  <2>2. reg' \in [Handshakes -> {"idle", "auth", "lock", "served", "gone"} \cup Registering]
    BY <1>1 DEF HandshakesInv, HandshakesTypeOK
  <2> QED BY <1>1, <1>3, <1>4, <2>1, <2>2 DEF HandshakesInv, HandshakesTypeOK
<1>6. LockInv'
  BY <1>1, RegistrationAssumption
     DEF RejectToken, RefuseSession, Unregister, Goes, registryVars, HandshakesInv,
         HandshakesTypeOK, LockInv, Registering
<1>7. ProgressInv'
  <2>1. Len(<<>>) = 0 /\ 0 <= 0
    OBVIOUS
  <2> QED BY <1>1, <1>3, <2>1
          DEF HandshakesInv, HandshakesTypeOK, ProgressInv, Left, Name, Current
<1>8. \A n \in Valid : Active(h, n)' = {}
  BY <1>3 DEF Active
<1>9. \A g \in Handshakes \ {h}, n \in Valid : Active(g, n)' = Active(g, n)
  BY <1>3 DEF Active
<1>10. /\ \A n \in Valid : holder'[n] # h
       /\ \A n \in Valid, g \in Handshakes \ {h} :
            (holder'[n] = g <=> holder[n] = g) /\ (holder[n] = g => item'[n] = item[n])
  <2>1. CASE RejectToken(h)
    <3>1. done[h] = 0
      BY <2>1 DEF RejectToken, Goes, HandshakesInv, ProgressInv
    <3>2. \A n \in Valid : holder[n] # h
      BY <3>1, NothingActive DEF HandshakesInv, StatusesAreTrue
    <3> QED BY <2>1, <3>2 DEF RejectToken, registryVars
  <2>2. CASE RefuseSession(h)
    <3>1. \A n \in Valid : Active(h, n) = {}
      BY <2>2 DEF RefuseSession, HasActive, Active
    <3>2. \A n \in Valid : holder[n] # h
      BY <3>1 DEF HandshakesInv, StatusesAreTrue
    <3> QED BY <2>2, <3>2 DEF RefuseSession
  <2>3. CASE Unregister(h)
    BY <2>3, RegistrationAssumption DEF Unregister, HandshakesInv, HandshakesTypeOK
  <2> QED BY <2>1, <2>2, <2>3
<1>11. StatusesAreTrue'
  <2> SUFFICES ASSUME NEW g \in Handshakes, NEW n \in Valid
               PROVE  /\ holder'[n] = g <=> Active(g, n)' # {}
                      /\ holder'[n] = g => /\ item'[n] \in Active(g, n)'
                                           /\ \A i \in Active(g, n)' : i <= item'[n]
    BY DEF StatusesAreTrue
  <2>1. CASE g = h
    BY <2>1, <1>8, <1>10
  <2>2. CASE g # h
    BY <2>2, <1>9, <1>10 DEF HandshakesInv, StatusesAreTrue
  <2> QED BY <2>1, <2>2
<1> QED BY <1>5, <1>6, <1>7, <1>11 DEF HandshakesInv

(* Nothing of the handshakes and the registry is there at the start and after a
   restart. *)
Fresh ==
    /\ answers \in BOOLEAN
    /\ reg \in [Handshakes -> {"idle", "gone"}]
    /\ items = [h \in Handshakes |-> <<>>]
    /\ done = [h \in Handshakes |-> 0]
    /\ status = [h \in Handshakes |-> NoStatus]
    /\ lock = None
    /\ holder = [n \in Valid |-> None]
    /\ item = [n \in Valid |-> 0]

LEMMA NothingRegistered == Fresh => HandshakesInv
<1> SUFFICES ASSUME Fresh PROVE HandshakesInv
  OBVIOUS
<1>1. NoStatus \in [1 .. MaxItems -> {"none", "active", "error"}]
      /\ \A i \in 1 .. MaxItems : NoStatus[i] = "none" /\ ~(i <= 0)
  BY RegistrationAssumption DEF NoStatus
<1>2. HandshakesTypeOK
  BY <1>1, RegistrationAssumption DEF Fresh, HandshakesTypeOK
<1>3. LockInv
  BY RegistrationAssumption DEF Fresh, LockInv, Registering
<1>4. ProgressInv
  <2>1. Len(<<>>) = 0 /\ 0 <= 0
    OBVIOUS
  <2> QED BY <2>1 DEF Fresh, ProgressInv
<1>5. StatusesAreTrue
  BY RegistrationAssumption DEF Fresh, StatusesAreTrue, Active
<1> QED BY <1>2, <1>3, <1>4, <1>5 DEF HandshakesInv

LEMMA RestartKeeps ==
  ASSUME HandshakesInv, RestartServer
  PROVE  HandshakesInv'
<1>1. Fresh'
  BY DEF RestartServer, Fresh, HandshakesInv, HandshakesTypeOK
<1> QED BY <1>1, NothingRegistered, PTL

LEMMA HandshakeKeeps ==
  ASSUME HandshakesInv, NEW h \in Handshakes, Handshake(h)
  PROVE  HandshakesInv'
<1>1. CASE \E request \in Requests : Receive(h, request)
  BY <1>1, ReceiveKeeps
<1>2. CASE Authenticate(h) \/ LockRegistry(h) \/ OwnerAllows(h) \/ FinishRegister(h)
  BY <1>2, MoveKeeps
<1>3. CASE RefuseName(h) \/ OwnerRefuses(h) \/ NameTaken(h)
  BY <1>3, RefusalKeeps
<1>4. CASE EnterTunnel(h)
  BY <1>4, EnterKeeps
<1>5. CASE RejectToken(h) \/ RefuseSession(h) \/ Unregister(h)
  BY <1>5, EndKeeps
<1> QED BY <1>1, <1>2, <1>3, <1>4, <1>5 DEF Handshake, Register

LEMMA HandshakesUntouched ==
  ASSUME HandshakesInv, UNCHANGED <<answers, handshakeVars, registryVars>>
  PROVE  HandshakesInv'
<1>1. UNCHANGED <<answers, reg, items, done, status, lock, holder, item>>
  BY DEF handshakeVars, registryVars
<1>2. HandshakesTypeOK' /\ LockInv'
  BY <1>1 DEF HandshakesInv, HandshakesTypeOK, LockInv
<1>3. ProgressInv'
  BY <1>1 DEF HandshakesInv, ProgressInv, Left, Name, Current
<1> QED BY <1>1, <1>2, <1>3, StatusesKept DEF HandshakesInv

LEMMA HandshakesKept ==
  ASSUME HandshakesInv, [Next]_vars
  PROVE  HandshakesInv'
<1>1. CASE \E h \in Handshakes : Handshake(h)
  BY <1>1, HandshakeKeeps
<1>2. CASE Request
  BY <1>2, HandshakesUntouched DEF Request
<1>3. CASE RestartServer
  BY <1>3, RestartKeeps
<1>4. CASE UNCHANGED vars
  BY <1>4, HandshakesUntouched DEF vars
<1> QED BY <1>1, <1>2, <1>3, <1>4 DEF Next

-------------------------------------------------------------------------------
(* The theorems. *)

LEMMA InvAlways == Spec => [](AccountsInv /\ HandshakesInv)
<1>1. Init => AccountsInv /\ HandshakesInv
  <2> SUFFICES ASSUME Init PROVE AccountsInv /\ HandshakesInv
    OBVIOUS
  <2>1. Fresh
    BY DEF Init, Fresh
  <2> QED BY <2>1, AccountsInitial, NothingRegistered DEF Init
<1>2. AccountsInv /\ HandshakesInv /\ [Next]_vars => (AccountsInv /\ HandshakesInv)'
  BY AccountsKept, HandshakesKept
<1> QED BY <1>1, <1>2, PTL DEF Spec

(* Every variable keeps its type, and the items that have a status are those that
   Register has gone through (registry.go:97-150). *)
THEOREM RegistrationTypeCorrect == Spec => []TypeOK
<1>1. AccountsInv /\ HandshakesInv => TypeOK
  BY DEF AccountsInv, HandshakesInv, TypeOK
<1> QED BY <1>1, InvAlways, PTL

(* What a client is told of its items is what the registry has, with duplicates and
   with a database that changes between two items (registry.go:128-149). *)
THEOREM StatusesAlwaysTrue == Spec => []StatusesAreTrue
<1>1. HandshakesInv => StatusesAreTrue
  BY DEF HandshakesInv
<1> QED BY <1>1, InvAlways, PTL

(* The transaction of CreateOrganization leaves no organization without its owner
   (db.go:217-255). *)
THEOREM OrganizationsHaveOwners == Spec => []OrganizationHasOwner
<1>1. AccountsInv => OrganizationHasOwner
  BY DEF AccountsInv, OrganizationInv
<1> QED BY <1>1, InvAlways, PTL

(* The role that HandleAddOrganizationMember has read is still there when it inserts
   (api.go:298-317). *)
THEOREM AdmissionsByAdmins == Spec => []AdmittedByAdmin
<1>1. AccountsInv => AdmittedByAdmin
  BY DEF AccountsInv, OrganizationInv
<1> QED BY <1>1, InvAlways, PTL

-------------------------------------------------------------------------------
(* The refinement. *)

LEMMA GrantsStart == Init => Grants!GrantsInit
<1> SUFFICES ASSUME Init PROVE Grants!GrantsInit
  OBVIOUS
<1>1. [n \in Valid |-> owner[n]] = [n \in Valid |-> None]
  BY RegistrationAssumption DEF Init, AccountsInit
<1>2. Granted = [n \in Valid |-> None]
  BY DEF Init, Granted
<1> QED BY <1>1, <1>2 DEF Init, Grants!GrantsInit

(* A step that touches neither the reservations nor what is granted. *)
LEMMA GrantsStutter ==
  ASSUME UNCHANGED <<owner, answers>>, Granted' = Granted
  PROVE  UNCHANGED Grants!grantVars
  BY DEF Grants!grantVars

(* Where the lock is, seen from the step of a handshake. *)
LEMMA WhoHolds ==
  ASSUME HandshakesInv, NEW h \in Handshakes
  PROVE  /\ reg[h] \in Registering => lock = h
         /\ reg[h] \notin Registering => lock # h
         /\ lock # None => lock \in Handshakes /\ reg[lock] \in Registering
         /\ None # h
  BY RegistrationAssumption DEF HandshakesInv, HandshakesTypeOK, LockInv

(* Nobody is between a query and its entry. *)
LEMMA NothingPending ==
  ASSUME HandshakesInv, lock = None \/ reg[lock] = "item"
  PROVE  Granted = holder
<1>1. holder = [n \in Valid |-> holder[n]]
  BY DEF HandshakesInv, HandshakesTypeOK
<1>2. ASSUME NEW n \in Valid PROVE Granted[n] = holder[n]
  BY DEF Granted
<1> QED BY <1>1, <1>2 DEF Granted

LEMMA ArrivalKeepsGrants ==
  ASSUME HandshakesInv, NEW h \in Handshakes,
         (\E request \in Requests : Receive(h, request)) \/ Authenticate(h) \/ RejectToken(h)
  PROVE  Granted' = Granted
<1>1. lock # h /\ UNCHANGED <<lock, holder>>
  BY WhoHolds DEF Receive, Authenticate, RejectToken, Goes, registryVars, Registering
<1>2. ASSUME lock # None
      PROVE  reg'[lock] = reg[lock] /\ items'[lock] = items[lock] /\ done'[lock] = done[lock]
  <2>1. lock \in Handshakes /\ lock # h
    BY <1>1, <1>2, WhoHolds
  <2> QED BY <2>1 DEF Receive, Authenticate, RejectToken, Goes, Leave, HandshakesInv, HandshakesTypeOK
<1>3. lock # None => (Name(lock))' = Name(lock)
  BY <1>1, <1>2 DEF Name, Current
<1> QED BY <1>1, <1>2, <1>3 DEF Granted

(* From one item to the next, to the first, or to the end. *)
LEMMA AnswersKeepGrants ==
  ASSUME HandshakesInv, HandshakesInv', NEW h \in Handshakes,
         \/ LockRegistry(h) \/ RefuseName(h) \/ OwnerRefuses(h)
         \/ FinishRegister(h) \/ RefuseSession(h)
  PROVE  Granted' = Granted
<1>1. lock = None \/ reg[lock] = "item"
  BY WhoHolds DEF LockRegistry, RefuseName, OwnerRefuses, FinishRegister, RefuseSession, Goes, Registering
<1>2. lock' = None \/ reg'[lock'] = "item"
  BY WhoHolds
     DEF LockRegistry, RefuseName, OwnerRefuses, FinishRegister, RefuseSession, Goes, Registering,
         registryVars, HandshakesInv, HandshakesTypeOK
<1>3. UNCHANGED holder
  BY DEF LockRegistry, RefuseName, OwnerRefuses, FinishRegister, RefuseSession, registryVars
<1>4. Granted = holder
  BY <1>1, NothingPending
<1>5. Granted' = holder'
  BY <1>2, <1>3, <1>4 DEF Granted
<1> QED BY <1>3, <1>4, <1>5

(* The entry was granted before, when the query let the name through. *)
LEMMA EntryKeepsGrants ==
  ASSUME HandshakesInv, HandshakesInv', NEW h \in Handshakes, NameTaken(h) \/ EnterTunnel(h)
  PROVE  Granted' = Granted
<1>1. lock = h /\ None # h /\ reg[h] = "enter" /\ lock' = h /\ reg'[h] = "item" /\ Name(h) \in Valid
  BY WhoHolds
     DEF NameTaken, EnterTunnel, Goes, Registering, registryVars, HandshakesInv, HandshakesTypeOK, ProgressInv
<1>2. Granted' = [n \in Valid |-> holder'[n]]
  BY <1>1 DEF Granted
<1>3. \A n \in Valid : Granted[n] = holder'[n]
  <2>1. CASE NameTaken(h)
    BY <2>1, <1>1 DEF NameTaken, Taken, Granted, registryVars
  <2>2. CASE EnterTunnel(h)
    BY <2>2, <1>1 DEF EnterTunnel, Taken, Granted, HandshakesInv, HandshakesTypeOK
  <2> QED BY <2>1, <2>2
<1> QED BY <1>2, <1>3 DEF Granted

LEMMA QueryGrants ==
  ASSUME HandshakesInv, NEW h \in Handshakes, OwnerAllows(h)
  PROVE  [Grants!GrantsNext]_(Grants!grantVars)
<1> DEFINE m == Name(h)
<1>1. /\ lock = h /\ None # h /\ reg[h] = "item" /\ m \in Valid
      /\ UNCHANGED <<owner, answers, items, done, lock, holder>>
  BY WhoHolds
     DEF OwnerAllows, Goes, Registering, registryVars, accountVars, nameTable
<1>2. reg'[h] = "enter" /\ (Name(h))' = m
  BY <1>1 DEF OwnerAllows, Goes, HandshakesInv, HandshakesTypeOK, Name, Current
<1>3. Granted = holder
  BY <1>1, NothingPending
<1> HIDE DEF m
<1>4. \A n \in Valid : Granted'[n] = IF holder[n] = None /\ m = n THEN h ELSE holder[n]
  BY <1>1, <1>2 DEF Granted
<1>5. Granted' = [n \in Valid |-> Granted'[n]]
  BY DEF Granted
<1>6. holder \in [Valid -> Handshakes \cup {None}]
  BY DEF HandshakesInv, HandshakesTypeOK
<1>7. CASE holder[m] = None
  <2>1. Granted' = [Granted EXCEPT ![m] = h]
    BY <1>1, <1>3, <1>4, <1>5, <1>6, <1>7
  <2>2. answers => owner[m] \in {None, TokenOf[h]}
    BY DEF OwnerAllows, GetSubdomainOwner, m
  <2>3. Grants!Grant(m, h)
    BY <1>1, <1>3, <1>7, <2>1, <2>2 DEF Grants!Grant
  <2> QED BY <1>1, <2>3 DEF Grants!GrantsNext
<1>8. CASE holder[m] # None
  <2>1. Granted' = Granted
    BY <1>3, <1>4, <1>5, <1>6, <1>8
  <2> QED BY <1>1, <2>1, GrantsStutter
<1> QED BY <1>7, <1>8

LEMMA UnregisterGivesBack ==
  ASSUME HandshakesInv, NEW h \in Handshakes, Unregister(h)
  PROVE  Grants!GiveBack(h)
<1>1. lock = None /\ lock' = None /\ UNCHANGED <<owner, answers>>
  BY DEF Unregister, Goes, accountVars, nameTable
<1>2. Granted = holder
  BY <1>1, NothingPending
<1>3. Granted' = [n \in Valid |-> holder'[n]]
  BY <1>1 DEF Granted
<1>4. \A n \in Valid : holder'[n] = IF Granted[n] = h THEN None ELSE Granted[n]
  BY <1>2 DEF Unregister
<1>5. Granted' = [n \in Valid |-> IF Granted[n] = h THEN None ELSE Granted[n]]
  BY <1>3, <1>4
<1> QED BY <1>1, <1>5 DEF Grants!GiveBack

LEMMA RequestReserves ==
  ASSUME HandshakesInv, AccountsInv, Request
  PROVE  [Grants!GrantsNext]_(Grants!grantVars)
<1>1. UNCHANGED <<answers, reg, items, done, lock, holder>>
  BY DEF Request, handshakeVars, registryVars
<1>2. Granted' = Granted
  BY <1>1 DEF Granted, Name, Current
<1>3. CASE UNCHANGED owner
  BY <1>1, <1>2, <1>3, GrantsStutter
<1>4. ASSUME NEW t \in Tokens, NEW s \in Spellings, HandleReserve(t, s)
      PROVE  [Grants!GrantsNext]_(Grants!grantVars)
  <2>1. owner \in [Spellings -> Tokens \cup {None}] /\ Valid \subseteq Spellings
    BY RegistrationAssumption DEF AccountsInv, AccountsTypeOK
  <2>2. CASE s \in Valid
    <3>1. [n \in Valid |-> owner'[n]] = [[n \in Valid |-> owner[n]] EXCEPT ![s] = t]
      BY <1>4, <2>1, <2>2 DEF HandleReserve
    <3>2. Grants!Reserve(s, t)
      BY <1>1, <1>2, <1>4, <2>2, <3>1 DEF HandleReserve, Grants!Reserve
    <3> QED BY <2>2, <3>2 DEF Grants!GrantsNext
  <2>3. CASE s \notin Valid
    <3>1. [n \in Valid |-> owner'[n]] = [n \in Valid |-> owner[n]]
      BY <1>4, <2>1, <2>3 DEF HandleReserve
    <3> QED BY <1>1, <1>2, <3>1 DEF Grants!grantVars
  <2> QED BY <2>2, <2>3
<1>5. UNCHANGED owner \/ \E t \in Tokens, s \in Spellings : HandleReserve(t, s)
  BY DEF Request, NameStep, HandleRegister, OrganizationStep, CreateOrganization, InsertOrganization,
         InsertOwner, Commit, Rollback, HandleAddMember, CheckAdmin, AddMember, AddMemberFails, nameTable
<1> QED BY <1>3, <1>4, <1>5

LEMMA RestartForgets ==
  ASSUME HandshakesInv, RestartServer
  PROVE  Grants!Restart
<1>1. Granted' = [n \in Valid |-> None]
  BY DEF RestartServer, Granted
<1> QED BY <1>1 DEF RestartServer, RestartDatabase, nameTable, Grants!Restart

LEMMA GrantsStep ==
  ASSUME AccountsInv, HandshakesInv, HandshakesInv', [Next]_vars
  PROVE  [Grants!GrantsNext]_(Grants!grantVars)
<1>1. ASSUME NEW h \in Handshakes, Handshake(h)
      PROVE  [Grants!GrantsNext]_(Grants!grantVars)
  <2>1. UNCHANGED <<owner, answers>>
    BY <1>1, HandshakeLeavesTables DEF accountVars, nameTable
  <2>2. CASE (\E request \in Requests : Receive(h, request)) \/ Authenticate(h) \/ RejectToken(h)
    BY <2>1, <2>2, ArrivalKeepsGrants, GrantsStutter
  <2>3. CASE \/ LockRegistry(h) \/ RefuseName(h) \/ OwnerRefuses(h)
             \/ FinishRegister(h) \/ RefuseSession(h)
    BY <2>1, <2>3, AnswersKeepGrants, GrantsStutter
  <2>4. CASE NameTaken(h) \/ EnterTunnel(h)
    BY <2>1, <2>4, EntryKeepsGrants, GrantsStutter
  <2>5. CASE OwnerAllows(h)
    BY <2>5, QueryGrants
  <2>6. CASE Unregister(h)
    BY <2>6, UnregisterGivesBack DEF Grants!GrantsNext
  <2> QED BY <1>1, <2>2, <2>3, <2>4, <2>5, <2>6 DEF Handshake, Register
<1>2. CASE Request
  BY <1>2, RequestReserves
<1>3. CASE RestartServer
  BY <1>3, RestartForgets DEF Grants!GrantsNext
<1>4. CASE UNCHANGED vars
  <2>1. UNCHANGED <<owner, answers, reg, items, done, lock, holder>>
    BY <1>4 DEF vars, accountVars, nameTable, handshakeVars, registryVars
  <2>2. Granted' = Granted
    BY <2>1 DEF Granted, Name, Current
  <2> QED BY <2>1, <2>2, GrantsStutter
<1> QED BY <1>1, <1>2, <1>3, <1>4 DEF Next

(* Registration over a database that others write grants every name in one moment,
   with the reservation of that moment (registry.go:113-145). *)
THEOREM RegistrationGrants == Spec => ImplementsGrants
<1>1. AccountsInv /\ HandshakesInv /\ HandshakesInv' /\ [Next]_vars
        => [Grants!GrantsNext]_(Grants!grantVars)
  BY GrantsStep
<1> QED BY <1>1, GrantsStart, InvAlways, PTL DEF Spec, ImplementsGrants, Grants!GrantsSpec

===============================================================================
