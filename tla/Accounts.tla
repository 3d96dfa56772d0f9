------------------------------- MODULE Accounts -------------------------------
(***************************************************************************)
(* The database of the server and the API handlers that write it           *)
(* (internal/database/db.go, internal/server/api.go): users, reservations  *)
(* of subdomains, organizations and their members.                         *)
(*                                                                         *)
(* SQLite has one writer at a time and readers see what is committed, so a *)
(* statement is a step; a transaction is several.  A statement that fails  *)
(* changes nothing and its handler answers with an error: a stutter.       *)
(* Handlers that only read (login, lists, the log of requests) are left    *)
(* out, and so are the queries that no code calls.                         *)
(***************************************************************************)
EXTENDS Naturals

CONSTANTS
    Tokens,      \* what a caller may present: the identifier of a user is a token
    Spellings,   \* subdomains as callers write them
    Slugs,       \* of organizations
    None         \* a missing value

ASSUME AccountsAssumption == None \notin Tokens

VARIABLES
    users,       \* the identifiers in table users
    owner,       \* table subdomains: the user_id of a reserved subdomain
    orgOwner,    \* table organizations: the owner_id of a slug
    role,        \* table organization_members
    tx,          \* the transaction of CreateOrganization that is running
    adding       \* HandleAddOrganizationMember between its check and its insertion

nameTable == <<users, owner>>
orgTables == <<orgOwner, role, tx, adding>>

(* The role of a new member is not restricted to those db.go:212 names. *)
Roles == {"owner", "admin", "member", "other"}

NoTx == [slug |-> None, by |-> None, step |-> "none"]

Transactions == [slug : Slugs, by : Tokens, step : {"organization", "both"}]

AccountsTypeOK ==
    /\ users \subseteq Tokens
    /\ owner \in [Spellings -> Tokens \cup {None}]
    /\ orgOwner \in [Slugs -> Tokens \cup {None}]
    /\ role \in [Slugs -> [Tokens -> Roles \cup {"none"}]]
    /\ tx \in Transactions \cup {NoTx}
    /\ adding \subseteq Slugs \X Tokens

AccountsInit ==
    /\ users = {}
    /\ owner = [s \in Spellings |-> None]
    /\ orgOwner = [o \in Slugs |-> None]
    /\ role = [o \in Slugs |-> [t \in Tokens |-> "none"]]
    /\ tx = NoTx
    /\ adding = {}

Writable == tx = NoTx

-------------------------------------------------------------------------------
(* Users and reservations. *)

(* CreateUser makes a new identifier; that an address is used once is up to the
   table. *)
HandleRegister(t) ==
    /\ Writable /\ t \notin users
    /\ users' = users \cup {t}
    /\ UNCHANGED <<owner, orgTables>>

UserExists(t) == t \in users

(* One insertion, without a check before it: the table refuses a second row for
   the same spelling.  The caller is whoever the token says, a user or not, and
   the spelling is neither folded nor validated. *)
HandleReserve(t, s) ==
    /\ Writable /\ owner[s] = None
    /\ owner' = [owner EXCEPT ![s] = t]
    /\ UNCHANGED <<users, orgTables>>

GetSubdomainOwner(s) == owner[s]

-------------------------------------------------------------------------------
(* Organizations. *)

(* The two insertions of CreateOrganization, its commit, and its rollback, for an
   error of any of them. *)
InsertOrganization_Autocommit(t, o) ==
    /\ Writable /\ orgOwner[o] = None
    /\ orgOwner' = [orgOwner EXCEPT ![o] = t]
    /\ tx' = [slug |-> o, by |-> t, step |-> "organization"]
    /\ UNCHANGED <<nameTable, role, adding>>

InsertOrganization(t, o) ==
    /\ Writable /\ orgOwner[o] = None
    /\ tx' = [slug |-> o, by |-> t, step |-> "organization"]
    /\ UNCHANGED <<nameTable, orgOwner, role, adding>>

InsertOwner ==
    /\ tx.step = "organization"
    /\ tx' = [tx EXCEPT !.step = "both"]
    /\ UNCHANGED <<nameTable, orgOwner, role, adding>>

Commit ==
    /\ tx.step = "both"
    /\ orgOwner' = [orgOwner EXCEPT ![tx.slug] = tx.by]
    /\ role' = [role EXCEPT ![tx.slug][tx.by] = "owner"]
    /\ tx' = NoTx
    /\ UNCHANGED <<nameTable, adding>>

Rollback ==
    /\ ~Writable
    /\ tx' = NoTx
    /\ UNCHANGED <<nameTable, orgOwner, role, adding>>

CreateOrganization ==
    \/ \E t \in Tokens, o \in Slugs : InsertOrganization(t, o)
    \/ InsertOwner \/ Commit \/ Rollback

GetUserRole(o, t) == role[o][t]

(* HandleAddOrganizationMember reads the role of the caller, then the body of the
   request, and inserts in a later statement. *)
CheckAdmin_AnyMember(o, t) ==
    /\ GetUserRole(o, t) # "none"
    /\ adding' = adding \cup {<<o, t>>}
    /\ UNCHANGED <<nameTable, orgOwner, role, tx>>

CheckAdmin(o, t) ==
    /\ GetUserRole(o, t) \in {"owner", "admin"}
    /\ adding' = adding \cup {<<o, t>>}
    /\ UNCHANGED <<nameTable, orgOwner, role, tx>>

(* Nobody asks whether the new member is a user. *)
AddMember(o, t, member, r) ==
    /\ <<o, t>> \in adding
    /\ Writable /\ role[o][member] = "none"
    /\ role' = [role EXCEPT ![o][member] = r]
    /\ adding' = adding \ {<<o, t>>}
    /\ UNCHANGED <<nameTable, orgOwner, tx>>

AddMemberFails(o, t) ==
    /\ <<o, t>> \in adding
    /\ adding' = adding \ {<<o, t>>}
    /\ UNCHANGED <<nameTable, orgOwner, role, tx>>

HandleAddMember(o, t) ==
    \/ CheckAdmin(o, t)
    \/ \E member \in Tokens, r \in Roles : AddMember(o, t, member, r)
    \/ AddMemberFails(o, t)

-------------------------------------------------------------------------------

OrganizationStep ==
    CreateOrganization \/ \E o \in Slugs, t \in Tokens : HandleAddMember(o, t)

NameStep ==
    \/ \E t \in Tokens : HandleRegister(t)
    \/ \E t \in Tokens, s \in Spellings : HandleReserve(t, s)

(* The process ends, by a crash or a deployment, and starts again: SQLite rolls
   back the transaction, and the tables are there as they were committed. *)
RestartDatabase ==
    /\ tx' = NoTx
    /\ adding' = {}
    /\ UNCHANGED <<nameTable, orgOwner, role>>

(* An organization always has its owner as a member, and no member without the
   organization, although they are two rows and the process may end, or the second
   insertion fail, in between. *)
OrganizationHasOwner ==
    \A o \in Slugs :
        IF orgOwner[o] = None THEN \A t \in Tokens : role[o][t] = "none"
                              ELSE role[o][orgOwner[o]] = "owner"

(* Whoever adds a member is an owner or an administrator of the organization when
   the row is inserted, and not only when the role was read. *)
AdmittedByAdmin ==
    \A a \in adding : role[a[1]][a[2]] \in {"owner", "admin"}

===============================================================================
