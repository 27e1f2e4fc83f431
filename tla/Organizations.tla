---------------------------- MODULE Organizations ----------------------------
(***************************************************************************)
(* Organizations and their databases.  An organization is a row of the     *)
(* master database and a tenant database of its own, made in steps that no *)
(* transaction spans: a step that fails rolls back what the earlier ones   *)
(* did, and a crash leaves it to the next start to complete them.          *)
(* Meanwhile requests of the tenant are resolved to its database.          *)
(***************************************************************************)
EXTENDS TenantConnections

CONSTANTS
    Orgs,         \* rows of the organizations table that may come to be
    Provisioners, \* the callers that create organizations
    Boot,         \* the caller that completes them when the server starts
    Ops,          \* bound: the kinds of request the super admin sends
    MaxMishaps    \* bound: how often the server stops or a rollback fails

(* A subdomain has lower-case letters, digits and hyphens only, so trim    *)
(* and toLowerCase leave it as it is: it is the name of its database.      *)
Subdomains == Databases
generateDbName(subdomain) == subdomain

ASSUME OrganizationsAssumption ==
    /\ Provisioners \subseteq Callers /\ Boot \in Callers \ Provisioners
    /\ None \notin Orgs
    /\ MaxMishaps \in Nat

VARIABLES
    org,        \* organizations: the rows, and whether the admin user exists
    saga,       \* where each provisioner, and the bootstrap, has got to
    toBoot,     \* organizations the starting server has yet to look at
    ready,      \* history: organizations a create or a bootstrap completed
    mishaps,    \* how often a rollback failed, or did not know what to undo,
                \* or the server stopped
    edit,       \* the requests that update one, between its read and last write
    revived     \* history: organizations an update saved after they were deleted

editVars == <<edit, revived>>
vars == <<connVars, org, saga, toBoot, ready, mishaps, edit, revived>>
requests == Callers \ (Provisioners \cup {Boot})

Organization(status, subdomain, d, admin) ==
    [status |-> status, subdomain |-> subdomain, dbName |-> d, admin |-> admin]
Saga(pc, o, d, created) == [pc |-> pc, org |-> o, db |-> d, created |-> created]
NoOrg  == Organization("none", None, None, FALSE)
NoSaga == Saga("idle", None, None, FALSE)
Edit(pc, o, subdomain, d) == [pc |-> pc, org |-> o, subdomain |-> subdomain, dbName |-> d]
NoEdit == Edit("idle", None, None, None)

Row(subdomain) == Organization("active", subdomain, generateDbName(subdomain), FALSE)
Mishap    == mishaps < MaxMishaps /\ mishaps' = mishaps + 1
Listening == toBoot = {} /\ saga[Boot] = NoSaga

(* findOne does not see the deleted rows, the unique index does.           *)
FoundBySubdomain(o, subdomain) == org[o].status = "active" /\ org[o].subdomain = subdomain
SubdomainTaken(subdomain) == \E o \in Orgs : org[o].subdomain = subdomain

-----------------------------------------------------------------------------
(* create.  The next org_port is read with the subdomain; a port that two  *)
(* of them read is a unique index too, and makes the later save fail.      *)

Advance(c, pc) ==
    saga' = [saga EXCEPT ![c] = Saga(pc, saga[c].org, saga[c].db, saga[c].created)]

create(c, subdomain) ==
    /\ Listening
    /\ saga[c] = NoSaga
    /\ ~\E o \in Orgs : FoundBySubdomain(o, subdomain)
    /\ saga' = [saga EXCEPT ![c] = Saga("save", None, subdomain, FALSE)]
    /\ UNCHANGED <<connVars, org, toBoot, ready, mishaps>>

SaveOrganization(c, o) ==
    LET subdomain == saga[c].db IN
    /\ saga[c].pc = "save"
    /\ org[o] = NoOrg /\ ~SubdomainTaken(subdomain)
    /\ \A q \in Callers : saga[q].org # o
    /\ \A u \in requests : edit[u].org # o
    /\ org'  = [org EXCEPT ![o] = Row(subdomain)]
    /\ saga' = [saga EXCEPT ![c] = Saga("database", o, generateDbName(subdomain), FALSE)]
    /\ UNCHANGED <<connVars, toBoot, ready, mishaps>>

DatabaseCreated(c) ==
    LET t == saga[c] IN
    /\ t.pc = "database"
    /\ createDatabase(t.db)
    /\ saga' = [saga EXCEPT ![c] = Saga("connect", t.org, t.db, TRUE)]
    /\ UNCHANGED <<connections, lock, source, call, org, toBoot, ready, mishaps>>

Connect(c) ==
    /\ saga[c].pc = "connect"
    /\ Ask(c, saga[c].db)
    /\ Advance(c, "connecting")
    /\ UNCHANGED <<org, toBoot, ready, mishaps>>

Usable(c) ==
    call[c].pc = "held" /\ source[call[c].source].state = "open" /\ Exists(call[c].db)

(* The migrations run in one transaction; a schema that is there stays.    *)
runMigrations(c) ==
    LET d == saga[c].db IN
    /\ saga[c].pc = "connecting" /\ Usable(c)
    /\ database' = [database EXCEPT ![d] = IF @ = "empty" THEN "migrated" ELSE @]
    /\ Advance(c, "seed")
    /\ UNCHANGED <<connections, lock, source, call, org, toBoot, ready, mishaps>>

(* The module entitlements, rows that go with the organization's, and the  *)
(* roles and permissions of the tenant.                                    *)
seedTenantRbac(c) ==
    /\ saga[c].pc = "seed" /\ Usable(c)
    /\ database' = [database EXCEPT ![saga[c].db] = IF @ = "migrated" THEN "seeded" ELSE @]
    /\ Advance(c, "admin")
    /\ UNCHANGED <<connections, lock, source, call, org, toBoot, ready, mishaps>>

(* An error on the way to the admin's employee and role is only logged.    *)
(* The database is not touched again, except for them.                     *)
ensureOrgAdminExists(c) ==
    LET o == saga[c].org IN
    /\ saga[c].pc = "admin" /\ Usable(c)
    /\ org'   = [org EXCEPT ![o] = Organization(@.status, @.subdomain, @.dbName, TRUE)]
    /\ ready' = ready \cup {o}
    /\ saga'  = [saga EXCEPT ![c] = NoSaga]
    /\ call'  = [call EXCEPT ![c] = NoCall]
    /\ UNCHANGED <<database, connections, lock, source, toBoot, mishaps>>

-----------------------------------------------------------------------------
(* Any step may throw.  The steps under way end first.                     *)

Interruptible(c) ==
    /\ saga[c].pc \in {"save", "database", "connect", "connecting", "seed", "admin"}
    /\ call[c].pc \in {"idle", "held", "failed"}

(* create drops the database it created, then deletes its row; bootstrap   *)
(* goes on with the next organization.                                     *)
AlwaysDrop(c) == "drop"                             \* mutant: not only if created
AfterError(c) ==
    IF saga[c].created THEN "drop" ELSE IF saga[c].org # None THEN "delete" ELSE "idle"

Fail(c) ==
    /\ Interruptible(c)
    /\ LET pc == IF c = Boot THEN "idle" ELSE AfterError(c) IN
        saga' = [saga EXCEPT ![c] =
                   IF pc = "idle" THEN NoSaga
                   ELSE Saga(pc, saga[c].org, saga[c].db, saga[c].created)]
    /\ call' = [call EXCEPT ![c] = NoCall]
    /\ UNCHANGED <<database, connections, lock, source, org, toBoot, ready, mishaps>>

(* CREATE DATABASE went through, but the answer was lost, or closing the   *)
(* connection to the master threw: nothing says that it was created.       *)
CreatedUnnoticed(c) ==
    /\ saga[c].pc = "database"
    /\ ~Exists(saga[c].db)
    /\ createDatabase(saga[c].db)
    /\ saga' = [saga EXCEPT ![c] = IF c = Boot THEN NoSaga
                                   ELSE Saga("delete", saga[c].org, saga[c].db, FALSE)]
    /\ Mishap
    /\ UNCHANGED <<connections, lock, source, call, org, toBoot, ready>>

StartDrop(c) ==
    /\ saga[c].pc = "drop"
    /\ dropDatabase(c, saga[c].db)
    /\ Advance(c, "dropping")
    /\ UNCHANGED <<org, toBoot, ready, mishaps>>

EndDrop(c) ==
    /\ saga[c].pc = "dropping"
    /\ Dropped(c)
    /\ Advance(c, "delete")
    /\ UNCHANGED <<org, toBoot, ready, mishaps>>

(* Destroying a DataSource that another drop is destroying throws.  An     *)
(* error of the rollback is only logged, and the row deleted all the same. *)
AbandonDrop(c) ==
    /\ \/ /\ saga[c].pc = "dropping" /\ DropFails(c)
       \/ /\ saga[c].pc = "drop" /\ connections[saga[c].db] # None
          /\ UNCHANGED connVars
    /\ Advance(c, "delete")
    /\ Mishap
    /\ UNCHANGED <<org, toBoot, ready>>

(* The users and entitlements of the organization go with it.              *)
RowKept(c)    == org                                       \* mutant: no delete
RowDeleted(c) == [o \in Orgs |-> IF o = saga[c].org THEN NoOrg ELSE org[o]]

DeleteOrganization(c) ==
    /\ saga[c].pc = "delete"
    /\ org'   = RowDeleted(c)
    /\ ready' = ready \ {saga[c].org}
    /\ saga'  = [saga EXCEPT ![c] = NoSaga]
    /\ UNCHANGED <<connVars, toBoot, mishaps>>

DeleteFails(c) ==
    /\ saga[c].pc = "delete"
    /\ saga' = [saga EXCEPT ![c] = NoSaga]
    /\ Mishap
    /\ UNCHANGED <<connVars, org, toBoot, ready>>

-----------------------------------------------------------------------------
(* update, remove, restore.  An update merges its input into the row it    *)
(* has read, saves the whole row, and then makes the admin where there is  *)
(* none.  A new subdomain leaves the database's name.                      *)

HasSchema(d) == database[d] \in {"migrated", "seeded"}

update(u, o, subdomain) ==
    /\ Listening /\ "update" \in Ops
    /\ edit[u] = NoEdit /\ call[u] = NoCall
    /\ org[o].status = "active"
    /\ \/ subdomain = org[o].subdomain
       \/ "rename" \in Ops /\ ~\E p \in Orgs : FoundBySubdomain(p, subdomain)
    /\ edit' = [edit EXCEPT ![u] = Edit("save", o, subdomain, org[o].dbName)]
    /\ UNCHANGED <<connVars, org, saga, toBoot, ready, mishaps, revived>>

(* save writes every column that differs from the row as it is now, the    *)
(* mark of a removal too, and inserts the row where there is none: one     *)
(* that a rollback deleted since comes back, without its admin.            *)
SaveUpdate(u) ==
    LET o == edit[u].org
        subdomain == edit[u].subdomain
    IN
    /\ edit[u].pc = "save"
    /\ \A p \in Orgs \ {o} : org[p].subdomain # subdomain
    /\ org'  = [org EXCEPT ![o] =
                   Organization("active", subdomain, edit[u].dbName, @.admin)]
    /\ edit' = [edit EXCEPT ![u] = Edit("admin", o, subdomain, @.dbName)]
    /\ revived' = IF org[o] = NoOrg THEN revived \cup {o} ELSE revived
    /\ UNCHANGED <<connVars, saga, toBoot, ready, mishaps>>

(* The admin is a row that goes with the organization's, and is made only  *)
(* where the database can be asked for his employee.  (That it asks for a  *)
(* connection like any other caller is left to the tenant requests.)       *)
AdminOfUpdate(u) ==
    LET o == edit[u].org IN
    /\ edit[u].pc = "admin"
    /\ org[o] # NoOrg /\ HasSchema(edit[u].dbName)
    /\ org'  = [org EXCEPT ![o] = Organization(@.status, @.subdomain, @.dbName, TRUE)]
    /\ edit' = [edit EXCEPT ![u] = NoEdit]
    /\ UNCHANGED <<connVars, saga, toBoot, ready, mishaps, revived>>

(* Any step may throw, the save for a subdomain or a port that another row *)
(* has; and an organization without an admin's address needs no admin.     *)
UpdateEnds(u) ==
    /\ edit[u] # NoEdit
    /\ edit' = [edit EXCEPT ![u] = NoEdit]
    /\ UNCHANGED <<connVars, org, saga, toBoot, ready, mishaps, revived>>

remove(o) ==
    /\ Listening /\ "remove" \in Ops
    /\ org[o].status = "active"
    /\ org' = [org EXCEPT ![o] = Organization("deleted", @.subdomain, @.dbName, @.admin)]
    /\ UNCHANGED <<connVars, saga, toBoot, ready, mishaps>>

restore(o) ==
    /\ Listening /\ "remove" \in Ops
    /\ org[o].status = "deleted"
    /\ org' = [org EXCEPT ![o] = Organization("active", @.subdomain, @.dbName, @.admin)]
    /\ UNCHANGED <<connVars, saga, toBoot, ready, mishaps>>

-----------------------------------------------------------------------------
(* A request of a tenant: the middleware finds the organization and asks   *)
(* for its connection.                                                     *)

TenantRequest(r, o) ==
    /\ Listening
    /\ edit[r] = NoEdit
    /\ org[o].status = "active"
    /\ Ask(r, org[o].dbName)
    /\ UNCHANGED <<org, saga, toBoot, ready, mishaps>>

(* What the connection manager does for anyone who called it.              *)
Manager(c) ==
    /\ \/ getOrCreateConnection(c) \/ Connected(c) \/ NotConnected(c) \/ Destroyed(c)
       \/ c \in requests /\ Release(c)
    /\ UNCHANGED <<org, saga, toBoot, ready, mishaps>>

-----------------------------------------------------------------------------
(* The server stops and starts again: what it had in memory is gone, and   *)
(* before it listens it completes the active organizations one by one.     *)

Crash ==
    /\ Mishap
    /\ connections' = [d \in Databases |-> None]
    /\ lock'        = [d \in Databases |-> None]
    /\ source'      = [s \in Sources |-> Closed]
    /\ call'        = [c \in Callers |-> NoCall]
    /\ saga'        = [c \in Callers |-> NoSaga]
    /\ toBoot'      = {o \in Orgs : org[o].status = "active"}
    /\ edit'        = [u \in requests |-> NoEdit]
    /\ UNCHANGED <<database, org, ready, revived>>

ensureOrganizationRuntimeReady(o) ==
    /\ saga[Boot] = NoSaga
    /\ o \in toBoot
    /\ toBoot' = toBoot \ {o}
    /\ saga'   = [saga EXCEPT ![Boot] = Saga("database", o, org[o].dbName, FALSE)]
    /\ UNCHANGED <<connVars, org, ready, mishaps>>

-----------------------------------------------------------------------------
Init ==
    /\ ConnInit
    /\ org     = [o \in Orgs |-> NoOrg]
    /\ saga    = [c \in Callers |-> NoSaga]
    /\ toBoot  = {}
    /\ ready   = {}
    /\ mishaps = 0
    /\ edit    = [u \in requests |-> NoEdit]
    /\ revived = {}

Provision(c) ==
    \/ DatabaseCreated(c) \/ Connect(c) \/ runMigrations(c) \/ seedTenantRbac(c)
    \/ ensureOrgAdminExists(c) \/ Fail(c) \/ CreatedUnnoticed(c)

Rollback(c) ==
    StartDrop(c) \/ EndDrop(c) \/ AbandonDrop(c) \/ DeleteOrganization(c) \/ DeleteFails(c)

Updates(u) ==
    \/ \E o \in Orgs, d \in Subdomains : update(u, o, d)
    \/ SaveUpdate(u) \/ AdminOfUpdate(u) \/ UpdateEnds(u)

Others ==
    \/ \E c \in Provisioners :
        \/ \E d \in Subdomains : create(c, d)
        \/ \E o \in Orgs : SaveOrganization(c, o)
        \/ Rollback(c)
    \/ \E c \in Provisioners \cup {Boot} : Provision(c)
    \/ \E o \in Orgs :
        \/ remove(o) \/ restore(o) \/ ensureOrganizationRuntimeReady(o)
        \/ \E r \in requests : TenantRequest(r, o)
    \/ \E c \in Callers : Manager(c)

Next ==
    \/ Others /\ UNCHANGED editVars
    \/ \E u \in requests : Updates(u)
    \/ Crash

Spec == Init /\ [][Next]_vars

-----------------------------------------------------------------------------
(* Properties.                                                             *)

OrgType == [status : {"active", "deleted"}, subdomain : Subdomains,
            dbName : Databases, admin : BOOLEAN]
Steps   == {"idle", "save", "database", "connect", "connecting", "seed", "admin",
            "drop", "dropping", "delete"}

TypeOK ==
    /\ ConnTypeOK
    /\ org     \in [Orgs -> OrgType \cup {NoOrg}]
    /\ saga    \in [Callers -> [pc : Steps, org : Orgs \cup {None},
                                db : Databases \cup {None}, created : BOOLEAN]]
    /\ toBoot  \in SUBSET Orgs
    /\ ready   \in SUBSET Orgs
    /\ mishaps \in 0..MaxMishaps
    /\ edit    \in [requests -> [pc : {"idle", "save", "admin"}, org : Orgs \cup {None},
                                subdomain : Subdomains \cup {None},
                                dbName : Databases \cup {None}]]
    /\ revived \in SUBSET Orgs

(* An organization that was completed stays complete, whatever fails in    *)
(* the creation of others, of the same subdomain too, wherever the server  *)
(* stops, and whether it was removed or restored: its database has its     *)
(* schema and its roles, and it has its admin.                             *)
ReadyStaysReady ==
    \A o \in ready : /\ org[o].status # "none" /\ org[o].admin
                     /\ database[org[o].dbName] = "seeded"

Provisioning(o) == \E c \in Callers : saga[c].org = o

(* Unless the server stops or the rollback itself fails, a creation that   *)
(* fails leaves nothing behind: every organization is complete, or on its  *)
(* way, or was saved by an update that had read it before the rollback     *)
(* deleted it, and such a one is a row alone, without database or admin;   *)
(* and every database is the database of an organization.                  *)
NothingHalfProvisioned ==
    mishaps = 0 =>
        /\ \A o \in Orgs : org[o] # NoOrg => o \in ready \/ Provisioning(o) \/ o \in revived
        /\ \A o \in revived : ~Exists(org[o].dbName) /\ ~org[o].admin
        /\ \A d \in Databases : Exists(d) =>
                \E o \in Orgs : org[o] # NoOrg /\ org[o].dbName = d

(* DATABASE_SCHEMA.md: one database per organization.  Two organizations   *)
(* that were both completed have databases of their own.                   *)
OneDatabasePerOrganization ==
    \A o, p \in ready : o # p => org[o].dbName # org[p].dbName

(* Comment in create: drop tenant database if it was created.  A rollback  *)
(* drops no database that another organization was completed with.         *)
RollbackSparesOthers ==
    [][\A d \in Databases : Exists(d) /\ ~Exists(d)' =>
        \A o \in ready : org[o].dbName # d]_vars

=============================================================================
