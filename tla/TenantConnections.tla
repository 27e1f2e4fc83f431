-------------------------- MODULE TenantConnections --------------------------
(***************************************************************************)
(* The cache of database connections of TenantConnectionManager: one pool  *)
(* of connections, a DataSource, for each tenant database, made when it is *)
(* first asked for and shared by all requests until the database is        *)
(* dropped.  A handler runs alone between two awaits, so an action is what *)
(* happens from one await to the next; the continuations of one promise    *)
(* run together, in the order in which they were attached to it.           *)
(***************************************************************************)
EXTENDS Naturals, FiniteSets

CONSTANTS
    Databases,  \* names of tenant databases
    Callers,    \* requests and handlers that may be running at the same time
    Sources,    \* bound: DataSource objects in use at the same time
    None

ASSUME ConnectionsAssumption == None \notin Databases \cup Sources

VARIABLES
    database,    \* PostgreSQL: what is in each database
    connections, \* the cached DataSource of each database
    lock,        \* the DataSource whose connection attempt is awaited
    source,      \* the DataSource objects
    call         \* what each caller is waiting for or was handed

connVars == <<database, connections, lock, source, call>>

(* A database has no schema yet, the schema, or the seeded roles as well.  *)
Contents == {"absent", "empty", "migrated", "seeded"}
Exists(d) == database[d] # "absent"

DataSource(d, state) == [db |-> d, state |-> state]
Call(pc, d, s) == [pc |-> pc, db |-> d, source |-> s]
Closed   == DataSource(None, "closed")
NoCall   == Call("idle", None, None)

Fresh(s) == source[s] = Closed /\ \A c \in Callers : call[c].source # s

-----------------------------------------------------------------------------
(* getOrCreateConnection.                                                  *)

Ask(c, d) ==
    /\ call[c] = NoCall
    /\ call' = [call EXCEPT ![c] = Call("asked", d, None)]
    /\ UNCHANGED <<database, connections, lock, source>>

NeverAwaited(d) == FALSE    \* mutant: the lock is not looked at
BeingCreated(d) == lock[d] # None

UseCached(c, d) ==
    /\ connections[d] # None
    /\ call' = [call EXCEPT ![c] = Call("held", d, connections[d])]
    /\ UNCHANGED <<database, connections, lock, source>>

AwaitLock(c, d) ==
    /\ connections[d] = None /\ BeingCreated(d)
    /\ call' = [call EXCEPT ![c] = Call("waiting", d, lock[d])]
    /\ UNCHANGED <<database, connections, lock, source>>

createConnection(c, d) ==
    /\ connections[d] = None /\ ~BeingCreated(d)
    /\ \E s \in Sources :
        /\ Fresh(s)
        /\ source' = [source EXCEPT ![s] = DataSource(d, "connecting")]
        /\ lock'   = [lock EXCEPT ![d] = s]
        /\ call'   = [call EXCEPT ![c] = Call("creating", d, s)]
    /\ UNCHANGED <<database, connections>>

getOrCreateConnection(c) ==
    /\ call[c].pc = "asked"
    /\ LET d == call[c].db IN
        UseCached(c, d) \/ AwaitLock(c, d) \/ createConnection(c, d)

(* The lock is deleted, the caller that made the DataSource caches it, and *)
(* those that awaited the lock find it in the cache.                       *)
Awaits(q, s) == call[q].pc \in {"creating", "waiting"} /\ call[q].source = s

Connected(c) ==
    LET d == call[c].db  s == call[c].source IN
    /\ call[c].pc = "creating" /\ Exists(d)
    /\ source'      = [source EXCEPT ![s] = DataSource(d, "open")]
    /\ lock'        = [lock EXCEPT ![d] = None]
    /\ connections' = [connections EXCEPT ![d] = s]
    /\ call'        = [q \in Callers |->
                         IF Awaits(q, s) THEN Call("held", d, s) ELSE call[q]]
    /\ UNCHANGED database

LockReleased(d) == [lock EXCEPT ![d] = None]

(* The attempt is refused, times out, or finds no database: all who await  *)
(* it get the exception.                                                   *)
NotConnected(c) ==
    LET d == call[c].db  s == call[c].source IN
    /\ call[c].pc = "creating"
    /\ source' = [source EXCEPT ![s] = Closed]
    /\ lock'   = LockReleased(d)
    /\ call'   = [q \in Callers |->
                    IF Awaits(q, s) THEN Call("failed", d, None) ELSE call[q]]
    /\ UNCHANGED <<database, connections>>

(* The request is over; what it was handed stays in the cache.             *)
Release(c) ==
    /\ call[c].pc \in {"held", "failed"}
    /\ call' = [call EXCEPT ![c] = NoCall]
    /\ UNCHANGED <<database, connections, lock, source>>

-----------------------------------------------------------------------------
(* dropDatabase.  The DataSource is destroyed, which waits for its         *)
(* connections to be given back, and then removed from the cache.          *)

Destroy(c, d) ==
    LET s == connections[d] IN
    /\ call[c] = NoCall
    /\ s # None /\ source[s].state = "open"
    /\ source' = [source EXCEPT ![s] = DataSource(d, "ending")]
    /\ call'   = [call EXCEPT ![c] = Call("ending", d, s)]
    /\ UNCHANGED <<database, connections, lock>>

RemovedFromCache(d) == [connections EXCEPT ![d] = None]

Destroyed(c) ==
    LET d == call[c].db  s == call[c].source IN
    /\ call[c].pc = "ending"
    /\ source'      = [source EXCEPT ![s] = Closed]
    /\ connections' = RemovedFromCache(d)
    /\ call'        = [call EXCEPT ![c] = Call("dropping", d, None)]
    /\ UNCHANGED <<database, lock>>

NothingCached(c, d) ==
    /\ call[c] = NoCall
    /\ connections[d] = None
    /\ call' = [call EXCEPT ![c] = Call("dropping", d, None)]
    /\ UNCHANGED <<database, connections, lock, source>>

dropDatabase(c, d) == Destroy(c, d) \/ NothingCached(c, d)

(* The backends of the database are terminated first, so a DataSource that *)
(* was made in the meantime does not stop the DROP; it stays in the cache. *)
Dropped(c) ==
    /\ call[c].pc = "dropping"
    /\ database' = [database EXCEPT ![call[c].db] = "absent"]
    /\ call'     = [call EXCEPT ![c] = NoCall]
    /\ UNCHANGED <<connections, lock, source>>

(* ... or a connection made just before it does, or the server is gone.    *)
DropFails(c) ==
    /\ call[c].pc = "dropping"
    /\ call' = [call EXCEPT ![c] = NoCall]
    /\ UNCHANGED <<database, connections, lock, source>>

(* createDatabase: the database is there afterwards, with what it held.    *)
createDatabase(d) ==
    database' = [database EXCEPT ![d] = IF Exists(d) THEN @ ELSE "empty"]

-----------------------------------------------------------------------------
ConnInit ==
    /\ database    = [d \in Databases |-> "absent"]
    /\ connections = [d \in Databases |-> None]
    /\ lock        = [d \in Databases |-> None]
    /\ source      = [s \in Sources |-> Closed]
    /\ call        = [c \in Callers |-> NoCall]

(* Any caller may ask for any database, and drop it.                       *)
ConnNext ==
    \/ \E d \in Databases : createDatabase(d) /\ UNCHANGED <<connections, lock, source, call>>
    \/ \E c \in Callers :
        \/ \E d \in Databases : Ask(c, d) \/ dropDatabase(c, d)
        \/ getOrCreateConnection(c) \/ Connected(c) \/ NotConnected(c) \/ Release(c)
        \/ Destroyed(c) \/ Dropped(c) \/ DropFails(c)

ConnSpec == ConnInit /\ [][ConnNext]_connVars

-----------------------------------------------------------------------------
(* Properties.                                                             *)

States == {"connecting", "open", "ending", "closed"}
CallPhases == {"idle", "asked", "waiting", "creating", "held", "failed", "ending", "dropping"}

ConnTypeOK ==
    /\ database    \in [Databases -> Contents]
    /\ connections \in [Databases -> Sources \cup {None}]
    /\ lock        \in [Databases -> Sources \cup {None}]
    /\ source      \in [Sources -> [db : Databases \cup {None}, state : States]]
    /\ call        \in [Callers -> [pc : CallPhases, db : Databases \cup {None},
                                    source : Sources \cup {None}]]

(* A tenant database never has two pools of connections: requests that ask *)
(* for it at the same time share one, also while it is being dropped.      *)
OnePoolPerDatabase ==
    \A s, t \in Sources : source[s] # Closed /\ source[s].db = source[t].db => s = t

(* The cache holds exactly the pools that are open, or being closed, each *)
(* under its database: none is lost, so that it could never be closed, and *)
(* none is handed out for another tenant or after it was closed.           *)
CacheIsExact ==
    \A s \in Sources, d \in Databases :
        connections[d] = s <=> source[s].db = d /\ source[s].state \in {"open", "ending"}

(* A database is locked only while someone is connecting to it: a failed   *)
(* attempt does not keep later requests from trying again.                 *)
LockIsHeld ==
    \A d \in Databases : lock[d] # None =>
        \E c \in Callers : call[c] = Call("creating", d, lock[d])

(* What callers rely on: the cache, the pools and the locks fit together   *)
(* whatever connects, fails or is dropped at the same time.                *)
ConnectionsSound == CacheIsExact /\ OnePoolPerDatabase /\ LockIsHeld

(* Comment in dropDatabase: remove from cache first.  Nobody is handed a   *)
(* DataSource that is being destroyed.                                     *)
HandedOutOpen ==
    [][\A c \in Callers : call[c].pc # "held" /\ call'[c].pc = "held" =>
            source'[call'[c].source].state = "open"]_connVars

=============================================================================
