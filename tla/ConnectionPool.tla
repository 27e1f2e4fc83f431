---------------------------- MODULE ConnectionPool ----------------------------
(***************************************************************************)
(* The connections of one tenant's pool.  A handler that runs in a         *)
(* transaction holds a connection until it commits or rolls back; some     *)
(* handlers query through the DataSource while they are in one, and need a *)
(* second.  Requests wait for a connection in order of arrival, each with  *)
(* a timer.  When all connections are held by handlers that wait for       *)
(* another, only the timers can end the wait.                              *)
(***************************************************************************)
EXTENDS Naturals, FiniteSets, SequencesExt

CONSTANTS
    Requests,   \* bound: requests served at the same time
    PoolSize    \* TENANT_CONNECTION_POOL_SIZE

ASSUME PoolAssumption ==
    /\ IsFiniteSet(Requests)
    /\ PoolSize \in Nat \ {0}

VARIABLES
    pc,     \* where each request has got to
    queue   \* pg-pool: the requests that wait for a connection

poolVars == <<pc, queue>>

(* Connections a request holds: none, that of its transaction, or another  *)
(* for a query outside of it.                                              *)
HoldTx  == {r \in Requests : pc[r] \notin {"idle", "waitTx"}}
Query   == {r \in Requests : pc[r] = "querying"}
Busy    == Cardinality(HoldTx) + Cardinality(Query)
Queued  == {queue[i] : i \in DOMAIN queue}

-----------------------------------------------------------------------------
(* pg-pool: a connection is given at once when one is free; one that is    *)
(* released goes to the request at the head of the queue.                  *)

Granted(p) == IF p = "waitTx" THEN "inTx" ELSE "querying"

Full       == Busy >= PoolSize

Acquire(r, waiting) ==
    IF Full
    THEN pc' = [pc EXCEPT ![r] = waiting] /\ queue' = Append(queue, r)
    ELSE pc' = [pc EXCEPT ![r] = Granted(waiting)] /\ UNCHANGED queue

NobodyWoken(r, next) ==             \* mutant: the queue is not looked at
    pc' = [pc EXCEPT ![r] = next] /\ UNCHANGED queue
GiveBack(r, next) ==
    IF queue = <<>>
    THEN pc' = [pc EXCEPT ![r] = next] /\ UNCHANGED queue
    ELSE /\ pc' = [pc EXCEPT ![r] = next, ![Head(queue)] = Granted(pc[Head(queue)])]
         /\ queue' = Tail(queue)

-----------------------------------------------------------------------------
(* The handlers: createRequest of leave, and addLine and submit of expense *)
(* claims, query outside their transaction, once, others do not.           *)

transaction(r) == pc[r] = "idle" /\ Acquire(r, "waitTx")

QueryOutside(r) == pc[r] = "inTx" /\ Acquire(r, "waitQuery")
QueryDone(r)    == pc[r] = "querying" /\ GiveBack(r, "finishing")

Commit(r)   == pc[r] \in {"inTx", "finishing"} /\ GiveBack(r, "idle")
RollBack(r) == pc[r] = "failing" /\ GiveBack(r, "idle")

Throw(r) ==
    \/ /\ pc[r] \in {"inTx", "finishing"}
       /\ pc' = [pc EXCEPT ![r] = "failing"]
       /\ UNCHANGED queue
    \/ pc[r] = "querying" /\ GiveBack(r, "failing")

(* connectionTimeoutMillis: the request leaves the queue with an error,    *)
(* and rolls back the transaction it was in.                               *)
TimerOnFirst(r) == r \in Queued /\ pc[r] = "waitTx"   \* mutant: the second has no timer
Expired(r) == r \in Queued

Timeout(r) ==
    /\ Expired(r)
    /\ \E i \in DOMAIN queue : queue[i] = r /\ queue' = RemoveAt(queue, i)
    /\ pc' = [pc EXCEPT ![r] = IF @ = "waitTx" THEN "idle" ELSE "failing"]

-----------------------------------------------------------------------------
PoolInit == pc = [r \in Requests |-> "idle"] /\ queue = <<>>

(* What becomes of a request that was accepted.                            *)
Step(r) ==
    \/ QueryOutside(r) \/ QueryDone(r) \/ Commit(r) \/ Throw(r) \/ RollBack(r)
    \/ Timeout(r)

PoolNext == \E r \in Requests : transaction(r) \/ Step(r)

(* The database answers every query and timers expire.                     *)
Fairness == \A r \in Requests : WF_poolVars(Step(r))

PoolSpec == PoolInit /\ [][PoolNext]_poolVars /\ Fairness

-----------------------------------------------------------------------------
(* Properties.                                                             *)

Waiting == {r \in Requests : pc[r] \in {"waitTx", "waitQuery"}}

(* All connections are held by requests that wait for another one.         *)
Blocked == queue # <<>> /\ HoldTx \subseteq Waiting

(* A request waits only while every connection is in use: none is lost,    *)
(* none is given twice, and the queue holds those that wait.  Requests     *)
(* wait for each other only when their transactions alone hold every       *)
(* connection: with one connection more than transactions that may run at  *)
(* the same time, one of them can always go on.                            *)
PoolCorrect ==
    /\ Busy <= PoolSize
    /\ queue # <<>> => Busy = PoolSize
    /\ Queued = Waiting /\ Len(queue) = Cardinality(Waiting)
    /\ Blocked => Cardinality(HoldTx) = PoolSize

(* Every request is answered, with an error if it must be.                 *)
EveryRequestAnswered == \A r \in Requests : pc[r] # "idle" ~> pc[r] = "idle"

=============================================================================
