--------------------------- MODULE BiometricIngest ---------------------------
(***************************************************************************)
(* The swipes of one employee on one device, and their way into the        *)
(* punches.  The device keeps what nobody acknowledged and sends it again. *)
(* A push takes the events one by one: an event of a number that is bound  *)
(* to nobody is queued, one that was stored before or lies within the      *)
(* dedupe window is dropped, and one that fails is acknowledged like the   *)
(* others.  Administrators bind the number, and convert or ignore what is  *)
(* queued.                                                                 *)
(***************************************************************************)
EXTENDS Attendance

CONSTANTS
    Rows            \* bound: rows of biometric_unmapped_punches

ASSUME BiometricAssumption == Rows \subseteq Nat /\ IsFiniteSet(Rows)

VARIABLES
    buffer,     \* the events the device has not seen acknowledged
    waiting,    \* the push whose answer the device waits for
    bound,      \* the employee has the number (employees.biometricId)
    queue,      \* biometric_unmapped_punches: the rows
    batch,      \* what each handler was given: the events of a push
    todo,       \* what is left of it: events, or rows to convert
    acked,      \* history: the events that were acknowledged
    dropped,    \* history: the events that failed and were not stored
    faults      \* how many answers were lost, and crashes

devVars   == <<buffer, waiting, bound, queue, batch, todo, acked, dropped, faults>>

NoRow == [ev |-> None, status |-> "NONE"]
IngestOps == {"push", "resolve"}

(* An event has a time and a direction the device may or may not know.  No *)
(* two events have the same time, so that it stands for externalEventKey.  *)
EventTypes == IF scenario.strict THEN {"IN", "OUT"} ELSE {"OTHER"}

ByTime(S) == CHOOSE e \in S : \A f \in S : e.at <= f.at
ByRow(S)  == CHOOSE id \in S : \A k \in S : queue[id].ev.at <= queue[k].ev.at
Event(t)  == IF t.op = "resolve" THEN queue[t.job].ev ELSE t.job

-----------------------------------------------------------------------------
(* The device.                                                             *)

scan(type) ==
    /\ Asked("scan")
    /\ now < scenario.last /\ Cardinality(buffer \cup acked) < scenario.scans
    /\ now' = now + 1
    /\ buffer' = buffer \cup {[at |-> now, raw |-> type]}
    /\ UNCHANGED <<scenario, punches, summary, tx, behind, tangled>>
    /\ UNCHANGED <<waiting, bound, queue, batch, todo, acked, dropped, faults>>

(* handleZktecoCdata.                                                      *)
push(r) ==
    /\ waiting = None /\ buffer # {}
    /\ Begin(r, Handler("push", "next", None, NoDay))
    /\ waiting' = r
    /\ batch' = [batch EXCEPT ![r] = buffer]
    /\ todo'  = [todo EXCEPT ![r] = buffer]
    /\ UNCHANGED <<buffer, bound, queue, acked, dropped, faults>>

(* The answer acknowledges the events of the push, if the device still     *)
(* waits for it.                                                           *)
Answer(r) ==
    /\ tx[r].op = "push" /\ tx[r].pc = "next" /\ todo[r] = {}
    /\ Abort(r)
    /\ batch' = [batch EXCEPT ![r] = {}]
    /\ IF waiting = r
       THEN /\ waiting' = None
            /\ buffer' = buffer \ batch[r]
            /\ acked' = acked \cup batch[r]
       ELSE UNCHANGED <<waiting, buffer, acked>>
    /\ UNCHANGED <<bound, queue, todo, dropped, faults>>

(* The connection breaks, or the device gives up; the handler goes on.     *)
AnswerLost ==
    /\ waiting # None
    /\ faults < scenario.faults
    /\ waiting' = None
    /\ faults' = faults + 1
    /\ UNCHANGED attVars
    /\ UNCHANGED <<buffer, bound, queue, batch, todo, acked, dropped>>

(* The process dies with its handlers.                                     *)
Crash ==
    /\ faults < scenario.faults
    /\ \E r \in Requests : tx[r].pc # "idle"
    /\ tx' = [r \in Requests |-> NoTx]
    /\ waiting' = None
    /\ batch' = [r \in Requests |-> {}]
    /\ todo'  = [r \in Requests |-> {}]
    /\ faults' = faults + 1
    /\ UNCHANGED <<scenario, now, punches, summary, behind, tangled>>
    /\ UNCHANGED <<buffer, bound, queue, acked, dropped>>

-----------------------------------------------------------------------------
(* processEvent: the next event of the push, queued if nobody has the      *)
(* number.                                                                 *)

NextEvent(r) ==
    LET e == ByTime(todo[r]) IN
    /\ tx[r].op = "push" /\ tx[r].pc = "next" /\ todo[r] # {}
    /\ Continue(r, Handler("push", IF bound THEN "dedupe" ELSE "queueFind", e, NoDay))
    /\ todo' = [todo EXCEPT ![r] = @ \ {e}]
    /\ UNCHANGED <<buffer, waiting, bound, queue, batch, acked, dropped, faults>>

QueuedOpen(e) == \E id \in Rows : queue[id] = [ev |-> e, status |-> "OPEN"]
FreeRows == {id \in Rows : queue[id] = NoRow}

NextOf(t) == Handler(t.op, IF t.op = "push" THEN "next" ELSE "saveRow",
                     IF t.op = "push" THEN None ELSE t.job, NoDay)

QueueFind(r) ==
    /\ tx[r].pc = "queueFind"
    /\ Continue(r, IF QueuedOpen(tx[r].job) THEN NextOf(tx[r])
                   ELSE [tx[r] EXCEPT !.pc = "queueSave"])
    /\ UNCHANGED devVars

QueueSave(r) ==
    /\ tx[r].pc = "queueSave"
    /\ FreeRows # {}
    /\ queue' = [queue EXCEPT ![Min(FreeRows)] = [ev |-> tx[r].job, status |-> "OPEN"]]
    /\ Continue(r, NextOf(tx[r]))
    /\ UNCHANGED <<buffer, waiting, bound, batch, todo, acked, dropped, faults>>

-----------------------------------------------------------------------------
(* ingestDevicePunch, for an event of a push and for a queued row.         *)

Biometric == {p \in punches : p.source = "BIOMETRIC"}
Stored(e) == \E p \in Biometric : p.at = e.at       \* externalEventKey
Recent(e) == scenario.window > 0 /\ \E p \in Biometric : p.at \in e.at - scenario.window .. e.at

Dedupe(r) ==
    LET e == Event(tx[r]) IN
    /\ tx[r].pc = "dedupe"
    /\ Continue(r, IF Stored(e) \/ Recent(e) THEN NextOf(tx[r])
                   ELSE [tx[r] EXCEPT !.pc = "punch"])
    /\ UNCHANGED devVars

OpenBefore(d, t) ==
    hasOpenSession({p \in getPunchesForDay(punches, d, overnight) : p.at < t})

(* Under a shift that spans midnight the day before is asked first.        *)
resolveWorkDateForDevicePunch(t) ==
    IF overnight /\ OpenBefore(DayOf(t) - 1, t) THEN DayOf(t) - 1 ELSE DayOf(t)

AlwaysIn(e) == "IN"         \* mutant: swipes do not look at the open session
resolveDevicePunchType(e) ==
    IF scenario.strict /\ e.raw # "OTHER" THEN e.raw
    ELSE IF OpenBefore(resolveWorkDateForDevicePunch(e.at), e.at) THEN "OUT" ELSE "IN"

(* UQ_attendance_punches_org_external_key: the insert waits for another    *)
(* one of the same event that is not committed, and fails on one that is.  *)
NoKey(e, r) == TRUE         \* mutant: no unique index on the key
KeyFree(e, r) ==
    /\ ~Stored(e)
    /\ \A q \in Requests \ {r} :
           ~(tx[q].pc \in {"snapshot", "load", "save"} /\ tx[q].op \in IngestOps /\ Event(tx[q]) = e)

SavePunch(r) ==
    LET e == Event(tx[r]) IN
    /\ tx[r].pc = "punch" /\ tx[r].op \in IngestOps
    /\ KeyFree(e, r)
    /\ Continue(r, [tx[r] EXCEPT
           !.pc = "snapshot",
           !.day = resolveWorkDateForDevicePunch(e.at),
           !.own = {Punch(e.at, resolveDevicePunchType(e), "BIOMETRIC", r)}])
    /\ UNCHANGED devVars

SaveSwipe(r) ==
    /\ tx[r].op \in IngestOps
    /\ CommitPunches(r, NextOf(tx[r]))
    /\ UNCHANGED devVars

(* When an event fails a push goes on with the next one, and a conversion  *)
(* stops.                                                                  *)
FailStopsPush(r) ==         \* mutant: one event that fails stops the push
    LET t == tx[r] IN
    /\ t.op \in IngestOps
    /\ Continue(r, NoTx)
    /\ todo' = [todo EXCEPT ![r] = {}]
    /\ dropped' = IF t.op = "push" /\ ~Stored(t.job) THEN dropped \cup {t.job} ELSE dropped
    /\ waiting' = IF t.op = "push" /\ waiting = r THEN None ELSE waiting
    /\ UNCHANGED <<buffer, bound, queue, batch, acked, faults>>
FailEvent(r) ==
    LET t == tx[r] IN
    /\ t.op \in IngestOps
    /\ Continue(r, IF t.op = "push" THEN NextOf(t) ELSE NoTx)
    /\ todo' = IF t.op = "push" THEN todo ELSE [todo EXCEPT ![r] = {}]
    /\ dropped' = IF t.op = "push" /\ ~Stored(t.job) THEN dropped \cup {t.job} ELSE dropped
    /\ UNCHANGED <<buffer, waiting, bound, queue, batch, acked, faults>>

(* What must fail: an insert with a key, or a summary, that another        *)
(* handler committed meanwhile.                                            *)
Reject(r) ==
    /\ tx[r].op \in IngestOps
    /\ \/ tx[r].pc = "punch" /\ Stored(Event(tx[r]))
       \/ tx[r].pc = "save" /\ Conflicts(tx[r])
    /\ FailEvent(r)

(* What may fail: any statement.                                           *)
Fail(r) ==
    /\ tx[r].pc \in {"queueFind", "queueSave", "dedupe", "punch", "snapshot", "load", "save"}
    /\ FailEvent(r)

-----------------------------------------------------------------------------
(* The mapping of the number, and what is queued.                          *)

assignBiometricId ==
    /\ Asked("bind") /\ ~bound
    /\ bound' = TRUE
    /\ UNCHANGED attVars
    /\ UNCHANGED <<buffer, waiting, queue, batch, todo, acked, dropped, faults>>

clearBiometricId ==
    /\ Asked("clear") /\ bound
    /\ bound' = FALSE
    /\ UNCHANGED attVars
    /\ UNCHANGED <<buffer, waiting, queue, batch, todo, acked, dropped, faults>>

(* resolveUnmapped: one open row is ignored, or binds the number to the    *)
(* employee, and then every open row is ingested and marked in turn.       *)
ignoreUnmapped(r, id) ==
    /\ Asked("ignore")
    /\ queue[id].status = "OPEN"
    /\ Begin(r, Handler("ignore", "saveRow", id, NoDay))
    /\ UNCHANGED devVars

resolveUnmapped(r, id) ==
    /\ Asked("resolve")
    /\ queue[id].status = "OPEN"
    /\ Begin(r, Handler("resolve", "list", id, NoDay))
    /\ bound' = TRUE
    /\ UNCHANGED <<buffer, waiting, queue, batch, todo, acked, dropped, faults>>

ListOpen(r) ==
    /\ tx[r].pc = "list"
    /\ todo' = [todo EXCEPT ![r] = {id \in Rows : queue[id].status = "OPEN"}]
    /\ Continue(r, Handler("resolve", "nextRow", None, NoDay))
    /\ UNCHANGED <<buffer, waiting, bound, queue, batch, acked, dropped, faults>>

NextRow(r) ==
    /\ tx[r].pc = "nextRow"
    /\ IF todo[r] = {}
       THEN Abort(r) /\ UNCHANGED todo
       ELSE LET id == ByRow(todo[r]) IN
            /\ Continue(r, Handler("resolve", "dedupe", id, NoDay))
            /\ todo' = [todo EXCEPT ![r] = @ \ {id}]
    /\ UNCHANGED <<buffer, waiting, bound, queue, batch, acked, dropped, faults>>

SaveRow(r) ==
    LET t == tx[r]  resolved == t.op = "resolve" IN
    /\ t.pc = "saveRow"
    /\ queue' = [queue EXCEPT ![t.job].status = IF resolved THEN "RESOLVED" ELSE "IGNORED"]
    /\ Continue(r, IF resolved THEN Handler("resolve", "nextRow", None, NoDay) ELSE NoTx)
    /\ UNCHANGED <<buffer, waiting, bound, batch, todo, acked, dropped, faults>>

-----------------------------------------------------------------------------

DevInit ==
    /\ buffer = {} /\ waiting = None /\ acked = {} /\ dropped = {} /\ faults = 0
    /\ bound = scenario.bound
    /\ queue = [id \in Rows |-> NoRow]
    /\ batch = [r \in Requests |-> {}]
    /\ todo  = [r \in Requests |-> {}]

(* The steps of a handler that nothing but a fault prevents.               *)
IngestStep(r) ==
    \/ NextEvent(r) \/ QueueFind(r) \/ QueueSave(r) \/ Dedupe(r) \/ SavePunch(r)
    \/ SaveSwipe(r) \/ Reject(r) \/ Answer(r)
    \/ ListOpen(r) \/ NextRow(r) \/ SaveRow(r)

DevStep ==
    \/ \E r \in Requests :
           \/ push(r) \/ IngestStep(r) \/ Fail(r)
           \/ \E id \in Rows : ignoreUnmapped(r, id) \/ resolveUnmapped(r, id)
    \/ \E type \in EventTypes : scan(type)
    \/ AnswerLost \/ Crash \/ assignBiometricId \/ clearBiometricId

-----------------------------------------------------------------------------
(* Punched, within the window of one that is, or in the queue.             *)
Accounted(e) == Stored(e) \/ Recent(e) \/ \E id \in Rows : queue[id].ev = e

(* However often an event is sent and converted, by whatever handlers at   *)
(* the same time: it becomes one punch.  The device forgets only what was  *)
(* stored, queued, or failed; and a row is marked as converted only when   *)
(* its event is a punch or a duplicate.                                    *)
EveryScanOnce ==
    /\ \A p, q \in Biometric : p.at = q.at => p = q
    /\ \A e \in acked \ dropped : Accounted(e)
    /\ \A id \in Rows : queue[id].status = "RESOLVED" =>
           Stored(queue[id].ev) \/ Recent(queue[id].ev)

=============================================================================
