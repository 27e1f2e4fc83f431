----------------------- MODULE AttendanceSystem_proofs -----------------------
(***************************************************************************)
(* However often a device sends an event, whoever converts it meanwhile,   *)
(* and whatever fails: it becomes one punch, and is forgotten only when it *)
(* was stored, queued or failed.  The summaries are what the punches       *)
(* amount to, IN and OUT alternate, and a day that was corrected is        *)
(* complete.  For any number of handlers, events, days and rows, with all  *)
(* that writes punches together.                                           *)
(***************************************************************************)
EXTENDS AttendanceViews, Sums

(* The events the device has had.                                          *)
Scanned == buffer \cup acked

ScannedInv ==
    /\ now \in Nat
    /\ \A e \in Scanned : e.at \in Nat /\ e.at < now
    /\ \A e, f \in Scanned : e.at = f.at => e = f

(* A queued row keeps its event.                                           *)
Used(id) == id \in Rows /\ queue[id].status # "NONE"
QueueInv ==
    /\ queue \in [Rows -> [ev : Scanned \cup {None},
                           status : {"NONE", "OPEN", "RESOLVED", "IGNORED"}]]
    /\ \A id \in Rows : IF Used(id) THEN queue[id].ev \in Scanned ELSE queue[id] = NoRow

(* Accounted, by a row that keeps its event.                               *)
Kept(e) == Stored(e) \/ Recent(e) \/ \E id \in Rows : Used(id) /\ queue[id].ev = e

-----------------------------------------------------------------------------
(* The handlers.                                                           *)
Shape(t) ==
    t \in [op : {t.op}, pc : {t.pc}, job : {t.job}, day : {t.day}, own : {t.own},
           sum : {t.sum}, base : {t.base}, missed : {t.missed}]
Shapes ==
    /\ tx = [r \in Requests |-> tx[r]]
    /\ batch = [r \in Requests |-> batch[r]]
    /\ todo = [r \in Requests |-> todo[r]]
    /\ \A r \in Requests : Shape(tx[r])

(* A handler that has inserted the punch of an event.                      *)
Inserting == {"snapshot", "load", "save"}
Holds(t) == t.op \in IngestOps /\ t.pc \in Inserting

(* The steps of a handler, by what it does.                                *)
Runs(t) ==
    \/ t.op = "none" /\ t.pc = "idle"
    \/ t.op = "push" /\ t.pc \in {"next", "queueFind", "queueSave", "dedupe", "punch"} \cup Inserting
    \/ t.op = "resolve" /\ t.pc \in {"list", "nextRow", "dedupe", "punch", "saveRow"} \cup Inserting
    \/ t.op = "ignore" /\ t.pc = "saveRow"
    \/ t.op \in {"signIn", "signOut", "view"} /\ t.pc \in {"punch"} \cup Inserting
    \/ t.op \in {"approve", "withdraw", "reject"} /\ t.pc \in {"apply", "decide"} \cup Inserting

(* What it has to do: events it was given, or rows that are queued.        *)
Work(r) ==
    LET t == tx[r] IN
    /\ Runs(t)
    /\ batch[r] \subseteq Scanned
    /\ t.op = "push" =>
        /\ todo[r] \subseteq batch[r]
        /\ t.pc # "next" => t.job \in batch[r]
    /\ t.op = "resolve" =>
        /\ t.pc # "list" => \A id \in todo[r] : Used(id)
        /\ t.pc \notin {"list", "nextRow"} => Used(t.job)
    /\ t.op = "ignore" => Used(t.job)

(* What it has done: the events of a push that are behind it, and the row  *)
(* it is about to mark.                                                    *)
Past(t, e) == t.pc = "next" \/ e # t.job
Done(r) ==
    LET t == tx[r] IN
    /\ t.op = "push" =>
        \A e \in batch[r] \ todo[r] : Past(t, e) => e \in dropped \/ Kept(e)
    /\ t.op = "resolve" /\ t.pc = "saveRow" => Stored(Event(t)) \/ Recent(Event(t))

(* Its own punches: the one of its event, which nobody has stored.         *)
Owns(r) ==
    LET t == tx[r] IN
    IF t.op \in IngestOps
    THEN t.pc \in Inserting =>
            /\ ~Stored(Event(t))
            /\ \A p \in t.own : p.source = "BIOMETRIC" /\ p.at = Event(t).at
            /\ t.own # {} /\ \A p, q \in t.own : p = q
    ELSE \A p \in t.own : p.source # "BIOMETRIC"

(* No two of them insert the same event.                                   *)
Apart ==
    \A q, r \in Requests : q # r /\ Holds(tx[q]) /\ Holds(tx[r]) => Event(tx[q]) # Event(tx[r])

(* The parts of EveryScanOnce.                                             *)
OnePunchEach  == \A p, q \in Biometric : p.at = q.at => p = q
NoneForgotten == \A e \in acked \ dropped : Kept(e)
Converted ==
    \A id \in Rows : queue[id].status = "RESOLVED" => Stored(queue[id].ev) \/ Recent(queue[id].ev)

IngestInv ==
    /\ Shapes /\ ScannedInv /\ QueueInv
    /\ \A r \in Requests : Work(r) /\ Done(r) /\ Owns(r)
    /\ Apart
    /\ OnePunchEach /\ NoneForgotten /\ Converted

LEMMA InvImplies == IngestInv => EveryScanOnce
BY DEF IngestInv, OnePunchEach, NoneForgotten, Converted, EveryScanOnce, Kept, Accounted

-----------------------------------------------------------------------------
(* Numbers and records.                                                    *)

LEMMA NextDayLater ==
    ASSUME now \in Nat, NextDay PROVE now' \in Nat /\ now < now'
<1>1. DayLength \in Nat /\ DayLength > 0
  BY DayLengthAssumption
<1>2. now' = (now \div DayLength + 1) * DayLength
  BY DEF NextDay, Today, DayOf
<1> DEFINE q == now \div DayLength
<1>3. q \in Nat /\ now = q * DayLength + (now % DayLength)
      /\ now % DayLength \in 0 .. DayLength - 1
  BY <1>1
<1>4. (q + 1) * DayLength = q * DayLength + DayLength /\ q * DayLength \in Nat
  BY <1>1, <1>3
<1> QED BY <1>1, <1>2, <1>3, <1>4

LEMMA HandlerFields ==
    ASSUME NEW op, NEW pc, NEW job, NEW d
    PROVE  LET t == Handler(op, pc, job, d) IN
           Shape(t) /\ t.op = op /\ t.pc = pc /\ t.job = job /\ t.day = d /\ t.own = {}
BY DEF Handler, NoTx, Shape

LEMMA NoTxFields == Shape(NoTx) /\ NoTx.op = "none" /\ NoTx.pc = "idle" /\ NoTx.own = {}
BY DEF NoTx, Shape

-----------------------------------------------------------------------------
(* What every step respects: punches and used rows stay.                   *)
Keeps ==
    /\ scenario' = scenario
    /\ punches \subseteq punches'
    /\ Scanned \subseteq Scanned'
    /\ dropped \subseteq dropped'
    /\ \A id \in Rows : Used(id) => Used(id)' /\ queue'[id].ev = queue[id].ev

LEMMA KeptStays ==
    ASSUME Keeps, NEW e
    PROVE  /\ Stored(e) => Stored(e)'
           /\ Recent(e) => Recent(e)'
           /\ Kept(e) => Kept(e)'
<1>1. Biometric \subseteq Biometric'
  BY DEF Keeps, Biometric
<1>2. Stored(e) => Stored(e)'
  BY <1>1 DEF Stored
<1>3. Recent(e) => Recent(e)'
  BY <1>1 DEF Recent, Keeps
<1> QED BY <1>2, <1>3 DEF Kept, Keeps

(* The other handlers go on as they were.                                  *)
Alike(t, u) == t.op = u.op /\ t.pc = u.pc /\ t.job = u.job /\ t.own = u.own
Others(r) ==
    \A q \in Requests \ {r} :
        Alike(tx'[q], tx[q]) /\ batch'[q] = batch[q] /\ todo'[q] = todo[q]

(* A step of a handler may commit the punches it owns.                     *)
Adds(r) ==
    \/ punches' = punches
    \/ tx[r].pc = "save" /\ punches' = punches \cup tx[r].own

LEMMA SameEvent ==
    ASSUME IngestInv, Keeps, NEW q \in Requests, Alike(tx'[q], tx[q]),
           Holds(tx[q]) \/ (tx[q].op = "resolve" /\ tx[q].pc = "saveRow")
    PROVE  Event(tx[q])' = Event(tx[q])
<1>1. tx[q].op = "resolve" => Used(tx[q].job)
  BY DEF IngestInv, Work, Holds, Inserting
<1> QED BY <1>1 DEF Event, Alike, Keeps, Used

(* A new punch of a device is that of the event in hand: of none that was  *)
(* stored before, and of none that another handler has in hand.            *)
LEMMA NewPunches ==
    ASSUME IngestInv, NEW r \in Requests, Adds(r)
    PROVE  \A p \in Biometric' \ Biometric :
               /\ Holds(tx[r]) /\ p \in tx[r].own
               /\ p.at = Event(tx[r]).at /\ ~Stored(Event(tx[r]))
               /\ Event(tx[r]) \in Scanned
<1> SUFFICES ASSUME NEW p \in punches', p \notin punches, p.source = "BIOMETRIC"
             PROVE  /\ Holds(tx[r]) /\ p \in tx[r].own
                    /\ p.at = Event(tx[r]).at /\ ~Stored(Event(tx[r]))
                    /\ Event(tx[r]) \in Scanned
  BY DEF Biometric
<1>1. tx[r].pc = "save" /\ p \in tx[r].own
  BY DEF Adds
<1>2. tx[r].op \in IngestOps
  BY <1>1 DEF IngestInv, Owns
<1>3. Holds(tx[r])
  BY <1>1, <1>2 DEF Holds, Inserting
<1>4. p.at = Event(tx[r]).at /\ ~Stored(Event(tx[r]))
  BY <1>1, <1>2 DEF IngestInv, Owns, Inserting
<1>5. CASE tx[r].op = "push"
  BY <1>1, <1>3, <1>4, <1>5 DEF IngestInv, Work, Event
<1>6. CASE tx[r].op = "resolve"
  BY <1>1, <1>3, <1>4, <1>6 DEF IngestInv, Work, Event, QueueInv, Used
<1> QED BY <1>2, <1>5, <1>6 DEF IngestOps

(* What the others have to do, have done and own stays true.               *)
LEMMA OthersKeep ==
    ASSUME IngestInv, Keeps, NEW r \in Requests, Others(r), Adds(r),
           NEW q \in Requests \ {r}
    PROVE  Work(q)' /\ Done(q)' /\ Owns(q)' /\ (Holds(tx[q])' <=> Holds(tx[q]))
<1> DEFINE t == tx[q]
           u == tx'[q]
<1>1. Alike(u, t) /\ batch'[q] = batch[q] /\ todo'[q] = todo[q]
  BY DEF Others
<1>2. Work(q) /\ Done(q) /\ Owns(q)
  BY DEF IngestInv
<1>3. Work(q)'
  <2>1. Runs(u) /\ batch'[q] \subseteq Scanned'
    BY <1>1, <1>2 DEF Work, Runs, Alike, Keeps
  <2>2. u.op = "push" => todo'[q] \subseteq batch'[q] /\ (u.pc # "next" => u.job \in batch'[q])
    BY <1>1, <1>2 DEF Work, Alike
  <2>3. \A id : Used(id) => Used(id)'
    BY DEF Keeps, Used
  <2>4. /\ u.op = "resolve" =>
            /\ u.pc # "list" => \A id \in todo'[q] : Used(id)'
            /\ u.pc \notin {"list", "nextRow"} => Used(tx[q].job)'
        /\ u.op = "ignore" => Used(tx[q].job)'
    <3>1. tx[q].job = u.job
      BY <1>1 DEF Alike
    <3> QED BY <1>1, <1>2, <2>3, <3>1 DEF Work, Alike, Used
  <2> QED BY <2>1, <2>2, <2>4 DEF Work
<1>4. Done(q)'
  <2>1. ASSUME u.op = "push", NEW e \in batch'[q] \ todo'[q], Past(u, e)
        PROVE  e \in dropped' \/ Kept(e)'
    <3>1. Past(t, e) /\ t.op = "push" /\ e \in batch[q] \ todo[q]
      BY <1>1, <2>1 DEF Past, Alike
    <3> QED BY <1>2, <3>1, KeptStays DEF Done, Keeps
  <2>2. ASSUME u.op = "resolve", u.pc = "saveRow"
        PROVE  Stored(Event(tx[q]))' \/ Recent(Event(tx[q]))'
    <3>1. t.op = "resolve" /\ t.pc = "saveRow"
      BY <1>1, <2>2 DEF Alike
    <3>2. PICK e : e = Event(tx[q])
      OBVIOUS
    <3>3. Event(tx[q])' = e
      BY <1>1, <3>1, <3>2, SameEvent
    <3>4. Stored(e) \/ Recent(e)
      BY <1>2, <3>1, <3>2 DEF Done
    <3>5. Stored(e)' \/ Recent(e)'
      BY <3>4, KeptStays
    <3> QED BY <3>3, <3>5 DEF Stored, Recent
  <2> QED BY <2>1, <2>2 DEF Done
<1>5. Holds(u) <=> Holds(t)
  BY <1>1 DEF Holds, Alike
<1>6. ASSUME Holds(t) PROVE ~Stored(Event(tx[q]))'
  <2>1. Event(tx[q])' = Event(t)
    BY <1>1, <1>6, SameEvent
  <2>2. ~Stored(Event(t))
    BY <1>2, <1>6 DEF Owns, Holds
  <2>3. Event(t) \in Scanned
    BY <1>2, <1>6 DEF IngestInv, Work, Holds, Inserting, Event, QueueInv, Used, IngestOps
  <2>4. ASSUME NEW p \in Biometric', p \notin Biometric, p.at = Event(t).at PROVE FALSE
    <3>1. Holds(tx[r]) /\ Event(tx[r]).at = Event(t).at /\ Event(tx[r]) \in Scanned
      BY <2>4, NewPunches
    <3>2. Event(tx[r]) = Event(t)
      BY <2>3, <3>1 DEF IngestInv, ScannedInv
    <3> QED BY <1>6, <3>1, <3>2 DEF IngestInv, Apart
  <2> QED BY <2>1, <2>2, <2>4 DEF Stored
<1>7. Owns(q)'
  <2>1. CASE u.op \in IngestOps
    <3>1. t.op \in IngestOps /\ u.own = t.own /\ u.pc = t.pc
      BY <1>1, <2>1 DEF Alike
    <3>2. ASSUME u.pc \in Inserting
          PROVE  /\ ~Stored(Event(tx[q]))'
                 /\ \A p \in u.own : p.source = "BIOMETRIC" /\ p.at = (Event(tx[q])').at
                 /\ u.own # {} /\ \A p1, p2 \in u.own : p1 = p2
      <4>1. Holds(t)
        BY <3>1, <3>2 DEF Holds
      <4>2. Event(tx[q])' = Event(t)
        BY <1>1, <4>1, SameEvent
      <4> QED BY <1>2, <1>6, <3>1, <3>2, <4>1, <4>2 DEF Owns
    <3> QED BY <2>1, <3>2 DEF Owns
  <2>2. CASE u.op \notin IngestOps
    BY <1>1, <1>2, <2>2 DEF Owns, Alike
  <2> QED BY <2>1, <2>2
<1> QED BY <1>3, <1>4, <1>5, <1>7

(* A stored event has one punch, whoever commits.                          *)
LEMMA OnePunchStays ==
    ASSUME IngestInv, NEW r \in Requests, Adds(r)
    PROVE  OnePunchEach'
<1> SUFFICES ASSUME NEW p \in Biometric', NEW q \in Biometric', p.at = q.at
             PROVE  p = q
  BY DEF OnePunchEach
<1>1. CASE p \in Biometric /\ q \in Biometric
  BY <1>1 DEF IngestInv, OnePunchEach
<1>2. CASE p \notin Biometric /\ q \notin Biometric
  BY <1>2, NewPunches DEF IngestInv, Owns, Holds
<1>3. CASE p \in Biometric /\ q \notin Biometric
  BY <1>3, NewPunches DEF Stored
<1>4. CASE p \notin Biometric /\ q \in Biometric
  BY <1>4, NewPunches DEF Stored
<1> QED BY <1>1, <1>2, <1>3, <1>4

(* What is left to show of a step of one handler.                          *)
LEMMA HandlerStepKeeps ==
    ASSUME IngestInv, Keeps, NEW r \in Requests, Others(r), Adds(r),
           Shapes', ScannedInv', QueueInv', Work(r)', Done(r)', Owns(r)',
           \A q \in Requests \ {r} :
               Holds(tx[q]) /\ Holds(tx[r])' => Event(tx[r])' # Event(tx[q]),
           \A e \in acked' \ dropped' : e \in acked \/ Kept(e)',
           \A id \in Rows : queue'[id].status = "RESOLVED" =>
               \/ queue[id].status = "RESOLVED"
               \/ Stored(queue[id].ev)' \/ Recent(queue[id].ev)'
    PROVE  IngestInv'
<1>1. \A q \in Requests : Work(q)' /\ Done(q)' /\ Owns(q)'
  BY OthersKeep
<1>2. Apart'
  <2>1. ASSUME NEW q \in Requests \ {r}, Holds(tx[q])'
        PROVE  Holds(tx[q]) /\ Event(tx[q])' = Event(tx[q])
    <3>1. Alike(tx'[q], tx[q])
      BY DEF Others
    <3>2. Holds(tx[q])
      BY <2>1, OthersKeep
    <3> QED BY <3>1, <3>2, SameEvent
  <2>2. ASSUME NEW p \in Requests, NEW q \in Requests, p # q, Holds(tx[p])', Holds(tx[q])'
        PROVE  Event(tx[p])' # Event(tx[q])'
    <3>1. CASE p # r /\ q # r
      BY <2>1, <2>2, <3>1 DEF IngestInv, Apart
    <3>2. CASE p = r
      BY <2>1, <2>2, <3>2
    <3>3. CASE q = r
      BY <2>1, <2>2, <3>3
    <3> QED BY <3>1, <3>2, <3>3
  <2> QED BY <2>2 DEF Apart
<1>3. OnePunchEach'
  BY OnePunchStays
<1>4. NoneForgotten'
  <2> SUFFICES ASSUME NEW e \in acked', e \notin dropped', ~Kept(e)'
               PROVE  FALSE
    BY DEF NoneForgotten
  <2>1. e \in acked \ dropped
    BY DEF Keeps
  <2>2. Kept(e)
    BY <2>1 DEF IngestInv, NoneForgotten
  <2> QED BY <2>2, KeptStays
<1>5. Converted'
  <2> SUFFICES ASSUME NEW id \in Rows, queue'[id].status = "RESOLVED", queue[id].status = "RESOLVED"
               PROVE  Stored(queue[id].ev)' \/ Recent(queue[id].ev)'
    BY DEF Converted
  <2>1. PICK e : e = queue[id].ev
    OBVIOUS
  <2>2. queue'[id].ev = e
    BY <2>1 DEF Keeps, Used
  <2>3. Stored(e) \/ Recent(e)
    BY <2>1 DEF IngestInv, Converted
  <2>4. Stored(e)' \/ Recent(e)'
    BY <2>3, KeptStays
  <2> QED BY <2>2, <2>4 DEF Stored, Recent
<1> QED BY <1>1, <1>2, <1>3, <1>4, <1>5 DEF IngestInv

-----------------------------------------------------------------------------
(* Steps that commit nothing: the handler goes on as t.                    *)
Fits(t, given, left) ==
    /\ Shape(t) /\ Runs(t)
    /\ t.op = "push" =>
        /\ left \subseteq given
        /\ t.pc # "next" => t.job \in given
    /\ t.op = "resolve" =>
        /\ t.pc # "list" => \A id \in left : Used(id)
        /\ t.pc \notin {"list", "nextRow"} => Used(t.job)
        /\ t.pc = "saveRow" => Stored(Event(t)) \/ Recent(Event(t))
    /\ t.op = "ignore" => Used(t.job)

FitsOwn(r, t) ==
    /\ Holds(t) =>
        /\ ~Stored(Event(t))
        /\ \A p \in t.own : p.source = "BIOMETRIC" /\ p.at = Event(t).at
        /\ t.own # {} /\ \A p, q \in t.own : p = q
        /\ \A q \in Requests \ {r} : Holds(tx[q]) => Event(t) # Event(tx[q])
    /\ t.op \notin IngestOps => \A p \in t.own : p.source # "BIOMETRIC"

GoesOn(r, t) ==
    /\ tx' = [tx EXCEPT ![r] = t]
    /\ UNCHANGED <<scenario, punches>>
    /\ now' \in Nat /\ now <= now'

LEMMA Continues ==
    ASSUME IngestInv, NEW r \in Requests, NEW t, Continue(r, t)
    PROVE  GoesOn(r, t)
BY DEF Continue, GoesOn, IngestInv, ScannedInv

LEMMA Moves ==
    ASSUME IngestInv, NEW r \in Requests, NEW t, GoesOn(r, t),
           NEW given, given \subseteq Scanned, batch' = [batch EXCEPT ![r] = given],
           NEW left, todo' = [todo EXCEPT ![r] = left],
           Scanned' = Scanned, UNCHANGED queue, dropped \subseteq dropped',
           \A e \in acked' \ dropped' : e \in acked \/ Kept(e),
           Fits(t, given, left), FitsOwn(r, t),
           t.op = "push" => \A e \in given \ left : Past(t, e) => e \in dropped' \/ Kept(e)
    PROVE  IngestInv'
<1>1. /\ tx' = [tx EXCEPT ![r] = t]
      /\ UNCHANGED <<scenario, punches>>
      /\ now' \in Nat /\ now <= now'
  BY DEF GoesOn
<1>2. /\ tx'[r] = t /\ batch'[r] = given /\ todo'[r] = left /\ Shapes'
      /\ \A q \in Requests \ {r} : tx'[q] = tx[q] /\ batch'[q] = batch[q] /\ todo'[q] = todo[q]
  BY <1>1 DEF IngestInv, Shapes, Fits
<1>3. /\ Biometric' = Biometric
      /\ \A id : Used(id)' <=> Used(id)
  BY <1>1 DEF Biometric, Used
<1>4. \A e : (Stored(e)' <=> Stored(e)) /\ (Recent(e)' <=> Recent(e)) /\ (Kept(e)' <=> Kept(e))
  BY <1>1, <1>3 DEF Stored, Recent, Kept
<1>5. Keeps /\ Others(r) /\ Adds(r)
  BY <1>1, <1>2, <1>3 DEF Keeps, Others, Adds, Alike
<1>6. ScannedInv' /\ QueueInv'
  BY <1>1, <1>3 DEF IngestInv, ScannedInv, QueueInv, NoRow
<1>7. Event(tx[r])' = Event(t)
  BY <1>2 DEF Event
<1>8. Work(r)'
  BY <1>2, <1>3 DEF Fits, Work
<1>9. Done(r)'
  <2>1. t.op = "push" =>
            \A e \in batch'[r] \ todo'[r] : Past(t, e) => e \in dropped' \/ Kept(e)'
    BY <1>2, <1>4
  <2>2. t.op = "resolve" /\ t.pc = "saveRow" =>
            Stored(Event(tx[r]))' \/ Recent(Event(tx[r]))'
    <3>1. PICK e : e = Event(t)
      OBVIOUS
    <3>2. Stored(e)' <=> Stored(Event(tx[r]))'
      BY <1>7, <3>1 DEF Stored
    <3>3. Recent(e)' <=> Recent(Event(tx[r]))'
      BY <1>7, <3>1 DEF Recent
    <3> QED BY <1>4, <3>1, <3>2, <3>3 DEF Fits
  <2> QED BY <1>2, <2>1, <2>2 DEF Done
<1>10. Owns(r)'
  <2>1. ~Stored(Event(t)) => ~Stored(Event(tx[r]))'
    <3>1. PICK e : e = Event(t)
      OBVIOUS
    <3>2. Stored(e)' <=> Stored(Event(tx[r]))'
      BY <1>7, <3>1 DEF Stored
    <3> QED BY <1>4, <3>1, <3>2
  <2> QED BY <1>2, <1>7, <2>1 DEF FitsOwn, Owns, Holds
<1>11. \A q \in Requests \ {r} :
           Holds(tx[q]) /\ Holds(tx[r])' => Event(tx[r])' # Event(tx[q])
  BY <1>2, <1>7 DEF FitsOwn, Holds
<1> QED BY <1>2, <1>4, <1>5, <1>6, <1>8, <1>9, <1>10, <1>11, HandlerStepKeeps

(* A handler that neither gives up its event nor takes another one fits as *)
(* before.                                                                 *)
LEMMA SameWork ==
    ASSUME IngestInv, NEW r \in Requests, NEW t, Shape(t), Runs(t), Alike([t EXCEPT !.pc = tx[r].pc], tx[r]),
           Holds(t) => Holds(tx[r]),
           t.op = "resolve" => tx[r].pc \notin {"list", "nextRow"} /\ t.pc # "saveRow",
           t.op = "push" => tx[r].pc # "next"
    PROVE  /\ Fits(t, batch[r], todo[r]) /\ FitsOwn(r, t)
           /\ t.op = "push" => \A e \in batch[r] \ todo[r] : Past(t, e) /\ t.pc # "next" => e \in dropped \/ Kept(e)
<1>1. t.op = tx[r].op /\ t.job = tx[r].job /\ t.own = tx[r].own
  BY DEF Alike, Shape
<1>2. Work(r) /\ Done(r) /\ Owns(r) /\ Apart
  BY DEF IngestInv
<1>3. Event(t) = Event(tx[r])
  BY <1>1 DEF Event
<1>4. Fits(t, batch[r], todo[r])
  BY <1>1, <1>2 DEF Work, Fits
<1>5. FitsOwn(r, t)
  BY <1>1, <1>2, <1>3 DEF FitsOwn, Owns, Apart, Holds
<1>6. t.op = "push" => \A e \in batch[r] \ todo[r] : Past(t, e) /\ t.pc # "next" => e \in dropped \/ Kept(e)
  BY <1>1, <1>2 DEF Done, Past
<1> QED BY <1>4, <1>5, <1>6

(* A step that touches the handler alone.                                  *)
LEMMA MovesOn ==
    ASSUME IngestInv, NEW r \in Requests, NEW t, GoesOn(r, t),
           UNCHANGED <<buffer, queue, acked, batch, todo>>, dropped \subseteq dropped',
           Fits(t, batch[r], todo[r]), FitsOwn(r, t),
           t.op = "push" =>
               \A e \in batch[r] \ todo[r] : Past(t, e) => e \in dropped' \/ Kept(e)
    PROVE  IngestInv'
<1>1. batch[r] \subseteq Scanned
  BY DEF IngestInv, Work
<1>2. batch' = [batch EXCEPT ![r] = batch[r]] /\ todo' = [todo EXCEPT ![r] = todo[r]]
  BY DEF IngestInv, Shapes
<1>3. Scanned' = Scanned
  BY DEF Scanned
<1> QED BY <1>1, <1>2, <1>3, Moves

(* Handlers that have nothing to do with the device.                       *)
LEMMA OtherWork ==
    ASSUME IngestInv, NEW r \in Requests, NEW t, Shape(t), Runs(t),
           t.op \notin IngestOps \cup {"ignore"},
           \A p \in t.own : p.source # "BIOMETRIC",
           GoesOn(r, t), UNCHANGED devVars
    PROVE  IngestInv'
<1>1. UNCHANGED <<buffer, queue, acked, batch, dropped, todo>>
  BY DEF devVars
<1>2. Fits(t, batch[r], todo[r]) /\ FitsOwn(r, t)
  BY DEF Fits, FitsOwn, Holds, IngestOps
<1> QED BY <1>1, <1>2, MovesOn DEF IngestOps

LEMMA Ends ==
    ASSUME IngestInv, NEW r \in Requests, GoesOn(r, NoTx), UNCHANGED devVars
    PROVE  IngestInv'
<1>1. NoTx.op \notin IngestOps \cup {"ignore"} /\ Runs(NoTx)
  BY NoTxFields DEF IngestOps, Runs
<1> QED BY <1>1, NoTxFields, OtherWork

(* The commit of a transaction, after which its handler goes on as next.   *)
LEMMA Commits ==
    ASSUME IngestInv, NEW r \in Requests, NEW next, CommitPunches(r, next), UNCHANGED devVars,
           Shape(next), next.own = {}, next.pc \notin Inserting,
           tx'[r] = next => Work(r)' /\ Done(r)'
    PROVE  IngestInv'
<1>1. /\ tx[r].pc = "save" /\ punches' = punches \cup tx[r].own
      /\ tx' = Overtaken(r, next) /\ UNCHANGED <<scenario, now>>
  BY DEF CommitPunches
<1>2. UNCHANGED <<buffer, queue, acked, batch, dropped, todo>>
  BY DEF devVars
<1>3. tx'[r] = next
  BY <1>1 DEF Overtaken
<1>4. ASSUME NEW q \in Requests \ {r} PROVE Shape(tx'[q]) /\ Alike(tx'[q], tx[q])
  <2> DEFINE u == [tx[q] EXCEPT !.missed = @ \cup Late(q, tx[r])]
  <2>1. tx'[q] = u
    BY <1>1 DEF Overtaken
  <2>2. Shape(tx[q])
    BY DEF IngestInv, Shapes
  <2> QED BY <2>1, <2>2 DEF Shape, Alike
<1>5. Shapes'
  <2>1. tx' = [q \in Requests |-> tx'[q]]
    BY <1>1 DEF Overtaken
  <2> QED BY <1>2, <1>3, <1>4, <2>1 DEF IngestInv, Shapes
<1>6. Scanned' = Scanned /\ \A id : Used(id)' <=> Used(id)
  BY <1>2 DEF Scanned, Used
<1>7. Keeps /\ Others(r) /\ Adds(r)
  BY <1>1, <1>2, <1>4, <1>6 DEF Keeps, Others, Adds
<1>8. ScannedInv' /\ QueueInv'
  BY <1>1, <1>2, <1>6 DEF IngestInv, ScannedInv, QueueInv, NoRow
<1>9. Owns(r)' /\ ~Holds(tx[r])'
  BY <1>3 DEF Owns, Holds
<1> QED BY <1>2, <1>3, <1>5, <1>7, <1>8, <1>9, HandlerStepKeeps

LEMMA CommitEnds ==
    ASSUME IngestInv, NEW r \in Requests, CommitPunches(r, NoTx), UNCHANGED devVars
    PROVE  IngestInv'
<1>1. Runs(NoTx) /\ NoTx.pc \notin Inserting /\ NoTx.op \notin IngestOps \cup {"ignore"}
  BY NoTxFields DEF Runs, Inserting, IngestOps
<1>2. ASSUME tx'[r] = NoTx PROVE Work(r)' /\ Done(r)'
  <2>1. batch'[r] \subseteq Scanned'
    BY DEF devVars, IngestInv, Work, Scanned
  <2> QED BY <1>1, <1>2, <2>1 DEF Work, Done, IngestOps
<1> QED BY <1>1, <1>2, NoTxFields, Commits

-----------------------------------------------------------------------------
(* The web, and the part of a transaction all have in common.              *)

LEMMA WebKeeps ==
    ASSUME IngestInv, NEW r \in Requests, WebStep(r), UNCHANGED devVars
    PROVE  IngestInv'
<1>1. Shape(tx[r]) /\ Work(r) /\ Owns(r)
  BY DEF IngestInv, Shapes
<1>2. ASSUME NEW op \in {"signIn", "signOut", "view"}, NEW pc \in {"punch", "snapshot"}, NEW d,
             Begin(r, Handler(op, pc, None, d))
      PROVE  IngestInv'
  <2> DEFINE t == Handler(op, pc, None, d)
  <2>1. Shape(t) /\ t.op = op /\ t.pc = pc /\ t.own = {}
    BY HandlerFields
  <2>2. GoesOn(r, t)
    BY <1>2, Continues DEF Begin
  <2> HIDE DEF t
  <2>3. Runs(t) /\ t.op \notin IngestOps \cup {"ignore"}
    BY <2>1 DEF Runs, Inserting, IngestOps
  <2> QED BY <2>1, <2>2, <2>3, OtherWork
<1>3. CASE signIn(r) \/ signOut(r) \/ \E d \in Days : getDayDetail(r, d)
  BY <1>2, <1>3 DEF signIn, signOut, getDayDetail
<1>4. CASE WebPunch(r)
  <2> DEFINE type == IF tx[r].op = "signIn" THEN "IN" ELSE "OUT"
             t == [tx[r] EXCEPT !.pc = "snapshot", !.own = {Punch(now, type, "WEB", None)}]
  <2>1. Abort(r) => GoesOn(r, NoTx)
    BY Continues DEF Abort
  <2>2. ASSUME now' = now + 1, tx' = [tx EXCEPT ![r] = t], UNCHANGED <<scenario, punches>>
        PROVE  IngestInv'
    <3>1. GoesOn(r, t)
      BY <2>2 DEF GoesOn, IngestInv, ScannedInv
    <3>2. Shape(t) /\ t.op = tx[r].op /\ t.pc = "snapshot" /\ t.own = {Punch(now, type, "WEB", None)}
      BY <1>1 DEF Shape
    <3>3. tx[r].op \in {"signIn", "signOut"}
      BY <1>4 DEF WebPunch
    <3> HIDE DEF t
    <3>4. Runs(t) /\ t.op \notin IngestOps \cup {"ignore"}
      BY <3>2, <3>3 DEF Runs, Inserting, IngestOps
    <3>5. \A p \in t.own : p.source # "BIOMETRIC"
      BY <3>2 DEF Punch
    <3> QED BY <3>1, <3>2, <3>4, <3>5, OtherWork
  <2> QED BY <1>4, <2>1, <2>2, Ends DEF WebPunch
<1>5. CASE SaveSummary(r)
  <2>1. Abort(r) => GoesOn(r, NoTx)
    BY Continues DEF Abort
  <2> QED BY <1>5, <2>1, Ends, CommitEnds DEF SaveSummary
<1>6. ASSUME NEW t, Shape(t), Continue(r, t), t.op = tx[r].op, t.job = tx[r].job, t.own = tx[r].own,
             tx[r].pc \in Inserting, t.pc \in Inserting
      PROVE  IngestInv'
  <2>1. Runs(t)
    BY <1>1, <1>6 DEF Work, Runs, Inserting
  <2>2. GoesOn(r, t)
    BY <1>6, Continues
  <2>3. CASE t.op \in IngestOps
    <3>1. /\ Alike([t EXCEPT !.pc = tx[r].pc], tx[r])
          /\ Holds(tx[r])
          /\ t.op = "resolve" => tx[r].pc \notin {"list", "nextRow"} /\ t.pc # "saveRow"
          /\ tx[r].pc # "next" /\ t.pc # "next"
      BY <1>6, <2>3 DEF Alike, Shape, Holds, Inserting
    <3>2. /\ Fits(t, batch[r], todo[r]) /\ FitsOwn(r, t)
          /\ t.op = "push" => \A e \in batch[r] \ todo[r] : Past(t, e) => e \in dropped \/ Kept(e)
      BY <1>6, <2>1, <3>1, SameWork
    <3>3. UNCHANGED <<buffer, queue, acked, batch, todo, dropped>>
      BY DEF devVars
    <3> QED BY <2>2, <3>2, <3>3, MovesOn
  <2>4. CASE t.op \notin IngestOps
    <3>1. t.op # "ignore"
      BY <2>1, <1>6 DEF Runs, Inserting
    <3> QED BY <1>1, <1>6, <2>1, <2>2, <2>4, <3>1, OtherWork DEF Owns
  <2> QED BY <2>3, <2>4
<1>7. CASE Snapshot(r)
  <2> DEFINE seen == getPunchesForDay(punches \cup tx[r].own, tx[r].day, overnight)
             t == [tx[r] EXCEPT !.pc = "load", !.sum = SummaryOf(pairPunches(seen, tx[r].day))]
  <2>1. Continue(r, t) /\ tx[r].pc = "snapshot"
    BY <1>7 DEF Snapshot
  <2>2. Shape(t) /\ t.op = tx[r].op /\ t.job = tx[r].job /\ t.own = tx[r].own /\ t.pc = "load"
    BY <1>1 DEF Shape
  <2> HIDE DEF t
  <2> QED BY <1>6, <2>1, <2>2 DEF Inserting
<1>8. CASE LoadSummary(r)
  <2> DEFINE t == [tx[r] EXCEPT !.pc = "save", !.base = summary[tx[r].day]]
  <2>1. Continue(r, t) /\ tx[r].pc = "load"
    BY <1>8 DEF LoadSummary
  <2>2. Shape(t) /\ t.op = tx[r].op /\ t.job = tx[r].job /\ t.own = tx[r].own /\ t.pc = "save"
    BY <1>1 DEF Shape
  <2> HIDE DEF t
  <2> QED BY <1>6, <2>1, <2>2 DEF Inserting
<1> QED BY <1>3, <1>4, <1>5, <1>7, <1>8 DEF WebStep

(* The corrections.                                                        *)
LEMMA CorrectionsKeep ==
    ASSUME IngestInv, NEW r \in Requests, RegStep(r), UNCHANGED devVars
    PROVE  IngestInv'
<1>1. Shape(tx[r]) /\ Work(r) /\ Owns(r)
  BY DEF IngestInv, Shapes
<1>2. ASSUME NEW op \in {"approve", "withdraw", "reject"}, NEW pc \in {"apply", "decide"},
             NEW g, NEW d, Begin(r, Handler(op, pc, g, d))
      PROVE  IngestInv'
  <2> DEFINE t == Handler(op, pc, g, d)
  <2>1. Shape(t) /\ t.op = op /\ t.pc = pc /\ t.own = {}
    BY HandlerFields
  <2>2. GoesOn(r, t)
    BY <1>2, Continues DEF Begin
  <2> HIDE DEF t
  <2>3. Runs(t) /\ t.op \notin IngestOps \cup {"ignore"}
    BY <2>1 DEF Runs, IngestOps
  <2> QED BY <2>1, <2>2, <2>3, OtherWork
<1>3. ASSUME NEW g \in Regs, approve(r, g) \/ \E op \in DOMAIN Outcome : decide(r, g, op)
      PROVE  IngestInv'
  BY <1>2, <1>3 DEF approve, decide, Outcome
<1>4. ASSUME UNCHANGED attVars PROVE IngestInv'
  <2>1. GoesOn(r, tx[r])
    BY <1>4 DEF attVars, GoesOn, IngestInv, ScannedInv, Shapes
  <2>2. UNCHANGED <<buffer, queue, acked, batch, todo, dropped>>
    BY DEF devVars
  <2>3. Fits(tx[r], batch[r], todo[r]) /\ FitsOwn(r, tx[r])
    BY <1>1 DEF IngestInv, Work, Done, Owns, Apart, Fits, FitsOwn, Holds
  <2>4. tx[r].op = "push" =>
            \A e \in batch[r] \ todo[r] : Past(tx[r], e) => e \in dropped \/ Kept(e)
    BY DEF IngestInv, Done
  <2> QED BY <2>1, <2>2, <2>3, <2>4, MovesOn
<1>5. ASSUME Abort(r) PROVE IngestInv'
  BY <1>5, Continues, Ends DEF Abort
<1>6. CASE applyRegularizationPunches(r)
  <2> DEFINE t == [tx[r] EXCEPT !.pc = "snapshot", !.own = RequestedPunches(r, tx[r].job)]
  <2>1. ASSUME Continue(r, t) PROVE IngestInv'
    <3>1. GoesOn(r, t)
      BY <2>1, Continues
    <3>2. Shape(t) /\ t.op = tx[r].op /\ t.pc = "snapshot" /\ t.own = RequestedPunches(r, tx[r].job)
      BY <1>1 DEF Shape
    <3>3. tx[r].pc = "apply"
      BY <1>6 DEF applyRegularizationPunches
    <3> HIDE DEF t
    <3>4. Runs(t) /\ t.op \notin IngestOps \cup {"ignore"}
      BY <1>1, <3>2, <3>3 DEF Work, Runs, Inserting, IngestOps
    <3>5. \A p \in t.own : p.source # "BIOMETRIC"
      BY <3>2 DEF Punch, RequestedPunches
    <3> QED BY <3>1, <3>2, <3>4, <3>5, OtherWork
  <2> QED BY <1>5, <1>6, <2>1 DEF applyRegularizationPunches
<1>7. CASE SaveDecision(r)
  <2>1. GoesOn(r, NoTx)
    BY <1>7 DEF SaveDecision, GoesOn, IngestInv, ScannedInv
  <2> QED BY <2>1, Ends
<1>8. CASE SaveApproval(r)
  BY <1>5, <1>8, CommitEnds DEF SaveApproval
<1>9. CASE \E g \in Regs, d \in Days, time \in Times : create(r, g, d, time)
  BY <1>4, <1>9 DEF create
<1> QED BY <1>3, <1>6, <1>7, <1>8, <1>9 DEF RegStep

-----------------------------------------------------------------------------
(* Steps of no handler: the clock, the device, the mapping of the number.  *)
LEMMA QuietKeeps ==
    ASSUME IngestInv, UNCHANGED <<scenario, punches, tx, queue, batch, todo, acked, dropped>>,
           buffer \subseteq buffer', ScannedInv'
    PROVE  IngestInv'
<1>1. /\ Scanned \subseteq Scanned'
      /\ Biometric' = Biometric
      /\ \A id : Used(id)' <=> Used(id)
  BY DEF Scanned, Biometric, Used
<1>2. \A e : (Stored(e)' <=> Stored(e)) /\ (Recent(e)' <=> Recent(e)) /\ (Kept(e)' <=> Kept(e))
  BY <1>1 DEF Stored, Recent, Kept
<1>3. Shapes' /\ QueueInv' /\ OnePunchEach' /\ NoneForgotten' /\ Converted'
  <2>1. Shapes' /\ OnePunchEach' /\ NoneForgotten'
    BY <1>1, <1>2 DEF IngestInv, Shapes, OnePunchEach, NoneForgotten
  <2>2. QueueInv'
    BY <1>1 DEF IngestInv, QueueInv, NoRow
  <2>3. Converted'
    BY <1>1, <1>2 DEF IngestInv, Converted, Stored, Recent
  <2> QED BY <2>1, <2>2, <2>3
<1>4. ASSUME NEW r \in Requests PROVE Work(r)' /\ Done(r)' /\ Owns(r)'
  <2>1. Work(r) /\ Done(r) /\ Owns(r)
    BY DEF IngestInv
  <2>2. Event(tx[r])' = Event(tx[r])
    BY DEF Event
  <2>3. Work(r)'
    BY <1>1, <2>1 DEF Work
  <2>4. (Stored(Event(tx[r]))' <=> Stored(Event(tx[r]))) /\ (Recent(Event(tx[r]))' <=> Recent(Event(tx[r])))
    BY <1>1, <2>2 DEF Stored, Recent
  <2>5. Done(r)'
    BY <1>2, <2>1, <2>4 DEF Done
  <2>6. Owns(r)'
    BY <2>1, <2>2, <2>4 DEF Owns
  <2> QED BY <2>3, <2>5, <2>6
<1>5. Apart'
  BY DEF IngestInv, Apart, Event
<1> QED BY <1>3, <1>4, <1>5 DEF IngestInv

LEMMA QuietSteps ==
    ASSUME IngestInv,
           \/ NextDay /\ UNCHANGED devVars
           \/ \E type \in EventTypes : scan(type)
           \/ AnswerLost \/ assignBiometricId \/ clearBiometricId
    PROVE  IngestInv'
<1>1. ScannedInv
  BY DEF IngestInv
<1>2. CASE NextDay /\ UNCHANGED devVars
  <2>1. now' \in Nat /\ now < now'
    BY <1>1, <1>2, NextDayLater DEF ScannedInv
  <2>2. UNCHANGED <<scenario, punches, tx, queue, batch, todo, buffer, acked, dropped>>
    BY <1>2 DEF NextDay, devVars
  <2>3. Scanned' = Scanned
    BY <2>2 DEF Scanned
  <2>4. ScannedInv'
    BY <1>1, <2>1, <2>3 DEF ScannedInv
  <2> QED BY <2>2, <2>4, QuietKeeps
<1>3. ASSUME NEW type \in EventTypes, scan(type) PROVE IngestInv'
  <2> DEFINE e == [at |-> now, raw |-> type]
  <2>1. /\ now' = now + 1 /\ buffer' = buffer \cup {e}
        /\ UNCHANGED <<scenario, punches, tx, queue, batch, todo, acked, dropped>>
    BY <1>3 DEF scan
  <2>2. Scanned' = Scanned \cup {e}
    BY <2>1 DEF Scanned
  <2>3. ScannedInv'
    BY <1>1, <2>1, <2>2 DEF ScannedInv
  <2> QED BY <2>1, <2>3, QuietKeeps
<1>4. CASE AnswerLost \/ assignBiometricId \/ clearBiometricId
  <2>1. UNCHANGED <<scenario, now, punches, tx, queue, batch, todo, buffer, acked, dropped>>
    BY <1>4 DEF AnswerLost, assignBiometricId, clearBiometricId, attVars
  <2>2. ScannedInv'
    BY <1>1, <2>1 DEF ScannedInv, Scanned
  <2> QED BY <2>1, <2>2, QuietKeeps
<1> QED BY <1>2, <1>3, <1>4

LEMMA CrashKeeps ==
    ASSUME IngestInv, Crash PROVE IngestInv'
<1>1. /\ tx' = [r \in Requests |-> NoTx]
      /\ batch' = [r \in Requests |-> {}] /\ todo' = [r \in Requests |-> {}]
      /\ UNCHANGED <<scenario, now, punches, buffer, queue, acked, dropped>>
  BY DEF Crash
<1>2. /\ Scanned' = Scanned
      /\ Biometric' = Biometric
      /\ \A id : Used(id)' <=> Used(id)
  BY <1>1 DEF Scanned, Biometric, Used
<1>3. \A e : (Stored(e)' <=> Stored(e)) /\ (Recent(e)' <=> Recent(e)) /\ (Kept(e)' <=> Kept(e))
  BY <1>1, <1>2 DEF Stored, Recent, Kept
<1>4. Shapes'
  BY <1>1, NoTxFields DEF Shapes
<1>5. ScannedInv' /\ QueueInv'
  BY <1>1, <1>2 DEF IngestInv, ScannedInv, QueueInv, NoRow
<1>6. \A r \in Requests : Work(r)' /\ Done(r)' /\ Owns(r)'
  BY <1>1, NoTxFields DEF Work, Done, Owns, Runs, IngestOps
<1>7. Apart'
  BY <1>1, NoTxFields DEF Apart, Holds, IngestOps
<1>8. OnePunchEach' /\ NoneForgotten' /\ Converted'
  <2>1. OnePunchEach' /\ NoneForgotten'
    BY <1>1, <1>2, <1>3 DEF IngestInv, OnePunchEach, NoneForgotten
  <2>2. Converted'
    BY <1>1, <1>2, <1>3 DEF IngestInv, Converted, Stored, Recent
  <2> QED BY <2>1, <2>2
<1> QED BY <1>4, <1>5, <1>6, <1>7, <1>8 DEF IngestInv

-----------------------------------------------------------------------------
(* The handlers of the device's pushes, and of conversions.                *)

(* The first event of a push, the first row of a conversion.               *)
LEMMA FirstEvent ==
    ASSUME ScannedInv, NEW S, S \subseteq Scanned, S # {}
    PROVE  ByTime(S) \in S
<1> DEFINE T == {e.at : e \in S}
<1>1. T \subseteq Nat /\ T # {}
  BY DEF ScannedInv
<1>2. PICK x \in T : \A y \in T : x <= y
  BY <1>1, LeastNat
<1>3. \E e \in S : \A f \in S : e.at <= f.at
  BY <1>2
<1> QED BY <1>3 DEF ByTime

LEMMA FirstRow ==
    ASSUME ScannedInv, QueueInv, NEW S, \A id \in S : Used(id), S # {}
    PROVE  ByRow(S) \in S
<1> DEFINE T == {queue[id].ev.at : id \in S}
<1>1. T \subseteq Nat /\ T # {}
  BY DEF ScannedInv, QueueInv, Used
<1>2. PICK x \in T : \A y \in T : x <= y
  BY <1>1, LeastNat
<1>3. \E id \in S : \A k \in S : queue[id].ev.at <= queue[k].ev.at
  BY <1>2
<1> QED BY <1>3 DEF ByRow

LEMMA FirstFree ==
    ASSUME FreeRows # {} PROVE Min(FreeRows) \in FreeRows
<1>1. FreeRows \subseteq Nat
  BY BiometricAssumption DEF FreeRows
<1>2. PICK x \in FreeRows : \A y \in FreeRows : x <= y
  BY <1>1, LeastNat
<1> QED BY <1>2 DEF Min

(* A handler that takes up nothing but what fits, and owns nothing.        *)
LEMMA TakesUp ==
    ASSUME IngestInv, NEW r \in Requests, NEW t, Continue(r, t),
           NEW left, todo' = [todo EXCEPT ![r] = left],
           UNCHANGED <<buffer, queue, acked, batch>>, dropped \subseteq dropped',
           Fits(t, batch[r], left), t.own = {}, t.pc \notin Inserting,
           t.op = "push" => \A e \in batch[r] \ left : Past(t, e) => e \in dropped' \/ Kept(e)
    PROVE  IngestInv'
<1>1. FitsOwn(r, t)
  BY DEF FitsOwn, Holds
<1>2. batch[r] \subseteq Scanned /\ batch' = [batch EXCEPT ![r] = batch[r]] /\ Scanned' = Scanned
  BY DEF IngestInv, Work, Shapes, Scanned
<1> QED BY <1>1, <1>2, Continues, Moves

LEMMA PushKeeps ==
    ASSUME IngestInv, NEW r \in Requests, push(r) PROVE IngestInv'
<1> DEFINE t == Handler("push", "next", None, NoDay)
<1>1. Shape(t) /\ t.op = "push" /\ t.pc = "next" /\ t.own = {}
  BY HandlerFields
<1>2. /\ Continue(r, t)
      /\ batch' = [batch EXCEPT ![r] = buffer] /\ todo' = [todo EXCEPT ![r] = buffer]
      /\ UNCHANGED <<buffer, queue, acked, dropped>>
  BY DEF push, Begin
<1> HIDE DEF t
<1>3. Fits(t, buffer, buffer) /\ FitsOwn(r, t)
  BY <1>1 DEF Fits, FitsOwn, Runs, Holds, Inserting, IngestOps
<1>4. buffer \subseteq Scanned /\ Scanned' = Scanned
  BY <1>2 DEF Scanned
<1> QED BY <1>1, <1>2, <1>3, <1>4, Continues, Moves

LEMMA AnswerKeeps ==
    ASSUME IngestInv, NEW r \in Requests, Answer(r) PROVE IngestInv'
<1>1. /\ Continue(r, NoTx) /\ batch' = [batch EXCEPT ![r] = {}]
      /\ UNCHANGED <<queue, todo, dropped>>
      /\ tx[r].op = "push" /\ tx[r].pc = "next" /\ todo[r] = {}
      /\ \/ buffer' = buffer \ batch[r] /\ acked' = acked \cup batch[r]
         \/ UNCHANGED <<buffer, acked>>
  BY DEF Answer, Abort
<1>2. Work(r) /\ Done(r)
  BY DEF IngestInv
<1>3. Scanned' = Scanned
  BY <1>1, <1>2 DEF Scanned, Work
<1>4. \A e \in acked' \ dropped' : e \in acked \/ Kept(e)
  BY <1>1, <1>2 DEF Done, Past
<1>5. Fits(NoTx, {}, todo[r]) /\ FitsOwn(r, NoTx) /\ NoTx.op # "push"
  BY NoTxFields DEF Fits, FitsOwn, Runs, Holds, Inserting, IngestOps
<1>6. todo' = [todo EXCEPT ![r] = todo[r]]
  BY <1>1 DEF IngestInv, Shapes
<1> QED BY <1>1, <1>3, <1>4, <1>5, <1>6, Continues, Moves

LEMMA NextEventKeeps ==
    ASSUME IngestInv, NEW r \in Requests, NextEvent(r) PROVE IngestInv'
<1> DEFINE e == ByTime(todo[r])
           t == Handler("push", IF bound THEN "dedupe" ELSE "queueFind", e, NoDay)
<1>1. /\ Continue(r, t) /\ todo' = [todo EXCEPT ![r] = @ \ {e}]
      /\ UNCHANGED <<buffer, queue, acked, batch, dropped>>
      /\ tx[r].op = "push" /\ tx[r].pc = "next" /\ todo[r] # {}
  BY DEF NextEvent
<1>2. Work(r) /\ Done(r) /\ ScannedInv
  BY DEF IngestInv
<1>3. todo[r] \subseteq batch[r] /\ batch[r] \subseteq Scanned
  BY <1>1, <1>2 DEF Work
<1>4. e \in todo[r]
  BY <1>1, <1>2, <1>3, FirstEvent
<1>5. Shape(t) /\ t.op = "push" /\ t.pc \in {"dedupe", "queueFind"} /\ t.job = e /\ t.own = {}
  BY HandlerFields
<1> HIDE DEF t, e
<1>6. Fits(t, batch[r], todo[r] \ {e}) /\ t.pc \notin Inserting
  BY <1>3, <1>4, <1>5 DEF Fits, Runs, Inserting
<1>7. \A f \in batch[r] \ (todo[r] \ {e}) : Past(t, f) => f \in dropped' \/ Kept(f)
  BY <1>1, <1>2, <1>5 DEF Done, Past
<1>8. todo' = [todo EXCEPT ![r] = todo[r] \ {e}]
  BY <1>1
<1> QED BY <1>1, <1>5, <1>6, <1>7, <1>8, TakesUp

(* What a handler does after the event in hand, if that is accounted for.  *)
LEMMA NextFields ==
    ASSUME NEW u PROVE
    LET t == NextOf(u) IN
    /\ Shape(t) /\ t.op = u.op /\ t.own = {}
    /\ u.op = "push" => t.pc = "next"
    /\ u.op = "resolve" => t.pc = "saveRow" /\ t.job = u.job
BY HandlerFields DEF NextOf

LEMMA GoesToNext ==
    ASSUME IngestInv, NEW r \in Requests, tx[r].op \in IngestOps,
           tx[r].op = "resolve" =>
               /\ tx[r].pc \notin {"list", "nextRow"}
               /\ Stored(Event(tx[r])) \/ Recent(Event(tx[r])),
           tx[r].op = "push" => tx[r].job \in dropped' \/ Kept(tx[r].job),
           Continue(r, NextOf(tx[r])),
           UNCHANGED <<buffer, queue, acked, batch, todo>>, dropped \subseteq dropped'
    PROVE  IngestInv'
<1> DEFINE t == NextOf(tx[r])
<1>1. /\ Shape(t) /\ t.op = tx[r].op /\ t.own = {}
      /\ tx[r].op = "push" => t.pc = "next"
      /\ tx[r].op = "resolve" => t.pc = "saveRow" /\ t.job = tx[r].job
  BY NextFields
<1>2. Work(r) /\ Done(r)
  BY DEF IngestInv
<1>3. Continue(r, t)
  OBVIOUS
<1> HIDE DEF t
<1>4. Runs(t) /\ t.pc \notin Inserting
  BY <1>1 DEF Runs, IngestOps, Inserting
<1>5. t.op = "resolve" => Stored(Event(t)) \/ Recent(Event(t))
  BY <1>1 DEF Event, Stored, Recent
<1>6. Fits(t, batch[r], todo[r])
  BY <1>1, <1>2, <1>4, <1>5 DEF Fits, Work, IngestOps
<1>7. t.op = "push" => \A e \in batch[r] \ todo[r] : Past(t, e) => e \in dropped' \/ Kept(e)
  BY <1>1, <1>2 DEF Done, Past
<1>8. todo' = [todo EXCEPT ![r] = todo[r]]
  BY DEF IngestInv, Shapes
<1> QED BY <1>1, <1>3, <1>4, <1>6, <1>7, <1>8, TakesUp

(* ... and what it does if it keeps it in hand.                            *)
LEMMA KeepsInHand ==
    ASSUME IngestInv, NEW r \in Requests, NEW pc,
           <<tx[r].pc, pc>> \in {<<"queueFind", "queueSave">>, <<"dedupe", "punch">>},
           Continue(r, [tx[r] EXCEPT !.pc = pc]), UNCHANGED devVars
    PROVE  IngestInv'
<1> DEFINE t == [tx[r] EXCEPT !.pc = pc]
<1>1. Shape(tx[r]) /\ Work(r)
  BY DEF IngestInv, Shapes
<1>2. /\ Shape(t) /\ t.op = tx[r].op /\ t.job = tx[r].job /\ t.own = tx[r].own /\ t.pc = pc
      /\ Alike([t EXCEPT !.pc = tx[r].pc], tx[r])
  BY <1>1 DEF Shape, Alike
<1>3. Continue(r, t)
  OBVIOUS
<1> HIDE DEF t
<1>4. tx[r].op \in IngestOps /\ Runs(t) /\ ~Holds(t) /\ tx[r].pc # "next" /\ pc # "next"
  BY <1>1, <1>2 DEF Work, Runs, Inserting, IngestOps, Holds
<1>5. t.op = "resolve" => tx[r].pc \notin {"list", "nextRow"} /\ t.pc # "saveRow"
  BY <1>2
<1>6. /\ Fits(t, batch[r], todo[r]) /\ FitsOwn(r, t)
      /\ t.op = "push" => \A e \in batch[r] \ todo[r] : Past(t, e) => e \in dropped \/ Kept(e)
  BY <1>2, <1>4, <1>5, SameWork
<1>7. UNCHANGED <<buffer, queue, acked, batch, todo, dropped>>
  BY DEF devVars
<1> QED BY <1>3, <1>6, <1>7, Continues, MovesOn

LEMMA QueueFindKeeps ==
    ASSUME IngestInv, NEW r \in Requests, QueueFind(r) PROVE IngestInv'
<1>1. tx[r].pc = "queueFind" /\ UNCHANGED devVars
  BY DEF QueueFind
<1>2. tx[r].op = "push"
  BY <1>1 DEF IngestInv, Work, Runs, Inserting
<1>3. CASE QueuedOpen(tx[r].job)
  <2>1. Kept(tx[r].job)
    <3>1. PICK id \in Rows : queue[id] = [ev |-> tx[r].job, status |-> "OPEN"]
      BY <1>3 DEF QueuedOpen
    <3>2. Used(id) /\ queue[id].ev = tx[r].job
      BY <3>1 DEF Used
    <3> QED BY <3>2 DEF Kept
  <2>2. Continue(r, NextOf(tx[r]))
    BY <1>3 DEF QueueFind
  <2> QED BY <1>1, <1>2, <2>1, <2>2, GoesToNext DEF devVars, IngestOps
<1>4. CASE ~QueuedOpen(tx[r].job)
  <2>1. Continue(r, [tx[r] EXCEPT !.pc = "queueSave"])
    BY <1>4 DEF QueueFind
  <2> QED BY <1>1, <2>1, KeepsInHand
<1> QED BY <1>3, <1>4

LEMMA DedupeKeeps ==
    ASSUME IngestInv, NEW r \in Requests, Dedupe(r) PROVE IngestInv'
<1>1. tx[r].pc = "dedupe" /\ UNCHANGED devVars
  BY DEF Dedupe
<1>2. tx[r].op \in IngestOps
  BY <1>1 DEF IngestInv, Work, Runs, Inserting, IngestOps
<1>3. CASE Stored(Event(tx[r])) \/ Recent(Event(tx[r]))
  <2>1. tx[r].op = "push" => Kept(tx[r].job)
    BY <1>3 DEF Event, Kept, Stored, Recent
  <2>2. Continue(r, NextOf(tx[r]))
    BY <1>3 DEF Dedupe
  <2> QED BY <1>1, <1>2, <1>3, <2>1, <2>2, GoesToNext DEF devVars
<1>4. CASE ~(Stored(Event(tx[r])) \/ Recent(Event(tx[r])))
  <2>1. Continue(r, [tx[r] EXCEPT !.pc = "punch"])
    BY <1>4 DEF Dedupe
  <2> QED BY <1>1, <2>1, KeepsInHand
<1> QED BY <1>3, <1>4

(* The insert of the punch of the event in hand.                           *)
LEMMA SavePunchKeeps ==
    ASSUME IngestInv, NEW r \in Requests, SavePunch(r) PROVE IngestInv'
<1> DEFINE e == Event(tx[r])
           p == Punch(e.at, resolveDevicePunchType(e), "BIOMETRIC", r)
           t == [tx[r] EXCEPT !.pc = "snapshot", !.day = resolveWorkDateForDevicePunch(e.at),
                              !.own = {p}]
<1>1. /\ tx[r].pc = "punch" /\ tx[r].op \in IngestOps
      /\ KeyFree(e, r) /\ Continue(r, t) /\ UNCHANGED devVars
  BY DEF SavePunch
<1>2. Shape(tx[r]) /\ Work(r) /\ Done(r)
  BY DEF IngestInv, Shapes
<1>3. p.source = "BIOMETRIC" /\ p.at = e.at
  BY DEF Punch
<1>4. Shape(t) /\ t.op = tx[r].op /\ t.job = tx[r].job /\ t.pc = "snapshot" /\ t.own = {p}
  BY <1>2 DEF Shape
<1> HIDE DEF t, p
<1>5. Event(t) = e
  BY <1>4 DEF Event
<1>6. Runs(t) /\ Fits(t, batch[r], todo[r])
  BY <1>1, <1>2, <1>4 DEF Work, Fits, Runs, Inserting, IngestOps
<1>7. ~Stored(e) /\ \A q \in Requests \ {r} : Holds(tx[q]) => e # Event(tx[q])
  BY <1>1 DEF KeyFree, Holds, Inserting
<1>8. FitsOwn(r, t)
  <2>1. t.op \in IngestOps
    BY <1>1, <1>4
  <2>2. \A q \in t.own : q.source = "BIOMETRIC" /\ q.at = Event(t).at
    BY <1>3, <1>4, <1>5
  <2>3. t.own # {} /\ \A q1, q2 \in t.own : q1 = q2
    BY <1>4
  <2>4. ~Stored(Event(t))
    BY <1>5, <1>7 DEF Stored
  <2> QED BY <1>5, <1>7, <2>1, <2>2, <2>3, <2>4 DEF FitsOwn
<1>9. t.op = "push" => \A f \in batch[r] \ todo[r] : Past(t, f) => f \in dropped \/ Kept(f)
  BY <1>1, <1>2, <1>4 DEF Done, Past
<1>10. UNCHANGED <<buffer, queue, acked, batch, todo, dropped>>
  BY <1>1 DEF devVars
<1> QED BY <1>1, <1>6, <1>8, <1>9, <1>10, Continues, MovesOn

LEMMA SaveSwipeKeeps ==
    ASSUME IngestInv, NEW r \in Requests, SaveSwipe(r) PROVE IngestInv'
<1> DEFINE t == NextOf(tx[r])
<1>1. tx[r].op \in IngestOps /\ CommitPunches(r, t) /\ UNCHANGED devVars
  BY DEF SaveSwipe
<1>2. Work(r) /\ Done(r) /\ Owns(r)
  BY DEF IngestInv
<1>3. /\ Shape(t) /\ t.op = tx[r].op /\ t.own = {}
      /\ tx[r].op = "push" => t.pc = "next"
      /\ tx[r].op = "resolve" => t.pc = "saveRow" /\ t.job = tx[r].job
  BY NextFields
<1>4. /\ tx[r].pc = "save" /\ punches' = punches \cup tx[r].own /\ UNCHANGED scenario
      /\ UNCHANGED <<buffer, queue, acked, batch, todo, dropped>>
  BY <1>1 DEF CommitPunches, devVars
<1> HIDE DEF t
<1>5. PICK e : e = Event(tx[r])
  OBVIOUS
<1>6. Stored(e)'
  <2>1. PICK p \in tx[r].own : p.source = "BIOMETRIC" /\ p.at = e.at
    BY <1>1, <1>2, <1>4, <1>5 DEF Owns, Inserting
  <2>2. p \in Biometric'
    BY <1>4, <2>1 DEF Biometric
  <2> QED BY <2>1, <2>2 DEF Stored
<1>7. \A f : Kept(f) => Kept(f)'
  <2>1. Keeps
    BY <1>4 DEF Keeps, Scanned, Used
  <2> QED BY <2>1, KeptStays
<1>8. ASSUME tx'[r] = t PROVE Work(r)' /\ Done(r)'
  <2>1. Runs(t)
    BY <1>1, <1>3 DEF Runs, IngestOps
  <2>2. Work(r)'
    BY <1>1, <1>2, <1>3, <1>4, <1>8, <2>1 DEF Work, IngestOps, Scanned, Used
  <2>3. ASSUME t.op = "push", NEW f \in batch'[r] \ todo'[r]
        PROVE  f \in dropped' \/ Kept(f)'
    <3>1. CASE f = tx[r].job
      <4>1. f = e
        BY <1>3, <1>5, <2>3, <3>1 DEF Event
      <4> QED BY <1>6, <4>1 DEF Kept, Stored
    <3>2. CASE f # tx[r].job
      BY <1>2, <1>3, <1>4, <1>7, <2>3, <3>2 DEF Done, Past
    <3> QED BY <3>1, <3>2
  <2>4. ASSUME t.op = "resolve" PROVE Stored(Event(tx[r]))'
    <3>1. Event(tx[r])' = e
      BY <1>3, <1>4, <1>5, <1>8, <2>4 DEF Event
    <3> QED BY <1>6, <3>1 DEF Stored
  <2>5. Done(r)'
    BY <1>8, <2>3, <2>4 DEF Done
  <2> QED BY <2>2, <2>5
<1>9. t.pc \notin Inserting
  BY <1>1, <1>3 DEF Inserting, IngestOps
<1> QED BY <1>1, <1>3, <1>8, <1>9, Commits

(* A statement fails, or must fail.                                        *)
LEMMA FailEventKeeps ==
    ASSUME IngestInv, NEW r \in Requests, FailEvent(r) PROVE IngestInv'
<1>1. /\ tx[r].op \in IngestOps
      /\ Continue(r, IF tx[r].op = "push" THEN NextOf(tx[r]) ELSE NoTx)
      /\ todo' = IF tx[r].op = "push" THEN todo ELSE [todo EXCEPT ![r] = {}]
      /\ dropped' = IF tx[r].op = "push" /\ ~Stored(tx[r].job)
                    THEN dropped \cup {tx[r].job} ELSE dropped
      /\ UNCHANGED <<buffer, queue, acked, batch>>
  BY DEF FailEvent
<1>2. CASE tx[r].op = "push"
  <2>1. tx[r].job \in dropped' \/ Kept(tx[r].job)
    BY <1>1, <1>2 DEF Kept
  <2>2. Continue(r, NextOf(tx[r])) /\ UNCHANGED todo /\ dropped \subseteq dropped'
    BY <1>1, <1>2
  <2>3. tx[r].op # "resolve"
    BY <1>2
  <2> QED BY <1>1, <2>1, <2>2, <2>3, GoesToNext
<1>3. CASE tx[r].op = "resolve"
  <2>1. Continue(r, NoTx) /\ todo' = [todo EXCEPT ![r] = {}] /\ UNCHANGED dropped
    BY <1>1, <1>3
  <2>2. Fits(NoTx, batch[r], {}) /\ NoTx.pc \notin Inserting /\ NoTx.op # "push"
    BY NoTxFields DEF Fits, Runs, Inserting
  <2> QED BY <1>1, <2>1, <2>2, NoTxFields, TakesUp
<1> QED BY <1>1, <1>2, <1>3 DEF IngestOps

(* An event of nobody takes a free row.                                    *)
LEMMA QueueSaveKeeps ==
    ASSUME IngestInv, NEW r \in Requests, QueueSave(r) PROVE IngestInv'
<1> DEFINE t == NextOf(tx[r])
<1>m. PICK m : m = Min(FreeRows)
  OBVIOUS
<1>n. PICK row : row = [ev |-> tx[r].job, status |-> "OPEN"]
  OBVIOUS
<1>1. /\ tx[r].pc = "queueSave" /\ FreeRows # {}
      /\ queue' = [queue EXCEPT ![m] = row]
      /\ Continue(r, t)
      /\ UNCHANGED <<buffer, batch, todo, acked, dropped>>
  BY <1>m, <1>n DEF QueueSave
<1>2. Work(r) /\ Done(r) /\ Shapes /\ ScannedInv /\ QueueInv
  BY DEF IngestInv
<1>3. tx[r].op = "push"
  BY <1>1, <1>2 DEF Work, Runs, Inserting
<1>4. tx[r].job \in batch[r] /\ tx[r].job \in Scanned /\ todo[r] \subseteq batch[r]
  BY <1>1, <1>2, <1>3 DEF Work
<1>5. m \in Rows /\ ~Used(m)
  BY <1>1, <1>m, FirstFree DEF FreeRows, NoRow, Used
<1>6. Shape(t) /\ t.op = "push" /\ t.pc = "next" /\ t.own = {}
  BY <1>3, NextFields
<1>7. row.ev = tx[r].job /\ row.status = "OPEN"
  BY <1>n
<1> HIDE DEF t
<1>8. /\ tx'[r] = t /\ Shapes'
      /\ \A q \in Requests \ {r} : tx'[q] = tx[q] /\ batch'[q] = batch[q] /\ todo'[q] = todo[q]
      /\ UNCHANGED <<scenario, now, punches>>
  BY <1>1, <1>2, <1>6 DEF Continue, Shapes
<1>9. /\ \A id \in Rows : queue'[id] = IF id = m THEN row ELSE queue[id]
      /\ queue' = [id \in Rows |-> queue'[id]]
  BY <1>1, <1>2 DEF QueueInv
<1>10. Scanned' = Scanned
  BY <1>1 DEF Scanned
<1>11. Used(m)' /\ \A id \in Rows : id # m => (Used(id)' <=> Used(id))
  BY <1>5, <1>7, <1>9 DEF Used
<1>12. Keeps /\ Others(r) /\ Adds(r)
  BY <1>1, <1>5, <1>8, <1>9, <1>10, <1>11 DEF Keeps, Others, Adds, Alike
<1>13. ScannedInv'
  BY <1>2, <1>8, <1>10 DEF ScannedInv
<1>14. QueueInv'
  <2>1. row \in [ev : Scanned \cup {None}, status : {"NONE", "OPEN", "RESOLVED", "IGNORED"}]
    BY <1>4, <1>n
  <2>2. \A id \in Rows : queue[id] \in [ev : Scanned \cup {None},
                                        status : {"NONE", "OPEN", "RESOLVED", "IGNORED"}]
    BY <1>2 DEF QueueInv
  <2>3. queue' \in [Rows -> [ev : Scanned' \cup {None},
                             status : {"NONE", "OPEN", "RESOLVED", "IGNORED"}]]
    BY <1>9, <1>10, <2>1, <2>2
  <2>4. ASSUME NEW id \in Rows
        PROVE  IF Used(id)' THEN queue'[id].ev \in Scanned' ELSE queue'[id] = NoRow
    BY <1>2, <1>4, <1>7, <1>9, <1>10, <1>11 DEF QueueInv
  <2> QED BY <2>3, <2>4 DEF QueueInv, NoRow
<1>15. Work(r)' /\ Owns(r)' /\ ~Holds(tx[r])'
  BY <1>1, <1>2, <1>4, <1>6, <1>8, <1>10 DEF Work, Owns, Holds, Runs, Inserting
<1>16. Done(r)'
  <2>1. ASSUME NEW e \in batch[r] \ todo[r] PROVE e \in dropped \/ Kept(e)'
    <3>1. CASE e = tx[r].job
      BY <1>5, <1>7, <1>9, <1>11, <3>1 DEF Kept
    <3>2. CASE e # tx[r].job
      BY <1>2, <1>3, <1>12, <3>2, KeptStays DEF Done, Past
    <3> QED BY <3>1, <3>2
  <2> QED BY <1>1, <1>6, <1>8, <2>1 DEF Done
<1>17. \A id \in Rows : queue'[id].status = "RESOLVED" => queue[id].status = "RESOLVED"
  BY <1>7, <1>9
<1> QED BY <1>1, <1>8, <1>12, <1>13, <1>14, <1>15, <1>16, <1>17, HandlerStepKeeps

(* A row is marked, and keeps its event.                                   *)
LEMMA SaveRowKeeps ==
    ASSUME IngestInv, NEW r \in Requests, SaveRow(r) PROVE IngestInv'
<1> DEFINE id == tx[r].job
           status == IF tx[r].op = "resolve" THEN "RESOLVED" ELSE "IGNORED"
           t == IF tx[r].op = "resolve" THEN Handler("resolve", "nextRow", None, NoDay) ELSE NoTx
<1>1. /\ tx[r].pc = "saveRow"
      /\ queue' = [queue EXCEPT ![id].status = status]
      /\ Continue(r, t)
      /\ UNCHANGED <<buffer, batch, todo, acked, dropped>>
  BY DEF SaveRow
<1>2. Work(r) /\ Done(r) /\ Shapes /\ ScannedInv /\ QueueInv
  BY DEF IngestInv
<1>3. tx[r].op \in {"resolve", "ignore"} /\ Used(id)
  BY <1>1, <1>2 DEF Work, Runs, Inserting
<1>4. /\ Shape(t) /\ t.own = {} /\ Runs(t) /\ t.pc \notin Inserting
      /\ t.op = "resolve" => tx[r].op = "resolve" /\ t.pc = "nextRow"
      /\ t.op \in {"resolve", "none"}
  BY HandlerFields, NoTxFields DEF Runs, Inserting
<1>5. status \in {"RESOLVED", "IGNORED"} /\ (status = "RESOLVED" => tx[r].op = "resolve")
  OBVIOUS
<1>6. PICK k : k = id
  OBVIOUS
<1> HIDE DEF t, status
<1>7. /\ tx'[r] = t /\ Shapes'
      /\ \A q \in Requests \ {r} : tx'[q] = tx[q] /\ batch'[q] = batch[q] /\ todo'[q] = todo[q]
      /\ UNCHANGED <<scenario, now, punches>>
  BY <1>1, <1>2, <1>4 DEF Continue, Shapes
<1>8. /\ \A j \in Rows : queue'[j] = IF j = k THEN [queue[j] EXCEPT !.status = status] ELSE queue[j]
      /\ queue' = [j \in Rows |-> queue'[j]]
  BY <1>1, <1>2, <1>6 DEF QueueInv
<1>9. \A j \in Rows : queue[j] \in [ev : Scanned \cup {None},
                                    status : {"NONE", "OPEN", "RESOLVED", "IGNORED"}]
  BY <1>2 DEF QueueInv
<1>10. /\ \A j \in Rows : queue'[j].ev = queue[j].ev
       /\ \A j \in Rows : queue'[j].status = IF j = k THEN status ELSE queue[j].status
       /\ \A j \in Rows : queue'[j] \in [ev : Scanned \cup {None},
                                         status : {"NONE", "OPEN", "RESOLVED", "IGNORED"}]
  BY <1>5, <1>8, <1>9
<1>11. \A j : Used(j)' <=> Used(j)
  BY <1>3, <1>5, <1>6, <1>10 DEF Used
<1>12. Scanned' = Scanned
  BY <1>1 DEF Scanned
<1>13. Keeps /\ Others(r) /\ Adds(r)
  BY <1>1, <1>7, <1>10, <1>11, <1>12 DEF Keeps, Others, Adds, Alike, Used
<1>14. ScannedInv'
  BY <1>2, <1>7, <1>12 DEF ScannedInv
<1>15. QueueInv'
  <2>1. queue' \in [Rows -> [ev : Scanned' \cup {None},
                             status : {"NONE", "OPEN", "RESOLVED", "IGNORED"}]]
    BY <1>8, <1>10, <1>12
  <2>2. ASSUME NEW j \in Rows
        PROVE  IF Used(j)' THEN queue'[j].ev \in Scanned' ELSE queue'[j] = NoRow
    <3>1. j = k => Used(j)
      BY <1>3, <1>6
    <3> QED BY <1>2, <1>8, <1>10, <1>11, <1>12, <3>1 DEF QueueInv
  <2> QED BY <2>1, <2>2 DEF QueueInv, NoRow
<1>16. Work(r)'
  <2>1. batch'[r] \subseteq Scanned' /\ todo'[r] = todo[r]
    BY <1>1, <1>2, <1>12 DEF Work
  <2>2. t.op = "resolve" => \A j \in todo[r] : Used(j)'
    BY <1>1, <1>2, <1>4, <1>11 DEF Work
  <2> QED BY <1>4, <1>7, <2>1, <2>2 DEF Work, Used
<1>17. Done(r)' /\ Owns(r)' /\ ~Holds(tx[r])'
  BY <1>4, <1>7 DEF Done, Owns, Holds, IngestOps
<1>18. ASSUME NEW j \in Rows, queue'[j].status = "RESOLVED"
       PROVE  \/ queue[j].status = "RESOLVED"
              \/ Stored(queue[j].ev)' \/ Recent(queue[j].ev)'
  <2>1. CASE j # k
    BY <1>10, <1>18, <2>1
  <2>2. CASE j = k
    <3>1. tx[r].op = "resolve"
      BY <1>5, <1>10, <1>18, <2>2
    <3>2. PICK e : e = queue[j].ev
      OBVIOUS
    <3>3. Event(tx[r]) = e
      BY <1>6, <2>2, <3>1, <3>2 DEF Event
    <3>4. Stored(e) \/ Recent(e)
      BY <1>1, <1>2, <3>1, <3>3 DEF Done
    <3>5. Stored(e)' \/ Recent(e)'
      BY <1>13, <3>4, KeptStays
    <3>6. queue[j].ev' = e
      BY <1>10, <3>2
    <3> QED BY <3>5, <3>6 DEF Stored, Recent
  <2> QED BY <2>1, <2>2
<1> QED BY <1>1, <1>7, <1>13, <1>14, <1>15, <1>16, <1>17, <1>18, HandlerStepKeeps

(* A conversion lists the rows, and takes them up one by one.              *)
LEMMA ListOpenKeeps ==
    ASSUME IngestInv, NEW r \in Requests, ListOpen(r) PROVE IngestInv'
<1> DEFINE t == Handler("resolve", "nextRow", None, NoDay)
           open == {id \in Rows : queue[id].status = "OPEN"}
<1>1. /\ Continue(r, t) /\ todo' = [todo EXCEPT ![r] = open]
      /\ UNCHANGED <<buffer, queue, batch, acked, dropped>>
  BY DEF ListOpen
<1>2. Shape(t) /\ t.op = "resolve" /\ t.pc = "nextRow" /\ t.own = {}
  BY HandlerFields
<1> HIDE DEF t
<1>3. Fits(t, batch[r], open) /\ t.pc \notin Inserting
  BY <1>2 DEF Fits, Runs, Inserting, Used
<1> QED BY <1>1, <1>2, <1>3, TakesUp

LEMMA NextRowKeeps ==
    ASSUME IngestInv, NEW r \in Requests, NextRow(r) PROVE IngestInv'
<1>1. /\ tx[r].pc = "nextRow"
      /\ UNCHANGED <<buffer, queue, batch, acked, dropped>>
  BY DEF NextRow
<1>2. Work(r) /\ ScannedInv /\ QueueInv
  BY DEF IngestInv
<1>3. tx[r].op = "resolve" /\ \A id \in todo[r] : Used(id)
  BY <1>1, <1>2 DEF Work, Runs, Inserting
<1>4. CASE todo[r] = {}
  <2>1. Continue(r, NoTx) /\ todo' = [todo EXCEPT ![r] = todo[r]]
    BY <1>4 DEF NextRow, Abort, IngestInv, Shapes
  <2>2. Fits(NoTx, batch[r], todo[r]) /\ NoTx.pc \notin Inserting /\ NoTx.op # "push"
    BY NoTxFields DEF Fits, Runs, Inserting
  <2> QED BY <1>1, <2>1, <2>2, NoTxFields, TakesUp
<1>5. CASE todo[r] # {}
  <2> DEFINE id == ByRow(todo[r])
             t == Handler("resolve", "dedupe", id, NoDay)
  <2>1. Continue(r, t) /\ todo' = [todo EXCEPT ![r] = todo[r] \ {id}]
    BY <1>5 DEF NextRow
  <2>2. id \in todo[r]
    BY <1>2, <1>3, <1>5, FirstRow
  <2>3. Shape(t) /\ t.op = "resolve" /\ t.pc = "dedupe" /\ t.job = id /\ t.own = {}
    BY HandlerFields
  <2> HIDE DEF t, id
  <2>4. Fits(t, batch[r], todo[r] \ {id}) /\ t.pc \notin Inserting
    BY <1>3, <2>2, <2>3 DEF Fits, Runs, Inserting
  <2> QED BY <1>1, <2>1, <2>3, <2>4, TakesUp
<1> QED BY <1>4, <1>5

LEMMA UnmappedKeeps ==
    ASSUME IngestInv, NEW r \in Requests, NEW id \in Rows,
           ignoreUnmapped(r, id) \/ resolveUnmapped(r, id)
    PROVE  IngestInv'
<1>1. Used(id) /\ todo' = [todo EXCEPT ![r] = todo[r]]
      /\ UNCHANGED <<buffer, queue, batch, acked, dropped>>
  BY DEF ignoreUnmapped, resolveUnmapped, Used, IngestInv, Shapes, devVars
<1>2. ASSUME NEW op, NEW pc, <<op, pc>> \in {<<"ignore", "saveRow">>, <<"resolve", "list">>},
             Continue(r, Handler(op, pc, id, NoDay))
      PROVE  IngestInv'
  <2> DEFINE t == Handler(op, pc, id, NoDay)
  <2>1. Shape(t) /\ t.op = op /\ t.pc = pc /\ t.job = id /\ t.own = {}
    BY HandlerFields
  <2>2. Continue(r, t)
    BY <1>2
  <2> HIDE DEF t
  <2>3. Fits(t, batch[r], todo[r]) /\ t.pc \notin Inserting /\ t.op # "push"
    BY <1>1, <1>2, <2>1 DEF Fits, Runs, Inserting
  <2> QED BY <1>1, <2>1, <2>2, <2>3, TakesUp
<1> QED BY <1>2 DEF ignoreUnmapped, resolveUnmapped, Begin

-----------------------------------------------------------------------------
(* Every step of a handler of the device, and every step there is.         *)

LEMMA IngestKeeps ==
    ASSUME IngestInv, NEW r \in Requests, IngestStep(r) \/ Fail(r)
    PROVE  IngestInv'
BY NextEventKeeps, QueueFindKeeps, QueueSaveKeeps, DedupeKeeps, SavePunchKeeps, SaveSwipeKeeps,
   FailEventKeeps, AnswerKeeps, ListOpenKeeps, NextRowKeeps, SaveRowKeeps
   DEF IngestStep, Reject, Fail

LEMMA IngestInit == Init => IngestInv
<1> SUFFICES ASSUME Init PROVE IngestInv
  OBVIOUS
<1>1. /\ tx = [r \in Requests |-> NoTx] /\ punches = {}
      /\ scenario \in Scenarios /\ now = scenario.first
      /\ buffer = {} /\ acked = {} /\ dropped = {}
      /\ queue = [id \in Rows |-> NoRow]
      /\ batch = [r \in Requests |-> {}] /\ todo = [r \in Requests |-> {}]
  BY DEF Init, AttendanceInit, DevInit
<1>2. now \in Nat
  BY <1>1, AttendanceAssumption, DayLengthAssumption DEF End
<1>3. Scanned = {} /\ Biometric = {} /\ \A id \in Rows : ~Used(id)
  BY <1>1 DEF Scanned, Biometric, Used, NoRow
<1>4. Shapes /\ ScannedInv
  BY <1>1, <1>2, <1>3, NoTxFields DEF Shapes, ScannedInv
<1>5. QueueInv
  <2>1. NoRow \in [ev : {} \cup {None}, status : {"NONE", "OPEN", "RESOLVED", "IGNORED"}]
    BY DEF NoRow
  <2> QED BY <1>1, <1>3, <2>1 DEF QueueInv
<1>6. \A r \in Requests : Work(r) /\ Done(r) /\ Owns(r)
  BY <1>1, NoTxFields DEF Work, Done, Owns, Runs, IngestOps
<1>7. Apart /\ OnePunchEach /\ NoneForgotten /\ Converted
  BY <1>1, <1>3, NoTxFields DEF Apart, Holds, IngestOps, OnePunchEach, NoneForgotten, Converted, NoRow
<1> QED BY <1>4, <1>5, <1>6, <1>7 DEF IngestInv

LEMMA IngestNext == IngestInv /\ [Next]_vars => IngestInv'
<1> SUFFICES ASSUME IngestInv, [Next]_vars PROVE IngestInv'
  OBVIOUS
<1>1. CASE NextDay /\ UNCHANGED <<request, devVars>>
  BY <1>1, QuietSteps
<1>2. ASSUME NEW r \in Requests, WebStep(r), UNCHANGED <<request, devVars>> PROVE IngestInv'
  BY <1>2, WebKeeps
<1>3. ASSUME NEW r \in Requests, RegStep(r), UNCHANGED devVars PROVE IngestInv'
  BY <1>3, CorrectionsKeep
<1>4. CASE DevStep
  BY <1>4, PushKeeps, IngestKeeps, UnmappedKeeps, QuietSteps, CrashKeeps DEF DevStep
<1>5. CASE UNCHANGED vars
  <2>1. UNCHANGED <<scenario, now, punches, tx, queue, batch, todo, buffer, acked, dropped>>
    BY <1>5 DEF vars, attVars, devVars
  <2>2. ScannedInv'
    BY <2>1 DEF IngestInv, ScannedInv, Scanned
  <2> QED BY <2>1, <2>2, QuietKeeps
<1> QED BY <1>1, <1>2, <1>3, <1>4, <1>5 DEF Next

(* Each event of the device becomes at most one punch, none that was       *)
(* acknowledged is lost unless it failed, and no row is marked as          *)
(* converted without one: BiometricIngestService and the mapping, for any *)
(* number of handlers, with everything else that touches attendance.       *)
THEOREM ScansOnce == Spec => []EveryScanOnce
<1>1. Init => IngestInv
  BY IngestInit
<1>2. IngestInv /\ [Next]_vars => IngestInv'
  BY IngestNext
<1>3. IngestInv => EveryScanOnce
  BY InvImplies
<1> QED BY <1>1, <1>2, <1>3, PTL DEF Spec

-----------------------------------------------------------------------------
(* The summary of a day is what its punches amount to.  What the handlers  *)
(* rely on meanwhile.                                                      *)

Window(P, d)  == getPunchesForDay(P, d, overnight)
PairsIn(P, d) == pairPunches(Window(P, d), d)

(* A shift that spans midnight, and swipes: the summary may be of the day  *)
(* before (OutSwipesFeedTheDay).                                           *)
NightScans == overnight /\ Asked("scan")

(* Nobody comes before his time.                                           *)
Begun(P) ==
    \A p \in P : /\ p.at \in Nat /\ p.type \in {"IN", "OUT"}
                 /\ p.type = "IN" => DayOf(p.at) <= Today
RequestsBegun ==
    /\ request \in [Regs -> [status : {"NONE", "PENDING", "APPROVED", "REJECTED", "WITHDRAWN"},
                              day : Int, in : Int, out : Int]]
    /\ \A g \in Regs : request[g].status # "NONE" =>
           request[g].in \in Nat /\ request[g].out \in Nat /\ DayOf(request[g].in) <= Today

(* What a sign-in or a sign-out found still holds, unless punches came in  *)
(* between.                                                                *)
NoneAfter(d) == \A t \in Ins(punches) : DayOf(t) <= d
FoundClosed(d) == overnight => ~HasOpen(punches, d - 1, overnight)
FoundOpen(d) ==
    /\ HasOpen(punches, d, overnight)
    /\ \/ NoneAfter(d)
       \/ overnight /\ NoneAfter(d + 1) /\ ~HasOpen(punches, d + 1, overnight)

Decided(t) ==
    /\ t.op = "signIn"  => /\ \A p \in t.own : p.type = "IN"
                           /\ "check" \notin t.missed => FoundClosed(t.day)
    /\ t.op = "signOut" => /\ \A p \in t.own : p.type = "OUT"
                           /\ "check" \notin t.missed => FoundOpen(t.day)

OwnPunches(t) ==
    /\ Begun(t.own)
    /\ t.op = "view" => t.own = {}
    /\ t.op \in {"signIn", "signOut"} => \A p, q \in t.own : p = q
    /\ ~NightScans /\ t.op \in IngestOps => ~overnight /\ \A p \in t.own : DayOf(p.at) = t.day
    /\ t.op \in {"approve", "withdraw", "reject"} => t.job \in Regs /\ request[t.job].status # "NONE"
    /\ t.pc = "decide" => t.op \in {"withdraw", "reject"}

(* The summary it computed is that of the punches there will be, and the   *)
(* row it loaded is the one there is.                                      *)
Columns == {"exists", "firstIn", "lastOut", "worked"}
Figures(s) == s = [col \in Columns |-> s[col]]

Computed(t) ==
    /\ t.pc \in {"load", "save"} => Figures(t.sum)
    /\ "snapshot" \notin t.missed =>
           /\ t.pc \in {"load", "save"} => t.sum = SummaryOf(PairsIn(punches \cup t.own, t.day))
           /\ t.pc = "save" /\ t.day \in Days => t.base = summary[t.day]

Directed(e) == e.raw \in {"IN", "OUT", "OTHER"}

SummaryInv ==
    /\ ~NightScans /\ overnight => Scanned = {}
    /\ \A e \in Scanned : Directed(e)
    /\ Begun(punches)
    /\ RequestsBegun
    /\ summary = [d \in Days |-> summary[d]]
    /\ \A d \in Days : Figures(summary[d])
    /\ \A r \in Requests : Decided(tx[r]) /\ OwnPunches(tx[r]) /\ Computed(tx[r])
    /\ NightScans \/ SummaryMatchesPunches

(* The calendar goes on.                                                   *)
LEMMA DaysGoOn ==
    /\ \A t \in Nat : DayOf(t) \in Nat
    /\ \A s, t \in Nat : s <= t => DayOf(s) <= DayOf(t)
<1>1. DayLength \in Nat /\ DayLength > 0
  BY DayLengthAssumption
<1>2. ASSUME NEW t \in Nat
      PROVE  /\ DayOf(t) \in Nat
             /\ DayOf(t) * DayLength \in Nat
             /\ DayOf(t) * DayLength <= t
             /\ t < DayOf(t) * DayLength + DayLength
  <2> DEFINE q == t \div DayLength
  <2>1. q \in Nat /\ t = q * DayLength + (t % DayLength) /\ t % DayLength \in 0 .. DayLength - 1
    BY <1>1
  <2>2. q * DayLength \in Nat
    BY <1>1, <2>1
  <2> QED BY <1>1, <2>1, <2>2 DEF DayOf
<1>3. ASSUME NEW s \in Nat, NEW t \in Nat, s <= t PROVE DayOf(s) <= DayOf(t)
  <2>1. PICK a \in Nat : a = DayOf(s)
    BY <1>2
  <2>2. PICK b \in Nat : b = DayOf(t)
    BY <1>2
  <2>3. a * DayLength <= s /\ t < b * DayLength + DayLength /\ a * DayLength \in Nat /\ b * DayLength \in Nat
    BY <1>2, <2>1, <2>2
  <2>4. ASSUME a > b PROVE FALSE
    <3>1. a * DayLength >= (b + 1) * DayLength /\ (b + 1) * DayLength = b * DayLength + DayLength
      BY <1>1, <2>1, <2>2, <2>4
    <3> QED BY <1>1, <1>3, <2>3, <3>1
  <2> QED BY <2>1, <2>2, <2>4
<1> QED BY <1>2, <1>3

(* The pairs, one by one.                                                  *)
Pairs(V, i, o) ==
    /\ i \in Ins(V) /\ o \in Outs(V) /\ i <= o
    /\ \A t \in Ins(V)  : ~(i < t /\ t <= o)
    /\ \A t \in Outs(V) : ~(i <= t /\ t < o)
StaysOpen(V, i) ==
    /\ i \in Ins(V)
    /\ \A t \in Ins(V)  : t <= i
    /\ \A t \in Outs(V) : t < i

LEMMA PairsAre ==
    ASSUME NEW V, NEW d, NEW pair
    PROVE  pair \in pairPunches(V, d) <=>
               \E i \in Ins(V), o \in Outs(V) \cup {Never} :
                   /\ pair = [in |-> i, out |-> o] /\ DayOf(i) = d
                   /\ Pairs(V, i, o) \/ (StaysOpen(V, i) /\ o = Never)
<1>1. pair \in Closed(V) <=> \E i \in Ins(V), o \in Outs(V) : pair = [in |-> i, out |-> o] /\ Pairs(V, i, o)
  BY DEF Closed, Pairs
<1>2. pair \in Open(V) <=> \E i \in Ins(V) : pair = [in |-> i, out |-> Never] /\ StaysOpen(V, i)
  BY DEF Open, StaysOpen
<1>3. pair \in pairPunches(V, d) <=> (pair \in Closed(V) \/ pair \in Open(V)) /\ DayOf(pair.in) = d
  BY DEF pairPunches, PairsOf
<1>4. \A i, o : pair = [in |-> i, out |-> o] => pair.in = i
  OBVIOUS
<1>5. \A i, o : Pairs(V, i, o) => o \in Outs(V)
  BY DEF Pairs
<1>6. ASSUME pair \in pairPunches(V, d)
      PROVE  \E i \in Ins(V), o \in Outs(V) \cup {Never} :
                   /\ pair = [in |-> i, out |-> o] /\ DayOf(i) = d
                   /\ Pairs(V, i, o) \/ (StaysOpen(V, i) /\ o = Never)
  <2>1. CASE pair \in Closed(V)
    BY <1>1, <1>3, <1>4, <1>6, <2>1
  <2>2. CASE pair \in Open(V)
    BY <1>2, <1>3, <1>4, <1>6, <2>2
  <2> QED BY <1>3, <1>6, <2>1, <2>2
<1>7. ASSUME NEW i \in Ins(V), NEW o \in Outs(V) \cup {Never},
             pair = [in |-> i, out |-> o], DayOf(i) = d,
             Pairs(V, i, o) \/ (StaysOpen(V, i) /\ o = Never)
      PROVE  pair \in pairPunches(V, d)
  BY <1>1, <1>2, <1>3, <1>4, <1>5, <1>7
<1> QED BY <1>6, <1>7

(* Punches that have a time and a type.                                    *)
Timed(P) == \A p \in P : p.at \in Nat /\ p.type \in {"IN", "OUT"}

LEMMA InstantsAreTimes ==
    ASSUME NEW V, Timed(V)
    PROVE  Ins(V) \subseteq Nat /\ Outs(V) \subseteq Nat /\ Never \notin Outs(V)
BY DEF Timed, Ins, Outs, Never

LEMMA OpenIs ==
    ASSUME NEW P, Timed(P), NEW d
    PROVE  HasOpen(P, d, overnight) <=> \E i \in Ins(Window(P, d)) : StaysOpen(Window(P, d), i) /\ DayOf(i) = d
<1> DEFINE V == Window(P, d)
<1>1. Timed(V)
  BY DEF Timed, Window, getPunchesForDay
<1>2. Never \notin Outs(V)
  BY <1>1, InstantsAreTimes
<1>3. HasOpen(P, d, overnight) <=> \E pair \in pairPunches(V, d) : pair.out = Never
  BY DEF HasOpen, Window
<1>4. ASSUME NEW pair \in pairPunches(V, d), pair.out = Never
      PROVE  \E i \in Ins(V) : StaysOpen(V, i) /\ DayOf(i) = d
  BY <1>2, <1>4, PairsAre DEF Pairs
<1>5. ASSUME NEW i \in Ins(V), StaysOpen(V, i), DayOf(i) = d
      PROVE  \E pair \in pairPunches(V, d) : pair.out = Never
  <2>1. [in |-> i, out |-> Never] \in pairPunches(V, d)
    BY <1>5, PairsAre
  <2> QED BY <2>1
<1> QED BY <1>3, <1>4, <1>5

(* A punch after all others, of another day, changes only a session that   *)
(* is open.                                                                *)
LEMMA LastPunch ==
    ASSUME NEW V, Timed(V), NEW p, Timed({p}), \A q \in V : q.at < p.at, NEW d,
           \A i \in Ins(V) : StaysOpen(V, i) => DayOf(i) # d,
           p.type = "IN" => DayOf(p.at) # d
    PROVE  pairPunches(V \cup {p}, d) = pairPunches(V, d)
<1> DEFINE U == V \cup {p}
<1>1. Ins(V) \subseteq Nat /\ Outs(V) \subseteq Nat /\ p.at \in Nat
  BY InstantsAreTimes DEF Timed
<1>2. \A t \in Ins(V) \cup Outs(V) : t < p.at
  BY DEF Ins, Outs
<1>3. CASE p.type = "IN"
  <2>1. Ins(U) = Ins(V) \cup {p.at} /\ Outs(U) = Outs(V)
    BY <1>3 DEF Ins, Outs
  <2> HIDE DEF U
  <2>2. ASSUME NEW i \in Nat, NEW o \in Outs(V) PROVE Pairs(U, i, o) <=> Pairs(V, i, o)
    BY <1>1, <1>2, <2>1 DEF Pairs
  <2>3. ASSUME NEW i \in Ins(V) PROVE ~StaysOpen(U, i)
    BY <1>1, <1>2, <2>1 DEF StaysOpen
  <2>4. ASSUME NEW pair PROVE pair \in pairPunches(U, d) <=> pair \in pairPunches(V, d)
    <3>1. ASSUME pair \in pairPunches(U, d) PROVE pair \in pairPunches(V, d)
      <4>1. PICK i \in Ins(U), o \in Outs(U) \cup {Never} :
                   /\ pair = [in |-> i, out |-> o] /\ DayOf(i) = d
                   /\ Pairs(U, i, o) \/ (StaysOpen(U, i) /\ o = Never)
        BY <3>1, PairsAre
      <4>2. Pairs(V, i, o)
        <5>1. i # p.at
          BY <1>3, <4>1
        <5>2. i \in Ins(V)
          BY <2>1, <4>1, <5>1
        <5>3. Pairs(U, i, o)
          BY <2>3, <4>1, <5>2
        <5> QED BY <1>1, <2>1, <2>2, <5>2, <5>3 DEF Pairs
      <4> QED BY <4>1, <4>2, PairsAre DEF Pairs
    <3>2. ASSUME pair \in pairPunches(V, d) PROVE pair \in pairPunches(U, d)
      <4>1. PICK i \in Ins(V), o \in Outs(V) \cup {Never} :
                   /\ pair = [in |-> i, out |-> o] /\ DayOf(i) = d
                   /\ Pairs(V, i, o) \/ (StaysOpen(V, i) /\ o = Never)
        BY <3>2, PairsAre
      <4>2. Pairs(U, i, o)
        <5>1. Pairs(V, i, o)
          <6>1. ~StaysOpen(V, i)
            BY <4>1
          <6> QED BY <4>1, <6>1
        <5> QED BY <1>1, <2>2, <5>1 DEF Pairs
      <4> QED BY <4>1, <4>2, PairsAre DEF Pairs
    <3> QED BY <3>1, <3>2
  <2> QED BY <2>4 DEF U
<1>4. CASE p.type = "OUT"
  <2>1. Ins(U) = Ins(V) /\ Outs(U) = Outs(V) \cup {p.at}
    BY <1>4 DEF Ins, Outs
  <2> HIDE DEF U
  <2>2. ASSUME NEW i \in Nat, NEW o \in Nat, Pairs(V, i, o) PROVE Pairs(U, i, o)
    BY <1>1, <1>2, <2>1, <2>2 DEF Pairs
  <2>3. ASSUME NEW i \in Ins(V) PROVE ~StaysOpen(U, i)
    BY <1>1, <1>2, <2>1 DEF StaysOpen
  <2>4. ASSUME NEW i \in Nat, NEW o \in Nat, Pairs(U, i, o), DayOf(i) = d PROVE Pairs(V, i, o)
    <3>1. CASE o = p.at
      <4>1. i \in Ins(V) /\ i < p.at
        BY <1>1, <1>2, <2>1, <2>4 DEF Pairs
      <4>2. StaysOpen(V, i)
        BY <1>1, <1>2, <2>1, <2>4, <3>1, <4>1 DEF Pairs, StaysOpen
      <4> QED BY <2>4, <4>1, <4>2
    <3>2. CASE o # p.at
      BY <1>1, <1>2, <2>1, <2>4, <3>2 DEF Pairs
    <3> QED BY <3>1, <3>2
  <2>5. ASSUME NEW pair PROVE pair \in pairPunches(U, d) <=> pair \in pairPunches(V, d)
    <3>1. ASSUME pair \in pairPunches(U, d) PROVE pair \in pairPunches(V, d)
      <4>1. PICK i \in Ins(U), o \in Outs(U) \cup {Never} :
                   /\ pair = [in |-> i, out |-> o] /\ DayOf(i) = d
                   /\ Pairs(U, i, o) \/ (StaysOpen(U, i) /\ o = Never)
        BY <3>1, PairsAre
      <4>2. Pairs(V, i, o)
        <5>1. Pairs(U, i, o)
          BY <2>1, <2>3, <4>1
        <5>2. i \in Nat /\ o \in Nat
          BY <1>1, <2>1, <5>1 DEF Pairs
        <5> QED BY <2>4, <4>1, <5>1, <5>2
      <4> QED BY <4>1, <4>2, PairsAre DEF Pairs
    <3>2. ASSUME pair \in pairPunches(V, d) PROVE pair \in pairPunches(U, d)
      <4>1. PICK i \in Ins(V), o \in Outs(V) \cup {Never} :
                   /\ pair = [in |-> i, out |-> o] /\ DayOf(i) = d
                   /\ Pairs(V, i, o) \/ (StaysOpen(V, i) /\ o = Never)
        BY <3>2, PairsAre
      <4>2. Pairs(U, i, o)
        <5>1. Pairs(V, i, o)
          <6>1. ~StaysOpen(V, i)
            BY <4>1
          <6> QED BY <4>1, <6>1
        <5>2. i \in Nat /\ o \in Nat
          BY <1>1, <5>1 DEF Pairs
        <5> QED BY <2>2, <5>1, <5>2
      <4> QED BY <4>1, <4>2, PairsAre DEF Pairs
    <3> QED BY <3>1, <3>2
  <2> QED BY <2>5 DEF U
<1> QED BY <1>3, <1>4 DEF Timed

LEMMA WindowsHave ==
    ASSUME NEW P, NEW d
    PROVE  /\ \A i : i \in Ins(Window(P, d)) <=>
                  i \in Ins(P) /\ (DayOf(i) = d \/ (overnight /\ DayOf(i) = d + 1))
           /\ Timed(P) => Timed(Window(P, d))
           /\ \A p : Window(P \cup {p}, d) = Window(P, d) \cup Window({p}, d)
BY DEF Ins, Timed, Window, getPunchesForDay

LEMMA BegunIsTimed == \A P : Begun(P) => Timed(P)
BY DEF Begun, Timed

(* Under a sign-out, no other day has a session that its punch would end.  *)
LEMMA OneSessionToEnd ==
    ASSUME Begun(punches), NEW day, FoundOpen(day), NEW d \in Days, d # day,
           NEW p, Timed({p}), \A q \in punches : q.at < p.at,
           DayOf(p.at) = d \/ (overnight /\ DayOf(p.at) = d + 1),
           NEW j \in Ins(Window(punches, d)), StaysOpen(Window(punches, d), j), DayOf(j) = d
    PROVE  FALSE
<1>1. Timed(punches) /\ p.at \in Nat
  BY BegunIsTimed DEF Timed
<1>2. PICK i \in Ins(Window(punches, day)) : StaysOpen(Window(punches, day), i) /\ DayOf(i) = day
  BY <1>1, OpenIs DEF FoundOpen
<1>3. i \in Ins(punches) /\ j \in Ins(punches)
  BY WindowsHave
<1>4. Ins(punches) \subseteq Nat
  BY <1>1, InstantsAreTimes
<1>5. i < p.at
  BY <1>3 DEF Ins
<1>6. day \in Nat /\ d \in Nat /\ DayOf(p.at) \in Nat /\ day <= DayOf(p.at)
  BY <1>1, <1>2, <1>3, <1>4, <1>5, DaysGoOn, AttendanceAssumption DEF Days
<1>7. d <= day \/ (overnight /\ d <= day + 1 /\ ~HasOpen(punches, day + 1, overnight))
  BY <1>3 DEF FoundOpen, NoneAfter
<1>8. d # day + 1 \/ ~overnight
  <2>1. HasOpen(punches, d, overnight)
    BY <1>1, OpenIs
  <2> QED BY <1>6, <1>7, <2>1
<1>9. overnight /\ day = d + 1
  BY <1>6, <1>7, <1>8
<1>10. i \in Ins(Window(punches, d))
  BY <1>2, <1>3, <1>9, WindowsHave
<1>11. i <= j
  BY <1>10 DEF StaysOpen
<1>12. DayOf(i) <= DayOf(j)
  BY <1>3, <1>4, <1>11, DaysGoOn
<1> QED BY <1>2, <1>6, <1>9, <1>12

(* A commit changes the pairs of its own day, and of those it marks.       *)
LEMMA NothingElsewhere ==
    ASSUME IngestInv, SummaryInv, ~NightScans, NEW r \in Requests, NEW d \in Days,
           tx[r].day # d, ~Elsewhere(tx[r], d),
           tx[r].op \in {"signIn", "signOut", "view", "approve"} \cup IngestOps
    PROVE  PairsIn(punches \cup tx[r].own, d) = PairsIn(punches, d)
<1> DEFINE t == tx[r]
<1>1. Begun(punches) /\ Begun(t.own) /\ Decided(t) /\ OwnPunches(t)
  BY DEF SummaryInv, OwnPunches
<1>2. ASSUME \/ t.op = "approve"
             \/ /\ t.op \in {"signIn", "signOut"}
                /\ \/ "check" \in t.missed
                   \/ \E p \in t.own : p.type = "IN" /\ DayOf(p.at) # t.day
                   \/ \E p \in t.own, q \in punches : p.at <= q.at
      PROVE  PairsIn(punches \cup t.own, d) = PairsIn(punches, d)
  BY <1>2 DEF Elsewhere, PairsIn, Window
<1>3. CASE t.own = {}
  BY <1>3
<1>4. CASE t.op \in IngestOps
  <2>1. ~overnight /\ \A p \in t.own : DayOf(p.at) # d
    BY <1>1, <1>4 DEF OwnPunches
  <2>2. Window(punches \cup t.own, d) = Window(punches, d)
    BY <2>1 DEF Window, getPunchesForDay
  <2> QED BY <2>2 DEF PairsIn
<1>5. ASSUME t.op \in {"signIn", "signOut"}, t.own # {}, "check" \notin t.missed,
             \A p \in t.own : p.type = "IN" => DayOf(p.at) = t.day,
             \A p \in t.own, q \in punches : ~(p.at <= q.at)
      PROVE  PairsIn(punches \cup t.own, d) = PairsIn(punches, d)
  <2>1. PICK p : t.own = {p}
    BY <1>1, <1>5 DEF OwnPunches
  <2>2. Timed({p}) /\ Timed(punches) /\ p.at \in Nat
    BY <1>1, <2>1, BegunIsTimed DEF Timed
  <2>3. \A q \in punches : q.at < p.at
    BY <1>5, <2>1, <2>2 DEF Timed
  <2> DEFINE V == Window(punches, d)
  <2>4. Window(punches \cup {p}, d) = V \cup Window({p}, d) /\ Timed(V) /\ \A q \in V : q.at < p.at
    BY <2>2, <2>3, WindowsHave DEF Window, getPunchesForDay
  <2>5. CASE p \notin Window({p}, d)
    <3>1. Window({p}, d) = {}
      BY <2>5 DEF Window, getPunchesForDay
    <3> QED BY <2>1, <2>4, <3>1 DEF PairsIn
  <2>6. CASE p \in Window({p}, d)
    <3>1. Window({p}, d) = {p} /\ (DayOf(p.at) = d \/ (overnight /\ DayOf(p.at) = d + 1))
      BY <2>6 DEF Window, getPunchesForDay
    <3>2. p.type = "IN" => DayOf(p.at) # d
      BY <1>5, <2>1
    <3>3. ASSUME NEW j \in Ins(V), StaysOpen(V, j), DayOf(j) = d PROVE FALSE
      <4>1. CASE t.op = "signIn"
        <5>1. DayOf(p.at) = t.day /\ FoundClosed(t.day)
          BY <1>1, <1>5, <2>1, <4>1 DEF Decided
        <5>2. overnight /\ t.day = d + 1
          BY <3>1, <5>1
        <5>3. d \in Nat
          BY AttendanceAssumption DEF Days
        <5>4. ~HasOpen(punches, d, overnight)
          <6>1. t.day - 1 = d
            BY <5>2, <5>3
          <6> QED BY <5>1, <5>2, <6>1 DEF FoundClosed
        <5> QED BY <2>2, <3>3, <5>4, OpenIs
      <4>2. CASE t.op = "signOut"
        <5>1. FoundOpen(t.day)
          BY <1>1, <1>5, <4>2 DEF Decided
        <5> QED BY <1>1, <2>2, <2>3, <3>1, <3>3, <5>1, OneSessionToEnd
      <4> QED BY <1>5, <4>1, <4>2
    <3>4. pairPunches(V \cup {p}, d) = pairPunches(V, d)
      BY <2>2, <2>4, <3>2, <3>3, LastPunch
    <3> QED BY <2>1, <2>4, <3>1, <3>4 DEF PairsIn
  <2> QED BY <2>5, <2>6
<1>6. CASE t.op = "view"
  BY <1>1, <1>3, <1>6 DEF OwnPunches
<1> QED BY <1>2, <1>3, <1>4, <1>5, <1>6

(* The steps that add no punches.                                          *)
Ready(t) == Decided(t) /\ OwnPunches(t) /\ Computed(t)

LEMMA ReadyThen ==
    ASSUME NEW q \in Requests, NEW t, tx'[q] = t, Ready(t)'
    PROVE  Decided(tx[q])' /\ OwnPunches(tx[q])' /\ Computed(tx[q])'
<1>1. Decided(tx[q])'
  BY DEF Ready, Decided
<1>2. OwnPunches(tx[q])'
  BY DEF Ready, OwnPunches, Begun
<1>3. Computed(tx[q])'
  BY DEF Ready, Computed, PairsIn, Window
<1> QED BY <1>1, <1>2, <1>3

RequestsStay ==
    \A g \in Regs : request[g].status # "NONE" => request'[g].status # "NONE"
Quiet ==
    /\ scenario' = scenario /\ punches' = punches /\ summary' = summary /\ behind' = behind
    /\ now' \in Nat /\ now <= now'
    /\ RequestsStay

LEMMA BegunStays ==
    ASSUME now \in Nat, now' \in Nat, now <= now', NEW P, Begun(P) PROVE Begun(P)'
BY DaysGoOn DEF Begun, Today

LEMMA ReadyStays ==
    ASSUME Quiet, now \in Nat, NEW t, Ready(t) PROVE Ready(t)'
<1>1. overnight' = overnight /\ NightScans' = NightScans
  BY DEF Quiet, NightScans, Asked, overnight
<1>2. Decided(t)'
  BY <1>1 DEF Ready, Quiet, Decided, FoundClosed, FoundOpen, NoneAfter
<1>3. Begun(t.own)'
  BY BegunStays DEF Ready, OwnPunches, Quiet
<1>4. OwnPunches(t)'
  BY <1>1, <1>3 DEF Ready, OwnPunches, Quiet, RequestsStay
<1>5. Computed(t)'
  BY <1>1 DEF Ready, Computed, Quiet, PairsIn, Window
<1> QED BY <1>2, <1>4, <1>5 DEF Ready

LEMMA MatchStays ==
    ASSUME Quiet, SummaryMatchesPunches PROVE SummaryMatchesPunches'
BY DEF Quiet, SummaryMatchesPunches, overnight

LEMMA QuietSummary ==
    ASSUME IngestInv, SummaryInv, Quiet, RequestsBegun',
           \A e \in Scanned' : e \in Scanned \/ (Directed(e) /\ (NightScans \/ ~overnight)),
           \A q \in Requests : tx'[q] = tx[q] \/ \E t : tx'[q] = t /\ Ready(t)'
    PROVE  SummaryInv'
<1>1. overnight' = overnight /\ NightScans' = NightScans
  BY DEF Quiet, NightScans, Asked, overnight
<1>2. now \in Nat
  BY DEF IngestInv, ScannedInv
<1>3. Begun(punches)'
  <2>1. PICK P : P = punches
    OBVIOUS
  <2>2. Begun(P)'
    BY <1>2, <2>1, BegunStays DEF Quiet, SummaryInv
  <2> QED BY <2>1, <2>2 DEF Begun, Quiet
<1>4. ASSUME NEW q \in Requests PROVE Decided(tx[q])' /\ OwnPunches(tx[q])' /\ Computed(tx[q])'
  <2>1. PICK t : t = tx[q]
    OBVIOUS
  <2>2. Ready(t)
    BY <2>1 DEF SummaryInv, Ready
  <2>3. CASE tx'[q] = tx[q]
    BY <1>2, <2>1, <2>2, <2>3, ReadyStays, ReadyThen
  <2> QED BY <2>3, ReadyThen
<1>5. summary' = [d \in Days |-> summary'[d]] /\ \A d \in Days : Figures(summary[d])'
  BY DEF SummaryInv, Quiet, Figures
<1>6. NightScans' \/ SummaryMatchesPunches'
  BY <1>1, MatchStays DEF SummaryInv
<1>7. ~NightScans' /\ overnight' => Scanned' = {}
  BY <1>1 DEF SummaryInv
<1>8. \A e \in Scanned' : Directed(e)
  BY DEF SummaryInv
<1> QED BY <1>3, <1>4, <1>5, <1>6, <1>7, <1>8 DEF SummaryInv, Directed

(* A handler that has no punches of its own and computed nothing yet.      *)
LEMMA PlainReady ==
    ASSUME NEW t, t.own = {}, t.op \notin {"signIn", "signOut", "approve", "withdraw", "reject"},
           t.pc \notin {"load", "save", "decide"},
           t.op \in IngestOps => NightScans \/ ~overnight
    PROVE  Ready(t)
BY DEF Ready, Decided, OwnPunches, Computed, Begun

(* One handler goes on.                                                    *)
LEMMA OneGoesOn ==
    ASSUME IngestInv, SummaryInv, NEW r \in Requests, NEW t, Continue(r, t), Ready(t),
           request' = request, Scanned' \subseteq Scanned
    PROVE  SummaryInv'
<1>1. now \in Nat
  BY DEF IngestInv, ScannedInv
<1>2. Quiet
  BY <1>1 DEF Continue, Quiet, RequestsStay
<1>3. Ready(t)'
  BY <1>1, <1>2, ReadyStays
<1>4. \A q \in Requests : tx'[q] = IF q = r THEN t ELSE tx[q]
  BY DEF Continue, IngestInv, Shapes
<1>5. RequestsBegun'
  BY DEF RequestsBegun, SummaryInv, Continue, Today
<1> QED BY <1>2, <1>3, <1>4, <1>5, QuietSummary

LEMMA TimeOfDay ==
    ASSUME NEW d \in Nat, NEW x \in 0 .. DayLength - 1
    PROVE  d * DayLength + x \in Nat /\ DayOf(d * DayLength + x) = d
<1>1. DayLength \in Nat /\ DayLength > 0
  BY DayLengthAssumption
<1> DEFINE n == d * DayLength + x
           q == n \div DayLength
<1>2. d * DayLength \in Nat
  BY <1>1
<1>3. n \in Nat
  BY <1>1, <1>2
<1>4. q \in Nat /\ n = q * DayLength + (n % DayLength) /\ n % DayLength \in 0 .. DayLength - 1
  BY <1>1, <1>3
<1>5. q * DayLength \in Nat
  BY <1>1, <1>4
<1> HIDE DEF q
<1>6. q * DayLength < d * DayLength + DayLength /\ d * DayLength < q * DayLength + DayLength
  BY <1>1, <1>2, <1>4, <1>5
<1>7. (d + 1) * DayLength = d * DayLength + DayLength /\ (q + 1) * DayLength = q * DayLength + DayLength
  BY <1>1, <1>4
<1>8. ASSUME q > d PROVE FALSE
  <2>1. q * DayLength >= (d + 1) * DayLength
    BY <1>1, <1>4, <1>8
  <2> QED BY <1>1, <1>2, <1>5, <1>6, <1>7, <2>1
<1>9. ASSUME d > q PROVE FALSE
  <2>1. d * DayLength >= (q + 1) * DayLength
    BY <1>1, <1>4, <1>9
  <2> QED BY <1>1, <1>2, <1>5, <1>6, <1>7, <2>1
<1>10. q = d
  BY <1>4, <1>8, <1>9
<1> QED BY <1>3, <1>10 DEF DayOf, q

(* What the sign-in and the sign-out find.                                 *)
LEMMA OpenToday ==
    ASSUME IngestInv, Begun(punches)
    PROVE  /\ Today \in Nat
           /\ NoneAfter(Today)
           /\ ~HasOpen(punches, NoDay, overnight)
<1>1. Timed(punches) /\ Ins(punches) \subseteq Nat
  BY BegunIsTimed, InstantsAreTimes
<1>2. Today \in Nat
  BY DaysGoOn DEF IngestInv, ScannedInv, Today
<1>3. NoneAfter(Today)
  BY DEF NoneAfter, Begun, Ins
<1>4. \A i \in Ins(punches) : DayOf(i) # NoDay
  BY <1>1, DaysGoOn DEF NoDay
<1>5. ~HasOpen(punches, NoDay, overnight)
  BY <1>1, <1>4, OpenIs, WindowsHave
<1> QED BY <1>2, <1>3, <1>5

LEMMA SignInReady ==
    ASSUME IngestInv, SummaryInv, findOpenSessionContext(punches, Today, overnight) = NoDay
    PROVE  Ready(Handler("signIn", "punch", None, Today))
<1>1. Begun(punches)
  BY DEF SummaryInv
<1>2. Today \in Nat /\ ~HasOpen(punches, NoDay, overnight)
  BY <1>1, OpenToday
<1>3. ~HasOpen(punches, Today, overnight)
  BY <1>2 DEF findOpenSessionContext, NoDay
<1>4. FoundClosed(Today)
  <2> SUFFICES ASSUME overnight PROVE ~HasOpen(punches, Today - 1, overnight)
    BY DEF FoundClosed
  <2>1. CASE HasOpen(punches, Today - 1, overnight)
    <3>1. Today - 1 = NoDay
      BY <1>3, <2>1 DEF findOpenSessionContext
    <3> QED BY <1>2, <2>1, <3>1
  <2> QED BY <2>1
<1> DEFINE t == Handler("signIn", "punch", None, Today)
<1>5. t.op = "signIn" /\ t.pc = "punch" /\ t.day = Today /\ t.own = {}
  BY HandlerFields
<1> HIDE DEF t
<1>6. Ready(t)
  BY <1>4, <1>5 DEF Ready, Decided, OwnPunches, Computed, Begun, IngestOps
<1> QED BY <1>6 DEF t

LEMMA SignOutReady ==
    ASSUME IngestInv, SummaryInv, NEW day, day = findOpenSessionContext(punches, Today, overnight),
           day # NoDay
    PROVE  Ready(Handler("signOut", "punch", None, day))
<1>1. Begun(punches)
  BY DEF SummaryInv
<1>2. Today \in Nat /\ NoneAfter(Today)
  BY <1>1, OpenToday
<1>3. \/ day = Today /\ HasOpen(punches, Today, overnight)
      \/ /\ overnight /\ day = Today - 1 /\ HasOpen(punches, Today - 1, overnight)
         /\ ~HasOpen(punches, Today, overnight)
  BY DEF findOpenSessionContext
<1>4. FoundOpen(day)
  <2>1. CASE day = Today /\ HasOpen(punches, Today, overnight)
    BY <1>2, <2>1 DEF FoundOpen
  <2>2. CASE /\ overnight /\ day = Today - 1 /\ HasOpen(punches, Today - 1, overnight)
             /\ ~HasOpen(punches, Today, overnight)
    <3>1. day + 1 = Today
      <4>1. Today \in Nat
        BY <1>2
      <4>2. day = Today - 1
        BY <2>2
      <4> QED BY <4>1, <4>2
    <3>2. NoneAfter(day + 1) /\ ~HasOpen(punches, day + 1, overnight)
      <4>1. ~HasOpen(punches, Today, overnight)
        BY <2>2
      <4> QED BY <1>2, <3>1, <4>1, Zenon
    <3>3. HasOpen(punches, day, overnight)
      BY <2>2, Zenon
    <3> QED BY <2>2, <3>2, <3>3, Zenon DEF FoundOpen
  <2> QED BY <1>3, <2>1, <2>2
<1> DEFINE t == Handler("signOut", "punch", None, day)
<1>5. t.op = "signOut" /\ t.pc = "punch" /\ t.day = day /\ t.own = {}
  BY HandlerFields
<1> HIDE DEF t
<1>6. Ready(t)
  BY <1>4, <1>5 DEF Ready, Decided, OwnPunches, Computed, Begun, IngestOps
<1> QED BY <1>6 DEF t

(* What is computed is a summary.                                          *)
LEMMA SummaryFigures == \A pairs : Figures(SummaryOf(pairs))
<1> SUFFICES ASSUME NEW pairs PROVE Figures(SummaryOf(pairs))
  OBVIOUS
<1>1. \E a, b, c, e : SummaryOf(pairs) = [exists |-> a, firstIn |-> b, lastOut |-> c, worked |-> e]
  BY DEF SummaryOf
<1>2. ASSUME NEW a, NEW b, NEW c, NEW e PROVE Figures([exists |-> a, firstIn |-> b, lastOut |-> c, worked |-> e])
  BY DEF Figures, Columns
<1> QED BY <1>1, <1>2

(* The web requests, but for the commit.                                   *)
LEMMA WebQuiet ==
    ASSUME IngestInv, SummaryInv, NEW r \in Requests, UNCHANGED <<request, devVars>>,
           \/ signIn(r) \/ signOut(r) \/ WebPunch(r) \/ Snapshot(r) \/ LoadSummary(r)
           \/ \E d \in Days : getDayDetail(r, d)
    PROVE  SummaryInv'
<1>1. request' = request /\ Scanned' = Scanned
  BY DEF devVars, Scanned
<1>2. /\ Shape(tx[r]) /\ Work(r) /\ now \in Nat
      /\ tx = [q \in Requests |-> tx[q]]
      /\ Decided(tx[r]) /\ OwnPunches(tx[r]) /\ Computed(tx[r])
  BY DEF IngestInv, Shapes, ScannedInv, SummaryInv
<1>3. ASSUME NEW t, Continue(r, t), Ready(t) PROVE SummaryInv'
  BY <1>1, <1>3, OneGoesOn
<1>4. CASE signIn(r)
  <2>1. Ready(Handler("signIn", "punch", None, Today))
    BY <1>4, SignInReady DEF signIn
  <2> QED BY <1>3, <1>4, <2>1 DEF signIn, Begin
<1>5. CASE signOut(r)
  <2>1. PICK day : day = findOpenSessionContext(punches, Today, overnight)
    OBVIOUS
  <2>2. Ready(Handler("signOut", "punch", None, day))
    BY <1>5, <2>1, SignOutReady DEF signOut
  <2> QED BY <1>3, <1>5, <2>1, <2>2 DEF signOut, Begin
<1>6. ASSUME NEW d \in Days, getDayDetail(r, d) PROVE SummaryInv'
  <2> DEFINE t == Handler("view", "snapshot", None, d)
  <2>1. t.op = "view" /\ t.pc = "snapshot" /\ t.own = {}
    BY HandlerFields
  <2>2. Continue(r, t)
    BY <1>6 DEF getDayDetail, Begin
  <2> HIDE DEF t
  <2>3. Ready(t)
    BY <2>1, PlainReady DEF IngestOps
  <2> QED BY <1>3, <2>2, <2>3
<1>7. CASE WebPunch(r)
  <2>1. CASE Abort(r)
    BY <1>3, <2>1, NoTxFields, PlainReady DEF Abort, IngestOps
  <2>2. CASE ~Abort(r)
    <3> DEFINE type == IF tx[r].op = "signIn" THEN "IN" ELSE "OUT"
               p == Punch(now, type, "WEB", None)
               t == [tx[r] EXCEPT !.pc = "snapshot", !.own = {p}]
    <3>1. /\ tx[r].pc = "punch" /\ tx[r].op \in {"signIn", "signOut"}
          /\ now' = now + 1 /\ tx' = [tx EXCEPT ![r] = t]
          /\ UNCHANGED <<scenario, punches, summary, behind, tangled>>
      BY <1>7, <2>2 DEF WebPunch
    <3>2. /\ t.op = tx[r].op /\ t.pc = "snapshot" /\ t.own = {p} /\ t.day = tx[r].day
          /\ t.missed = tx[r].missed
      BY <1>2 DEF Shape
    <3>3. p.at = now /\ p.type = type
      BY DEF Punch
    <3>4. \A q \in Requests : tx'[q] = IF q = r THEN t ELSE tx[q]
      BY <1>2, <3>1
    <3> HIDE DEF t, p
    <3>5. Quiet
      BY <1>1, <1>2, <3>1 DEF Quiet, RequestsStay
    <3>6. Ready(t)
      <4>1. Decided(t)
        BY <1>2, <3>1, <3>2, <3>3 DEF Decided
      <4>2. Begun(t.own)
        BY <1>2, <3>2, <3>3, DaysGoOn DEF Begun, Today
      <4>3. OwnPunches(t)
        BY <3>1, <3>2, <4>2 DEF OwnPunches, IngestOps
      <4>4. Computed(t)
        BY <3>2 DEF Computed
      <4> QED BY <4>1, <4>3, <4>4 DEF Ready
    <3>7. PICK u : u = t
      OBVIOUS
    <3>9. Ready(u)'
      <4>1. Ready(u)
        BY <3>6, <3>7
      <4> QED BY <1>2, <3>5, <4>1, ReadyStays
    <3>8. RequestsBegun'
      <4>1. ASSUME NEW x \in Nat, DayOf(x) <= Today PROVE DayOf(x) <= Today'
        <5>1. DayOf(now) <= DayOf(now + 1) /\ DayOf(now) \in Nat /\ DayOf(now + 1) \in Nat /\ DayOf(x) \in Nat
          BY <1>2, DaysGoOn
        <5>2. Today = DayOf(now) /\ Today' = DayOf(now + 1)
          BY <3>1 DEF Today
        <5> QED BY <4>1, <5>1, <5>2
      <4> QED BY <1>1, <4>1 DEF SummaryInv, RequestsBegun
    <3> QED BY <1>1, <3>4, <3>5, <3>7, <3>8, <3>9, QuietSummary
  <2> QED BY <2>1, <2>2
<1>8. CASE Snapshot(r)
  <2> DEFINE s == SummaryOf(PairsIn(punches \cup tx[r].own, tx[r].day))
             t == [tx[r] EXCEPT !.pc = "load", !.sum = s]
  <2>1. Continue(r, t) /\ tx[r].pc = "snapshot"
    BY <1>8 DEF Snapshot, PairsIn, Window
  <2>2. /\ t.op = tx[r].op /\ t.pc = "load" /\ t.job = tx[r].job /\ t.own = tx[r].own /\ t.day = tx[r].day
        /\ t.missed = tx[r].missed /\ t.sum = s
    BY <1>2 DEF Shape
  <2> HIDE DEF t
  <2>3. Decided(t)
    BY <1>2, <2>2 DEF Decided
  <2>4. OwnPunches(t)
    BY <1>2, <2>2 DEF OwnPunches
  <2>5. Computed(t)
    BY <2>2, SummaryFigures DEF Computed
  <2> QED BY <1>3, <2>1, <2>3, <2>4, <2>5 DEF Ready
<1>9. CASE LoadSummary(r)
  <2> DEFINE t == [tx[r] EXCEPT !.pc = "save", !.base = summary[tx[r].day]]
  <2>1. Continue(r, t) /\ tx[r].pc = "load"
    BY <1>9 DEF LoadSummary
  <2>2. /\ t.op = tx[r].op /\ t.pc = "save" /\ t.job = tx[r].job /\ t.own = tx[r].own /\ t.day = tx[r].day
        /\ t.missed = tx[r].missed /\ t.sum = tx[r].sum /\ t.base = summary[tx[r].day]
    BY <1>2 DEF Shape
  <2> HIDE DEF t
  <2>3. Decided(t)
    BY <1>2, <2>2 DEF Decided
  <2>4. OwnPunches(t)
    BY <1>2, <2>2 DEF OwnPunches
  <2>5. Computed(t)
    BY <1>2, <2>1, <2>2 DEF Computed
  <2> QED BY <1>3, <2>1, <2>3, <2>4, <2>5 DEF Ready
<1> QED BY <1>4, <1>5, <1>6, <1>7, <1>8, <1>9

(* A request is made, or decided on.                                       *)
LEMMA NewRequest ==
    ASSUME RequestsBegun, now' = now, NEW g \in Regs, NEW new, request' = [request EXCEPT ![g] = new],
           new \in [status : {"NONE", "PENDING", "APPROVED", "REJECTED", "WITHDRAWN"},
                    day : Int, in : Int, out : Int],
           new.in \in Nat /\ new.out \in Nat /\ DayOf(new.in) <= Today /\ new.status # "NONE"
    PROVE  RequestsBegun' /\ RequestsStay
<1>1. \A h \in Regs : request'[h] = IF h = g THEN new ELSE request[h]
  BY DEF RequestsBegun
<1>2. request' \in [Regs -> [status : {"NONE", "PENDING", "APPROVED", "REJECTED", "WITHDRAWN"},
                             day : Int, in : Int, out : Int]]
  BY DEF RequestsBegun
<1>3. Today' = Today
  BY DEF Today
<1> QED BY <1>1, <1>2, <1>3 DEF RequestsBegun, RequestsStay

(* The corrections, but for the commit.                                    *)
LEMMA CorrectionsQuiet ==
    ASSUME IngestInv, SummaryInv, NEW r \in Requests, UNCHANGED devVars,
           \/ \E g \in Regs : approve(r, g) /\ UNCHANGED request
           \/ \E g \in Regs, op \in DOMAIN Outcome : decide(r, g, op) /\ UNCHANGED request
           \/ \E g \in Regs, d \in Days, time \in Times : create(r, g, d, time)
           \/ applyRegularizationPunches(r) /\ UNCHANGED request
           \/ SaveDecision(r)
    PROVE  SummaryInv'
<1>1. Scanned' = Scanned
  BY DEF devVars, Scanned
<1>2. /\ Shape(tx[r]) /\ Work(r) /\ now \in Nat
      /\ tx = [q \in Requests |-> tx[q]]
      /\ Decided(tx[r]) /\ OwnPunches(tx[r]) /\ Computed(tx[r])
      /\ RequestsBegun
  BY DEF IngestInv, Shapes, ScannedInv, SummaryInv
<1>3. ASSUME NEW t, Continue(r, t), Ready(t), UNCHANGED request PROVE SummaryInv'
  BY <1>1, <1>3, OneGoesOn
<1>4. ASSUME NEW g \in Regs, approve(r, g), UNCHANGED request PROVE SummaryInv'
  <2> DEFINE t == Handler("approve", "apply", g, request[g].day)
  <2>1. t.op = "approve" /\ t.pc = "apply" /\ t.own = {} /\ t.job = g
    BY HandlerFields
  <2>2. Continue(r, t) /\ request[g].status # "NONE"
    BY <1>4 DEF approve, Begin
  <2> HIDE DEF t
  <2>3. Ready(t)
    BY <2>1, <2>2 DEF Ready, Decided, OwnPunches, Computed, Begun, IngestOps
  <2> QED BY <1>3, <1>4, <2>2, <2>3
<1>5. ASSUME NEW g \in Regs, NEW op \in DOMAIN Outcome, decide(r, g, op), UNCHANGED request
      PROVE SummaryInv'
  <2> DEFINE t == Handler(op, "decide", g, request[g].day)
  <2>1. t.op = op /\ t.pc = "decide" /\ t.own = {} /\ t.job = g /\ op \in {"withdraw", "reject"}
    BY HandlerFields DEF Outcome
  <2>2. Continue(r, t) /\ request[g].status # "NONE"
    BY <1>5 DEF decide, Begin
  <2> HIDE DEF t
  <2>3. Ready(t)
    BY <2>1, <2>2 DEF Ready, Decided, OwnPunches, Computed, Begun, IngestOps
  <2> QED BY <1>3, <1>5, <2>2, <2>3
<1>6. ASSUME applyRegularizationPunches(r), UNCHANGED request PROVE SummaryInv'
  <2>1. CASE Abort(r)
    BY <1>3, <1>6, <2>1, NoTxFields, PlainReady DEF Abort, IngestOps
  <2>2. CASE ~Abort(r)
    <3> DEFINE t == [tx[r] EXCEPT !.pc = "snapshot", !.own = RequestedPunches(r, tx[r].job)]
    <3>1. Continue(r, t) /\ tx[r].pc = "apply"
      BY <1>6, <2>2 DEF applyRegularizationPunches
    <3>2. t.op = tx[r].op /\ t.pc = "snapshot" /\ t.own = RequestedPunches(r, tx[r].job) /\ t.job = tx[r].job
      BY <1>2 DEF Shape
    <3>3. tx[r].op \in {"approve", "withdraw", "reject"}
      BY <1>2, <3>1 DEF Work, Runs, Inserting
    <3> HIDE DEF t
    <3>4. tx[r].job \in Regs /\ request[tx[r].job].status # "NONE"
      BY <1>2, <3>3 DEF OwnPunches
    <3>5. Begun(t.own)
      BY <1>2, <3>2, <3>4 DEF Begun, RequestedPunches, Punch, RequestsBegun
    <3>6. Ready(t)
      BY <3>2, <3>3, <3>4, <3>5 DEF Ready, Decided, OwnPunches, Computed, IngestOps
    <3> QED BY <1>3, <1>6, <3>1, <3>6
  <2> QED BY <2>1, <2>2
<1>7. ASSUME SaveDecision(r) PROVE SummaryInv'
  <2>1. PICK g : g = tx[r].job
    OBVIOUS
  <2>2. PICK s : s = Outcome[tx[r].op]
    OBVIOUS
  <2>3. /\ tx[r].pc = "decide" /\ request' = [request EXCEPT ![g].status = s]
        /\ tx' = [tx EXCEPT ![r] = NoTx]
        /\ UNCHANGED <<scenario, now, punches, summary, behind, tangled>>
    BY <1>7, <2>1, <2>2 DEF SaveDecision
  <2>4. s \in {"WITHDRAWN", "REJECTED"}
    BY <1>2, <2>2, <2>3 DEF OwnPunches, Outcome
  <2>5. g \in Regs /\ request[g].status # "NONE"
    BY <1>2, <2>1, <2>3 DEF OwnPunches
  <2>6. PICK row : row = request[g]
    OBVIOUS
  <2>7. /\ row \in [status : {"NONE", "PENDING", "APPROVED", "REJECTED", "WITHDRAWN"},
                    day : Int, in : Int, out : Int]
        /\ row.in \in Nat /\ row.out \in Nat /\ DayOf(row.in) <= Today
    BY <1>2, <2>5, <2>6 DEF RequestsBegun
  <2>8. request' = [request EXCEPT ![g] = [row EXCEPT !.status = s]]
    BY <2>3, <2>6
  <2>9. PICK new : new = [row EXCEPT !.status = s]
    OBVIOUS
  <2>10. /\ new \in [status : {"NONE", "PENDING", "APPROVED", "REJECTED", "WITHDRAWN"},
                     day : Int, in : Int, out : Int]
         /\ new.status = s /\ new.in = row.in /\ new.out = row.out
    BY <2>4, <2>7, <2>9
  <2>11. new.in \in Nat /\ new.out \in Nat /\ DayOf(new.in) <= Today /\ new.status # "NONE"
    BY <2>4, <2>7, <2>10
  <2>12. request' = [request EXCEPT ![g] = new]
    BY <2>8, <2>9
  <2>13. RequestsBegun' /\ RequestsStay
    BY <1>2, <2>3, <2>5, <2>10, <2>11, <2>12, NewRequest
  <2>14. \A q \in Requests : tx'[q] = IF q = r THEN NoTx ELSE tx[q]
    BY <1>2, <2>3
  <2>15. Ready(NoTx)
    BY NoTxFields, PlainReady DEF IngestOps
  <2>16. Quiet
    BY <1>2, <2>3, <2>13 DEF Quiet
  <2>17. Ready(NoTx)'
    BY <1>2, <2>15, <2>16, ReadyStays
  <2> QED BY <1>1, <2>13, <2>14, <2>16, <2>17, QuietSummary
<1>8. ASSUME NEW g \in Regs, NEW d \in Days, NEW time \in Times, create(r, g, d, time) PROVE SummaryInv'
  <2>1. PICK outDay \in OutDays(time, d) \cap Days :
            request' = [request EXCEPT ![g] = Row(d, d * DayLength + time.in,
                                                 outDay * DayLength + time.out)]
    BY <1>8 DEF create
  <2>2. d \in Nat /\ outDay \in Nat /\ d <= Today
    BY <1>8, AttendanceAssumption DEF create, Days
  <2>3. time.in \in 0 .. DayLength - 1 /\ time.out \in 0 .. DayLength - 1
    BY RegularizationAssumption
  <2>4. PICK in \in Nat : in = d * DayLength + time.in /\ DayOf(in) = d
    BY <2>2, <2>3, TimeOfDay
  <2>5. PICK out \in Nat : out = outDay * DayLength + time.out
    BY <2>2, <2>3, TimeOfDay
  <2>6. PICK new : new = Row(d, in, out)
    OBVIOUS
  <2>7. /\ new \in [status : {"NONE", "PENDING", "APPROVED", "REJECTED", "WITHDRAWN"},
                     day : Int, in : Int, out : Int]
         /\ new.status = "PENDING" /\ new.in = in /\ new.out = out
    BY <2>2, <2>6 DEF Row
  <2>8. request' = [request EXCEPT ![g] = new]
    BY <2>1, <2>4, <2>5, <2>6
  <2>9. UNCHANGED <<scenario, now, punches, summary, tx, behind>>
    BY <1>8 DEF create, attVars
  <2>10. new.in \in Nat /\ new.out \in Nat /\ DayOf(new.in) <= Today /\ new.status # "NONE"
    BY <2>2, <2>4, <2>7
  <2>11. RequestsBegun' /\ RequestsStay
    BY <1>2, <2>7, <2>8, <2>9, <2>10, NewRequest
  <2>12. Quiet
    BY <1>2, <2>9, <2>11 DEF Quiet
  <2> QED BY <1>1, <2>9, <2>11, <2>12, QuietSummary
<1> QED BY <1>4, <1>5, <1>6, <1>7, <1>8

-----------------------------------------------------------------------------
(* The device and the conversions, but for the commit.                     *)
LEMMA PcReady ==
    ASSUME NEW t, NEW u, Ready(t), u.pc \notin {"load", "save", "decide"},
           u.op = t.op, u.job = t.job, u.day = t.day, u.own = t.own, u.missed = t.missed
    PROVE  Ready(u)
BY DEF Ready, Decided, OwnPunches, Computed

LEMMA IngestQuiet ==
    ASSUME IngestInv, SummaryInv, NEW r \in Requests, UNCHANGED request,
           \/ push(r) \/ Answer(r) \/ NextEvent(r) \/ QueueFind(r) \/ QueueSave(r) \/ Dedupe(r)
           \/ SavePunch(r) \/ FailEvent(r) \/ ListOpen(r) \/ NextRow(r) \/ SaveRow(r)
           \/ \E id \in Rows : ignoreUnmapped(r, id) \/ resolveUnmapped(r, id)
    PROVE  SummaryInv'
<1>1. /\ Shape(tx[r]) /\ Work(r) /\ ScannedInv /\ QueueInv /\ Ready(tx[r])
      /\ tx[r].op \in IngestOps => NightScans \/ ~overnight
  BY DEF IngestInv, Shapes, SummaryInv, OwnPunches, Ready
<1>2. Scanned # {} => NightScans \/ ~overnight
  BY DEF SummaryInv
<1>3. ASSUME NEW t, Continue(r, t), Ready(t), UNCHANGED <<buffer, acked>> PROVE SummaryInv'
  BY <1>3, OneGoesOn DEF Scanned
<1>4. ASSUME NEW op, NEW pc, NEW job, Continue(r, Handler(op, pc, job, NoDay)),
             op \in IngestOps \cup {"ignore"}, pc \notin {"load", "save", "decide"},
             op \in IngestOps => NightScans \/ ~overnight, UNCHANGED <<buffer, acked>>
      PROVE  SummaryInv'
  <2>1. PICK t : t = Handler(op, pc, job, NoDay)
    OBVIOUS
  <2>2. t.op = op /\ t.pc = pc /\ t.own = {}
    BY <2>1, HandlerFields
  <2>3. Ready(t)
    BY <1>4, <2>2, PlainReady DEF IngestOps
  <2> QED BY <1>3, <1>4, <2>1, <2>3
<1>5. ASSUME Abort(r), Scanned' \subseteq Scanned PROVE SummaryInv'
  <2>1. Ready(NoTx)
    BY NoTxFields, PlainReady DEF IngestOps
  <2> QED BY <1>5, <2>1, OneGoesOn DEF Abort
<1>6. ASSUME Continue(r, NextOf(tx[r])), tx[r].op \in IngestOps, UNCHANGED <<buffer, acked>> PROVE SummaryInv'
  BY <1>1, <1>4, <1>6 DEF NextOf
<1>7. ASSUME NEW pc \in {"queueSave", "punch"}, Continue(r, [tx[r] EXCEPT !.pc = pc]), UNCHANGED <<buffer, acked>>
      PROVE  SummaryInv'
  <2>1. PICK t : t = [tx[r] EXCEPT !.pc = pc]
    OBVIOUS
  <2>2. /\ t.op = tx[r].op /\ t.pc = pc /\ t.job = tx[r].job /\ t.day = tx[r].day
        /\ t.own = tx[r].own /\ t.missed = tx[r].missed
    BY <1>1, <2>1 DEF Shape
  <2>3. Ready(t)
    BY <1>1, <1>7, <2>2, PcReady
  <2> QED BY <1>3, <1>7, <2>1, <2>3
<1>8. CASE push(r)
  <2>1. Scanned # {}
    BY <1>8 DEF push, Scanned
  <2> QED BY <1>2, <1>4, <1>8, <2>1 DEF push, Begin, IngestOps
<1>9. CASE Answer(r)
  <2>1. batch[r] \subseteq Scanned
    BY <1>1 DEF Work
  <2>2. Scanned' \subseteq Scanned
    BY <1>9, <2>1 DEF Answer, Scanned
  <2> QED BY <1>5, <1>9, <2>2 DEF Answer
<1>10. CASE NextEvent(r)
  BY <1>1, <1>4, <1>10 DEF NextEvent, IngestOps
<1>11. CASE QueueFind(r)
  <2>1. tx[r].op \in IngestOps
    BY <1>1, <1>11 DEF QueueFind, Work, Runs, Inserting, IngestOps
  <2> QED BY <1>6, <1>7, <1>11, <2>1 DEF QueueFind, devVars
<1>12. CASE QueueSave(r)
  <2>1. tx[r].op \in IngestOps
    BY <1>1, <1>12 DEF QueueSave, Work, Runs, Inserting, IngestOps
  <2> QED BY <1>6, <1>12, <2>1 DEF QueueSave
<1>13. CASE Dedupe(r)
  <2>1. tx[r].op \in IngestOps
    BY <1>1, <1>13 DEF Dedupe, Work, Runs, Inserting, IngestOps
  <2> QED BY <1>6, <1>7, <1>13, <2>1 DEF Dedupe, devVars
<1>14. CASE SavePunch(r)
  <2> DEFINE e == Event(tx[r])
             p == Punch(e.at, resolveDevicePunchType(e), "BIOMETRIC", r)
             t == [tx[r] EXCEPT !.pc = "snapshot", !.day = resolveWorkDateForDevicePunch(e.at), !.own = {p}]
  <2>1. tx[r].op \in IngestOps /\ tx[r].pc = "punch" /\ Continue(r, t) /\ UNCHANGED <<buffer, acked>>
    BY <1>14 DEF SavePunch, devVars
  <2>2. /\ t.op = tx[r].op /\ t.pc = "snapshot" /\ t.day = resolveWorkDateForDevicePunch(e.at)
        /\ t.own = {p}
    BY <1>1 DEF Shape
  <2>3. e \in Scanned
    <3>1. CASE tx[r].op = "push"
      BY <1>1, <2>1, <3>1 DEF Work, Event
    <3>2. CASE tx[r].op = "resolve"
      BY <1>1, <2>1, <3>2 DEF Work, Event, QueueInv, Used
    <3> QED BY <2>1, <3>1, <3>2 DEF IngestOps
  <2>4. p.at = e.at /\ p.type = resolveDevicePunchType(e)
    BY DEF Punch
  <2>5. p.type \in {"IN", "OUT"}
    <3>1. e.raw # "OTHER" => e.raw \in {"IN", "OUT"}
      BY <2>3 DEF SummaryInv, Directed
    <3> QED BY <2>4, <3>1 DEF resolveDevicePunchType
  <2>6. e.at \in Nat /\ e.at < now /\ now \in Nat
    BY <1>1, <2>3 DEF ScannedInv
  <2>7. DayOf(e.at) <= Today
    BY <2>6, DaysGoOn DEF Today
  <2> HIDE DEF t, p, e
  <2>8. Begun(t.own)
    BY <2>2, <2>4, <2>5, <2>6, <2>7 DEF Begun
  <2>9. ~NightScans => ~overnight /\ \A q \in t.own : DayOf(q.at) = t.day
    BY <1>1, <2>1, <2>2, <2>4 DEF resolveWorkDateForDevicePunch
  <2>10. Ready(t)
    BY <2>1, <2>2, <2>8, <2>9 DEF Ready, Decided, OwnPunches, Computed, IngestOps
  <2> QED BY <1>3, <2>1, <2>10
<1>15. CASE FailEvent(r)
  <2>1. CASE tx[r].op = "push"
    BY <1>6, <1>15, <2>1 DEF FailEvent
  <2>2. CASE tx[r].op # "push"
    BY <1>5, <1>15, <2>2 DEF FailEvent, Abort, Scanned
  <2> QED BY <2>1, <2>2
<1>16. CASE ListOpen(r)
  <2>1. tx[r].op = "resolve"
    BY <1>1, <1>16 DEF ListOpen, Work, Runs, Inserting
  <2> QED BY <1>1, <1>4, <1>16, <2>1 DEF ListOpen, IngestOps
<1>17. CASE NextRow(r)
  <2>1. tx[r].op = "resolve"
    BY <1>1, <1>17 DEF NextRow, Work, Runs, Inserting
  <2>2. CASE todo[r] = {}
    BY <1>5, <1>17, <2>2 DEF NextRow, Scanned
  <2>3. CASE todo[r] # {}
    BY <1>1, <1>4, <1>17, <2>1, <2>3 DEF NextRow, IngestOps
  <2> QED BY <2>2, <2>3
<1>18. CASE SaveRow(r)
  <2>1. CASE tx[r].op = "resolve"
    BY <1>1, <1>4, <1>18, <2>1 DEF SaveRow, IngestOps
  <2>2. CASE tx[r].op # "resolve"
    BY <1>5, <1>18, <2>2 DEF SaveRow, Abort, Scanned
  <2> QED BY <2>1, <2>2
<1>19. ASSUME NEW id \in Rows, ignoreUnmapped(r, id) PROVE SummaryInv'
  BY <1>4, <1>19 DEF ignoreUnmapped, Begin, devVars, IngestOps
<1>20. ASSUME NEW id \in Rows, resolveUnmapped(r, id) PROVE SummaryInv'
  <2>1. Used(id)
    BY <1>20 DEF resolveUnmapped, Used
  <2>2. Scanned # {}
    BY <1>1, <2>1 DEF QueueInv
  <2> QED BY <1>2, <1>4, <1>20, <2>2 DEF resolveUnmapped, Begin, IngestOps
<1> QED BY <1>8, <1>9, <1>10, <1>11, <1>12, <1>13, <1>14, <1>15, <1>16, <1>17, <1>18, <1>19, <1>20

(* The clock, the device, the mapping of the number, a crash.              *)
LEMMA RequestsBegunStay ==
    ASSUME RequestsBegun, now \in Nat, now' \in Nat, now <= now', request' = request
    PROVE  RequestsBegun' /\ RequestsStay
<1>1. \A x \in Nat : DayOf(x) <= Today => DayOf(x) <= Today'
  BY DaysGoOn DEF Today
<1> QED BY <1>1 DEF RequestsBegun, RequestsStay

LEMMA OthersQuiet ==
    ASSUME IngestInv, SummaryInv, UNCHANGED request,
           \/ NextDay /\ UNCHANGED devVars
           \/ \E type \in EventTypes : scan(type)
           \/ AnswerLost \/ assignBiometricId \/ clearBiometricId \/ Crash
           \/ UNCHANGED <<attVars, devVars>>
    PROVE  SummaryInv'
<1>1. ScannedInv /\ now \in Nat /\ RequestsBegun
  BY DEF IngestInv, ScannedInv, SummaryInv
<1>2. ASSUME UNCHANGED <<scenario, punches, summary, tx, behind>>, now' \in Nat, now <= now',
             \A e \in Scanned' : e \in Scanned \/ (Directed(e) /\ (NightScans \/ ~overnight))
      PROVE  SummaryInv'
  <2>1. RequestsBegun' /\ RequestsStay
    BY <1>1, <1>2, RequestsBegunStay
  <2>2. Quiet
    BY <1>2, <2>1 DEF Quiet
  <2> QED BY <1>2, <2>1, <2>2, QuietSummary
<1>3. CASE NextDay /\ UNCHANGED devVars
  <2>1. now' \in Nat /\ now < now'
    BY <1>1, <1>3, NextDayLater
  <2> QED BY <1>1, <1>2, <1>3, <2>1 DEF NextDay, devVars, Scanned
<1>4. ASSUME NEW type \in EventTypes, scan(type) PROVE SummaryInv'
  <2>1. /\ buffer' = buffer \cup {[at |-> now, raw |-> type]} /\ acked' = acked /\ now' = now + 1
        /\ UNCHANGED <<scenario, punches, summary, tx, behind>>
        /\ Asked("scan")
    BY <1>4 DEF scan
  <2>2. type \in {"IN", "OUT", "OTHER"}
    BY DEF EventTypes
  <2>3. \A e \in Scanned' : e \in Scanned \/ (Directed(e) /\ (NightScans \/ ~overnight))
    BY <2>1, <2>2 DEF Scanned, Directed, NightScans
  <2> QED BY <1>1, <1>2, <2>1, <2>3
<1>5. CASE AnswerLost \/ assignBiometricId \/ clearBiometricId \/ UNCHANGED <<attVars, devVars>>
  <2>1. UNCHANGED <<scenario, now, punches, summary, tx, behind, buffer, acked>>
    BY <1>5 DEF AnswerLost, assignBiometricId, clearBiometricId, attVars, devVars
  <2> QED BY <1>1, <1>2, <2>1 DEF Scanned
<1>6. CASE Crash
  <2>1. UNCHANGED <<scenario, now, punches, summary, behind, buffer, acked>> /\ tx' = [r \in Requests |-> NoTx]
    BY <1>6 DEF Crash
  <2>2. RequestsBegun' /\ RequestsStay
    BY <1>1, <2>1, RequestsBegunStay
  <2>3. Quiet
    BY <1>1, <2>1, <2>2 DEF Quiet
  <2>4. Ready(NoTx)
    BY NoTxFields, PlainReady DEF IngestOps
  <2>5. Ready(NoTx)'
    BY <1>1, <2>3, <2>4, ReadyStays
  <2> QED BY <2>1, <2>2, <2>3, <2>5, QuietSummary DEF Scanned
<1> QED BY <1>3, <1>4, <1>5, <1>6

-----------------------------------------------------------------------------
(* The commits.                                                            *)

(* Whoever has not missed the commit is not disturbed by it.               *)
LEMMA OthersNotLate ==
    ASSUME IngestInv, SummaryInv, NEW r \in Requests, NEW next, CommitPunches(r, next),
           RequestsStay, NEW q \in Requests \ {r}
    PROVE  Decided(tx[q])' /\ OwnPunches(tx[q])' /\ Computed(tx[q])'
<1>1. PICK c : c = tx[r]
  OBVIOUS
<1>2. PICK u : u = tx[q]
  OBVIOUS
<1>3. PICK late : late = Late(q, c)
  OBVIOUS
<1>4. PICK v : v = [u EXCEPT !.missed = @ \cup late]
  OBVIOUS
<1>5. /\ c.pc = "save" /\ punches' = punches \cup c.own
      /\ summary' = [summary EXCEPT ![c.day] = SavedSummary(c)]
      /\ UNCHANGED <<scenario, now>>
      /\ tx'[q] = v
  BY <1>1, <1>2, <1>3, <1>4 DEF CommitPunches, Overtaken
<1>6. /\ Shape(u) /\ Runs(u) /\ Decided(u) /\ OwnPunches(u) /\ Computed(u)
  BY <1>2 DEF IngestInv, Shapes, SummaryInv, Work
<1>7. /\ v.op = u.op /\ v.pc = u.pc /\ v.job = u.job /\ v.day = u.day /\ v.own = u.own
      /\ v.sum = u.sum /\ v.base = u.base /\ v.missed = u.missed \cup late
  BY <1>4, <1>6 DEF Shape
<1>8. overnight' = overnight /\ NightScans' = NightScans /\ Today' = Today
  BY <1>5 DEF overnight, NightScans, Asked, Today
<1>9. Decided(v)'
  <2>1. ASSUME v.op \in {"signIn", "signOut"}, "check" \notin v.missed
        PROVE  "check" \notin u.missed /\ punches' = punches
    <3>1. u.pc # "idle"
      BY <1>6, <1>7, <2>1 DEF Runs, Inserting
    <3>2. c.own = {}
      BY <1>2, <1>3, <1>7, <2>1, <3>1 DEF Late
    <3> QED BY <1>5, <1>7, <2>1, <3>2
  <2>2. ASSUME v.op = "signIn", "check" \notin v.missed PROVE FoundClosed(v.day)'
    <3>1. punches' = punches /\ FoundClosed(u.day)
      BY <1>6, <1>7, <2>1, <2>2 DEF Decided
    <3> QED BY <1>7, <1>8, <3>1 DEF FoundClosed
  <2>3. ASSUME v.op = "signOut", "check" \notin v.missed PROVE FoundOpen(v.day)'
    <3>1. punches' = punches /\ FoundOpen(u.day)
      BY <1>6, <1>7, <2>1, <2>3 DEF Decided
    <3> QED BY <1>7, <1>8, <3>1 DEF FoundOpen, NoneAfter
  <2> QED BY <1>6, <1>7, <2>2, <2>3 DEF Decided
<1>10. OwnPunches(v)'
  BY <1>6, <1>7, <1>8 DEF OwnPunches, Begun, RequestsStay
<1>11. Computed(v)'
  <2>1. ASSUME "snapshot" \notin v.missed, v.pc \in {"load", "save"}
        PROVE  /\ v.sum = SummaryOf(PairsIn(punches \cup v.own, v.day))'
               /\ v.pc = "save" /\ v.day \in Days => v.base = summary'[v.day]
    <3>1. "snapshot" \notin u.missed /\ u.day # c.day /\ getPunchesForDay(c.own, u.day, overnight) = {}
      BY <1>2, <1>3, <1>7, <2>1 DEF Late
    <3>2. getPunchesForDay((punches \cup c.own) \cup u.own, u.day, overnight)
            = getPunchesForDay(punches \cup u.own, u.day, overnight)
      BY <3>1 DEF getPunchesForDay
    <3>3. PairsIn(punches \cup v.own, v.day)' = PairsIn(punches \cup u.own, u.day)
      BY <1>5, <1>7, <1>8, <3>2 DEF PairsIn, Window
    <3>4. v.sum = SummaryOf(PairsIn(punches \cup u.own, u.day))
      BY <1>6, <1>7, <2>1, <3>1 DEF Computed
    <3>5. ASSUME v.pc = "save", v.day \in Days PROVE v.base = summary'[v.day]
      <4>1. summary'[v.day] = summary[v.day]
        BY <1>5, <1>7, <3>1, <3>5 DEF SummaryInv
      <4> QED BY <1>6, <1>7, <3>1, <3>5, <4>1 DEF Computed
    <3> QED BY <3>3, <3>4, <3>5
  <2> QED BY <1>6, <1>7, <2>1 DEF Computed
<1>12. Ready(v)'
  BY <1>9, <1>10, <1>11 DEF Ready
<1> QED BY <1>5, <1>12, ReadyThen

(* What is saved is the summary, or keeps its columns.                     *)
LEMMA SavedFigures ==
    ASSUME NEW row, NEW sum, NEW base, Figures(row)
    PROVE  /\ Figures(SaveOver(row, sum, base))
           /\ Figures(sum) /\ base = row => SaveOver(row, sum, base) = sum
<1>1. DOMAIN row = Columns
  BY DEF Figures
<1>2. SaveOver(row, sum, base) = [col \in Columns |-> IF sum[col] # base[col] THEN sum[col] ELSE row[col]]
  BY <1>1 DEF SaveOver
<1>3. Figures(SaveOver(row, sum, base))
  BY <1>2 DEF Figures
<1>4. ASSUME Figures(sum), base = row PROVE SaveOver(row, sum, base) = sum
  <2>1. \A col \in Columns : (IF sum[col] # base[col] THEN sum[col] ELSE row[col]) = sum[col]
    BY <1>4
  <2> QED BY <1>2, <1>4, <2>1 DEF Figures
<1> QED BY <1>3, <1>4

(* A handler that commits leaves the summaries as they should be.          *)
LEMMA CommitSummary ==
    ASSUME IngestInv, SummaryInv, NEW r \in Requests, NEW t, CommitPunches(r, t),
           tx[r].op \in {"signIn", "signOut", "view", "approve"} \cup IngestOps,
           t.own = {}, t.op \notin {"signIn", "signOut", "approve", "withdraw", "reject"},
           t.pc \notin {"load", "save", "decide"},
           t.op \in IngestOps => NightScans \/ ~overnight,
           RequestsBegun', RequestsStay, Scanned' = Scanned
    PROVE  SummaryInv'
<1>1. PICK c : c = tx[r]
  OBVIOUS
<1>2. /\ c.pc = "save" /\ ~Conflicts(c) /\ punches' = punches \cup c.own
      /\ summary' = [summary EXCEPT ![c.day] = SavedSummary(c)]
      /\ behind' = [d \in Days |-> IF d = c.day THEN "snapshot" \in c.missed
                                   ELSE behind[d] \/ Elsewhere(c, d)]
      /\ UNCHANGED <<scenario, now>>
  BY <1>1 DEF CommitPunches
<1>3. /\ Begun(punches) /\ OwnPunches(c) /\ Computed(c) /\ Figures(c.sum)
      /\ summary = [d \in Days |-> summary[d]]
      /\ \A d \in Days : Figures(summary[d])
  BY <1>1, <1>2 DEF SummaryInv, Computed
<1>4. overnight' = overnight /\ NightScans' = NightScans /\ Today' = Today
  BY <1>2 DEF overnight, NightScans, Asked, Today
<1>5. Begun(punches)'
  BY <1>2, <1>3, <1>4 DEF Begun, OwnPunches
<1>6. ASSUME NEW q \in Requests PROVE Decided(tx[q])' /\ OwnPunches(tx[q])' /\ Computed(tx[q])'
  <2>1. CASE q = r
    <3>1. tx'[q] = t
      BY <2>1 DEF CommitPunches, Overtaken
    <3>2. Ready(t)'
      BY <1>4 DEF Ready, Decided, OwnPunches, Computed, Begun
    <3> QED BY <3>1, <3>2, ReadyThen
  <2>2. CASE q # r
    BY <2>2, OthersNotLate
  <2> QED BY <2>1, <2>2
<1>7. \A d \in Days : summary'[d] = IF d = c.day THEN SavedSummary(c) ELSE summary[d]
  BY <1>2, <1>3
<1>8. summary' = [d \in Days |-> summary'[d]]
  BY <1>2, <1>3
<1>9. c.day \in Days => Figures(SavedSummary(c))
  BY <1>3, SavedFigures DEF SavedSummary
<1>10. \A d \in Days : Figures(summary[d])'
  <2>1. \A d \in Days : Figures(summary'[d])
    BY <1>3, <1>7, <1>9
  <2> QED BY <2>1 DEF Figures
<1>11. ASSUME ~NightScans, NEW d \in Days, ~behind'[d],
              summary'[d].exists \/ PairsIn(punches', d) # {}
       PROVE  summary'[d] = SummaryOf(PairsIn(punches', d))
  <2>1. CASE d = c.day
    <3>1. "snapshot" \notin c.missed
      BY <1>2, <1>11, <2>1
    <3>2. c.sum = SummaryOf(PairsIn(punches', d)) /\ c.base = summary[d]
      BY <1>2, <1>3, <2>1, <3>1 DEF Computed
    <3>3. SavedSummary(c) = c.sum
      BY <1>3, <2>1, <3>2, SavedFigures DEF SavedSummary
    <3> QED BY <1>7, <2>1, <3>2, <3>3
  <2>2. CASE d # c.day
    <3>1. ~behind[d] /\ ~Elsewhere(c, d) /\ summary'[d] = summary[d]
      BY <1>2, <1>7, <1>11, <2>2
    <3>2. PairsIn(punches \cup c.own, d) = PairsIn(punches, d)
      BY <1>1, <1>11, <2>2, <3>1, NothingElsewhere
    <3>3. PairsIn(punches', d) = PairsIn(punches, d)
      BY <1>2, <3>2
    <3>4. SummaryMatchesPunches
      BY <1>11 DEF SummaryInv
    <3> QED BY <1>11, <3>1, <3>3, <3>4 DEF SummaryMatchesPunches, PairsIn, Window
  <2> QED BY <2>1, <2>2
<1>12. NightScans' \/ SummaryMatchesPunches'
  BY <1>4, <1>11 DEF SummaryMatchesPunches, PairsIn, Window
<1>13. /\ ~NightScans' /\ overnight' => Scanned' = {}
       /\ \A e \in Scanned' : Directed(e)
  BY <1>4 DEF SummaryInv
<1> QED BY <1>5, <1>6, <1>8, <1>10, <1>12, <1>13 DEF SummaryInv, Directed

(* The handlers that commit, or fail to.                                   *)
LEMMA CommitsSummarize ==
    ASSUME IngestInv, SummaryInv, NEW r \in Requests,
           \/ SaveSummary(r) /\ UNCHANGED <<request, devVars>>
           \/ SaveApproval(r) /\ UNCHANGED devVars
           \/ SaveSwipe(r) /\ UNCHANGED request
    PROVE  SummaryInv'
<1>1. /\ Shape(tx[r]) /\ Work(r) /\ now \in Nat /\ OwnPunches(tx[r]) /\ RequestsBegun
      /\ tx[r].op \in IngestOps => NightScans \/ ~overnight
  BY DEF IngestInv, Shapes, ScannedInv, SummaryInv, OwnPunches
<1>2. Scanned' = Scanned
  BY DEF SaveSwipe, devVars, Scanned
<1>3. ASSUME Abort(r), UNCHANGED request PROVE SummaryInv'
  <2>1. Ready(NoTx)
    BY NoTxFields, PlainReady DEF IngestOps
  <2> QED BY <1>2, <1>3, <2>1, OneGoesOn DEF Abort
<1>4. ASSUME CommitPunches(r, NoTx), tx[r].op \in {"signIn", "signOut", "view", "approve"},
             RequestsBegun', RequestsStay
      PROVE  SummaryInv'
  BY <1>2, <1>4, NoTxFields, CommitSummary DEF IngestOps
<1>5. ASSUME NEW t, CommitPunches(r, t), UNCHANGED request PROVE RequestsBegun' /\ RequestsStay
  BY <1>1, <1>5, RequestsBegunStay DEF CommitPunches
<1>6. CASE SaveSummary(r) /\ UNCHANGED <<request, devVars>>
  BY <1>3, <1>4, <1>5, <1>6 DEF SaveSummary
<1>7. CASE SaveApproval(r)
  <2>1. CASE ~CommitPunches(r, NoTx)
    BY <1>3, <1>7, <2>1 DEF SaveApproval
  <2>2. CASE CommitPunches(r, NoTx)
    <3>1. tx[r].op = "approve" /\ tx[r].pc = "save"
      BY <1>7, <2>2 DEF SaveApproval, CommitPunches
    <3>2. CASE UNCHANGED request
      BY <1>4, <1>5, <2>2, <3>1, <3>2
    <3>3. CASE request' = [request EXCEPT ![tx[r].job].status = "APPROVED"]
      <4>1. PICK g \in Regs : g = tx[r].job
        BY <1>1, <3>1 DEF OwnPunches
      <4>2. request[g].status # "NONE"
        BY <1>1, <3>1, <4>1 DEF OwnPunches
      <4>3. PICK row : row = request[g]
        OBVIOUS
      <4>4. PICK new : new = [row EXCEPT !.status = "APPROVED"]
        OBVIOUS
      <4>5. /\ row \in [status : {"NONE", "PENDING", "APPROVED", "REJECTED", "WITHDRAWN"},
                        day : Int, in : Int, out : Int]
            /\ row.in \in Nat /\ row.out \in Nat /\ DayOf(row.in) <= Today
        BY <1>1, <4>2, <4>3 DEF RequestsBegun
      <4>6. /\ new \in [status : {"NONE", "PENDING", "APPROVED", "REJECTED", "WITHDRAWN"},
                        day : Int, in : Int, out : Int]
            /\ new.status = "APPROVED" /\ new.in = row.in /\ new.out = row.out
        BY <4>4, <4>5
      <4>7. request' = [request EXCEPT ![g] = new]
        BY <3>3, <4>1, <4>3, <4>4
      <4>8. new.in \in Nat /\ new.out \in Nat /\ DayOf(new.in) <= Today /\ new.status # "NONE"
        BY <4>5, <4>6
      <4>9. now' = now
        BY <2>2 DEF CommitPunches
      <4>10. RequestsBegun' /\ RequestsStay
        BY <1>1, <4>6, <4>7, <4>8, <4>9, NewRequest
      <4> QED BY <1>4, <2>2, <3>1, <4>10
    <3> QED BY <1>7, <3>2, <3>3 DEF SaveApproval
  <2> QED BY <2>1, <2>2
<1>8. CASE SaveSwipe(r) /\ UNCHANGED request
  <2>1. PICK t : t = NextOf(tx[r])
    OBVIOUS
  <2>2. CommitPunches(r, t) /\ tx[r].op \in IngestOps
    BY <1>8, <2>1 DEF SaveSwipe
  <2>3. t.op = tx[r].op /\ t.own = {} /\ t.pc \in {"next", "saveRow"}
    BY <2>1, <2>2, NextFields DEF IngestOps
  <2>4. RequestsBegun' /\ RequestsStay
    BY <1>5, <1>8, <2>2
  <2> QED BY <1>1, <1>2, <2>2, <2>3, <2>4, CommitSummary DEF IngestOps
<1> QED BY <1>6, <1>7, <1>8

LEMMA SummaryInit == Init => SummaryInv
<1> SUFFICES ASSUME Init PROVE SummaryInv
  OBVIOUS
<1>1. /\ tx = [r \in Requests |-> NoTx] /\ punches = {}
      /\ summary = [d \in Days |-> NoSummary]
      /\ request = [g \in Regs |-> NoRequest]
      /\ buffer = {} /\ acked = {}
  BY DEF Init, AttendanceInit, RegInit, DevInit
<1>2. Scanned = {} /\ Begun(punches)
  BY <1>1 DEF Scanned, Begun
<1>3. RequestsBegun
  BY <1>1 DEF RequestsBegun, NoRequest, NoDay, Never
<1>4. summary = [d \in Days |-> summary[d]] /\ \A d \in Days : Figures(summary[d])
  <2>1. Figures(NoSummary)
    BY DEF Figures, NoSummary, Columns
  <2> QED BY <1>1, <2>1
<1>5. \A r \in Requests : Decided(tx[r]) /\ OwnPunches(tx[r]) /\ Computed(tx[r])
  <2>1. Ready(NoTx)
    BY NoTxFields, PlainReady DEF IngestOps
  <2> QED BY <1>1, <2>1 DEF Ready
<1>6. SummaryMatchesPunches
  <2>1. \A d : pairPunches(getPunchesForDay({}, d, overnight), d) = {}
    BY DEF pairPunches, getPunchesForDay, PairsOf, Closed, Open, Ins
  <2>2. \A d \in Days : ~summary[d].exists
    BY <1>1 DEF NoSummary
  <2> QED BY <1>1, <2>1, <2>2 DEF SummaryMatchesPunches
<1> QED BY <1>2, <1>3, <1>4, <1>5, <1>6 DEF SummaryInv

LEMMA SummaryNext == IngestInv /\ SummaryInv /\ [Next]_vars => SummaryInv'
<1> SUFFICES ASSUME IngestInv, SummaryInv, [Next]_vars PROVE SummaryInv'
  OBVIOUS
<1>1. CASE NextDay /\ UNCHANGED <<request, devVars>>
  BY <1>1, OthersQuiet
<1>2. ASSUME NEW r \in Requests, WebStep(r), UNCHANGED <<request, devVars>> PROVE SummaryInv'
  BY <1>2, WebQuiet, CommitsSummarize DEF WebStep
<1>3. ASSUME NEW r \in Requests, RegStep(r), UNCHANGED devVars PROVE SummaryInv'
  BY <1>3, CorrectionsQuiet, CommitsSummarize DEF RegStep
<1>4. ASSUME DevStep, UNCHANGED request PROVE SummaryInv'
  <2>1. ASSUME NEW r \in Requests,
               \/ push(r) \/ IngestStep(r) \/ Fail(r)
               \/ \E id \in Rows : ignoreUnmapped(r, id) \/ resolveUnmapped(r, id)
        PROVE  SummaryInv'
    BY <1>4, <2>1, IngestQuiet, CommitsSummarize DEF IngestStep, Reject, Fail
  <2>2. CASE \/ \E type \in EventTypes : scan(type)
             \/ AnswerLost \/ Crash \/ assignBiometricId \/ clearBiometricId
    BY <1>4, <2>2, OthersQuiet
  <2> QED BY <1>4, <2>1, <2>2 DEF DevStep
<1>5. CASE UNCHANGED vars
  BY <1>5, OthersQuiet DEF vars
<1> QED BY <1>1, <1>2, <1>3, <1>4, <1>5 DEF Next

(* The summary of a day is what its punches amount to, unless the handler  *)
(* that saved it last had read them, or the row, before another one        *)
(* committed: recomputeDailySummary, whoever calls it, for any number of   *)
(* handlers, days and instants.  A shift that spans midnight and swipes do *)
(* not go together (OutSwipesFeedTheDay).                                  *)
THEOREM SummariesMatch == Spec => [](NightScans \/ SummaryMatchesPunches)
<1>1. Init => IngestInv /\ SummaryInv
  BY IngestInit, SummaryInit
<1>2. IngestInv /\ SummaryInv /\ [Next]_vars => (IngestInv /\ SummaryInv)'
  BY IngestNext, SummaryNext
<1>3. IngestInv /\ SummaryInv => NightScans \/ SummaryMatchesPunches
  BY DEF SummaryInv
<1> QED BY <1>1, <1>2, <1>3, PTL DEF Spec

-----------------------------------------------------------------------------
(* The order of the punches, and the days that were corrected.             *)

(* A request is for a time in on its day and a later time out, on that day *)
(* or after midnight.                                                      *)
Right(row) ==
    /\ row.day \in Days /\ DayOf(row.in) = row.day /\ row.in < row.out
    /\ DayOf(row.out) = row.day \/ (overnight /\ DayOf(row.out) = row.day + 1)
    /\ DayOf(row.out) \in Days
Granted(row) == row.in \in Ins(punches) /\ row.out \in Outs(punches)

(* Nothing is punched ahead of time, but the time out of a correction.     *)
Tangled(d) == d \in Days /\ tangled[d]
OnTime ==
    \A q \in punches : \/ DayOf(q.at) <= Today
                       \/ DayOf(q.at) = Today + 1 /\ Tangled(Today) /\ Tangled(Today + 1)

InCalendar == \A q \in punches : q.at < now \/ DayOf(q.at) \in Days

(* What a sign-in, a sign-out or a swipe was decided on, unless punches    *)
(* came in between.                                                        *)
SwipeType(t) == IF OpenBefore(resolveWorkDateForDevicePunch(t), t) THEN "OUT" ELSE "IN"
InOrder(t) ==
    /\ t.op = "signIn" =>
        /\ ~HasOpen(punches, t.day, overnight)
        /\ \A q \in punches : DayOf(q.at) <= t.day \/ (Tangled(DayOf(q.at)) /\ Tangled(t.day))
    /\ t.op = "signOut" =>
        \A q \in punches : \/ DayOf(q.at) <= t.day \/ Tangled(DayOf(q.at))
                           \/ overnight /\ DayOf(q.at) = t.day + 1
    /\ t.op \in IngestOps /\ ~scenario.strict => \A p \in t.own : p.type = SwipeType(p.at)

Prepared(t) ==
    /\ t.op = "approve" /\ t.pc \in Inserting =>
        /\ Ins(t.own) = {request[t.job].in} /\ Outs(t.own) = {request[t.job].out}
        /\ \A p \in t.own : p.at \in {request[t.job].in, request[t.job].out}
    /\ t.op # "approve" => \A p \in t.own : p.at < now
    /\ t.op # "approve" => \A p, q \in t.own : p = q
    /\ t.pc = "apply" => t.op = "approve"
    /\ t.op \in {"signIn", "signOut"} =>
        t.day \in Int /\ t.day <= Today /\ \A p \in t.own : t.day <= DayOf(p.at)
    /\ "check" \notin t.missed => InOrder(t)

(* A day that is not tangled has one punch at a time.                      *)
OneAtATime ==
    \A d \in Days : ~tangled[d] =>
        \A p, q \in getPunchesForDay(punches, d, FALSE) : p.at = q.at => p = q

OrderInv ==
    /\ \A g \in Regs : /\ request[g].status # "NONE" => Right(request[g])
                       /\ request[g].status = "APPROVED" => Granted(request[g])
    /\ OnTime /\ InCalendar /\ OneAtATime /\ SessionsAlternate
    /\ \A r \in Requests : Prepared(tx[r])

LEMMA PreparedThen ==
    ASSUME NEW q \in Requests, NEW t, tx'[q] = t, Prepared(t)' PROVE Prepared(tx[q])'
<1>1. InOrder(t)' => InOrder(tx[q])'
  BY DEF InOrder
<1> QED BY <1>1 DEF Prepared

(* A request keeps its times, and is made and decided on.                  *)
RowsStay ==
    \A g \in Regs : request[g].status # "NONE" =>
        /\ request'[g].day = request[g].day /\ request'[g].in = request[g].in
        /\ request'[g].out = request[g].out
RowsRight ==
    \A g \in Regs : /\ request'[g].status # "NONE" => Right(request[g])'
                    /\ request'[g].status = "APPROVED" => Granted(request[g])'
Calm ==
    /\ scenario' = scenario /\ punches' = punches /\ tangled' = tangled
    /\ now' \in Nat /\ now <= now'

LEMMA TodayLater ==
    ASSUME now \in Nat, now' \in Nat, now <= now'
    PROVE  Today \in Nat /\ Today' \in Nat /\ Today <= Today'
BY DaysGoOn DEF Today

LEMMA PreparedStays ==
    ASSUME Calm, RowsStay, now \in Nat, NEW t, Prepared(t), Timed(t.own),
           t.op = "approve" => t.job \in Regs /\ request[t.job].status # "NONE"
    PROVE  Prepared(t)'
<1>1. overnight' = overnight /\ scenario' = scenario /\ \A d : Tangled(d)' = Tangled(d)
  BY DEF Calm, Tangled, overnight
<1>2. \A x : SwipeType(x)' = SwipeType(x)
  BY <1>1 DEF SwipeType, OpenBefore, resolveWorkDateForDevicePunch, Calm
<1>3. InOrder(t)' = InOrder(t)
  BY <1>1, <1>2 DEF InOrder, Calm
<1>4. t.op # "approve" => \A p \in t.own : p.at < now'
  BY DEF Prepared, Timed, Calm
<1>5. t.op \in {"signIn", "signOut"} => t.day <= Today'
  BY TodayLater DEF Prepared, Calm
<1> QED BY <1>3, <1>4, <1>5 DEF Prepared, RowsStay

LEMMA QuietOrder ==
    ASSUME IngestInv, SummaryInv, OrderInv, Calm, RowsStay, RowsRight,
           \A q \in Requests : tx'[q] = tx[q] \/ \E t : tx'[q] = t /\ Prepared(t)'
    PROVE  OrderInv'
<1>1. now \in Nat /\ Timed(punches)
  BY BegunIsTimed DEF IngestInv, ScannedInv, SummaryInv
<1>2. Today \in Nat /\ Today' \in Nat /\ Today <= Today'
  BY <1>1, TodayLater DEF Calm
<1>3. \A q \in punches : DayOf(q.at) \in Nat
  BY <1>1, DaysGoOn DEF Timed
<1>4. \A d : Tangled(d)' = Tangled(d)
  BY DEF Tangled, Calm
<1>5. OnTime'
  <2> SUFFICES ASSUME NEW q \in punches', ~(DayOf(q.at) <= Today')
               PROVE  DayOf(q.at) = Today' + 1 /\ Tangled(Today)' /\ Tangled(Today + 1)'
    BY DEF OnTime
  <2>1. q \in punches /\ ~(DayOf(q.at) <= Today)
    BY <1>2, <1>3 DEF Calm
  <2>2. DayOf(q.at) = Today + 1 /\ Tangled(Today) /\ Tangled(Today + 1)
    BY <2>1 DEF OrderInv, OnTime
  <2>3. Today' = Today
    BY <1>2, <2>2
  <2> QED BY <2>2, <2>3 DEF Tangled, Calm
<1>6. ASSUME NEW q \in Requests PROVE Prepared(tx[q])'
  <2>1. PICK t : t = tx[q]
    OBVIOUS
  <2>2. Prepared(t) /\ Timed(t.own) /\ (t.op = "approve" => t.job \in Regs /\ request[t.job].status # "NONE")
    BY <2>1, BegunIsTimed DEF OrderInv, SummaryInv, OwnPunches
  <2>3. CASE tx'[q] = tx[q]
    BY <1>1, <2>1, <2>2, <2>3, PreparedStays, PreparedThen
  <2> QED BY <2>3, PreparedThen
<1>7. OneAtATime' /\ SessionsAlternate'
  <2>1. OneAtATime'
    BY DEF OrderInv, OneAtATime, Calm
  <2>2. SessionsAlternate'
    <3>1. SessionsAlternate
      BY DEF OrderInv
    <3>2. punches' = punches /\ tangled' = tangled
      BY DEF Calm
    <3> SUFFICES ASSUME NEW d \in Days, ~tangled'[d],
                        NEW p \in getPunchesForDay(punches', d, FALSE),
                        NEW q \in getPunchesForDay(punches', d, FALSE), p.at < q.at,
                        \A t \in Ins(punches') \cup Outs(punches') : ~(p.at < t /\ t < q.at)
                 PROVE  p.type # q.type
      BY DEF SessionsAlternate
    <3> QED BY <3>1, <3>2 DEF SessionsAlternate
  <2> QED BY <2>1, <2>2
<1>8. InCalendar'
  BY <1>1 DEF OrderInv, InCalendar, Calm, Timed
<1> QED BY <1>5, <1>6, <1>7, <1>8 DEF OrderInv, RowsRight

(* A handler that has decided nothing and owns no punches.                 *)
LEMMA PlainPrepared ==
    ASSUME NEW t, t.own = {}, t.op \notin {"signIn", "signOut"},
           t.op = "approve" => t.pc \notin Inserting, t.pc = "apply" => t.op = "approve"
    PROVE  Prepared(t)
BY DEF Prepared, InOrder

LEMMA OneGoesOnInOrder ==
    ASSUME IngestInv, SummaryInv, OrderInv, NEW r \in Requests, NEW t, Continue(r, t), Prepared(t),
           Timed(t.own), t.op = "approve" => t.job \in Regs /\ request[t.job].status # "NONE",
           request' = request
    PROVE  OrderInv'
<1>1. now \in Nat
  BY DEF IngestInv, ScannedInv
<1>2. Calm /\ RowsStay
  BY <1>1 DEF Continue, Calm, RowsStay
<1>3. Prepared(t)'
  BY <1>1, <1>2, PreparedStays
<1>4. \A q \in Requests : tx'[q] = IF q = r THEN t ELSE tx[q]
  BY DEF Continue, IngestInv, Shapes
<1>5. RowsRight
  BY DEF RowsRight, OrderInv, Continue, Right, Granted, overnight
<1> QED BY <1>2, <1>3, <1>4, <1>5, QuietOrder

LEMMA NewRow ==
    ASSUME OrderInv, RequestsBegun, scenario' = scenario, punches \subseteq punches',
           NEW g \in Regs, NEW new, request' = [request EXCEPT ![g] = new],
           Right(new), new.status = "APPROVED" => Granted(new)',
           request[g].status # "NONE" =>
               new.day = request[g].day /\ new.in = request[g].in /\ new.out = request[g].out
    PROVE  RowsStay /\ RowsRight
<1>1. \A h \in Regs : request'[h] = IF h = g THEN new ELSE request[h]
  BY DEF RequestsBegun
<1>2. RowsStay
  BY <1>1 DEF RowsStay
<1>3. ASSUME NEW h \in Regs
      PROVE  /\ request'[h].status # "NONE" => Right(request[h])'
             /\ request'[h].status = "APPROVED" => Granted(request[h])'
  <2>1. CASE h = g
    <3>1. request'[h] = new
      BY <1>1, <2>1
    <3>2. Right(request[h])'
      BY <3>1 DEF Right, overnight
    <3>3. new.status = "APPROVED" => Granted(request[h])'
      BY <3>1 DEF Granted
    <3> QED BY <3>1, <3>2, <3>3
  <2>2. CASE h # g
    <3>1. request'[h] = request[h]
      BY <1>1, <2>2
    <3>2. request[h].status # "NONE" => Right(request[h])
      BY DEF OrderInv
    <3>3. request[h].status = "APPROVED" => Granted(request[h])
      BY DEF OrderInv
    <3>4. Ins(punches) \subseteq Ins(punches') /\ Outs(punches) \subseteq Outs(punches')
      BY DEF Ins, Outs
    <3>5. Right(request[h]) => Right(request[h])'
      BY <3>1 DEF Right, overnight
    <3>6. Granted(request[h]) => Granted(request[h])'
      BY <3>1, <3>4 DEF Granted
    <3> QED BY <3>1, <3>2, <3>3, <3>5, <3>6
  <2> QED BY <2>1, <2>2
<1> QED BY <1>2, <1>3 DEF RowsRight

LEMMA WebInOrder ==
    ASSUME IngestInv, SummaryInv, OrderInv, NEW r \in Requests, UNCHANGED <<request, devVars>>,
           \/ signIn(r) \/ signOut(r) \/ WebPunch(r) \/ Snapshot(r) \/ LoadSummary(r)
           \/ \E d \in Days : getDayDetail(r, d)
    PROVE  OrderInv'
<1>1. /\ Shape(tx[r]) /\ Work(r) /\ now \in Nat
      /\ tx = [q \in Requests |-> tx[q]]
      /\ OwnPunches(tx[r]) /\ Prepared(tx[r]) /\ Begun(punches) /\ Timed(tx[r].own)
      /\ \A q \in punches : DayOf(q.at) \in Nat
      /\ Today \in Nat
  BY BegunIsTimed, DaysGoOn DEF IngestInv, Shapes, ScannedInv, SummaryInv, OrderInv, OwnPunches, Timed, Today, Begun
<1>2. ASSUME NEW t, Continue(r, t), Prepared(t), Timed(t.own),
             t.op = "approve" => t.job \in Regs /\ request[t.job].status # "NONE"
      PROVE OrderInv'
  BY <1>2, OneGoesOnInOrder
<1>3. ASSUME NEW op \in {"signIn", "signOut", "view"}, NEW pc \in {"punch", "snapshot"}, NEW d,
             Continue(r, Handler(op, pc, None, d)),
             \A t : t.op = op /\ t.day = d /\ t.own = {} => InOrder(t),
             op # "view" => d \in Int /\ d <= Today
      PROVE  OrderInv'
  <2>1. PICK t : t = Handler(op, pc, None, d)
    OBVIOUS
  <2>2. t.op = op /\ t.pc = pc /\ t.day = d /\ t.own = {}
    BY <2>1, HandlerFields
  <2>3. Prepared(t)
    BY <1>3, <2>2 DEF Prepared
  <2> QED BY <1>2, <1>3, <2>1, <2>2, <2>3 DEF Timed
<1>4. CASE signIn(r)
  <2>1. ~HasOpen(punches, Today, overnight)
    BY <1>1, <1>4 DEF signIn, findOpenSessionContext, NoDay
  <2>2. \A q \in punches : DayOf(q.at) <= Today \/ (Tangled(DayOf(q.at)) /\ Tangled(Today))
    BY DEF OrderInv, OnTime
  <2>3. \A t : t.op = "signIn" /\ t.day = Today /\ t.own = {} => InOrder(t)
    BY <2>1, <2>2 DEF InOrder, IngestOps
  <2> QED BY <1>1, <1>3, <1>4, <2>3 DEF signIn, Begin
<1>5. CASE signOut(r)
  <2>1. PICK day : day = findOpenSessionContext(punches, Today, overnight)
    OBVIOUS
  <2>2. day = Today \/ (overnight /\ day = Today - 1)
    BY <1>5, <2>1 DEF signOut, findOpenSessionContext
  <2>3. ASSUME NEW q \in punches
        PROVE  \/ DayOf(q.at) <= day \/ Tangled(DayOf(q.at))
               \/ overnight /\ DayOf(q.at) = day + 1
    <3>1. CASE DayOf(q.at) <= Today
      BY <1>1, <2>2, <3>1
    <3>2. CASE ~(DayOf(q.at) <= Today)
      BY <3>2 DEF OrderInv, OnTime
    <3> QED BY <3>1, <3>2
  <2>4. \A t : t.op = "signOut" /\ t.day = day /\ t.own = {} => InOrder(t)
    BY <2>3 DEF InOrder, IngestOps
  <2>5. day \in Int /\ day <= Today
    BY <1>1, <2>2
  <2> QED BY <1>3, <1>5, <2>1, <2>4, <2>5 DEF signOut, Begin
<1>6. ASSUME NEW d \in Days, getDayDetail(r, d) PROVE OrderInv'
  <2>1. \A t : t.op = "view" /\ t.day = d /\ t.own = {} => InOrder(t)
    BY DEF InOrder, IngestOps
  <2> QED BY <1>3, <1>6, <2>1 DEF getDayDetail, Begin
<1>7. CASE WebPunch(r)
  <2>1. CASE Abort(r)
    <3>1. Prepared(NoTx)
      BY NoTxFields, PlainPrepared
    <3> QED BY <1>2, <2>1, <3>1, NoTxFields DEF Abort, Timed
  <2>2. CASE ~Abort(r)
    <3> DEFINE type == IF tx[r].op = "signIn" THEN "IN" ELSE "OUT"
               p == Punch(now, type, "WEB", None)
    <3>1. PICK t : t = [tx[r] EXCEPT !.pc = "snapshot", !.own = {p}]
      OBVIOUS
    <3>2. /\ tx[r].pc = "punch" /\ tx[r].op \in {"signIn", "signOut"}
          /\ now' = now + 1 /\ tx' = [tx EXCEPT ![r] = t]
          /\ UNCHANGED <<scenario, punches, summary, behind, tangled>>
      BY <1>7, <2>2, <3>1 DEF WebPunch
    <3>3. /\ t.op = tx[r].op /\ t.pc = "snapshot" /\ t.own = {p} /\ t.day = tx[r].day
          /\ t.missed = tx[r].missed
      BY <1>1, <3>1 DEF Shape
    <3>4. p.at = now /\ p.type = type
      BY DEF Punch
    <3>5. \A q \in Requests : tx'[q] = IF q = r THEN t ELSE tx[q]
      BY <1>1, <3>2
    <3> HIDE DEF p
    <3>6. Calm /\ RowsStay
      BY <1>1, <3>2 DEF Calm, RowsStay
    <3>7. PICK u : u = tx[r]
      OBVIOUS
    <3>9. Prepared(t)'
      <4>1. Prepared(u)'
        <5>1. Prepared(u)
          BY <1>1, <3>7
        <5> QED BY <1>1, <3>2, <3>6, <3>7, <5>1, PreparedStays
      <4>2. "check" \notin t.missed => InOrder(t)'
        BY <3>2, <3>3, <3>7, <4>1 DEF Prepared, InOrder, IngestOps
      <4>3. \A q \in t.own : q.at < now'
        BY <1>1, <3>2, <3>3, <3>4
      <4>4. t.day \in Int /\ t.day <= Today' /\ \A q \in t.own : t.day <= DayOf(q.at)
        <5>1. t.day \in Int /\ t.day <= Today
          BY <1>1, <3>2, <3>3 DEF Prepared
        <5>2. Today <= Today' /\ Today' \in Nat
          BY <1>1, <3>2, TodayLater
        <5> QED BY <1>1, <3>3, <3>4, <5>1, <5>2 DEF Today
      <4> QED BY <3>2, <3>3, <4>2, <4>3, <4>4 DEF Prepared
    <3>10. RowsRight
      BY <3>2 DEF RowsRight, OrderInv, Right, Granted, overnight
    <3> QED BY <3>5, <3>6, <3>9, <3>10, QuietOrder
  <2> QED BY <2>1, <2>2
<1>8. ASSUME NEW t, Continue(r, t), t.op = tx[r].op, t.job = tx[r].job, t.own = tx[r].own, t.day = tx[r].day,
             t.missed = tx[r].missed, tx[r].pc \in Inserting, t.pc \in Inserting
      PROVE  OrderInv'
  <2>1. InOrder(tx[r]) => InOrder(t)
    BY <1>8 DEF InOrder
  <2>2. Prepared(t)
    BY <1>1, <1>8, <2>1 DEF Prepared, Inserting
  <2> QED BY <1>1, <1>2, <1>8, <2>2 DEF OwnPunches
<1>9. CASE Snapshot(r)
  <2> DEFINE seen == getPunchesForDay(punches \cup tx[r].own, tx[r].day, overnight)
  <2>1. PICK t : t = [tx[r] EXCEPT !.pc = "load", !.sum = SummaryOf(pairPunches(seen, tx[r].day))]
    OBVIOUS
  <2>2. Continue(r, t) /\ tx[r].pc = "snapshot"
    BY <1>9, <2>1 DEF Snapshot
  <2>3. /\ t.op = tx[r].op /\ t.pc = "load" /\ t.job = tx[r].job /\ t.own = tx[r].own
        /\ t.day = tx[r].day /\ t.missed = tx[r].missed
    BY <1>1, <2>1 DEF Shape
  <2> QED BY <1>8, <2>2, <2>3 DEF Inserting
<1>10. CASE LoadSummary(r)
  <2>1. PICK t : t = [tx[r] EXCEPT !.pc = "save", !.base = summary[tx[r].day]]
    OBVIOUS
  <2>2. Continue(r, t) /\ tx[r].pc = "load"
    BY <1>10, <2>1 DEF LoadSummary
  <2>3. /\ t.op = tx[r].op /\ t.pc = "save" /\ t.job = tx[r].job /\ t.own = tx[r].own
        /\ t.day = tx[r].day /\ t.missed = tx[r].missed
    BY <1>1, <2>1 DEF Shape
  <2> QED BY <1>8, <2>2, <2>3 DEF Inserting
<1> QED BY <1>4, <1>5, <1>6, <1>7, <1>9, <1>10

LEMMA CorrectionsInOrder ==
    ASSUME IngestInv, SummaryInv, OrderInv, NEW r \in Requests, UNCHANGED devVars,
           \/ \E g \in Regs : approve(r, g) /\ UNCHANGED request
           \/ \E g \in Regs, op \in DOMAIN Outcome : decide(r, g, op) /\ UNCHANGED request
           \/ \E g \in Regs, d \in Days, time \in Times : create(r, g, d, time)
           \/ applyRegularizationPunches(r) /\ UNCHANGED request
           \/ SaveDecision(r)
    PROVE  OrderInv'
<1>1. /\ Shape(tx[r]) /\ Work(r) /\ now \in Nat
      /\ tx = [q \in Requests |-> tx[q]]
      /\ OwnPunches(tx[r]) /\ Prepared(tx[r])
      /\ RequestsBegun
  BY DEF IngestInv, Shapes, ScannedInv, SummaryInv, OrderInv
<1>2. ASSUME NEW t, Continue(r, t), Prepared(t), Timed(t.own), UNCHANGED request,
             t.op = "approve" => t.job \in Regs /\ request[t.job].status # "NONE"
      PROVE OrderInv'
  BY <1>2, OneGoesOnInOrder
<1>3. Prepared(NoTx) /\ Timed(NoTx.own) /\ NoTx.op # "approve"
  BY NoTxFields, PlainPrepared DEF Timed
<1>4. ASSUME NEW g \in Regs, NEW op \in {"approve", "withdraw", "reject"}, NEW pc \in {"apply", "decide"},
             pc = "apply" <=> op = "approve", NEW d, Continue(r, Handler(op, pc, g, d)),
             request[g].status # "NONE", UNCHANGED request
      PROVE  OrderInv'
  <2>1. PICK t : t = Handler(op, pc, g, d)
    OBVIOUS
  <2>2. t.op = op /\ t.pc = pc /\ t.own = {} /\ t.job = g
    BY <2>1, HandlerFields
  <2>3. Prepared(t)
    BY <1>4, <2>2, PlainPrepared DEF Inserting
  <2> QED BY <1>2, <1>4, <2>1, <2>2, <2>3 DEF Timed
<1>5. ASSUME NEW g \in Regs, approve(r, g), UNCHANGED request PROVE OrderInv'
  <2>1. request[g].status # "NONE" /\ Continue(r, Handler("approve", "apply", g, request[g].day))
    BY <1>5 DEF approve, Begin
  <2> QED BY <1>4, <1>5, <2>1
<1>6. ASSUME NEW g \in Regs, NEW op \in DOMAIN Outcome, decide(r, g, op), UNCHANGED request
      PROVE OrderInv'
  <2>1. /\ request[g].status # "NONE" /\ Continue(r, Handler(op, "decide", g, request[g].day))
        /\ op \in {"withdraw", "reject"}
    BY <1>6 DEF decide, Begin, Outcome
  <2> QED BY <1>4, <1>6, <2>1
<1>7. ASSUME applyRegularizationPunches(r), UNCHANGED request PROVE OrderInv'
  <2>1. CASE Abort(r)
    BY <1>2, <1>3, <1>7, <2>1 DEF Abort
  <2>2. CASE ~Abort(r)
    <3>1. PICK g : g = tx[r].job
      OBVIOUS
    <3>2. PICK t : t = [tx[r] EXCEPT !.pc = "snapshot", !.own = RequestedPunches(r, g)]
      OBVIOUS
    <3>3. Continue(r, t) /\ tx[r].pc = "apply"
      BY <1>7, <2>2, <3>1, <3>2 DEF applyRegularizationPunches
    <3>4. /\ t.op = tx[r].op /\ t.pc = "snapshot" /\ t.own = RequestedPunches(r, g) /\ t.job = g
      BY <1>1, <3>1, <3>2 DEF Shape
    <3>5. t.op = "approve"
      BY <1>1, <3>3, <3>4 DEF Prepared
    <3>6. g \in Regs /\ request[g].status # "NONE"
      BY <1>1, <3>1, <3>4, <3>5 DEF OwnPunches
    <3>7. PICK i, o : i = request[g].in /\ o = request[g].out
      OBVIOUS
    <3>8. i \in Nat /\ o \in Nat
      BY <1>1, <3>6, <3>7 DEF RequestsBegun
    <3>9. t.own = {Punch(i, "IN", "REGULARIZATION", r), Punch(o, "OUT", "REGULARIZATION", r)}
      BY <3>4, <3>7 DEF RequestedPunches
    <3>10. Timed(t.own) /\ \A p \in t.own : p.at \in {i, o}
      BY <3>8, <3>9 DEF Timed, Punch
    <3>11. Ins(t.own) = {i} /\ Outs(t.own) = {o}
      <4>1. PICK a, b : /\ a = Punch(i, "IN", "REGULARIZATION", r)
                        /\ b = Punch(o, "OUT", "REGULARIZATION", r)
        OBVIOUS
      <4>2. a.at = i /\ a.type = "IN" /\ b.at = o /\ b.type = "OUT" /\ t.own = {a, b}
        BY <3>9, <4>1 DEF Punch
      <4>3. {q \in t.own : q.type = "IN"} = {a} /\ {q \in t.own : q.type = "OUT"} = {b}
        BY <4>2
      <4> QED BY <4>2, <4>3 DEF Ins, Outs
    <3>12. Prepared(t)
      BY <3>4, <3>5, <3>7, <3>10, <3>11 DEF Prepared, InOrder, IngestOps
    <3> QED BY <1>2, <1>7, <3>3, <3>4, <3>6, <3>10, <3>12
  <2> QED BY <2>1, <2>2
<1>8. ASSUME SaveDecision(r) PROVE OrderInv'
  <2>1. PICK g : g = tx[r].job
    OBVIOUS
  <2>2. PICK s : s = Outcome[tx[r].op]
    OBVIOUS
  <2>3. /\ tx[r].pc = "decide" /\ request' = [request EXCEPT ![g].status = s]
        /\ tx' = [tx EXCEPT ![r] = NoTx]
        /\ UNCHANGED <<scenario, now, punches, summary, behind, tangled>>
    BY <1>8, <2>1, <2>2 DEF SaveDecision
  <2>4. s \in {"WITHDRAWN", "REJECTED"} /\ g \in Regs /\ request[g].status # "NONE"
    BY <1>1, <2>1, <2>2, <2>3 DEF OwnPunches, Outcome
  <2>5. PICK row : row = request[g]
    OBVIOUS
  <2>6. row \in [status : {"NONE", "PENDING", "APPROVED", "REJECTED", "WITHDRAWN"},
                 day : Int, in : Int, out : Int]
    BY <1>1, <2>4, <2>5 DEF RequestsBegun
  <2>7. PICK new : new = [row EXCEPT !.status = s]
    OBVIOUS
  <2>8. new.status = s /\ new.in = row.in /\ new.out = row.out /\ new.day = row.day
    BY <2>6, <2>7
  <2>9. request' = [request EXCEPT ![g] = new]
    BY <2>3, <2>5, <2>7
  <2>10. Right(new)
    BY <2>4, <2>5, <2>8 DEF OrderInv, Right
  <2>11. RowsStay /\ RowsRight
    BY <1>1, <2>3, <2>4, <2>5, <2>8, <2>9, <2>10, NewRow
  <2>12. \A q \in Requests : tx'[q] = IF q = r THEN NoTx ELSE tx[q]
    BY <1>1, <2>3
  <2>13. Calm
    BY <1>1, <2>3 DEF Calm
  <2>14. Prepared(NoTx)'
    BY <1>1, <1>3, <2>11, <2>13, PreparedStays
  <2> QED BY <2>11, <2>12, <2>13, <2>14, QuietOrder
<1>9. ASSUME NEW g \in Regs, NEW d \in Days, NEW time \in Times, create(r, g, d, time) PROVE OrderInv'
  <2>1. PICK outDay \in OutDays(time, d) \cap Days :
            request' = [request EXCEPT ![g] = Row(d, d * DayLength + time.in,
                                                 outDay * DayLength + time.out)]
    BY <1>9 DEF create
  <2>2. d \in Nat /\ outDay \in Nat /\ DayLength \in Nat /\ request[g].status = "NONE"
    BY <1>9, AttendanceAssumption, DayLengthAssumption DEF create, Days
  <2>3. time.in \in 0 .. DayLength - 1 /\ time.out \in 0 .. DayLength - 1
    BY RegularizationAssumption
  <2>4. PICK in \in Nat : in = d * DayLength + time.in /\ DayOf(in) = d
    BY <2>2, <2>3, TimeOfDay
  <2>5. PICK out \in Nat : out = outDay * DayLength + time.out /\ DayOf(out) = outDay
    BY <2>2, <2>3, TimeOfDay
  <2>6. PICK new : new = Row(d, in, out)
    OBVIOUS
  <2>7. new.status = "PENDING" /\ new.in = in /\ new.out = out /\ new.day = d
    BY <2>6 DEF Row
  <2>8. request' = [request EXCEPT ![g] = new]
    BY <2>1, <2>4, <2>5, <2>6
  <2>9. UNCHANGED <<scenario, now, punches, summary, tx, behind, tangled>>
    BY <1>9 DEF create, attVars
  <2>10. (outDay = d /\ time.in < time.out) \/ (overnight /\ outDay = d + 1)
    <3>1. CASE time.out > time.in
      <4>1. OutDays(time, d) = {d}
        BY <3>1 DEF OutDays
      <4>2. outDay = d
        BY <2>1, <4>1
      <4> QED BY <2>3, <3>1, <4>2
    <3>2. CASE ~(time.out > time.in)
      BY <2>1, <3>2 DEF OutDays
    <3> QED BY <3>1, <3>2
  <2>11. in < out
    <3>1. CASE outDay = d /\ time.in < time.out
      <4>1. d * DayLength \in Nat
        BY <2>2
      <4> QED BY <2>3, <2>4, <2>5, <3>1, <4>1
    <3>2. CASE outDay = d + 1
      <4>1. outDay * DayLength = d * DayLength + DayLength /\ d * DayLength \in Nat
        BY <2>2, <3>2
      <4> QED BY <2>2, <2>3, <2>4, <2>5, <4>1
    <3> QED BY <2>10, <3>1, <3>2
  <2>12. Right(new)
    BY <2>4, <2>5, <2>7, <2>10, <2>11 DEF Right
  <2>13. RowsStay /\ RowsRight
    BY <1>1, <2>2, <2>7, <2>8, <2>9, <2>12, NewRow
  <2>14. Calm
    BY <1>1, <2>9 DEF Calm
  <2> QED BY <2>9, <2>13, <2>14, QuietOrder
<1> QED BY <1>5, <1>6, <1>7, <1>8, <1>9

LEMMA IngestInOrder ==
    ASSUME IngestInv, SummaryInv, OrderInv, NEW r \in Requests, UNCHANGED request,
           \/ push(r) \/ Answer(r) \/ NextEvent(r) \/ QueueFind(r) \/ QueueSave(r) \/ Dedupe(r)
           \/ SavePunch(r) \/ FailEvent(r) \/ ListOpen(r) \/ NextRow(r) \/ SaveRow(r)
           \/ \E id \in Rows : ignoreUnmapped(r, id) \/ resolveUnmapped(r, id)
    PROVE  OrderInv'
<1>1. /\ Shape(tx[r]) /\ Work(r) /\ ScannedInv /\ QueueInv /\ Prepared(tx[r]) /\ Timed(tx[r].own)
  BY BegunIsTimed DEF IngestInv, Shapes, SummaryInv, OwnPunches, OrderInv
<1>2. ASSUME NEW t, Continue(r, t), Prepared(t), Timed(t.own), t.op # "approve" PROVE OrderInv'
  BY <1>2, OneGoesOnInOrder
<1>3. ASSUME NEW op \in IngestOps \cup {"ignore"}, NEW pc, NEW job, Continue(r, Handler(op, pc, job, NoDay)),
             pc # "apply"
      PROVE  OrderInv'
  <2>1. PICK t : t = Handler(op, pc, job, NoDay)
    OBVIOUS
  <2>2. t.op = op /\ t.pc = pc /\ t.own = {}
    BY <2>1, HandlerFields
  <2>3. Prepared(t)
    BY <1>3, <2>2, PlainPrepared DEF IngestOps
  <2> QED BY <1>2, <1>3, <2>1, <2>2, <2>3 DEF Timed, IngestOps
<1>4. ASSUME Abort(r) PROVE OrderInv'
  <2>1. Prepared(NoTx)
    BY NoTxFields, PlainPrepared
  <2> QED BY <1>2, <1>4, <2>1, NoTxFields DEF Abort, Timed
<1>5. ASSUME Continue(r, NextOf(tx[r])), tx[r].op \in IngestOps PROVE OrderInv'
  BY <1>3, <1>5 DEF NextOf
<1>6. ASSUME NEW pc \in {"queueSave", "punch"}, Continue(r, [tx[r] EXCEPT !.pc = pc]), tx[r].op \in IngestOps
      PROVE  OrderInv'
  <2>1. PICK t : t = [tx[r] EXCEPT !.pc = pc]
    OBVIOUS
  <2>2. /\ t.op = tx[r].op /\ t.pc = pc /\ t.job = tx[r].job /\ t.day = tx[r].day
        /\ t.own = tx[r].own /\ t.missed = tx[r].missed
    BY <1>1, <2>1 DEF Shape
  <2>3. InOrder(tx[r]) => InOrder(t)
    BY <2>2 DEF InOrder
  <2>4. Prepared(t)
    BY <1>1, <1>6, <2>2, <2>3 DEF Prepared, IngestOps
  <2> QED BY <1>1, <1>2, <1>6, <2>1, <2>2, <2>4 DEF IngestOps
<1>7. CASE push(r)
  BY <1>3, <1>7 DEF push, Begin, IngestOps
<1>8. CASE Answer(r)
  BY <1>4, <1>8 DEF Answer
<1>9. CASE NextEvent(r)
  BY <1>3, <1>9 DEF NextEvent, IngestOps
<1>10. CASE QueueFind(r)
  <2>1. tx[r].op \in IngestOps
    BY <1>1, <1>10 DEF QueueFind, Work, Runs, Inserting, IngestOps
  <2> QED BY <1>5, <1>6, <1>10, <2>1 DEF QueueFind
<1>11. CASE QueueSave(r)
  <2>1. tx[r].op \in IngestOps
    BY <1>1, <1>11 DEF QueueSave, Work, Runs, Inserting, IngestOps
  <2> QED BY <1>5, <1>11, <2>1 DEF QueueSave
<1>12. CASE Dedupe(r)
  <2>1. tx[r].op \in IngestOps
    BY <1>1, <1>12 DEF Dedupe, Work, Runs, Inserting, IngestOps
  <2> QED BY <1>5, <1>6, <1>12, <2>1 DEF Dedupe
<1>13. CASE SavePunch(r)
  <2>1. PICK e : e = Event(tx[r])
    OBVIOUS
  <2>2. PICK p : p = Punch(e.at, resolveDevicePunchType(e), "BIOMETRIC", r)
    OBVIOUS
  <2>3. PICK t : t = [tx[r] EXCEPT !.pc = "snapshot", !.day = resolveWorkDateForDevicePunch(e.at), !.own = {p}]
    OBVIOUS
  <2>4. tx[r].op \in IngestOps /\ tx[r].pc = "punch" /\ Continue(r, t)
    BY <1>13, <2>1, <2>2, <2>3 DEF SavePunch
  <2>5. t.op = tx[r].op /\ t.pc = "snapshot" /\ t.own = {p}
    BY <1>1, <2>3 DEF Shape
  <2>6. e \in Scanned
    <3>1. CASE tx[r].op = "push"
      BY <1>1, <2>1, <2>4, <3>1 DEF Work, Event
    <3>2. CASE tx[r].op = "resolve"
      BY <1>1, <2>1, <2>4, <3>2 DEF Work, Event, QueueInv, Used
    <3> QED BY <2>4, <3>1, <3>2 DEF IngestOps
  <2>7. p.at = e.at /\ p.type = resolveDevicePunchType(e)
    BY <2>2 DEF Punch
  <2>8. e.raw # "OTHER" => e.raw \in {"IN", "OUT"}
    BY <2>6 DEF SummaryInv, Directed
  <2>9. p.type \in {"IN", "OUT"} /\ (~scenario.strict => p.type = SwipeType(p.at))
    BY <2>7, <2>8 DEF resolveDevicePunchType, SwipeType
  <2>10. e.at \in Nat /\ e.at < now /\ now \in Nat
    BY <1>1, <2>6 DEF ScannedInv
  <2>11. p.at < now
    BY <2>7, <2>10
  <2>12. Timed(t.own)
    BY <2>5, <2>7, <2>9, <2>10 DEF Timed
  <2>13. InOrder(t)
    BY <2>4, <2>5, <2>9 DEF InOrder, IngestOps
  <2>14. Prepared(t)
    BY <2>4, <2>5, <2>11, <2>13 DEF Prepared, IngestOps
  <2> QED BY <1>2, <2>4, <2>5, <2>12, <2>14 DEF IngestOps
<1>14. CASE FailEvent(r)
  <2>1. CASE tx[r].op = "push"
    BY <1>5, <1>14, <2>1 DEF FailEvent
  <2>2. CASE tx[r].op # "push"
    BY <1>4, <1>14, <2>2 DEF FailEvent, Abort
  <2> QED BY <2>1, <2>2
<1>15. CASE ListOpen(r)
  BY <1>3, <1>15 DEF ListOpen, IngestOps
<1>16. CASE NextRow(r)
  <2>1. CASE todo[r] = {}
    BY <1>4, <1>16, <2>1 DEF NextRow
  <2>2. CASE todo[r] # {}
    BY <1>3, <1>16, <2>2 DEF NextRow, IngestOps
  <2> QED BY <2>1, <2>2
<1>17. CASE SaveRow(r)
  <2>1. CASE tx[r].op = "resolve"
    BY <1>3, <1>17, <2>1 DEF SaveRow, IngestOps
  <2>2. CASE tx[r].op # "resolve"
    BY <1>4, <1>17, <2>2 DEF SaveRow, Abort
  <2> QED BY <2>1, <2>2
<1>18. ASSUME NEW id \in Rows, ignoreUnmapped(r, id) PROVE OrderInv'
  BY <1>3, <1>18 DEF ignoreUnmapped, Begin, IngestOps
<1>19. ASSUME NEW id \in Rows, resolveUnmapped(r, id) PROVE OrderInv'
  BY <1>3, <1>19 DEF resolveUnmapped, Begin, IngestOps
<1> QED BY <1>7, <1>8, <1>9, <1>10, <1>11, <1>12, <1>13, <1>14, <1>15, <1>16, <1>17, <1>18, <1>19

LEMMA OthersInOrder ==
    ASSUME IngestInv, SummaryInv, OrderInv, UNCHANGED request,
           \/ NextDay /\ UNCHANGED devVars
           \/ \E type \in EventTypes : scan(type)
           \/ AnswerLost \/ assignBiometricId \/ clearBiometricId \/ Crash
           \/ UNCHANGED <<attVars, devVars>>
    PROVE  OrderInv'
<1>1. now \in Nat
  BY DEF IngestInv, ScannedInv
<1>2. ASSUME UNCHANGED <<scenario, punches, tangled>>, now' \in Nat, now <= now',
             \A q \in Requests : tx'[q] = tx[q] \/ tx'[q] = NoTx
      PROVE  OrderInv'
  <2>1. Calm /\ RowsStay
    BY <1>2 DEF Calm, RowsStay
  <2>2. RowsRight
    BY <1>2 DEF RowsRight, OrderInv, Right, Granted, overnight
  <2>3. Prepared(NoTx) /\ Timed(NoTx.own) /\ NoTx.op # "approve"
    BY NoTxFields, PlainPrepared DEF Timed
  <2>4. Prepared(NoTx)'
    BY <1>1, <2>1, <2>3, PreparedStays
  <2> QED BY <1>2, <2>1, <2>2, <2>4, QuietOrder
<1>3. CASE NextDay /\ UNCHANGED devVars
  <2>1. now' \in Nat /\ now < now'
    BY <1>1, <1>3, NextDayLater
  <2> QED BY <1>1, <1>2, <1>3, <2>1 DEF NextDay
<1>4. ASSUME NEW type \in EventTypes, scan(type) PROVE OrderInv'
  BY <1>1, <1>2, <1>4 DEF scan
<1>5. CASE AnswerLost \/ assignBiometricId \/ clearBiometricId \/ UNCHANGED <<attVars, devVars>>
  <2>1. UNCHANGED <<scenario, now, punches, tx, tangled>>
    BY <1>5 DEF AnswerLost, assignBiometricId, clearBiometricId, attVars
  <2> QED BY <1>1, <1>2, <2>1
<1>6. CASE Crash
  <2>1. UNCHANGED <<scenario, now, punches, tangled>> /\ tx' = [r \in Requests |-> NoTx]
    BY <1>6 DEF Crash
  <2> QED BY <1>1, <1>2, <2>1
<1> QED BY <1>3, <1>4, <1>5, <1>6

-----------------------------------------------------------------------------
(* What follows the last punch of a day is not of its type.                *)
LEMMA SignInFollows ==
    ASSUME Begun(punches), NEW c, c.op = "signIn", Prepared(c), InOrder(c), OneAtATime,
           NEW p, p \in c.own, NEW d \in Days, DayOf(p.at) = d, ~tangled[d],
           NEW q \in punches, DayOf(q.at) = d,
           \A x \in punches : DayOf(x.at) = d => x.at <= q.at
    PROVE  q.type # "IN"
<1> SUFFICES ASSUME q.type = "IN" PROVE FALSE
  OBVIOUS
<1>1. Timed(punches) /\ d \in Nat /\ q.at \in Nat
  BY BegunIsTimed, AttendanceAssumption DEF Timed, Days
<1>2. ~Tangled(d)
  BY DEF Tangled
<1>3. c.day = d
  BY <1>1, <1>2 DEF InOrder, Prepared
<1>4. \A x \in punches : DayOf(x.at) # d + 1
  <2> SUFFICES ASSUME NEW x \in punches, DayOf(x.at) = d + 1 PROVE FALSE
    OBVIOUS
  <2> QED BY <1>1, <1>2, <1>3 DEF InOrder
<1> DEFINE V == Window(punches, d)
<1>5. \A x \in V : x \in punches /\ DayOf(x.at) = d /\ x.at <= q.at
  BY <1>4 DEF Window, getPunchesForDay
<1>6. q.at \in Ins(V)
  BY DEF Ins, Window, getPunchesForDay
<1>7. \A t \in Ins(V) : t <= q.at
  BY <1>5 DEF Ins
<1>8. ASSUME NEW x \in V, x.type = "OUT" PROVE x.at < q.at
  <2>1. x.at # q.at
    <3>1. x \in getPunchesForDay(punches, d, FALSE) /\ q \in getPunchesForDay(punches, d, FALSE)
      BY <1>5 DEF getPunchesForDay
    <3>2. x.at = q.at => x = q
      BY <3>1 DEF OneAtATime
    <3> QED BY <1>8, <3>2
  <2>2. x.at \in Nat
    BY <1>1, <1>5 DEF Timed
  <2> QED BY <1>1, <1>5, <2>1, <2>2
<1>9. StaysOpen(V, q.at)
  BY <1>6, <1>7, <1>8 DEF StaysOpen, Outs
<1>10. HasOpen(punches, d, overnight)
  BY <1>1, <1>6, <1>9, OpenIs
<1> QED BY <1>3, <1>10 DEF InOrder

LEMMA SignOutFollows ==
    ASSUME Begun(punches), NEW c, c.op = "signOut", Prepared(c), InOrder(c), FoundOpen(c.day),
           NEW p, p \in c.own, NEW d \in Days, DayOf(p.at) = d, ~tangled[d],
           NEW q \in punches, DayOf(q.at) = d,
           \A x \in punches : DayOf(x.at) = d => x.at <= q.at
    PROVE  q.type # "OUT"
<1> SUFFICES ASSUME q.type = "OUT" PROVE FALSE
  OBVIOUS
<1>1. Timed(punches) /\ d \in Nat /\ q.at \in Nat /\ c.day \in Int
  BY BegunIsTimed, AttendanceAssumption DEF Timed, Days, Prepared
<1>2. ~Tangled(d)
  BY DEF Tangled
<1>3. c.day = d \/ (overnight /\ d = c.day + 1)
  <2>1. c.day <= d
    BY DEF Prepared
  <2>2. d <= c.day \/ (overnight /\ d = c.day + 1)
    BY <1>2 DEF InOrder
  <2> QED BY <1>1, <2>1, <2>2
<1> DEFINE V == Window(punches, c.day)
<1>4. PICK i \in Ins(V) : StaysOpen(V, i) /\ DayOf(i) = c.day
  BY <1>1, OpenIs DEF FoundOpen
<1>5. q.at \in Outs(V)
  BY <1>3 DEF Outs, Window, getPunchesForDay
<1>6. q.at < i /\ i \in Nat
  BY <1>1, <1>4, <1>5, WindowsHave, InstantsAreTimes DEF StaysOpen
<1>7. DayOf(q.at) <= DayOf(i)
  BY <1>1, <1>6, DaysGoOn
<1>8. c.day = d
  BY <1>1, <1>3, <1>4, <1>7
<1>9. PICK x \in punches : x.at = i
  BY <1>4 DEF Ins, Window, getPunchesForDay
<1> QED BY <1>1, <1>4, <1>6, <1>8, <1>9

LEMMA SwipeFollows ==
    ASSUME Begun(punches), OneAtATime, NEW at \in Nat, NEW d \in Days, DayOf(at) = d, ~tangled[d],
           NEW q \in punches, DayOf(q.at) = d, q.at < at,
           \A x \in punches : DayOf(x.at) = d => x.at <= q.at
    PROVE  SwipeType(at) # q.type
<1> DEFINE S(e) == {x \in getPunchesForDay(punches, e, overnight) : x.at < at}
<1>1. Timed(punches) /\ d \in Nat /\ q.at \in Nat
  BY BegunIsTimed, AttendanceAssumption DEF Timed, Days
<1>2. \A e : OpenBefore(e, at) <=> \E i \in Ins(S(e)) : StaysOpen(S(e), i)
  BY DEF OpenBefore, hasOpenSession, Open, StaysOpen
<1>3. \A e : \A x \in S(e) : x \in punches /\ x.at \in Nat
  BY <1>1 DEF Timed, getPunchesForDay
<1>4. CASE overnight /\ OpenBefore(d - 1, at)
  <2>1. SwipeType(at) = "OUT"
    BY <1>4 DEF SwipeType, resolveWorkDateForDevicePunch
  <2>2. ASSUME q.type = "OUT" PROVE FALSE
    <3>1. PICK i \in Ins(S(d - 1)) : StaysOpen(S(d - 1), i)
      BY <1>2, <1>4
    <3>2. PICK x \in S(d - 1) : x.at = i
      BY <3>1 DEF Ins
    <3>3. q \in S(d - 1)
      BY <1>1, <1>4 DEF getPunchesForDay
    <3>4. q.at < i /\ i \in Nat
      BY <1>3, <2>2, <3>1, <3>2, <3>3 DEF StaysOpen, Outs
    <3>5. DayOf(q.at) <= DayOf(i)
      BY <1>1, <3>4, DaysGoOn
    <3>6. DayOf(i) = d - 1 \/ DayOf(i) = d
      BY <1>1, <3>2 DEF getPunchesForDay
    <3>7. DayOf(i) = d
      BY <1>1, <3>5, <3>6
    <3> QED BY <1>1, <1>3, <3>2, <3>4, <3>7
  <2> QED BY <2>1, <2>2
<1>5. CASE ~(overnight /\ OpenBefore(d - 1, at))
  <2>1. SwipeType(at) = IF OpenBefore(d, at) THEN "OUT" ELSE "IN"
    BY <1>5 DEF SwipeType, resolveWorkDateForDevicePunch
  <2>2. \A x \in S(d) : DayOf(x.at) = d /\ x.at <= q.at
    <3> SUFFICES ASSUME NEW x \in S(d), DayOf(x.at) # d PROVE FALSE
      BY <1>3
    <3>1. DayOf(x.at) = d + 1 /\ x.at < at /\ x.at \in Nat
      BY <1>3 DEF getPunchesForDay
    <3>2. DayOf(x.at) <= DayOf(at)
      BY <3>1, DaysGoOn
    <3> QED BY <1>1, <3>1, <3>2
  <2>3. q \in S(d)
    BY DEF getPunchesForDay
  <2>4. CASE q.type = "IN"
    <3>1. q.at \in Ins(S(d)) /\ \A t \in Ins(S(d)) : t <= q.at
      BY <2>2, <2>3, <2>4 DEF Ins
    <3>2. ASSUME NEW x \in S(d), x.type = "OUT" PROVE x.at < q.at
      <4>1. x.at # q.at
        <5>1. x \in getPunchesForDay(punches, d, FALSE) /\ q \in getPunchesForDay(punches, d, FALSE)
          BY <1>3, <2>2 DEF getPunchesForDay
        <5>2. x.at = q.at => x = q
          BY <5>1 DEF OneAtATime
        <5> QED BY <2>4, <3>2, <5>2
      <4>2. x.at \in Nat /\ x.at <= q.at
        BY <1>3, <2>2
      <4> QED BY <1>1, <4>1, <4>2
    <3>3. StaysOpen(S(d), q.at)
      BY <3>1, <3>2 DEF StaysOpen, Outs
    <3>4. OpenBefore(d, at)
      BY <1>2, <3>1, <3>3
    <3> QED BY <2>1, <2>4, <3>4
  <2>5. CASE q.type = "OUT"
    <3>1. ASSUME OpenBefore(d, at) PROVE FALSE
      <4>1. PICK i \in Ins(S(d)) : StaysOpen(S(d), i)
        BY <1>2, <3>1
      <4>2. q.at < i
        BY <2>3, <2>5, <4>1 DEF StaysOpen, Outs
      <4>3. PICK x \in S(d) : x.at = i
        BY <4>1 DEF Ins
      <4> QED BY <1>1, <1>3, <2>2, <4>2, <4>3
    <3> QED BY <2>1, <2>5, <3>1
  <2> QED BY <1>1, <2>4, <2>5 DEF Timed
<1> QED BY <1>4, <1>5

-----------------------------------------------------------------------------
(* The commits keep the order.                                             *)
LEMMA Tangles ==
    ASSUME NEW r \in Requests, NEW t, CommitPunches(r, t), NEW d
    PROVE  Tangled(d)' <=> \/ Tangled(d)
                           \/ d \in Days /\ OutOfOrder(tx[r]) /\ \E p \in tx[r].own : DayOf(p.at) = d
<1>1. tangled' = [e \in Days |-> tangled[e] \/ (OutOfOrder(tx[r]) /\ \E p \in tx[r].own : DayOf(p.at) = e)]
  BY Zenon DEF CommitPunches
<1>2. ASSUME d \in Days
      PROVE  tangled'[d] <=> tangled[d] \/ (OutOfOrder(tx[r]) /\ \E p \in tx[r].own : DayOf(p.at) = d)
  BY <1>1, <1>2, Zenon
<1> QED BY <1>2, Zenon DEF Tangled

(* Who has not missed the commit is prepared as he was.                    *)
LEMMA OthersPrepared ==
    ASSUME IngestInv, SummaryInv, OrderInv, NEW r \in Requests, NEW next, CommitPunches(r, next),
           RowsStay, NEW q \in Requests \ {r}
    PROVE  Prepared(tx[q])'
<1>1. PICK c : c = tx[r]
  OBVIOUS
<1>2. PICK u : u = tx[q]
  OBVIOUS
<1>3. PICK late : late = Late(q, c)
  OBVIOUS
<1>4. PICK v : v = [u EXCEPT !.missed = @ \cup late]
  OBVIOUS
<1>5. punches' = punches \cup c.own /\ UNCHANGED <<scenario, now>> /\ tx'[q] = v
  BY <1>1, <1>2, <1>3, <1>4 DEF CommitPunches, Overtaken
<1>6. Shape(u) /\ Runs(u) /\ OwnPunches(u) /\ Prepared(u)
  BY <1>2 DEF IngestInv, Shapes, SummaryInv, OrderInv, Work
<1>7. /\ v.op = u.op /\ v.pc = u.pc /\ v.job = u.job /\ v.day = u.day /\ v.own = u.own
      /\ v.missed = u.missed \cup late
  BY <1>4, <1>6 DEF Shape
<1>8. overnight' = overnight /\ Today' = Today
  BY <1>5 DEF overnight, Today
<1>9. ASSUME "check" \notin v.missed PROVE InOrder(v)'
  <2>1. CASE u.pc = "idle"
    BY <1>6, <1>7, <2>1 DEF Runs, Inserting, InOrder, IngestOps
  <2>2. CASE u.pc # "idle"
    <3>1. c.own = {} /\ "check" \notin u.missed
      BY <1>2, <1>3, <1>7, <1>9, <2>2 DEF Late
    <3>2. punches' = punches
      BY <1>5, <3>1
    <3>3. \A d : Tangled(d)' <=> Tangled(d)
      BY <1>1, <3>1, Tangles
    <3>4. \A x : SwipeType(x)' = SwipeType(x)
      BY <1>8, <3>2 DEF SwipeType, OpenBefore, resolveWorkDateForDevicePunch
    <3>5. InOrder(u)
      BY <1>6, <3>1 DEF Prepared
    <3>6. InOrder(u)'
      BY <1>5, <1>8, <3>2, <3>3, <3>4, <3>5 DEF InOrder
    <3> QED BY <1>7, <3>6 DEF InOrder
  <2> QED BY <2>1, <2>2
<1>10. v.op = "approve" => request'[v.job].in = request[u.job].in /\ request'[v.job].out = request[u.job].out
  BY <1>6, <1>7 DEF OwnPunches, RowsStay
<1>11. Prepared(v)'
  BY <1>5, <1>6, <1>7, <1>8, <1>9, <1>10 DEF Prepared
<1> QED BY <1>5, <1>11, PreparedThen

(* What is committed is not of a day to come, but the time out of a        *)
(* correction.                                                             *)
LEMMA CommitOnTime ==
    ASSUME IngestInv, SummaryInv, OrderInv, NEW r \in Requests, NEW t, CommitPunches(r, t)
    PROVE  OnTime'
<1>1. PICK c : c = tx[r]
  OBVIOUS
<1>2. PICK today : today = Today
  OBVIOUS
<1>3. /\ c.pc = "save" /\ punches' = punches \cup c.own /\ Today' = today
      /\ Prepared(c) /\ OwnPunches(c) /\ today \in Nat
  BY <1>1, <1>2, DaysGoOn DEF CommitPunches, OrderInv, SummaryInv, IngestInv, ScannedInv, Today
<1>4. \A d : Tangled(d) => Tangled(d)'
  BY Tangles
<1> SUFFICES ASSUME NEW q \in punches', ~(DayOf(q.at) <= today)
             PROVE  DayOf(q.at) = today + 1 /\ Tangled(today)' /\ Tangled(today + 1)'
  BY <1>3 DEF OnTime, Tangled
<1>5. CASE q \in punches
  <2>1. DayOf(q.at) = today + 1 /\ Tangled(today) /\ Tangled(today + 1)
    BY <1>2, <1>5 DEF OrderInv, OnTime
  <2> QED BY <1>4, <2>1
<1>6. CASE q \in c.own
  <2>1. c.op = "approve"
    <3>1. ASSUME q.at < now PROVE FALSE
      <4>1. q.at \in Nat /\ now \in Nat
        BY <1>3, <1>6, BegunIsTimed DEF OwnPunches, Timed, IngestInv, ScannedInv
      <4>2. DayOf(q.at) <= today
        BY <1>2, <3>1, <4>1, DaysGoOn DEF Today
      <4> QED BY <4>2
    <3> QED BY <1>3, <1>6, <3>1 DEF Prepared
  <2>2. PICK g \in Regs : g = c.job
    BY <1>3, <2>1 DEF OwnPunches
  <2>3. PICK row : row = request[g]
    OBVIOUS
  <2>4. request[g].status # "NONE"
    BY <1>3, <2>1, <2>2 DEF OwnPunches
  <2>5. Right(row) /\ DayOf(row.in) <= today
    BY <1>2, <2>3, <2>4 DEF OrderInv, SummaryInv, RequestsBegun
  <2>6. q.at \in {row.in, row.out} /\ Ins(c.own) = {row.in}
    BY <1>3, <1>6, <2>1, <2>2, <2>3 DEF Prepared, Inserting
  <2>7. row.day \in Nat /\ DayOf(row.in) = row.day
    BY <2>5, AttendanceAssumption DEF Right, Days
  <2>8. q.at = row.out /\ row.day = today /\ DayOf(q.at) = today + 1
    BY <1>3, <2>5, <2>6, <2>7 DEF Right
  <2>9. OutOfOrder(tx[r])
    BY <1>1, <2>1 DEF OutOfOrder
  <2>10. today \in Days /\ today + 1 \in Days
    BY <2>5, <2>8 DEF Right
  <2>11. PICK p \in c.own : p.at = row.in
    BY <2>6 DEF Ins
  <2>12. DayOf(p.at) = today
    BY <2>7, <2>8, <2>11
  <2>13. Tangled(today)'
    BY <1>1, <2>9, <2>10, <2>12, Tangles
  <2>14. Tangled(today + 1)'
    BY <1>1, <1>6, <2>8, <2>9, <2>10, Tangles
  <2> QED BY <2>8, <2>13, <2>14
<1> QED BY <1>3, <1>5, <1>6

LEMMA CommitInCalendar ==
    ASSUME IngestInv, SummaryInv, OrderInv, NEW r \in Requests, NEW t, CommitPunches(r, t)
    PROVE  InCalendar'
<1>1. PICK c : c = tx[r]
  OBVIOUS
<1>2. /\ c.pc = "save" /\ punches' = punches \cup c.own /\ now' = now
      /\ Prepared(c) /\ OwnPunches(c) /\ InCalendar
  BY <1>1 DEF CommitPunches, OrderInv, SummaryInv
<1> SUFFICES ASSUME NEW q \in c.own PROVE q.at < now \/ DayOf(q.at) \in Days
  BY <1>2 DEF InCalendar
<1>3. CASE c.op # "approve"
  BY <1>2, <1>3 DEF Prepared
<1>4. CASE c.op = "approve"
  <2>1. PICK g \in Regs : g = c.job
    BY <1>2, <1>4 DEF OwnPunches
  <2>2. Right(request[g])
    BY <1>2, <1>4, <2>1 DEF OwnPunches, OrderInv
  <2>3. q.at \in {request[g].in, request[g].out}
    BY <1>2, <1>4, <2>1 DEF Prepared, Inserting
  <2> QED BY <2>2, <2>3 DEF Right
<1> QED BY <1>3, <1>4

(* A punch that was decided on in order follows one of the other type.     *)
LEMMA NewPunchFollows ==
    ASSUME SummaryInv, OrderInv, NEW r \in Requests, ~OutOfOrder(tx[r]),
           tx[r].op \in {"signIn", "signOut", "view", "approve"} \cup IngestOps,
           NEW p \in tx[r].own, NEW d \in Days, DayOf(p.at) = d, ~tangled[d],
           NEW q \in punches, DayOf(q.at) = d,
           \A x \in punches : DayOf(x.at) = d => x.at <= q.at
    PROVE  p.type # q.type
<1>1. PICK c : c = tx[r]
  OBVIOUS
<1>2. /\ Begun(punches) /\ Prepared(c) /\ OwnPunches(c) /\ Decided(c) /\ OneAtATime
      /\ p \in c.own /\ p.at \in Nat /\ q.at \in Nat
      /\ p.type \in {"IN", "OUT"} /\ q.type \in {"IN", "OUT"}
  BY <1>1 DEF SummaryInv, OrderInv, OwnPunches, Begun
<1>3. c.op # "approve" /\ "check" \notin c.missed /\ (c.op \in IngestOps => ~scenario.strict) /\ q.at < p.at
  BY <1>1, <1>2 DEF OutOfOrder, IngestOps
<1>4. InOrder(c)
  BY <1>2, <1>3 DEF Prepared
<1>5. CASE c.op = "signIn"
  <2>1. p.type = "IN"
    BY <1>2, <1>5 DEF Decided
  <2> QED BY <1>2, <1>4, <1>5, <2>1, SignInFollows
<1>6. CASE c.op = "signOut"
  <2>1. p.type = "OUT" /\ FoundOpen(c.day)
    BY <1>2, <1>3, <1>6 DEF Decided
  <2> QED BY <1>2, <1>4, <1>6, <2>1, SignOutFollows
<1>7. CASE c.op = "view"
  BY <1>2, <1>7 DEF OwnPunches
<1>8. CASE c.op \in IngestOps
  <2>1. p.type = SwipeType(p.at)
    BY <1>2, <1>3, <1>4, <1>8 DEF InOrder
  <2> QED BY <1>2, <1>3, <2>1, SwipeFollows
<1> QED BY <1>1, <1>3, <1>5, <1>6, <1>7, <1>8

LEMMA CommitAlternates ==
    ASSUME SummaryInv, OrderInv, NEW r \in Requests, NEW t, CommitPunches(r, t),
           tx[r].op \in {"signIn", "signOut", "view", "approve"} \cup IngestOps
    PROVE  OneAtATime' /\ SessionsAlternate'
<1>1. PICK c : c = tx[r]
  OBVIOUS
<1>2. /\ punches' = punches \cup c.own /\ Timed(punches) /\ Timed(c.own)
      /\ Prepared(c)
  BY <1>1, BegunIsTimed DEF CommitPunches, SummaryInv, OrderInv, OwnPunches
<1> DEFINE On(P, d) == getPunchesForDay(P, d, FALSE)
           Instants(P) == Ins(P) \cup Outs(P)
<1> SUFFICES ASSUME NEW d \in Days, ~tangled'[d]
             PROVE  /\ \A p, q \in On(punches', d) : p.at = q.at => p = q
                    /\ \A p, q \in On(punches', d) :
                          p.at < q.at /\ (\A x \in Instants(punches') : ~(p.at < x /\ x < q.at))
                          => p.type # q.type
  BY DEF OneAtATime, SessionsAlternate
<1>3. ~tangled[d] /\ (OutOfOrder(c) => \A p \in c.own : DayOf(p.at) # d)
  <2>1. ~Tangled(d)'
    BY Zenon DEF Tangled
  <2> QED BY <1>1, <2>1, Tangles, Zenon DEF Tangled
<1>4. /\ \A p, q \in On(punches, d) : p.at = q.at => p = q
      /\ \A p, q \in On(punches, d) :
            p.at < q.at /\ (\A x \in Instants(punches) : ~(p.at < x /\ x < q.at)) => p.type # q.type
  BY <1>3 DEF OrderInv, OneAtATime, SessionsAlternate
<1>5. Instants(punches) \subseteq Instants(punches') /\ \A p \in punches : p.at \in Instants(punches')
  BY <1>2 DEF Ins, Outs, Timed
<1>6. CASE \A p \in c.own : DayOf(p.at) # d
  <2>1. On(punches', d) = On(punches, d)
    BY <1>2, <1>6 DEF getPunchesForDay
  <2> QED BY <1>4, <1>5, <2>1
<1>7. ASSUME NEW p \in c.own, DayOf(p.at) = d
      PROVE  /\ \A x, y \in On(punches', d) : x.at = y.at => x = y
             /\ \A x, y \in On(punches', d) :
                   x.at < y.at /\ (\A z \in Instants(punches') : ~(x.at < z /\ z < y.at))
                   => x.type # y.type
  <2>1. ~OutOfOrder(c)
    BY <1>3, <1>7
  <2>2. c.op # "approve"
    BY <2>1 DEF OutOfOrder
  <2>3. \A x \in c.own : x = p
    BY <1>2, <1>7, <2>2 DEF Prepared
  <2>4. On(punches', d) = On(punches, d) \cup {p}
    BY <1>2, <1>7, <2>3 DEF getPunchesForDay
  <2>5. \A x \in On(punches, d) : x \in punches /\ DayOf(x.at) = d /\ x.at \in Nat
    BY <1>2 DEF getPunchesForDay, Timed
  <2>6. p.at \in Nat
    BY <1>2, <1>7 DEF Timed
  <2>7. ASSUME NEW x \in On(punches, d) PROVE x.at < p.at
    <3>1. x \in punches /\ DayOf(x.at) = DayOf(p.at) /\ x.at \in Nat
      BY <1>7, <2>5
    <3>2. ~(x.at >= p.at)
      BY <1>7, <2>1, <3>1 DEF OutOfOrder
    <3> QED BY <2>6, <3>1, <3>2
  <2>8. ASSUME NEW x \in On(punches, d), \A z \in Instants(punches') : ~(x.at < z /\ z < p.at)
        PROVE  x.type # p.type
    <3>1. ASSUME NEW y \in punches, DayOf(y.at) = d PROVE y.at <= x.at
      <4>1. y \in On(punches, d)
        BY <3>1 DEF getPunchesForDay
      <4>2. y.at < p.at /\ y.at \in Nat /\ x.at \in Nat
        BY <2>5, <2>7, <4>1
      <4>3. ~(x.at < y.at /\ y.at < p.at)
        BY <1>5, <2>8
      <4> QED BY <4>2, <4>3
    <3> QED BY <1>1, <1>3, <1>7, <2>1, <2>5, <3>1, NewPunchFollows
  <2> HIDE DEF On, Instants
  <2>9. ASSUME NEW x \in On(punches', d), NEW y \in On(punches', d), x.at = y.at PROVE x = y
    BY <1>4, <2>4, <2>5, <2>6, <2>7, <2>9
  <2>10. ASSUME NEW x \in On(punches', d), NEW y \in On(punches', d), x.at < y.at,
                \A z \in Instants(punches') : ~(x.at < z /\ z < y.at)
         PROVE  x.type # y.type
    <3>1. CASE x \in On(punches, d) /\ y \in On(punches, d)
      BY <1>4, <1>5, <2>10, <3>1
    <3>2. CASE x \in On(punches, d) /\ y = p
      BY <2>8, <2>10, <3>2
    <3>3. x # p
      BY <2>4, <2>5, <2>6, <2>7, <2>10
    <3> QED BY <2>4, <3>1, <3>2, <3>3
  <2> QED BY <2>9, <2>10
<1> QED BY <1>6, <1>7

LEMMA CommitInOrder ==
    ASSUME IngestInv, SummaryInv, OrderInv, NEW r \in Requests, NEW t, CommitPunches(r, t),
           tx[r].op \in {"signIn", "signOut", "view", "approve"} \cup IngestOps,
           t.own = {}, t.op \notin {"signIn", "signOut", "approve"}, t.pc # "apply",
           RowsStay, RowsRight
    PROVE  OrderInv'
<1>1. ASSUME NEW q \in Requests PROVE Prepared(tx[q])'
  <2>1. CASE q = r
    <3>1. tx'[q] = t
      BY <2>1 DEF CommitPunches, Overtaken
    <3>2. Prepared(t)'
      BY DEF Prepared, InOrder
    <3> QED BY <3>1, <3>2, PreparedThen
  <2>2. CASE q # r
    BY <2>2, OthersPrepared
  <2> QED BY <2>1, <2>2
<1>2. OnTime' /\ OneAtATime' /\ SessionsAlternate'
  BY CommitOnTime, CommitAlternates
<1>3. InCalendar'
  BY CommitInCalendar
<1> QED BY <1>1, <1>2, <1>3 DEF OrderInv, RowsRight

LEMMA ApprovedInOrder ==
    ASSUME IngestInv, SummaryInv, OrderInv, NEW r \in Requests, tx[r].op = "approve", CommitPunches(r, NoTx),
           request' = [request EXCEPT ![tx[r].job].status = "APPROVED"]
    PROVE  RowsStay /\ RowsRight
<1>1. PICK c : c = tx[r]
  OBVIOUS
<1>2. /\ c.op = "approve" /\ c.pc = "save" /\ punches' = punches \cup c.own /\ scenario' = scenario
      /\ Prepared(c) /\ OwnPunches(c) /\ RequestsBegun
  BY <1>1 DEF CommitPunches, OrderInv, SummaryInv
<1>3. PICK g \in Regs : g = c.job
  BY <1>2 DEF OwnPunches
<1>4. PICK row : row = request[g]
  OBVIOUS
<1>5. PICK new : new = [row EXCEPT !.status = "APPROVED"]
  OBVIOUS
<1>6. row \in [status : {"NONE", "PENDING", "APPROVED", "REJECTED", "WITHDRAWN"},
               day : Int, in : Int, out : Int]
  BY <1>2, <1>4 DEF RequestsBegun
<1>7. new.status = "APPROVED" /\ new.day = row.day /\ new.in = row.in /\ new.out = row.out
  BY <1>5, <1>6
<1>8. request' = [request EXCEPT ![g] = new]
  BY <1>1, <1>3, <1>4, <1>5
<1>9. Right(row)
  BY <1>2, <1>3, <1>4 DEF OwnPunches, OrderInv
<1>10. Right(new)
  BY <1>7, <1>9 DEF Right
<1>11. Ins(c.own) = {row.in} /\ Outs(c.own) = {row.out}
  BY <1>2, <1>3, <1>4 DEF Prepared, Inserting
<1>12. Granted(new)'
  <2>1. Ins(c.own) \subseteq Ins(punches') /\ Outs(c.own) \subseteq Outs(punches')
    BY <1>2 DEF Ins, Outs
  <2> QED BY <1>7, <1>11, <2>1 DEF Granted
<1> QED BY <1>2, <1>4, <1>7, <1>8, <1>10, <1>12, NewRow

LEMMA CommitsInOrder ==
    ASSUME IngestInv, SummaryInv, OrderInv, NEW r \in Requests,
           \/ SaveSummary(r) /\ UNCHANGED <<request, devVars>>
           \/ SaveApproval(r) /\ UNCHANGED devVars
           \/ SaveSwipe(r) /\ UNCHANGED request
    PROVE  OrderInv'
<1>1. ASSUME Abort(r), UNCHANGED request PROVE OrderInv'
  <2>1. Prepared(NoTx)
    BY NoTxFields, PlainPrepared
  <2> QED BY <1>1, <2>1, NoTxFields, OneGoesOnInOrder DEF Abort, Timed
<1>2. ASSUME NEW t, CommitPunches(r, t), UNCHANGED request PROVE RowsStay /\ RowsRight
  <2>1. Ins(punches) \subseteq Ins(punches') /\ Outs(punches) \subseteq Outs(punches')
    BY <1>2 DEF CommitPunches, Ins, Outs
  <2>2. overnight' = overnight
    BY <1>2 DEF CommitPunches, overnight
  <2> QED BY <1>2, <2>1, <2>2 DEF RowsStay, RowsRight, OrderInv, Right, Granted
<1>3. ASSUME CommitPunches(r, NoTx), tx[r].op \in {"signIn", "signOut", "view", "approve"},
             RowsStay, RowsRight
      PROVE  OrderInv'
  BY <1>3, NoTxFields, CommitInOrder
<1>4. CASE SaveSummary(r) /\ UNCHANGED <<request, devVars>>
  BY <1>1, <1>2, <1>3, <1>4 DEF SaveSummary
<1>5. CASE SaveApproval(r)
  <2>1. CASE ~CommitPunches(r, NoTx)
    BY <1>1, <1>5, <2>1 DEF SaveApproval
  <2>2. CASE CommitPunches(r, NoTx)
    <3>1. tx[r].op = "approve"
      BY <1>5 DEF SaveApproval
    <3>2. UNCHANGED request \/ request' = [request EXCEPT ![tx[r].job].status = "APPROVED"]
      BY <1>5 DEF SaveApproval
    <3>3. RowsStay /\ RowsRight
      BY <1>2, <2>2, <3>1, <3>2, ApprovedInOrder
    <3> QED BY <1>3, <2>2, <3>1, <3>3
  <2> QED BY <2>1, <2>2
<1>6. CASE SaveSwipe(r) /\ UNCHANGED request
  <2>1. PICK t : t = NextOf(tx[r])
    OBVIOUS
  <2>2. CommitPunches(r, t) /\ tx[r].op \in IngestOps
    BY <1>6, <2>1 DEF SaveSwipe
  <2>3. t.op = tx[r].op /\ t.own = {} /\ t.pc \in {"next", "saveRow"}
    BY <2>1, <2>2, NextFields DEF IngestOps
  <2>4. RowsStay /\ RowsRight
    BY <1>2, <1>6, <2>2
  <2> QED BY <2>2, <2>3, <2>4, CommitInOrder DEF IngestOps
<1> QED BY <1>4, <1>5, <1>6

LEMMA OrderInit == Init => OrderInv
<1> SUFFICES ASSUME Init PROVE OrderInv
  OBVIOUS
<1>1. tx = [r \in Requests |-> NoTx] /\ punches = {} /\ request = [g \in Regs |-> NoRequest]
  BY DEF Init, AttendanceInit, RegInit
<1>2. \A g \in Regs : request[g].status = "NONE"
  BY <1>1 DEF NoRequest
<1>3. Prepared(NoTx)
  BY NoTxFields, PlainPrepared
<1> QED BY <1>1, <1>2, <1>3 DEF OrderInv, OnTime, InCalendar, OneAtATime, SessionsAlternate, getPunchesForDay

LEMMA OrderNext == IngestInv /\ SummaryInv /\ OrderInv /\ [Next]_vars => OrderInv'
<1> SUFFICES ASSUME IngestInv, SummaryInv, OrderInv, [Next]_vars PROVE OrderInv'
  OBVIOUS
<1>1. CASE NextDay /\ UNCHANGED <<request, devVars>>
  BY <1>1, OthersInOrder
<1>2. ASSUME NEW r \in Requests, WebStep(r), UNCHANGED <<request, devVars>> PROVE OrderInv'
  BY <1>2, WebInOrder, CommitsInOrder DEF WebStep
<1>3. ASSUME NEW r \in Requests, RegStep(r), UNCHANGED devVars PROVE OrderInv'
  BY <1>3, CorrectionsInOrder, CommitsInOrder DEF RegStep
<1>4. ASSUME DevStep, UNCHANGED request PROVE OrderInv'
  <2>1. ASSUME NEW r \in Requests,
               \/ push(r) \/ IngestStep(r) \/ Fail(r)
               \/ \E id \in Rows : ignoreUnmapped(r, id) \/ resolveUnmapped(r, id)
        PROVE  OrderInv'
    BY <1>4, <2>1, IngestInOrder, CommitsInOrder DEF IngestStep, Reject, Fail
  <2>2. CASE \/ \E type \in EventTypes : scan(type)
             \/ AnswerLost \/ Crash \/ assignBiometricId \/ clearBiometricId
    BY <1>4, <2>2, OthersInOrder
  <2> QED BY <1>4, <2>1, <2>2 DEF DevStep
<1>5. CASE UNCHANGED vars
  BY <1>5, OthersInOrder DEF vars
<1> QED BY <1>1, <1>2, <1>3, <1>4, <1>5 DEF Next

AttendanceInv == IngestInv /\ SummaryInv /\ OrderInv

LEMMA AttendanceInvariant == Spec => []AttendanceInv
<1>1. Init => AttendanceInv
  BY IngestInit, SummaryInit, OrderInit DEF AttendanceInv
<1>2. AttendanceInv /\ [Next]_vars => AttendanceInv'
  BY IngestNext, SummaryNext, OrderNext DEF AttendanceInv
<1> QED BY <1>1, <1>2, PTL DEF Spec

(* IN and OUT alternate on a day, whatever the mix of web punches and      *)
(* swipes, if each was decided on after the one before it was stored:      *)
(* findOpenSessionContext and resolveDevicePunchType, for any number of    *)
(* handlers, days and instants, with or without shifts that span midnight. *)
THEOREM SessionsAlwaysAlternate == Spec => []SessionsAlternate
<1>1. AttendanceInv => SessionsAlternate
  BY DEF AttendanceInv, OrderInv
<1> QED BY <1>1, AttendanceInvariant, PTL

-----------------------------------------------------------------------------
(* The days that were corrected.                                           *)
LEMMA DayIsOver ==
    ASSUME NEW d \in Nat, NEW t \in Nat, DayOf(t) <= d
    PROVE  (d + 1) * DayLength \in Nat /\ t <= (d + 1) * DayLength
<1>1. DayLength \in Nat /\ DayLength > 0
  BY DayLengthAssumption
<1> DEFINE q == t \div DayLength
<1>2. q \in Nat /\ t = q * DayLength + (t % DayLength) /\ t % DayLength \in 0 .. DayLength - 1
  BY <1>1
<1>3. q <= d
  BY DEF DayOf
<1>4. q * DayLength \in Nat /\ d * DayLength \in Nat /\ (d + 1) * DayLength = d * DayLength + DayLength
  BY <1>1, <1>2
<1>5. q * DayLength <= d * DayLength
  <2>1. PICK e \in Nat : d = q + e
    <3>1. d - q \in Nat /\ d = q + (d - q)
      BY <1>2, <1>3
    <3> QED BY <3>1
  <2>2. d * DayLength = q * DayLength + e * DayLength /\ e * DayLength \in Nat
    BY <1>1, <1>2, <2>1
  <2> QED BY <1>4, <2>2
<1> QED BY <1>1, <1>2, <1>4, <1>5

(* Between a time in and a later time out some session ended.              *)
LEMMA SomePair ==
    ASSUME NEW V, Timed(V), NEW in \in Ins(V), NEW out \in Outs(V), in < out
    PROVE  \E i \in Ins(V), o \in Outs(V) : Pairs(V, i, o) /\ in <= i /\ i <= out
<1>1. Ins(V) \subseteq Nat /\ Outs(V) \subseteq Nat
  BY InstantsAreTimes
<1> DEFINE S == {t \in Ins(V) : t <= out}
<1>2. PICK i \in S : \A t \in S : t <= i
  <2>1. S \subseteq Nat /\ in \in S /\ out \in Nat /\ \A t \in S : t <= out
    BY <1>1
  <2> HIDE DEF S
  <2> QED BY <2>1, GreatestNat
<1>3. i \in Ins(V) /\ i \in Nat /\ i <= out /\ in <= i
  BY <1>1, <1>2
<1> DEFINE T == {t \in Outs(V) : i <= t}
<1>4. PICK o \in T : \A t \in T : o <= t
  <2>1. T \subseteq Nat /\ out \in T
    BY <1>1, <1>3
  <2> HIDE DEF T
  <2> QED BY <2>1, LeastNat
<1>5. o \in Outs(V) /\ o \in Nat /\ i <= o /\ o <= out
  BY <1>1, <1>3, <1>4
<1>6. ASSUME NEW t \in Ins(V), i < t, t <= o PROVE FALSE
  <2>1. t \in S
    BY <1>1, <1>5, <1>6
  <2> QED BY <1>1, <1>2, <1>3, <1>6, <2>1
<1>7. ASSUME NEW t \in Outs(V), i <= t, t < o PROVE FALSE
  BY <1>1, <1>4, <1>5, <1>7
<1> QED BY <1>3, <1>5, <1>6, <1>7 DEF Pairs

LEMMA ApprovedPair ==
    ASSUME AttendanceInv, NEW g \in Regs, request[g].status = "APPROVED", ~BegunBefore(g)
    PROVE  ClosedPairs(PairsIn(punches, request[g].day)) # {}
<1>1. PICK row : row = request[g]
  OBVIOUS
<1>2. PICK V : V = Window(punches, row.day)
  OBVIOUS
<1>3. Right(row) /\ Granted(row) /\ Timed(punches)
  BY <1>1, BegunIsTimed DEF AttendanceInv, OrderInv, SummaryInv
<1>4. Timed(V)
  BY <1>2, <1>3, WindowsHave
<1>5. row.in \in Ins(V) /\ row.out \in Outs(V) /\ row.in < row.out
  BY <1>2, <1>3 DEF Right, Granted, Window, getPunchesForDay, Ins, Outs
<1>6. PICK i \in Ins(V), o \in Outs(V) : Pairs(V, i, o) /\ row.in <= i /\ i <= row.out
  BY <1>4, <1>5, SomePair
<1>7. i \in Ins(punches) /\ i \in Nat /\ row.in \in Nat /\ o # Never
  <2>1. i \in Ins(punches)
    BY <1>2, <1>6, WindowsHave
  <2> QED BY <1>4, <1>5, <1>6, <2>1, InstantsAreTimes
<1>8. DayOf(i) = row.day
  <2>1. CASE i = row.in
    BY <1>3, <2>1 DEF Right
  <2>2. CASE i # row.in
    BY <1>1, <1>6, <1>7, <2>2 DEF BegunBefore
  <2> QED BY <2>1, <2>2
<1>9. [in |-> i, out |-> o] \in pairPunches(V, row.day)
  BY <1>6, <1>8, PairsAre
<1> QED BY <1>1, <1>2, <1>7, <1>9 DEF ClosedPairs, PairsIn

(* The last OUT of a day with a closed pair is an instant.                 *)
LEMMA LastOutIs ==
    ASSUME NEW P, Timed(P), NEW d \in Nat, ClosedPairs(PairsIn(P, d)) # {}
    PROVE  SummaryOf(PairsIn(P, d)).lastOut # Never
<1> DEFINE V == Window(P, d)
           outs == {p.out : p \in ClosedPairs(PairsIn(P, d))}
<1>1. Timed(V)
  BY WindowsHave
<1>2. \A x \in V : DayOf(x.at) <= d + 1
  <2>1. \A x \in V : DayOf(x.at) = d \/ DayOf(x.at) = d + 1
    BY DEF Window, getPunchesForDay
  <2> QED BY <2>1
<1>3. ASSUME NEW p \in ClosedPairs(PairsIn(P, d)) PROVE p.out \in Outs(V)
  <2>1. p \in pairPunches(V, d) /\ p.out # Never
    BY DEF ClosedPairs, PairsIn
  <2>2. PICK i \in Ins(V), o \in Outs(V) \cup {Never} : p = [in |-> i, out |-> o]
    BY <2>1, PairsAre
  <2> QED BY <2>1, <2>2
<1>4. PICK b \in Nat : b = (d + 1 + 1) * DayLength
  BY DayLengthAssumption
<1>5. ASSUME NEW o \in Outs(V) PROVE o \in Nat /\ o <= b
  <2>1. PICK x \in V : x.at = o
    BY DEF Outs
  <2>2. o \in Nat /\ DayOf(o) <= d + 1 /\ d + 1 \in Nat
    BY <1>1, <1>2, <2>1 DEF Timed
  <2> QED BY <1>4, <2>2, DayIsOver
<1>6. outs \subseteq Nat /\ outs # {} /\ \A o \in outs : o <= b
  BY <1>3, <1>5
<1> HIDE DEF outs
<1>7. PICK o \in outs : \A n \in outs : n <= o
  BY <1>6, GreatestNat
<1>8. Max(outs) \in outs
  <2>1. \E x \in outs : \A y \in outs : x >= y
    BY <1>6, <1>7
  <2> QED BY <2>1 DEF Max
<1>9. Max(outs) # Never
  BY <1>6, <1>8 DEF Never
<1>10. SummaryOf(PairsIn(P, d)).lastOut = Max(outs)
  BY DEF SummaryOf, outs
<1> QED BY <1>9, <1>10

(* A day that was corrected has a complete pair.                           *)
ApprovedHasPair ==
    \A g \in Regs : request[g].status = "APPROVED" /\ ~BegunBefore(g) => Complete(request[g].day)

(* Once a request is approved its day has a complete pair of IN and OUT,   *)
(* whoever decides it and whatever is punched, swiped or decided meanwhile *)
(* (applyRegularizationPunches and the transaction around it); and its     *)
(* summary shows one wherever summaries are kept (SummariesMatch).         *)
THEOREM ApprovedDays == Spec => [](ApprovedHasPair /\ (NightScans \/ ApprovedDayIsComplete))
<1>1. ASSUME AttendanceInv PROVE ApprovedHasPair
  BY <1>1, ApprovedPair DEF ApprovedHasPair, Complete, hasCompleteInOutPair, PairsIn, Window
<1>2. ASSUME AttendanceInv, ~NightScans PROVE ApprovedDayIsComplete
  <2>1. ASSUME NEW g \in Regs, request[g].status = "APPROVED", ~BegunBefore(g), ~behind[request[g].day]
        PROVE  summary[request[g].day].lastOut # Never
    <3>1. PICK d \in Days : d = request[g].day
      BY <1>2, <2>1 DEF AttendanceInv, OrderInv, Right
    <3>2. ClosedPairs(PairsIn(punches, d)) # {}
      BY <1>2, <2>1, <3>1, ApprovedPair
    <3>3. summary[d] = SummaryOf(PairsIn(punches, d))
      <4>1. PairsIn(punches, d) # {}
        BY <3>2 DEF ClosedPairs
      <4>2. SummaryMatchesPunches
        BY <1>2 DEF AttendanceInv, SummaryInv
      <4> QED BY <2>1, <3>1, <4>1, <4>2 DEF SummaryMatchesPunches, PairsIn, Window
    <3>4. Timed(punches) /\ d \in Nat
      BY <1>2, BegunIsTimed, AttendanceAssumption DEF AttendanceInv, SummaryInv, Days
    <3> QED BY <3>1, <3>2, <3>3, <3>4, LastOutIs
  <2>2. ApprovedHasPair
    BY <1>1, <1>2
  <2> QED BY <2>1, <2>2 DEF ApprovedDayIsComplete, ApprovedHasPair
<1>3. AttendanceInv => ApprovedHasPair /\ (NightScans \/ ApprovedDayIsComplete)
  BY <1>1, <1>2
<1> QED BY <1>3, AttendanceInvariant, PTL

-----------------------------------------------------------------------------
(* The views, which look across the days.                                  *)

(* The clock stops at the end of the calendar.                             *)
Clock == scenario \in Scenarios /\ now \in 0 .. End

(* Under a shift that spans midnight a day goes on where the one before    *)
(* ended.                                                                  *)
NightsAlternate ==
    overnight /\ ~NightScans /\ (\A d \in Days : ~tangled[d]) =>
        \A p, q \in punches :
            /\ DayOf(q.at) = DayOf(p.at) + 1
            /\ \A t \in Ins(punches) \cup Outs(punches) : ~(p.at < t /\ t < q.at)
            => p.type # q.type

LEMMA StepKinds ==
    ASSUME [Next]_vars
    PROVE  /\ scenario' = scenario
           /\ now' = now \/ (now' = now + 1 /\ now < scenario.last)
                         \/ (NextDay /\ now' < scenario.last)
           /\ \/ UNCHANGED <<punches, tangled>>
              \/ \E r \in Requests : \E t :
                    /\ tx[r].op \in {"signIn", "signOut", "view", "approve"} \cup IngestOps
                    /\ CommitPunches(r, t)
<1> DEFINE Kinds ==
        /\ scenario' = scenario
        /\ now' = now \/ (now' = now + 1 /\ now < scenario.last)
                      \/ (NextDay /\ now' < scenario.last)
        /\ \/ UNCHANGED <<punches, tangled>>
           \/ \E r \in Requests : \E t :
                 /\ tx[r].op \in {"signIn", "signOut", "view", "approve"} \cup IngestOps
                 /\ CommitPunches(r, t)
<1>1. UNCHANGED <<scenario, now, punches, tangled>> => Kinds
  OBVIOUS
<1>2. ASSUME NEW r \in Requests, NEW t, CommitPunches(r, t),
             tx[r].op \in {"signIn", "signOut", "view", "approve"} \cup IngestOps
      PROVE  Kinds
  <2>1. UNCHANGED <<scenario, now>>
    BY <1>2 DEF CommitPunches
  <2> QED BY <1>2, <2>1
<1>3. \A r, t : Continue(r, t) => UNCHANGED <<scenario, now, punches, tangled>>
  BY DEF Continue
<1>4. CASE NextDay
  BY <1>4 DEF NextDay
<1> HIDE DEF Kinds
<1>5. ASSUME NEW r \in Requests, WebStep(r) PROVE Kinds
  <2>1. CASE WebPunch(r)
    BY <2>1, <1>3 DEF WebPunch, Abort, Kinds
  <2>2. CASE SaveSummary(r)
    BY <1>1, <1>2, <1>3, <2>2 DEF SaveSummary, Abort
  <2> QED BY <1>1, <1>3, <1>5, <2>1, <2>2
          DEF WebStep, signIn, signOut, getDayDetail, Begin, Snapshot, LoadSummary
<1>6. ASSUME NEW r \in Requests, RegStep(r) PROVE Kinds
  <2>1. CASE SaveApproval(r)
    BY <1>1, <1>2, <1>3, <2>1 DEF SaveApproval, Abort
  <2>2. CASE SaveDecision(r)
    BY <1>1, <2>2 DEF SaveDecision
  <2>3. ASSUME NEW g \in Regs, NEW d, NEW time, create(r, g, d, time) PROVE Kinds
    BY <1>1, <2>3 DEF create, attVars
  <2> QED BY <1>1, <1>3, <1>6, <2>1, <2>2, <2>3
          DEF RegStep, approve, decide, Begin, applyRegularizationPunches, Abort
<1>7. ASSUME DevStep PROVE Kinds
  <2>1. ASSUME NEW r \in Requests, FailEvent(r) PROVE Kinds
    BY <1>1, <1>3, <2>1 DEF FailEvent
  <2>2. ASSUME NEW r \in Requests, SaveSwipe(r) PROVE Kinds
    BY <1>2, <2>2 DEF SaveSwipe
  <2>3. ASSUME NEW r \in Requests, Snapshot(r) \/ LoadSummary(r) PROVE Kinds
    BY <1>1, <1>3, <2>3 DEF Snapshot, LoadSummary
  <2>4. ASSUME NEW r \in Requests,
               \/ push(r) \/ Answer(r) \/ NextEvent(r) \/ QueueFind(r) \/ QueueSave(r) \/ Dedupe(r)
               \/ SavePunch(r) \/ ListOpen(r) \/ NextRow(r) \/ SaveRow(r)
               \/ \E id \in Rows : ignoreUnmapped(r, id) \/ resolveUnmapped(r, id)
        PROVE Kinds
    BY <1>1, <1>3, <2>4
       DEF push, Answer, NextEvent, QueueFind, QueueSave, Dedupe, SavePunch, ListOpen, NextRow,
           SaveRow, ignoreUnmapped, resolveUnmapped, Begin, Abort
  <2>5. ASSUME NEW type \in EventTypes, scan(type) PROVE Kinds
    BY <2>5 DEF scan, Kinds
  <2>6. CASE AnswerLost \/ Crash \/ assignBiometricId \/ clearBiometricId
    BY <1>1, <2>6 DEF AnswerLost, Crash, assignBiometricId, clearBiometricId, attVars
  <2> QED BY <1>7, <2>1, <2>2, <2>3, <2>4, <2>5, <2>6 DEF DevStep, IngestStep, Reject, Fail
<1>8. CASE UNCHANGED vars
  BY <1>1, <1>8 DEF vars, attVars
<1>9. Kinds
  BY <1>4, <1>5, <1>6, <1>7, <1>8 DEF Next, Kinds
<1> QED BY <1>9 DEF Kinds

LEMMA ClockInit == Init => Clock
BY AttendanceAssumption DEF Init, AttendanceInit, Clock

LEMMA ClockNext == Clock /\ [Next]_vars => Clock'
<1> SUFFICES ASSUME Clock, [Next]_vars PROVE Clock'
  OBVIOUS
<1>1. End \in Nat
  BY AttendanceAssumption, DayLengthAssumption DEF End
<1>2. now \in Nat /\ scenario.last \in 0 .. End
  BY <1>1, AttendanceAssumption DEF Clock
<1>3. CASE NextDay /\ now' < scenario.last
  <2>1. now' \in Nat
    BY <1>2, <1>3, NextDayLater
  <2> QED BY <1>1, <1>2, <1>3, <2>1, StepKinds DEF Clock
<1> QED BY <1>1, <1>2, <1>3, StepKinds DEF Clock

(* What has happened is in the calendar.                                   *)
LEMMA PastIsInCalendar ==
    ASSUME Clock, NEW t \in Nat, t < now
    PROVE  DayOf(t) \in Days
<1>1. DayLength \in Nat /\ DayLength > 0 /\ LastDay \in Nat
  BY DayLengthAssumption, AttendanceAssumption
<1>2. PICK n \in Nat : n = LastDay + 1
  BY <1>1
<1>3. n * DayLength \in Nat /\ t < n * DayLength
  BY <1>1, <1>2 DEF Clock, End
<1>4. PICK q \in Nat : q = DayOf(t)
  BY DaysGoOn
<1>5. q * DayLength <= t
  <2> DEFINE a == t \div DayLength
  <2>1. a \in Nat /\ t = a * DayLength + (t % DayLength) /\ t % DayLength \in 0 .. DayLength - 1
    BY <1>1
  <2>2. a * DayLength \in Nat
    BY <1>1, <2>1
  <2> QED BY <1>1, <1>4, <2>1, <2>2 DEF DayOf
<1>6. q < n
  <2> SUFFICES ASSUME ~(q < n) PROVE FALSE
    OBVIOUS
  <2>1. PICK e \in Nat : q = n + e
    <3>1. q - n \in Nat /\ q = n + (q - n)
      OBVIOUS
    <3> QED BY <3>1
  <2>2. q * DayLength = n * DayLength + e * DayLength /\ e * DayLength \in Nat
    BY <1>1, <2>1
  <2> QED BY <1>3, <1>5, <2>2
<1> QED BY <1>1, <1>2, <1>4, <1>6 DEF Days

LEMMA PunchesInCalendar ==
    ASSUME Clock, OrderInv, Timed(punches)
    PROVE  \A q \in punches : DayOf(q.at) \in Days
BY PastIsInCalendar DEF OrderInv, InCalendar, Timed

(* A sign-in or a sign-out comes after all others, and of two nights the   *)
(* second goes on where the first ended.                                   *)
LEMMA NextNightFollows ==
    ASSUME IngestInv, SummaryInv, OrderInv, Clock, overnight, ~NightScans,
           NEW r \in Requests, ~OutOfOrder(tx[r]), \A d : ~Tangled(d),
           tx[r].op \in {"signIn", "signOut", "view", "approve"} \cup IngestOps,
           NEW o \in tx[r].own
    PROVE  /\ \A q \in punches : DayOf(q.at) # DayOf(o.at) + 1
           /\ \A p \in punches :
                 /\ DayOf(o.at) = DayOf(p.at) + 1
                 /\ \A t \in Ins(punches) \cup Outs(punches) : ~(p.at < t /\ t < o.at)
                 => p.type # o.type
<1>1. PICK c : c = tx[r]
  OBVIOUS
<1>2. /\ Begun(punches) /\ Timed(punches) /\ Prepared(c) /\ OwnPunches(c) /\ Decided(c) /\ OneAtATime
      /\ o \in c.own /\ o.at \in Nat /\ o.type \in {"IN", "OUT"}
      /\ \A q \in punches : q.at \in Nat /\ q.type \in {"IN", "OUT"} /\ DayOf(q.at) \in Nat
  BY <1>1, BegunIsTimed, DaysGoOn DEF SummaryInv, OrderInv, OwnPunches, Begun, Timed
<1>3. /\ c.op # "approve" /\ "check" \notin c.missed
      /\ \A q \in punches : DayOf(q.at) = DayOf(o.at) => q.at < o.at
  BY <1>1, <1>2 DEF OutOfOrder
<1>4. c.op \in {"signIn", "signOut"}
  BY <1>1, <1>2, <1>3 DEF OwnPunches
<1>5. InOrder(c) /\ c.day \in Int /\ c.day <= DayOf(o.at) /\ DayOf(o.at) \in Nat
  BY <1>2, <1>3, <1>4, DaysGoOn DEF Prepared
<1>6. /\ c.op = "signIn" => ~HasOpen(punches, c.day - 1, overnight) /\ ~HasOpen(punches, c.day, overnight)
      /\ c.op = "signIn" => o.type = "IN" /\ \A q \in punches : DayOf(q.at) <= c.day
  BY <1>2, <1>3, <1>5 DEF Decided, FoundClosed, InOrder
<1>7. ASSUME c.op = "signOut"
      PROVE  /\ o.type = "OUT" /\ \A q \in punches : DayOf(q.at) <= c.day
             /\ \A q \in punches : DayOf(q.at) = c.day => q.type = "IN" \/ \E x \in punches :
                    DayOf(x.at) = c.day /\ q.at < x.at
  <2>1. o.type = "OUT" /\ HasOpen(punches, c.day, overnight)
    BY <1>2, <1>3, <1>7 DEF Decided, FoundOpen
  <2> DEFINE V == Window(punches, c.day)
  <2>2. PICK i \in Ins(V) : StaysOpen(V, i) /\ DayOf(i) = c.day
    BY <1>2, <2>1, OpenIs
  <2>3. PICK x \in V : x.at = i /\ x \in punches
    BY <2>2 DEF Ins, Window, getPunchesForDay
  <2>4. ASSUME NEW q \in V PROVE q.at <= i /\ (q.type = "OUT" => q.at < i)
    BY <1>2, <2>2, <2>3, <2>4 DEF StaysOpen, Ins, Outs, Window, getPunchesForDay
  <2>5. ASSUME NEW q \in punches PROVE DayOf(q.at) <= c.day
    <3>1. DayOf(q.at) <= c.day \/ DayOf(q.at) = c.day + 1
      BY <1>5, <1>7, <2>5 DEF InOrder
    <3>2. CASE DayOf(q.at) = c.day + 1
      <4>1. q \in V
        BY <3>2 DEF Window, getPunchesForDay
      <4>2. DayOf(q.at) <= DayOf(i)
        BY <1>2, <2>3, <2>4, <4>1, DaysGoOn
      <4> QED BY <1>5, <2>2, <3>2, <4>2
    <3> QED BY <3>1, <3>2
  <2>6. ASSUME NEW q \in punches, DayOf(q.at) = c.day, q.type # "IN"
        PROVE  \E y \in punches : DayOf(y.at) = c.day /\ q.at < y.at
    <3>1. q \in V /\ q.type = "OUT"
      BY <1>2, <2>6 DEF Window, getPunchesForDay
    <3> QED BY <2>2, <2>3, <2>4, <3>1
  <2> QED BY <2>1, <2>5, <2>6
<1>8. \A q \in punches : DayOf(q.at) <= c.day
  BY <1>4, <1>6, <1>7
<1>9. \A q \in punches : DayOf(q.at) # DayOf(o.at) + 1
  BY <1>2, <1>5, <1>8
<1>10. ASSUME NEW p \in punches, DayOf(o.at) = DayOf(p.at) + 1,
              \A t \in Ins(punches) \cup Outs(punches) : ~(p.at < t /\ t < o.at)
       PROVE  p.type # o.type
  <2> DEFINE d == DayOf(p.at)
  <2>1. c.day = d \/ c.day - 1 = d
    BY <1>2, <1>5, <1>8, <1>10
  <2>2. ASSUME NEW q \in punches, DayOf(q.at) = d \/ DayOf(q.at) = d + 1 PROVE q.at <= p.at
    <3>1. q.at \in Ins(punches) \cup Outs(punches)
      BY <1>2 DEF Ins, Outs
    <3>2. q.at < o.at
      <4>1. o.at <= q.at => DayOf(o.at) <= DayOf(q.at)
        BY <1>2, DaysGoOn
      <4> QED BY <1>2, <1>3, <1>10, <2>2, <4>1
    <3> QED BY <1>2, <1>10, <3>1, <3>2
  <2>3. CASE c.op = "signIn"
    <3> SUFFICES ASSUME p.type = "IN" PROVE FALSE
      BY <1>6, <2>3
    <3> DEFINE V == Window(punches, d)
    <3>1. \A x \in V : x \in punches /\ x.at <= p.at
      BY <2>2 DEF Window, getPunchesForDay
    <3>2. p.at \in Ins(V)
      BY DEF Ins, Window, getPunchesForDay
    <3>3. ASSUME NEW x \in V, x.type = "OUT" PROVE x.at < p.at
      <4>1. d \in Days /\ ~tangled[d]
        BY <1>2, PunchesInCalendar DEF Tangled
      <4>2. ASSUME x.at = p.at PROVE FALSE
        <5>1. /\ x \in getPunchesForDay(punches, d, FALSE) /\ p \in getPunchesForDay(punches, d, FALSE)
          BY <3>1, <4>2 DEF getPunchesForDay
        <5>2. x = p
          BY <1>2, <4>1, <4>2, <5>1 DEF OneAtATime
        <5> QED BY <3>3, <5>2
      <4> QED BY <1>2, <3>1, <4>2
    <3>4. StaysOpen(V, p.at)
      BY <3>1, <3>2, <3>3 DEF StaysOpen, Ins, Outs
    <3>5. HasOpen(punches, d, overnight)
      BY <1>2, <3>2, <3>4, OpenIs
    <3> HIDE DEF d
    <3> QED BY <1>6, <2>1, <2>3, <3>5
  <2>4. CASE c.op = "signOut"
    <3> SUFFICES ASSUME p.type = "OUT" PROVE FALSE
      BY <1>7, <2>4
    <3>1. c.day = d
      <4>1. HasOpen(punches, c.day, overnight)
        BY <1>2, <1>3, <2>4 DEF Decided, FoundOpen
      <4>2. PICK i \in Ins(Window(punches, c.day)) : DayOf(i) = c.day
        BY <1>2, <4>1, OpenIs
      <4>3. PICK x \in punches : x.at = i
        BY <4>2 DEF Ins, Window, getPunchesForDay
      <4>4. c.day = d + 1 => FALSE
        <5> SUFFICES ASSUME c.day = d + 1 PROVE FALSE
          OBVIOUS
        <5>1. x.at <= p.at
          BY <2>2, <4>2, <4>3
        <5>2. DayOf(x.at) <= d
          BY <1>2, <5>1, DaysGoOn
        <5> QED BY <1>2, <4>2, <4>3, <5>2
      <4> QED BY <1>2, <1>5, <2>1, <4>4
    <3>2. PICK x \in punches : DayOf(x.at) = c.day /\ p.at < x.at
      BY <1>7, <2>4, <3>1
    <3>3. x.at <= p.at
      BY <2>2, <3>1, <3>2
    <3> QED BY <1>2, <3>2, <3>3
  <2> QED BY <1>4, <2>3, <2>4
<1> QED BY <1>9, <1>10

LEMMA NightsNext ==
    ASSUME IngestInv, SummaryInv, OrderInv, Clock, NightsAlternate, [Next]_vars
    PROVE  NightsAlternate'
<1>1. overnight' = overnight /\ NightScans' = NightScans
  BY StepKinds DEF overnight, NightScans, Asked
<1>2. CASE UNCHANGED <<punches, tangled>>
  BY <1>1, <1>2 DEF NightsAlternate
<1>3. ASSUME NEW r \in Requests, NEW next, CommitPunches(r, next),
             tx[r].op \in {"signIn", "signOut", "view", "approve"} \cup IngestOps
      PROVE  NightsAlternate'
  <2> SUFFICES ASSUME overnight, ~NightScans, \A d \in Days : ~tangled'[d],
                      NEW p \in punches', NEW q \in punches', DayOf(q.at) = DayOf(p.at) + 1,
                      \A t \in Ins(punches') \cup Outs(punches') : ~(p.at < t /\ t < q.at)
               PROVE  p.type # q.type
    BY <1>1 DEF NightsAlternate
  <2>1. PICK c : c = tx[r]
    OBVIOUS
  <2>2. /\ punches' = punches \cup c.own /\ c.pc = "save" /\ Prepared(c) /\ OwnPunches(c)
        /\ Timed(punches) /\ Timed(c.own)
    BY <1>3, <2>1, BegunIsTimed DEF CommitPunches, OrderInv, SummaryInv, OwnPunches
  <2>3. \A d : ~Tangled(d)' /\ ~Tangled(d)
    <3>1. \A d : ~Tangled(d)'
      BY Zenon DEF Tangled
    <3> QED BY <1>3, <3>1, Tangles
  <2>4. \A t \in Ins(punches) \cup Outs(punches) : ~(p.at < t /\ t < q.at)
    BY <2>2 DEF Ins, Outs
  <2>5. \A d \in Days : ~tangled[d]
    BY <2>3 DEF Tangled
  <2>6. \A d \in Days : \A o \in c.own : DayOf(o.at) = d => ~OutOfOrder(c)
    BY <1>3, <2>1, <2>3, Tangles
  <2>7. ASSUME NEW o \in c.own PROVE DayOf(o.at) \in Days
    <3>1. CASE c.op # "approve"
      BY <2>2, <2>7, <3>1, PastIsInCalendar DEF Prepared, Timed
    <3>2. CASE c.op = "approve"
      <4>1. PICK g \in Regs : g = c.job
        BY <2>2, <3>2 DEF OwnPunches
      <4>2. Right(request[g])
        BY <2>2, <3>2, <4>1 DEF OwnPunches, OrderInv
      <4>3. o.at \in {request[g].in, request[g].out}
        BY <2>2, <2>7, <3>2, <4>1 DEF Prepared, Inserting
      <4> QED BY <4>2, <4>3 DEF Right
    <3> QED BY <3>1, <3>2
  <2>8. CASE p \in punches /\ q \in punches
    BY <2>4, <2>5, <2>8 DEF NightsAlternate
  <2>9. ASSUME NEW o \in c.own
        PROVE  /\ ~OutOfOrder(c) /\ c.op # "approve" /\ \A x \in c.own : x = o
               /\ \A x \in punches : DayOf(x.at) # DayOf(o.at) + 1
               /\ \A x \in punches :
                      /\ DayOf(o.at) = DayOf(x.at) + 1
                      /\ \A t \in Ins(punches) \cup Outs(punches) : ~(x.at < t /\ t < o.at)
                      => x.type # o.type
    <3>1. ~OutOfOrder(c)
      BY <2>6, <2>7
    <3>2. c.op # "approve"
      BY <3>1 DEF OutOfOrder
    <3> QED BY <1>3, <2>1, <2>2, <2>3, <2>9, <3>1, <3>2, NextNightFollows DEF Prepared
  <2>10. DayOf(p.at) \in Nat
    BY <2>2, DaysGoOn DEF Timed
  <2>11. CASE p \in c.own
    <3>1. q \notin punches
      BY <2>9, <2>11
    <3>2. q = p
      BY <2>2, <2>9, <2>11, <3>1
    <3> QED BY <2>10, <3>2
  <2>12. CASE p \in punches /\ q \in c.own
    BY <2>4, <2>9, <2>12
  <2> QED BY <2>2, <2>8, <2>11, <2>12
<1> QED BY <1>2, <1>3, StepKinds

LEMMA NightsInit == Init => NightsAlternate
BY DEF Init, AttendanceInit, NightsAlternate

ViewInv == AttendanceInv /\ Clock /\ NightsAlternate

LEMMA ViewInvariant == Spec => []ViewInv
<1>1. Init => ViewInv
  BY IngestInit, SummaryInit, OrderInit, ClockInit, NightsInit DEF AttendanceInv, ViewInv
<1>2. ViewInv /\ [Next]_vars => ViewInv'
  BY IngestNext, SummaryNext, OrderNext, ClockNext, NightsNext DEF AttendanceInv, ViewInv
<1> QED BY <1>1, <1>2, PTL DEF Spec

(* The session of the calendar day that is open is the one that is found.  *)
LEMMA ButtonsAgree ==
    ASSUME ViewInv, isSignedIn, \A p \in punches : DayOf(p.at) <= Today
    PROVE  findOpenSessionContext(punches, Today, overnight) # NoDay
<1>1. Timed(punches) /\ Today \in Nat
  BY BegunIsTimed, OpenToday DEF ViewInv, AttendanceInv, SummaryInv
<1>2. ASSUME hasOpenSession(getPunchesForDay(punches, Today, FALSE))
      PROVE  HasOpen(punches, Today, overnight)
  <2> DEFINE V == Window(punches, Today)
  <2>1. \A p \in punches : DayOf(p.at) # Today + 1
    BY <1>1
  <2>2. V = getPunchesForDay(punches, Today, FALSE)
    BY <2>1 DEF Window, getPunchesForDay
  <2>3. PICK i \in Ins(V) : StaysOpen(V, i)
    BY <1>2, <2>2 DEF hasOpenSession, Open, StaysOpen
  <2>4. DayOf(i) = Today
    BY <2>2, <2>3 DEF Ins, getPunchesForDay
  <2> QED BY <1>1, <2>3, <2>4, OpenIs
<1>3. HasOpen(punches, Today, overnight) => findOpenSessionContext(punches, Today, overnight) = Today
  BY DEF findOpenSessionContext
<1>4. Today # NoDay
  BY <1>1 DEF NoDay
<1> QED BY <1>2, <1>3, <1>4 DEF isSignedIn

(* The first IN of a day that has one.                                     *)
LEMMA FirstInIs ==
    ASSUME NEW P, Timed(P), NEW d, PairsIn(P, d) # {}
    PROVE  LET row == SummaryOf(PairsIn(P, d)) IN
           /\ row.exists /\ row.firstIn \in Nat
           /\ row.firstIn \in {p.in : p \in PairsIn(P, d)}
           /\ \A p \in PairsIn(P, d) : row.firstIn <= p.in
<1> DEFINE V == Window(P, d)
           ins == {p.in : p \in PairsIn(P, d)}
           row == SummaryOf(PairsIn(P, d))
<1>1. Timed(V)
  BY WindowsHave
<1>2. Ins(V) \subseteq Nat
  BY <1>1, InstantsAreTimes
<1>3. ASSUME NEW p \in PairsIn(P, d) PROVE p.in \in Ins(V)
  <2>1. PICK i \in Ins(V), o \in Outs(V) \cup {Never} : p = [in |-> i, out |-> o]
    BY <1>3, PairsAre DEF PairsIn
  <2> QED BY <2>1
<1>4. ins \subseteq Nat /\ ins # {}
  BY <1>2, <1>3
<1>5. row.exists /\ row.firstIn = Min(ins)
  BY DEF SummaryOf
<1> HIDE DEF ins
<1>6. PICK x \in ins : \A y \in ins : x <= y
  BY <1>4, LeastNat
<1>7. Min(ins) \in ins /\ \A y \in ins : Min(ins) <= y
  BY <1>6 DEF Min
<1> QED BY <1>4, <1>5, <1>7 DEF ins

(* The row of a day with a pair is what its pairs amount to.               *)
LEMMA RowIsOfPairs ==
    ASSUME ViewInv, ~NightScans, NEW d \in Days, ~behind[d], summary[d].exists \/ PairsIn(punches, d) # {}
    PROVE  summary[d] = SummaryOf(PairsIn(punches, d))
BY DEF ViewInv, AttendanceInv, SummaryInv, SummaryMatchesPunches, PairsIn, Window

LEMMA SignedInIsPresent ==
    ASSUME ViewInv, ~NightScans, findOpenSessionContext(punches, Today, overnight) = Today, ~behind[Today]
    PROVE  /\ Today \in getSummary({}).present
           /\ \A start \in Days : getWhoIsIn(Today, "none", start) \in {"late", "onTime"}
<1>1. Timed(punches) /\ Today \in Nat /\ OrderInv /\ Clock
  BY BegunIsTimed, OpenToday DEF ViewInv, AttendanceInv, SummaryInv
<1>2. HasOpen(punches, Today, overnight)
  BY <1>1 DEF findOpenSessionContext, NoDay
<1>3. PairsIn(punches, Today) # {}
  BY <1>2 DEF HasOpen, PairsIn, Window
<1>4. Today \in Days
  <2>1. PICK i \in Ins(Window(punches, Today)) : DayOf(i) = Today
    BY <1>1, <1>2, OpenIs
  <2>2. PICK p \in punches : p.at = i
    BY <2>1 DEF Ins, Window, getPunchesForDay
  <2> QED BY <1>1, <2>1, <2>2, PunchesInCalendar
<1>5. summary[Today] = SummaryOf(PairsIn(punches, Today))
  BY <1>3, <1>4, RowIsOfPairs
<1>6. summary[Today].exists /\ summary[Today].firstIn # Never
  BY <1>1, <1>3, <1>5, FirstInIs DEF Never
<1>7. Today \in getSummary({}).present
  BY <1>4, <1>6 DEF getSummary, getDays, DayStatus
<1> QED BY <1>6, <1>7 DEF getWhoIsIn

(* A punch shows on the day of the session it begins or ends.              *)
LEMMA ShownIs ==
    ASSUME Timed(punches), NEW p \in punches, NEW d
    PROVE  LET V == Window(punches, d) IN
           p \in DisplayPunches(d) <=>
               /\ p \in V
               /\ \E i \in Ins(V) : /\ DayOf(i) = d
                                    /\ \/ p.at = i /\ StaysOpen(V, i)
                                       \/ \E o \in Outs(V) : p.at \in {i, o} /\ Pairs(V, i, o)
<1> DEFINE V == Window(punches, d)
           ClosedBy(i) == \/ p.at = i /\ StaysOpen(V, i)
                          \/ \E o \in Outs(V) : p.at \in {i, o} /\ Pairs(V, i, o)
<1>1. p \in DisplayPunches(d) <=> p \in V /\ \E pair \in pairPunches(V, d) : p.at \in {pair.in, pair.out}
  BY DEF DisplayPunches, Window
<1>2. p.at # Never /\ Never \notin Outs(V)
  BY WindowsHave, InstantsAreTimes DEF Timed, Never
<1>3. ASSUME NEW pair \in pairPunches(V, d), p.at \in {pair.in, pair.out}
      PROVE  \E i \in Ins(V) : DayOf(i) = d /\ ClosedBy(i)
  <2>1. PICK i \in Ins(V), o \in Outs(V) \cup {Never} :
               /\ pair = [in |-> i, out |-> o] /\ DayOf(i) = d
               /\ Pairs(V, i, o) \/ (StaysOpen(V, i) /\ o = Never)
    BY <1>3, PairsAre
  <2>2. p.at \in {i, o}
    BY <1>3, <2>1
  <2>3. CASE o = Never
    <3>1. ~Pairs(V, i, o)
      BY <1>2, <2>3 DEF Pairs
    <3> QED BY <1>2, <2>1, <2>2, <2>3, <3>1
  <2>4. CASE o # Never
    BY <2>1, <2>2, <2>4
  <2> QED BY <2>3, <2>4
<1>4. ASSUME NEW i \in Ins(V), DayOf(i) = d, ClosedBy(i)
      PROVE  \E pair \in pairPunches(V, d) : p.at \in {pair.in, pair.out}
  <2>1. CASE p.at = i /\ StaysOpen(V, i)
    <3>1. [in |-> i, out |-> Never] \in pairPunches(V, d)
      BY <1>4, <2>1, PairsAre
    <3> QED BY <2>1, <3>1
  <2>2. ASSUME NEW o \in Outs(V), p.at \in {i, o}, Pairs(V, i, o)
        PROVE  \E pair \in pairPunches(V, d) : p.at \in {pair.in, pair.out}
    <3>1. [in |-> i, out |-> o] \in pairPunches(V, d)
      BY <1>4, <2>2, PairsAre
    <3> QED BY <2>2, <3>1
  <2> QED BY <1>4, <2>1, <2>2
<1> QED BY <1>1, <1>3, <1>4

(* It is shown once: an OUT of the day after, only if no IN comes between. *)
LEMMA ShownOnce ==
    ASSUME Timed(punches), NEW p \in punches, NEW d \in Days, NEW e \in Days,
           p \in DisplayPunches(d), p \in DisplayPunches(e), d < e
    PROVE  FALSE
<1>1. d \in Nat /\ e \in Nat /\ p.at \in Nat /\ Ins(punches) \subseteq Nat
  BY AttendanceAssumption, InstantsAreTimes DEF Days, Timed
<1>2. PICK i \in Ins(Window(punches, d)) :
          /\ DayOf(i) = d
          /\ \/ p.at = i
             \/ \E o \in Outs(Window(punches, d)) : p.at \in {i, o} /\ Pairs(Window(punches, d), i, o)
  BY ShownIs
<1>3. PICK j \in Ins(Window(punches, e)) :
          /\ DayOf(j) = e
          /\ \/ p.at = j
             \/ \E o \in Outs(Window(punches, e)) : p.at \in {j, o} /\ Pairs(Window(punches, e), j, o)
  BY ShownIs
<1>4. overnight /\ DayOf(p.at) = e /\ e = d + 1
  <2>1. p \in Window(punches, d) /\ p \in Window(punches, e)
    BY ShownIs
  <2> QED BY <1>1, <2>1 DEF Window, getPunchesForDay
<1>5. Pairs(Window(punches, d), i, p.at)
  BY <1>1, <1>2, <1>4
<1>6. j <= p.at /\ j \in Ins(Window(punches, d)) /\ i \in Nat /\ j \in Nat
  <2>1. j \in Ins(punches) /\ i \in Ins(punches)
    BY <1>2, <1>3, WindowsHave
  <2>2. j \in Ins(Window(punches, d))
    BY <1>3, <1>4, <2>1, WindowsHave
  <2>3. j <= p.at
    BY <1>1, <1>3, <2>1 DEF Pairs
  <2> QED BY <1>1, <2>1, <2>2, <2>3
<1>7. i < j
  <2>1. j <= i => e <= d
    BY <1>2, <1>3, <1>6, DaysGoOn
  <2> QED BY <1>1, <1>6, <2>1
<1> QED BY <1>5, <1>6, <1>7 DEF Pairs

(* No two punches of one instant, if every day is in order.                *)
LEMMA InstantsDiffer ==
    ASSUME ViewInv, \A d \in Days : ~tangled[d],
           NEW p \in punches, NEW q \in punches, p.at = q.at
    PROVE  p = q
<1>1. Timed(punches) /\ OrderInv /\ Clock /\ OneAtATime
  BY BegunIsTimed DEF ViewInv, AttendanceInv, SummaryInv, OrderInv
<1>2. PICK d \in Days : d = DayOf(p.at)
  BY <1>1, PunchesInCalendar
<1>3. p \in getPunchesForDay(punches, d, FALSE) /\ q \in getPunchesForDay(punches, d, FALSE)
  BY <1>2 DEF getPunchesForDay
<1> QED BY <1>1, <1>3 DEF OneAtATime

(* Two punches that follow each other, on a day or over midnight, are a    *)
(* session if the first is an IN or the second an OUT.                     *)
LEMMA FollowersPair ==
    ASSUME ViewInv, ~NightScans, \A d \in Days : ~tangled[d],
           NEW p \in punches, NEW q \in punches, p.at < q.at,
           \A t \in Ins(punches) \cup Outs(punches) : ~(p.at < t /\ t < q.at),
           DayOf(q.at) = DayOf(p.at) \/ (overnight /\ DayOf(q.at) = DayOf(p.at) + 1),
           p.type = "IN" \/ q.type = "OUT"
    PROVE  \E d \in Days : p \in DisplayPunches(d) /\ q \in DisplayPunches(d)
<1>1. /\ Timed(punches) /\ OrderInv /\ Clock /\ NightsAlternate /\ SessionsAlternate
      /\ p.at \in Nat /\ q.at \in Nat
      /\ p.type \in {"IN", "OUT"} /\ q.type \in {"IN", "OUT"}
  BY BegunIsTimed DEF ViewInv, AttendanceInv, SummaryInv, OrderInv, Timed
<1>2. PICK d \in Days : d = DayOf(p.at)
  BY <1>1, PunchesInCalendar
<1>3. p.type # q.type
  <2>1. CASE DayOf(q.at) = DayOf(p.at)
    <3>1. p \in getPunchesForDay(punches, d, FALSE) /\ q \in getPunchesForDay(punches, d, FALSE)
      BY <1>2, <2>1 DEF getPunchesForDay
    <3> QED BY <1>1, <3>1 DEF SessionsAlternate
  <2>2. CASE overnight /\ DayOf(q.at) = DayOf(p.at) + 1
    BY <1>1, <2>2 DEF NightsAlternate
  <2> QED BY <2>1, <2>2
<1>4. p.type = "IN" /\ q.type = "OUT"
  BY <1>1, <1>3
<1> DEFINE V == Window(punches, d)
<1>5. p \in V /\ q \in V /\ p.at \in Ins(V) /\ q.at \in Outs(V)
  <2>1. p \in V /\ q \in V
    BY <1>2 DEF Window, getPunchesForDay
  <2> QED BY <1>4, <2>1 DEF Ins, Outs
<1>6. \A x \in V : x \in punches /\ x.at \in Nat /\ x.at \in Ins(punches) \cup Outs(punches)
  BY <1>1 DEF Window, getPunchesForDay, Timed, Ins, Outs
<1>7. ASSUME NEW t \in Ins(V), p.at < t, t <= q.at PROVE FALSE
  <2>1. PICK x \in V : x.at = t /\ x.type = "IN"
    BY DEF Ins
  <2>2. x.at = q.at
    BY <1>1, <1>6, <1>7, <2>1
  <2>3. x = q
    BY <1>6, <2>2, InstantsDiffer
  <2> QED BY <1>4, <2>1, <2>3
<1>8. ASSUME NEW t \in Outs(V), p.at <= t, t < q.at PROVE FALSE
  <2>1. PICK x \in V : x.at = t /\ x.type = "OUT"
    BY DEF Outs
  <2>2. x.at = p.at
    BY <1>1, <1>6, <1>8, <2>1
  <2>3. x = p
    BY <1>6, <2>2, InstantsDiffer
  <2> QED BY <1>4, <2>1, <2>3
<1>9. Pairs(V, p.at, q.at)
  <2>1. p.at <= q.at
    BY <1>1
  <2> QED BY <1>5, <1>7, <1>8, <2>1 DEF Pairs
<1>10. p \in DisplayPunches(d) /\ q \in DisplayPunches(d)
  BY <1>1, <1>2, <1>5, <1>9, ShownIs
<1> QED BY <1>10

LEMMA InShows ==
    ASSUME ViewInv, ~NightScans, \A d \in Days : ~tangled[d], NEW p \in punches, p.type = "IN"
    PROVE  \E d \in Days : p \in DisplayPunches(d)
<1>1. /\ Timed(punches) /\ OrderInv /\ Clock /\ p.at \in Nat
      /\ Ins(punches) \subseteq Nat /\ Outs(punches) \subseteq Nat
  BY BegunIsTimed, InstantsAreTimes DEF ViewInv, AttendanceInv, SummaryInv, Timed
<1>2. PICK d \in Days : d = DayOf(p.at)
  BY <1>1, PunchesInCalendar
<1> DEFINE V == Window(punches, d)
           later == {t \in Ins(V) \cup Outs(V) : p.at < t}
<1>3. p \in V /\ p.at \in Ins(V)
  BY <1>2 DEF Window, getPunchesForDay, Ins
<1>4. Ins(V) \subseteq Nat /\ Outs(V) \subseteq Nat
  BY <1>1, WindowsHave, InstantsAreTimes
<1>5. CASE later = {}
  <2>1. \A t \in Ins(V) \cup Outs(V) : t <= p.at
    BY <1>1, <1>4, <1>5
  <2>2. ASSUME NEW t \in Outs(V), t = p.at PROVE FALSE
    <3>1. PICK x \in V : x.at = t /\ x.type = "OUT"
      BY DEF Outs
    <3>2. x \in punches
      BY DEF Window, getPunchesForDay
    <3>3. x = p
      BY <2>2, <3>1, <3>2, InstantsDiffer
    <3> QED BY <3>1, <3>3
  <2>3. StaysOpen(V, p.at)
    BY <1>1, <1>3, <1>4, <2>1, <2>2 DEF StaysOpen
  <2>4. p \in DisplayPunches(d)
    BY <1>1, <1>2, <1>3, <2>3, ShownIs
  <2> QED BY <2>4
<1>6. CASE later # {}
  <2>1. PICK n \in later : \A t \in later : n <= t
    <3>1. later \subseteq Nat
      BY <1>4
    <3> HIDE DEF later
    <3> QED BY <1>6, <3>1, LeastNat
  <2>2. PICK q \in V : q.at = n
    BY <2>1 DEF Ins, Outs
  <2>3. q \in punches /\ q.at \in Nat /\ p.at < q.at
    BY <1>1, <1>4, <2>1, <2>2 DEF Window, getPunchesForDay
  <2>4. DayOf(q.at) = DayOf(p.at) \/ (overnight /\ DayOf(q.at) = DayOf(p.at) + 1)
    BY <1>2, <2>2 DEF Window, getPunchesForDay
  <2>5. ASSUME NEW t \in Ins(punches) \cup Outs(punches), p.at < t, t < q.at PROVE FALSE
    <3>1. PICK x \in punches : x.at = t /\ x.type \in {"IN", "OUT"}
      BY DEF Ins, Outs
    <3>2. t \in Nat /\ DayOf(p.at) <= DayOf(t) /\ DayOf(t) <= DayOf(q.at)
          /\ DayOf(t) \in Nat /\ DayOf(p.at) \in Nat
      BY <1>1, <2>3, <2>5, DaysGoOn
    <3>3. DayOf(t) = d \/ (overnight /\ DayOf(t) = d + 1)
      BY <1>2, <2>4, <3>2
    <3>4. x \in V
      BY <3>1, <3>3 DEF Window, getPunchesForDay
    <3>5. t \in later
      BY <2>5, <3>1, <3>4 DEF Ins, Outs
    <3> QED BY <2>1, <2>2, <2>3, <2>5, <3>2, <3>5
  <2> QED BY <2>3, <2>4, <2>5, FollowersPair
<1> QED BY <1>5, <1>6

LEMMA OutShows ==
    ASSUME ViewInv, ~NightScans, \A d \in Days : ~tangled[d], NEW p \in punches, p.type = "OUT",
           Preceded(p)
    PROVE  \E d \in Days : p \in DisplayPunches(d)
<1>1. /\ Timed(punches) /\ p.at \in Nat
      /\ Ins(punches) \subseteq Nat /\ Outs(punches) \subseteq Nat
  BY BegunIsTimed, InstantsAreTimes DEF ViewInv, AttendanceInv, SummaryInv, Timed
<1>2. PICK i \in Ins(punches) :
          i <= p.at /\ (DayOf(i) = DayOf(p.at) \/ (overnight /\ DayOf(i) = DayOf(p.at) - 1))
  BY DEF Preceded
<1>3. i \in Nat /\ i < p.at
  <2>1. PICK x \in punches : x.at = i /\ x.type = "IN"
    BY DEF Ins
  <2>2. i # p.at
    BY <2>1, InstantsDiffer
  <2> QED BY <1>1, <1>2, <2>2
<1> DEFINE before == {t \in Ins(punches) \cup Outs(punches) : t < p.at}
<1>4. PICK n \in before : \A t \in before : t <= n
  <2>1. before \subseteq Nat /\ i \in before /\ \A t \in before : t <= p.at
    BY <1>1, <1>3
  <2> HIDE DEF before
  <2> QED BY <1>1, <2>1, GreatestNat
<1>5. PICK q \in punches : q.at = n
  BY <1>4 DEF Ins, Outs
<1>6. q.at \in Nat /\ q.at < p.at /\ i <= q.at
  BY <1>1, <1>3, <1>4, <1>5
<1>7. DayOf(p.at) = DayOf(q.at) \/ (overnight /\ DayOf(p.at) = DayOf(q.at) + 1)
  <2>1. /\ DayOf(i) <= DayOf(q.at) /\ DayOf(q.at) <= DayOf(p.at)
        /\ DayOf(i) \in Nat /\ DayOf(q.at) \in Nat /\ DayOf(p.at) \in Nat
    BY <1>1, <1>3, <1>6, DaysGoOn
  <2> QED BY <1>2, <2>1
<1>8. \A t \in Ins(punches) \cup Outs(punches) : ~(q.at < t /\ t < p.at)
  BY <1>1, <1>4, <1>5
<1> QED BY <1>6, <1>7, <1>8, FollowersPair

LEMMA SwipesShow ==
    ASSUME ViewInv, ~NightScans, NEW p \in getEmployeeSwipes(0, LastDay)
    PROVE  LET shown == {d \in Days : p \in DisplayPunches(d)} IN
           /\ Cardinality(shown) <= 1
           /\ (\A d \in Days : ~tangled[d]) /\ Preceded(p) => shown # {}
<1> DEFINE shown == {d \in Days : p \in DisplayPunches(d)}
<1>1. Timed(punches) /\ p \in punches /\ Days \subseteq Nat
  BY BegunIsTimed, AttendanceAssumption
     DEF ViewInv, AttendanceInv, SummaryInv, getEmployeeSwipes, Days
<1>2. Cardinality(shown) <= 1
  <2>1. \A d, e \in shown : d = e
    <3> SUFFICES ASSUME NEW d \in shown, NEW e \in shown, d # e PROVE FALSE
      OBVIOUS
    <3>1. d < e \/ e < d
      BY <1>1
    <3> QED BY <1>1, <3>1, ShownOnce
  <2> HIDE DEF shown
  <2>2. shown = {} => Cardinality(shown) = 0
    BY FS_EmptySet
  <2>3. ASSUME NEW d \in shown PROVE Cardinality(shown) = 1
    <3>1. shown = {d}
      BY <2>1
    <3> QED BY <3>1, FS_Singleton
  <2> QED BY <2>2, <2>3
<1>3. p.type \in {"IN", "OUT"}
  BY <1>1 DEF Timed
<1>4. ASSUME \A d \in Days : ~tangled[d], Preceded(p) PROVE shown # {}
  BY <1>1, <1>3, <1>4, InShows, OutShows
<1> QED BY <1>2, <1>4

(* The minutes.  The pairs of a day do not overlap.                        *)
LEMMA PairsApart ==
    ASSUME NEW V, Timed(V), NEW i \in Ins(V), NEW o \in Outs(V), Pairs(V, i, o),
           NEW j \in Ins(V), NEW q \in Outs(V), Pairs(V, j, q)
    PROVE  (i = j => o = q) /\ (i < j => o < j)
<1>1. i \in Nat /\ j \in Nat /\ o \in Nat /\ q \in Nat
  BY InstantsAreTimes
<1> QED BY <1>1 DEF Pairs

LEMMA ClosedPairIs ==
    ASSUME NEW P, Timed(P), NEW d, NEW p \in ClosedPairs(PairsIn(P, d))
    PROVE  LET V == Window(P, d) IN
           /\ p = [in |-> p.in, out |-> p.out] /\ DayOf(p.in) = d
           /\ p.in \in Ins(V) /\ p.out \in Outs(V) /\ Pairs(V, p.in, p.out)
           /\ p.in \in Nat /\ p.out \in Nat /\ p.in <= p.out
<1> DEFINE V == Window(P, d)
<1>1. Timed(V)
  BY WindowsHave
<1>2. p \in pairPunches(V, d) /\ p.out # Never
  BY DEF ClosedPairs, PairsIn
<1>3. PICK i \in Ins(V), o \in Outs(V) \cup {Never} :
             /\ p = [in |-> i, out |-> o] /\ DayOf(i) = d
             /\ Pairs(V, i, o) \/ (StaysOpen(V, i) /\ o = Never)
  BY <1>2, PairsAre
<1>4. p.in = i /\ p.out = o
  BY <1>3
<1> HIDE DEF V
<1>5. i \in Nat /\ o \in Outs(V) /\ o \in Nat /\ Pairs(V, i, o)
  BY <1>1, <1>2, <1>3, <1>4, InstantsAreTimes
<1> QED BY <1>3, <1>4, <1>5 DEF Pairs, V

(* So what was worked on a day is no more than the span of the day.        *)
LEMMA WorkedFits ==
    ASSUME NEW P, Timed(P), NEW d, NEW lo \in Nat, NEW hi \in Nat, lo <= hi,
           \A p \in ClosedPairs(PairsIn(P, d)) : lo <= p.in /\ p.out <= hi
    PROVE  LET row == SummaryOf(PairsIn(P, d)) IN row.worked \in Nat /\ row.worked <= hi - lo
<1> DEFINE V == Window(P, d)
           S == ClosedPairs(PairsIn(P, d))
           A == [p \in S |-> p.in]
           B == [p \in S |-> p.out]
           f == [p \in S |-> p.out - p.in]
<1>1. Timed(V)
  BY WindowsHave
<1>2. ASSUME NEW p \in S
      PROVE  /\ A[p] = p.in /\ B[p] = p.out /\ f[p] = p.out - p.in
             /\ A[p] \in Nat /\ B[p] \in Nat /\ f[p] \in Nat
             /\ lo <= A[p] /\ A[p] <= B[p] /\ B[p] <= hi /\ f[p] <= B[p] - A[p]
  <2>1. p.in \in Nat /\ p.out \in Nat /\ p.in <= p.out /\ lo <= p.in /\ p.out <= hi
    BY ClosedPairIs
  <2> QED BY <2>1
<1>3. ASSUME NEW x \in S, NEW y \in S, x # y
      PROVE  x.in # y.in /\ (B[x] <= A[y] \/ B[y] <= A[x])
  <2>1. /\ x = [in |-> x.in, out |-> x.out] /\ x.in \in Ins(V) /\ x.out \in Outs(V)
        /\ Pairs(V, x.in, x.out) /\ x.in \in Nat /\ x.out \in Nat
    BY ClosedPairIs
  <2>2. /\ y = [in |-> y.in, out |-> y.out] /\ y.in \in Ins(V) /\ y.out \in Outs(V)
        /\ Pairs(V, y.in, y.out) /\ y.in \in Nat /\ y.out \in Nat
    BY ClosedPairIs
  <2> HIDE DEF V
  <2>3. x.in # y.in
    <3>1. x.in = y.in => x.out = y.out
      BY <1>1, <2>1, <2>2, PairsApart
    <3> QED BY <1>3, <2>1, <2>2, <3>1
  <2>4. x.in < y.in => x.out < y.in
    BY <1>1, <2>1, <2>2, PairsApart
  <2>5. y.in < x.in => y.out < x.in
    BY <1>1, <2>1, <2>2, PairsApart
  <2> QED BY <1>2, <2>1, <2>2, <2>3, <2>4, <2>5
<1>4. IsFiniteSet(S)
  <2>1. IsFiniteSet(0 .. hi)
    BY FS_Interval
  <2>2. \A p \in S : A[p] \in 0 .. hi
    BY <1>2
  <2>3. \A x, y \in S : A[x] = A[y] => x = y
    BY <1>2, <1>3
  <2>4. A \in Injection(S, 0 .. hi)
    <3> HIDE DEF S
    <3>1. A \in [S -> 0 .. hi]
      BY <2>2
    <3> QED BY <2>3, <3>1 DEF Injection, IsInjective
  <2> HIDE DEF A, S
  <2> QED BY <2>1, <2>4, FS_Injection
<1>5. SummaryOf(PairsIn(P, d)).worked = SumFunctionOnSet(f, S)
  <2>1. SummaryOf(PairsIn(P, d)).worked = SumFunction(f)
    BY DEF SummaryOf
  <2>2. DOMAIN f = S
    OBVIOUS
  <2> HIDE DEF f, S
  <2> QED BY <2>1, <2>2 DEF SumFunction
<1> HIDE DEF A, B, f, S
<1>6. SumFunctionOnSet(f, S) \in Nat
  BY <1>2, <1>4, SumOfNaturals
<1>7. SumFunctionOnSet(f, S) <= hi - lo
  BY <1>2, <1>3, <1>4, SumOfSpans
<1> QED BY <1>5, <1>6, <1>7

(* The instants from the first IN of a day to the end of its last session. *)
SpanEnds(P, d) == {p.in : p \in PairsIn(P, d)} \cup {p.out : p \in ClosedPairs(PairsIn(P, d))}

LEMMA EndsAre ==
    ASSUME NEW P, Timed(P), NEW d, NEW t \in SpanEnds(P, d)
    PROVE  /\ t \in Nat /\ t \in Ins(P) \cup Outs(P)
           /\ \E i \in Ins(Window(P, d)) : /\ DayOf(i) = d
                                           /\ t = i \/ Pairs(Window(P, d), i, t)
<1> DEFINE V == Window(P, d)
<1>1. Timed(V)
  BY WindowsHave
<1>2. \A x : x \in Ins(V) \cup Outs(V) => x \in Ins(P) \cup Outs(P)
  BY DEF Window, getPunchesForDay, Ins, Outs
<1>3. ASSUME NEW i \in Ins(V), DayOf(i) = d, t = i \/ Pairs(V, i, t)
      PROVE  t \in Nat /\ t \in Ins(V) \cup Outs(V)
  BY <1>1, <1>3, InstantsAreTimes DEF Pairs
<1>4. \E i \in Ins(V) : DayOf(i) = d /\ (t = i \/ Pairs(V, i, t))
  <2>1. ASSUME NEW p \in PairsIn(P, d), t = p.in
        PROVE  \E i \in Ins(V) : DayOf(i) = d /\ t = i
    <3>1. PICK i \in Ins(V), o \in Outs(V) \cup {Never} : p = [in |-> i, out |-> o] /\ DayOf(i) = d
      BY <2>1, PairsAre DEF PairsIn
    <3> QED BY <2>1, <3>1
  <2>2. ASSUME NEW p \in ClosedPairs(PairsIn(P, d)), t = p.out
        PROVE  \E i \in Ins(V) : DayOf(i) = d /\ Pairs(V, i, t)
    BY <2>2, ClosedPairIs
  <2> QED BY <2>1, <2>2 DEF SpanEnds
<1> QED BY <1>2, <1>3, <1>4

(* They are over when a later day begins.                                  *)
LEMMA DaysApart ==
    ASSUME NEW P, Timed(P), NEW d \in Nat, NEW e \in Nat, d < e,
           NEW t \in SpanEnds(P, d), NEW j \in Ins(P), DayOf(j) = e
    PROVE  t < j
<1> DEFINE V == Window(P, d)
<1>1. Ins(P) \subseteq Nat /\ t \in Nat
  BY InstantsAreTimes, EndsAre
<1>2. PICK i \in Ins(V) : DayOf(i) = d /\ (t = i \/ Pairs(V, i, t))
  BY EndsAre
<1>3. i \in Nat /\ j \in Nat
  BY <1>1, <1>2, WindowsHave
<1>4. i < j
  <2>1. j <= i => e <= d
    BY <1>2, <1>3, DaysGoOn
  <2> QED BY <1>3, <2>1
<1>5. CASE Pairs(V, i, t)
  <2> SUFFICES ASSUME j <= t PROVE FALSE
    BY <1>1, <1>3
  <2>1. PICK x \in V : x.at = t
    BY <1>5 DEF Pairs, Outs
  <2>2. DayOf(t) = d \/ (overnight /\ DayOf(t) = d + 1)
    BY <2>1 DEF Window, getPunchesForDay
  <2>3. e <= DayOf(t) /\ DayOf(t) \in Nat
    BY <1>1, <1>3, DaysGoOn
  <2>4. overnight /\ DayOf(j) = d + 1
    BY <2>2, <2>3
  <2>5. j \in Ins(V)
    BY <2>4, WindowsHave
  <2> QED BY <1>4, <1>5, <2>5 DEF Pairs
<1> QED BY <1>2, <1>4, <1>5

(* A day that is present spans from its first IN to its last end.          *)
LEMMA PresentSpan ==
    ASSUME ViewInv, ~NightScans, NEW d \in getSummary({}).present, ~behind[d]
    PROVE  /\ d \in Days
           /\ \E a \in SpanEnds(punches, d), b \in SpanEnds(punches, d) :
                 /\ a \in Ins(punches) /\ DayOf(a) = d /\ a <= b
                 /\ actualWorkMinutes(summary[d], 0) \in Nat
                 /\ actualWorkMinutes(summary[d], 0) <= b - a
<1> DEFINE row == SummaryOf(PairsIn(punches, d))
           ends == SpanEnds(punches, d)
<1>1. Timed(punches) /\ Clock /\ OrderInv
  BY BegunIsTimed DEF ViewInv, AttendanceInv, SummaryInv
<1>2. d \in Days /\ summary[d].exists /\ summary[d].firstIn # Never
  BY DEF getSummary, getDays, DayStatus
<1>3. summary[d] = row
  BY <1>2, RowIsOfPairs
<1>4. PairsIn(punches, d) # {}
  BY <1>2, <1>3 DEF SummaryOf
<1>5. PICK a : a = row.firstIn
  OBVIOUS
<1>6. a \in Nat /\ a \in ends /\ \A p \in PairsIn(punches, d) : a <= p.in
  BY <1>1, <1>4, <1>5, FirstInIs DEF SpanEnds
<1>7. a \in Ins(punches) /\ DayOf(a) = d
  <2>1. PICK p \in PairsIn(punches, d) : p.in = a
    BY <1>1, <1>4, <1>5, FirstInIs
  <2>2. PICK i \in Ins(Window(punches, d)), o \in Outs(Window(punches, d)) \cup {Never} :
            p = [in |-> i, out |-> o] /\ DayOf(i) = d
    BY PairsAre DEF PairsIn
  <2> QED BY <2>1, <2>2, WindowsHave
<1>8. PICK b \in ends : \A t \in ends : t <= b
  <2>1. d \in Nat /\ d + 1 \in Nat
    BY <1>2, AttendanceAssumption DEF Days
  <2>2. PICK h \in Nat : h = (d + 1 + 1) * DayLength
    BY <2>1, DayLengthAssumption
  <2>3. ASSUME NEW t \in ends PROVE t \in Nat /\ t <= h
    <3>1. t \in Nat
      BY <1>1, EndsAre
    <3>2. PICK i \in Ins(Window(punches, d)) : DayOf(i) = d /\ (t = i \/ Pairs(Window(punches, d), i, t))
      BY <1>1, EndsAre
    <3>3. DayOf(t) = d \/ DayOf(t) = d + 1
      <4>1. CASE t = i
        BY <3>2, <4>1
      <4>2. CASE Pairs(Window(punches, d), i, t)
        BY <4>2 DEF Pairs, Outs, Window, getPunchesForDay
      <4> QED BY <3>2, <4>1, <4>2
    <3>4. DayOf(t) <= d + 1
      BY <2>1, <3>3
    <3> QED BY <2>1, <2>2, <3>1, <3>4, DayIsOver
  <2>4. ends \subseteq Nat /\ ends # {} /\ \A t \in ends : t <= h
    BY <1>6, <2>3
  <2> HIDE DEF ends
  <2> QED BY <2>4, GreatestNat
<1>9. a <= b /\ b \in Nat
  BY <1>1, <1>6, <1>8, EndsAre
<1>10. \A p \in ClosedPairs(PairsIn(punches, d)) : a <= p.in /\ p.out <= b
  BY <1>6, <1>8 DEF ClosedPairs, SpanEnds
<1>11. row.worked \in Nat /\ row.worked <= b - a
  BY <1>1, <1>6, <1>9, <1>10, WorkedFits
<1>12. PICK w \in Nat : w = row.worked
  BY <1>11
<1>13. actualWorkMinutes(summary[d], 0) = w
  <2>1. actualWorkMinutes(summary[d], 0) = Max({0, w - 0})
    BY <1>3, <1>12 DEF actualWorkMinutes
  <2>2. w - 0 = w
    OBVIOUS
  <2>3. Max({0, w}) = w
    <3>1. PICK m : m = Max({0, w})
      OBVIOUS
    <3>2. \E x \in {0, w} : \A y \in {0, w} : x >= y
      <4>1. w \in {0, w} /\ \A y \in {0, w} : w >= y
        OBVIOUS
      <4> QED BY <4>1
    <3>3. m \in {0, w} /\ \A y \in {0, w} : m >= y
      BY <3>1, <3>2 DEF Max
    <3>4. m = w
      BY <3>3
    <3> QED BY <3>1, <3>4
  <2> QED BY <2>1, <2>2, <2>3
<1> QED BY <1>2, <1>6, <1>7, <1>8, <1>9, <1>11, <1>12, <1>13

LEMMA PunchSpan ==
    ASSUME ViewInv
    PROVE  LET S == {p.at : p \in punches} IN
           /\ S = {} => Span(S) = 0
           /\ S # {} => \E lo, hi \in Nat : Span(S) = hi - lo /\ \A t \in S : t \in Nat /\ lo <= t /\ t <= hi
<1> DEFINE S == {p.at : p \in punches}
<1>1. Timed(punches) /\ OrderInv /\ Today \in Nat /\ Today + 1 \in Nat
  BY BegunIsTimed, OpenToday DEF ViewInv, AttendanceInv, SummaryInv
<1>2. PICK b \in Nat : b = (Today + 1 + 1) * DayLength
  BY <1>1, DayLengthAssumption
<1>3. ASSUME NEW t \in S PROVE t \in Nat /\ t <= b
  <2>1. PICK p \in punches : p.at = t
    OBVIOUS
  <2>2. t \in Nat /\ DayOf(t) \in Nat
    BY <1>1, <2>1, DaysGoOn DEF Timed
  <2>3. DayOf(t) <= Today \/ DayOf(t) = Today + 1
    BY <1>1, <2>1 DEF OrderInv, OnTime
  <2>4. DayOf(t) <= Today + 1
    BY <1>1, <2>2, <2>3
  <2> QED BY <1>1, <1>2, <2>2, <2>4, DayIsOver
<1> HIDE DEF S
<1>4. ASSUME S # {}
      PROVE  \E lo, hi \in Nat : Span(S) = hi - lo /\ \A t \in S : t \in Nat /\ lo <= t /\ t <= hi
  <2>1. S \subseteq Nat
    BY <1>3
  <2>2. PICK x \in S : \A y \in S : x <= y
    BY <1>4, <2>1, LeastNat
  <2>3. PICK z \in S : \A y \in S : y <= z
    BY <1>3, <1>4, <2>1, GreatestNat
  <2>4. Min(S) \in S /\ \A y \in S : Min(S) <= y
    BY <2>2 DEF Min
  <2>5. Max(S) \in S /\ \A y \in S : Max(S) >= y
    <3>1. \A y \in S : z >= y
      BY <2>1, <2>3
    <3> QED BY <3>1 DEF Max
  <2>6. Span(S) = Max(S) - Min(S)
    BY <1>4 DEF Span
  <2> QED BY <2>1, <2>4, <2>5, <2>6
<1>5. S = {} => Span(S) = 0
  BY DEF Span
<1> QED BY <1>4, <1>5 DEF S

(* No minute counts on two days, so the month fits between the first and   *)
(* the last punch.                                                         *)
LEMMA MonthFits ==
    ASSUME ViewInv, ~NightScans, \A d \in Days : ~behind[d]
    PROVE  getSummary({}).minutes <= Span({p.at : p \in punches})
<1> DEFINE D == getSummary({}).present
           S == {p.at : p \in punches}
           f == [d \in D |-> actualWorkMinutes(summary[d], 0)]
           Spans(d, a, b) ==
               /\ a \in SpanEnds(punches, d) /\ b \in SpanEnds(punches, d)
               /\ a \in Ins(punches) /\ DayOf(a) = d /\ a <= b
               /\ actualWorkMinutes(summary[d], 0) \in Nat
               /\ actualWorkMinutes(summary[d], 0) <= b - a
           A == [d \in D |-> CHOOSE a : \E b : Spans(d, a, b)]
           B == [d \in D |-> CHOOSE b : Spans(d, A[d], b)]
<1>1. Timed(punches)
  BY BegunIsTimed DEF ViewInv, AttendanceInv, SummaryInv
<1>2. D \subseteq Days /\ IsFiniteSet(D) /\ Days \subseteq Nat
  <2>1. D \subseteq Days
    BY DEF getSummary
  <2>2. IsFiniteSet(Days) /\ Days \subseteq Nat
    BY FS_Interval, AttendanceAssumption DEF Days
  <2> HIDE DEF D
  <2> QED BY <2>1, <2>2, FS_Subset
<1>3. getSummary({}).minutes = SumFunctionOnSet(f, D)
  <2>1. getSummary({}).minutes = SumFunction(f)
    BY DEF getSummary
  <2>2. DOMAIN f = D
    OBVIOUS
  <2> HIDE DEF f, D
  <2> QED BY <2>1, <2>2 DEF SumFunction
<1>4. ASSUME NEW d \in D PROVE Spans(d, A[d], B[d]) /\ f[d] = actualWorkMinutes(summary[d], 0)
  <2>1. d \in Days /\ ~behind[d]
    BY <1>2
  <2>2. \E a, b : Spans(d, a, b)
    BY <2>1, PresentSpan
  <2> HIDE DEF Spans, D
  <2>3. \E b : Spans(d, A[d], b)
    BY <2>2
  <2>4. Spans(d, A[d], B[d])
    BY <2>3
  <2> QED BY <2>4
<1> HIDE DEF A, B, f, D
<1>5. ASSUME NEW d \in D
      PROVE  A[d] \in Nat /\ B[d] \in Nat /\ A[d] \in S /\ B[d] \in S
  <2>1. A[d] \in SpanEnds(punches, d) /\ B[d] \in SpanEnds(punches, d)
    BY <1>4
  <2>2. \A t \in Ins(punches) \cup Outs(punches) : t \in S
    BY DEF Ins, Outs
  <2> HIDE DEF S
  <2> QED BY <1>1, <2>1, <2>2, EndsAre
<1>6. ASSUME NEW x \in D, NEW y \in D, x < y PROVE B[x] <= A[y]
  <2>1. x \in Nat /\ y \in Nat
    BY <1>2
  <2>2. B[x] < A[y]
    BY <1>1, <1>4, <1>6, <2>1, DaysApart
  <2> QED BY <1>5, <2>2
<1>7. CASE S = {}
  <2>1. D = {}
    BY <1>5, <1>7
  <2>2. Span(S) = 0
    BY <1>7, PunchSpan
  <2> QED BY <1>3, <2>1, <2>2, SumEmpty
<1>8. CASE S # {}
  <2>1. PICK lo \in Nat, hi \in Nat : Span(S) = hi - lo /\ \A t \in S : t \in Nat /\ lo <= t /\ t <= hi
    BY <1>8, PunchSpan
  <2>2. lo <= hi
    BY <1>8, <2>1
  <2> HIDE DEF S
  <2>3. ASSUME NEW x \in D
        PROVE  /\ A[x] \in Nat /\ B[x] \in Nat /\ f[x] \in Nat
               /\ lo <= A[x] /\ A[x] <= B[x] /\ B[x] <= hi /\ f[x] <= B[x] - A[x]
    BY <1>4, <1>5, <2>1
  <2>4. ASSUME NEW x \in D, NEW y \in D, x # y PROVE B[x] <= A[y] \/ B[y] <= A[x]
    <3>1. x < y \/ y < x
      BY <1>2, <2>4
    <3> QED BY <1>6, <3>1
  <2>5. SumFunctionOnSet(f, D) <= hi - lo
    BY <1>2, <2>2, <2>3, <2>4, SumOfSpans
  <2> QED BY <1>3, <2>1, <2>5 DEF S
<1> QED BY <1>7, <1>8

(* The views agree on what is recorded, for any number of handlers, events,*)
(* days and instants: the button with the server, the list of swipes with  *)
(* the detail of the days, the month with the time there was, and who is   *)
(* in with who signed in.                                                  *)
THEOREM ViewsAlwaysAgree == Spec => [](NightScans \/ ViewsAgree)
<1>1. ASSUME ViewInv, ~NightScans PROVE ViewsAgree
  <2>1. isSignedIn /\ (\A p \in punches : DayOf(p.at) <= Today)
        => findOpenSessionContext(punches, Today, overnight) # NoDay
    BY <1>1, ButtonsAgree
  <2>2. \A p \in getEmployeeSwipes(0, LastDay) :
            LET shown == {d \in Days : p \in DisplayPunches(d)} IN
            /\ Cardinality(shown) <= 1
            /\ (\A d \in Days : ~tangled[d]) /\ Preceded(p) => shown # {}
    BY <1>1, SwipesShow
  <2>3. (\A d \in Days : ~behind[d]) => getSummary({}).minutes <= Span({p.at : p \in punches})
    BY <1>1, MonthFits
  <2>4. findOpenSessionContext(punches, Today, overnight) = Today /\ ~behind[Today] =>
            /\ Today \in getSummary({}).present
            /\ \A start \in Days : getWhoIsIn(Today, "none", start) \in {"late", "onTime"}
    BY <1>1, SignedInIsPresent
  <2> QED BY <2>1, <2>2, <2>3, <2>4 DEF ViewsAgree
<1>2. ViewInv => NightScans \/ ViewsAgree
  BY <1>1
<1> QED BY <1>2, ViewInvariant, PTL

=============================================================================
