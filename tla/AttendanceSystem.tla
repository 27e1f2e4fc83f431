-------------------------- MODULE AttendanceSystem --------------------------
(***************************************************************************)
(* The attendance of one employee with all that writes it: the employee    *)
(* signs in and out on the web, swipes a device, and asks for corrections; *)
(* the manager decides on them, and administrators map the device's        *)
(* numbers.  All of them share the punches and the daily summaries.        *)
(***************************************************************************)
EXTENDS Regularizations, BiometricIngest

vars == <<attVars, request, devVars>>

Init == AttendanceInit /\ RegInit /\ DevInit

Next ==
    \/ (NextDay \/ \E r \in Requests : WebStep(r)) /\ UNCHANGED <<request, devVars>>
    \/ (\E r \in Requests : RegStep(r)) /\ UNCHANGED devVars
    \/ DevStep /\ UNCHANGED request

(* Handlers run on until they end, unless the process crashes.  An insert  *)
(* that waits for the key of another is next in PostgreSQL's lock queue.   *)
(* The device repeats a push until it is answered; the server takes it     *)
(* whatever else it is doing, so that having no free handler only delays.  *)
HandlerStep(r) ==
    \/ (WebPunch(r) \/ Snapshot(r) \/ LoadSummary(r) \/ SaveSummary(r))
          /\ UNCHANGED <<request, devVars>>
    \/ applyRegularizationPunches(r) /\ UNCHANGED <<request, devVars>>
    \/ (SaveDecision(r) \/ SaveApproval(r)) /\ UNCHANGED devVars
    \/ IngestStep(r) /\ UNCHANGED request

Spec == Init /\ [][Next]_vars
FairSpec ==
    /\ Spec
    /\ \A r \in Requests : WF_vars(HandlerStep(r))
    /\ \A r \in Requests : SF_vars(SavePunch(r) /\ UNCHANGED request)
    /\ SF_vars((\E r \in Requests : push(r)) /\ UNCHANGED request)

-----------------------------------------------------------------------------

InstantOrNever == 0 .. End \cup {Never}
PunchRows == [at : 0 .. End - 1, type : {"IN", "OUT"},
              source : {"WEB", "BIOMETRIC", "REGULARIZATION"}, by : Requests \cup {None}]
SummaryRows == [exists : BOOLEAN, firstIn : InstantOrNever, lastOut : InstantOrNever,
                worked : 0 .. End]
Events == [at : 0 .. End - 1, raw : {"IN", "OUT", "OTHER"}]

(* Rows and handlers keep their types; a punch that no handler has         *)
(* committed is no row, and a device waits only for a push that carries    *)
(* what it has buffered.                                                   *)
TypeOK ==
    /\ scenario \in Scenarios
    /\ now \in 0 .. End
    /\ punches \subseteq PunchRows
    /\ summary \in [Days -> SummaryRows]
    /\ \A g \in Regs : request[g].status \in {"NONE", "PENDING", "APPROVED", "REJECTED", "WITHDRAWN"}
    /\ \A r \in Requests :
        /\ tx[r].own \subseteq PunchRows
        /\ tx[r].op \in {"signIn", "signOut", "view", "approve", "withdraw", "reject",
                         "push", "resolve", "ignore", "none"}
        /\ tx[r].op = "push" => todo[r] \subseteq batch[r]
    /\ buffer \cup acked \cup dropped \subseteq Events
    /\ \A id \in Rows : queue[id] = NoRow \/ queue[id].ev \in Events
    /\ waiting # None => tx[waiting].op = "push" /\ batch[waiting] \subseteq buffer

(* The summary of a day is what the punches of the day amount to, unless   *)
(* the handler that saved it last had read them, or the row, before        *)
(* another one committed, or a sign-in was stamped after midnight.         *)
SummaryMatchesPunches ==
    \A d \in Days :
        LET pairs == pairPunches(getPunchesForDay(punches, d, overnight), d) IN
        ~behind[d] /\ (summary[d].exists \/ pairs # {}) => summary[d] = SummaryOf(pairs)

(* IN and OUT alternate on a day, whatever the mix of sign-ins and swipes, *)
(* if each was decided on after the one before it was stored.              *)
SessionsAlternate ==
    \A d \in Days : ~tangled[d] =>
        \A p, q \in getPunchesForDay(punches, d, FALSE) :
            /\ p.at < q.at
            /\ \A t \in Ins(punches) \cup Outs(punches) : ~(p.at < t /\ t < q.at)
            => p.type # q.type

(* An OUT swipe that closes a session of a day shows in its summary.       *)
(* Biometric swipes are to do the same as signing out, which feeds the     *)
(* daily summary (docs/API_INVENTORY.md).                                  *)
OutSwipesFeedTheDay ==
    \A d \in Days, p \in Biometric :
        /\ p.type = "OUT" /\ ~behind[d]
        /\ \E pair \in pairPunches(getPunchesForDay(punches, d, overnight), d) : pair.out = p.at
        => summary[d].lastOut >= p.at

(* The device gets rid of what it buffered.                                *)
EveryScanAcknowledged == []<>(buffer = {})

=============================================================================
