--------------------------- MODULE PortalHandlers ---------------------------
(***************************************************************************)
(* What the handlers of the portal share: several of them run at the same  *)
(* time, each between its awaits, and one that fails just ends.            *)
(***************************************************************************)
EXTENDS Integers, FiniteSetsExt

CONSTANTS
    Employees,
    Requests,       \* handlers that may be running at the same time
    LastDay,        \* bound: the last day of the calendar
    Scenarios,      \* sets of requests that come in one history
    None            \* no employee, no question, no answer

ASSUME PortalAssumption ==
    /\ LastDay \in Nat
    /\ Scenarios \subseteq SUBSET STRING
    /\ None \notin Employees /\ None \notin Requests

VARIABLES
    scenario,   \* the scenario, which never changes
    today,      \* the calendar day
    tx          \* the handlers that are running

portalVars == <<scenario, today, tx>>

Asked(kind) == kind \in scenario

Idle == [op |-> "none", pc |-> "idle"]
At(r, op, pc) == tx[r].op = op /\ tx[r].pc = pc

Goes(r, t) == tx' = [tx EXCEPT ![r] = t] /\ UNCHANGED <<scenario, today>>
Begin(r, t) == tx[r].pc = "idle" /\ Goes(r, t)
Ends(r) == Goes(r, Idle)

NextDay ==
    /\ Asked("midnight") /\ today < LastDay
    /\ today' = today + 1
    /\ UNCHANGED <<scenario, tx>>

PortalInit ==
    /\ scenario \in Scenarios
    /\ today = 0
    /\ tx = [r \in Requests |-> Idle]

=============================================================================
