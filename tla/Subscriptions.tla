---------------------------- MODULE Subscriptions ----------------------------
(***************************************************************************)
(* The plans of one organization, in the master database.  A renewal       *)
(* supersedes the active plan in one write and inserts the new one in      *)
(* another; a nightly job, and every request that is to be let in, expire  *)
(* what has run out.                                                       *)
(***************************************************************************)
EXTENDS PortalHandlers

CONSTANTS
    Plans,          \* bound: rows of organization_subscriptions, numbered in order
    Periods         \* the days a plan lasts

ASSUME SubscriptionAssumption ==
    Plans \subseteq Nat \ {0} /\ IsFiniteSet(Plans) /\ Periods \subseteq Nat

VARIABLES
    plan,           \* organization_subscriptions: the rows
    broken          \* history: a renewal failed after it had superseded the plan

planVars == <<plan, broken>>

NoPlan == [status |-> "NONE", expires |-> 0]
Active == {p \in Plans : plan[p].status = "ACTIVE"}
FreePlans == {p \in Plans : plan[p] = NoPlan}

create(r, period) ==
    /\ Asked("subscribe")
    /\ Active = {}
    /\ Begin(r, [op |-> "subscribe", pc |-> "insert", old |-> 0, expires |-> today + period])
    /\ UNCHANGED planVars

renew(r, period) ==
    /\ Asked("renew")
    /\ Begin(r, [op |-> "renew", pc |-> IF Active = {} THEN "insert" ELSE "supersede",
                 old |-> IF Active = {} THEN 0 ELSE Min(Active), expires |-> today + period])
    /\ UNCHANGED planVars

Supersede(r) ==
    /\ At(r, "renew", "supersede")
    /\ plan' = [plan EXCEPT ![tx[r].old].status = "SUPERSEDED"]
    /\ Goes(r, [tx[r] EXCEPT !.pc = "insert"])
    /\ UNCHANGED broken

(* UQ_organization_subscriptions_active_org: one active plan.              *)
AnotherActive == FALSE      \* mutant: no unique index
Occupied == Active # {}

InsertPlan(r) ==
    /\ tx[r].op \in {"subscribe", "renew"} /\ tx[r].pc = "insert"
    /\ FreePlans # {}
    /\ IF Occupied
       THEN UNCHANGED planVars
       ELSE /\ plan' = [plan EXCEPT ![Min(FreePlans)] =
                          [status |-> "ACTIVE", expires |-> tx[r].expires]]
            /\ broken' = FALSE
    /\ Ends(r)

FailPlan(r) ==
    /\ tx[r].op \in {"subscribe", "renew"} /\ tx[r].pc = "insert"
    /\ broken' = (broken \/ (tx[r].old # 0 /\ Active = {}))
    /\ Ends(r)
    /\ UNCHANGED plan

(* The job, and getSubscriptionAccessForOrganization.                      *)
markExpiredSubscriptions ==
    /\ Asked("expire")
    /\ plan' = [p \in Plans |-> IF p \in Active /\ plan[p].expires <= today
                                THEN [plan[p] EXCEPT !.status = "EXPIRED"] ELSE plan[p]]
    /\ UNCHANGED <<portalVars, broken>>

PlansInit == plan = [p \in Plans |-> NoPlan] /\ broken = FALSE

PlansStep(r) ==
    \/ \E period \in Periods : create(r, period) \/ renew(r, period)
    \/ Supersede(r) \/ InsertPlan(r) \/ FailPlan(r)

-----------------------------------------------------------------------------
Renewing == \E r \in Requests : tx[r].op = "renew" /\ tx[r].pc = "insert"

(* Whatever plans are bought, renewed and expired at the same time: an     *)
(* organization has at most one active plan, and its last plan is          *)
(* superseded only while a renewal is on its way to a new one, or failed.  *)
PlanKept ==
    /\ Cardinality(Active) <= 1
    /\ ~broken /\ ~Renewing =>
         \A p \in Plans : plan[p].status = "SUPERSEDED" => p # Max(Plans \ FreePlans)

=============================================================================
