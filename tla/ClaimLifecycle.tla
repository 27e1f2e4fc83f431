---------------------------- MODULE ClaimLifecycle ----------------------------
(***************************************************************************)
(* What the expense service promises of a claim, one atomic action per     *)
(* request: the stages a claim goes through, and that the amount under     *)
(* review is the amount that was submitted.  The one thing the service     *)
(* does not exclude is explicit: a request of the employee that acts on    *)
(* what it read before another request committed may overwrite the claim,  *)
(* after which nothing is promised of it.                                  *)
(***************************************************************************)
EXTENDS Naturals

CONSTANTS Claims, Amounts, MaxClaimAmount

VARIABLES stage, amount

lifecycle == <<stage, amount>>

Move(c, from, to) ==
    /\ stage[c] \in from
    /\ stage' = [stage EXCEPT ![c] = to]
    /\ UNCHANGED amount

Create(c) == Move(c, {"NONE"}, "DRAFT")

Edit(c) ==
    /\ stage[c] \in {"DRAFT", "SENT_BACK"}
    /\ amount'[c] \in Amounts
    /\ amount' = [amount EXCEPT ![c] = amount'[c]]
    /\ UNCHANGED stage

Submit(c) ==
    /\ amount[c] \in 1..MaxClaimAmount
    /\ Move(c, {"DRAFT", "SENT_BACK"}, "PENDING_MANAGER")

Withdraw(c) ==
    Move(c, {"DRAFT", "SENT_BACK", "PENDING_MANAGER", "PENDING_FINANCE"}, "WITHDRAWN")

ManagerApprove(c) == Move(c, {"PENDING_MANAGER"}, "PENDING_FINANCE")
FinanceApprove(c) == Move(c, {"PENDING_FINANCE"}, "APPROVED")
MarkPaid(c)       == Move(c, {"APPROVED"}, "PAID")
Reject(c)         == Move(c, {"PENDING_MANAGER", "PENDING_FINANCE"}, "REJECTED")
SendBack(c)       == Move(c, {"PENDING_MANAGER", "PENDING_FINANCE"}, "SENT_BACK")

Overwrite(c) ==
    /\ stage[c] # "NONE"
    /\ stage'  = [stage EXCEPT ![c] = "OVERWRITTEN"]
    /\ amount' = [amount EXCEPT ![c] = 0]

Init ==
    /\ stage  = [c \in Claims |-> "NONE"]
    /\ amount = [c \in Claims |-> 0]

Next ==
    \E c \in Claims :
        \/ Create(c) \/ Edit(c) \/ Submit(c) \/ Withdraw(c)
        \/ ManagerApprove(c) \/ FinanceApprove(c) \/ MarkPaid(c)
        \/ Reject(c) \/ SendBack(c)
        \/ Overwrite(c)

Spec == Init /\ [][Next]_lifecycle

=============================================================================
