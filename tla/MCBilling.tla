----------------------------- MODULE MCBilling -----------------------------
(***************************************************************************)
(* Instances of Billing: a payment with an unknown plan name, a payment    *)
(* and a subscription event that name the second plan.                     *)
(***************************************************************************)
EXTENDS Billing, TLC

CONSTANTS p1, p2

MCPlanNamed == p1 :> "gold" @@ p2 :> "standard"
MCPaidPlans == {"starter", "standard"}

HandlerSymmetry == Permutations(Handlers)
=============================================================================
