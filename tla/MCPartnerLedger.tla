-------------------------- MODULE MCPartnerLedger --------------------------
(***************************************************************************)
(* PartnerLedger on a small instance: two partners with one customer each, *)
(* two payments by the first customer and one by the second.               *)
(***************************************************************************)
EXTENDS PartnerLedger, TLC

CONSTANTS p1, p2, p3, k1, k2, n1, n2, MaxRows

MCPartnerOf == [k \in Customers |-> IF k = k1 THEN n1 ELSE n2]
MCCustomerOf == [p \in Payments |-> IF p = p3 THEN k2 ELSE k1]

\* Commissions of 2 (p2) and 1 at 30 percent, both rounded.
MCCollected == [p \in Payments |-> IF p = p2 THEN 5 ELSE 2]

\* Two commissions and one payout, or one commission and two payouts.
RowsBound ==
  Cardinality({c \in Commissions : commission[c].status # "none"})
    + Cardinality({q \in Payouts : payout[q].status # "none"}) <= MaxRows

\* Workers and payouts are interchangeable; for the safety run only.
Symmetric == Permutations(Workers) \cup Permutations(Payouts)

\* A creation the bound forbids leaves its transaction to Abort.
MCSpec == Init /\ [][Next /\ RowsBound']_vars /\ Fairness
=============================================================================
