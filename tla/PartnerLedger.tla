--------------------------- MODULE PartnerLedger ---------------------------
(***************************************************************************)
(* The money of the partner program: payments become commissions, a        *)
(* nightly task releases them after the hold, administrators reserve them  *)
(* with payouts and mark the payouts paid or failed, refunds and           *)
(* chargebacks reverse them, and a disabled subscription churns the        *)
(* referral.                                                               *)
(*                                                                         *)
(* app/modules/partners/commissions.py, payouts.py, repository.py,         *)
(* models.py, and the calls of app/modules/billing/service.py.             *)
(*                                                                         *)
(* Each operation is one PostgreSQL transaction at READ COMMITTED that     *)
(* takes no lock before it writes: it reads committed rows, decides, and   *)
(* writes.  An action Read... is the read part and leaves what was read in *)
(* tx[w]; an action Commit... is the write part.  The ORM writes only the  *)
(* columns whose value differs from the one it loaded, so what another     *)
(* transaction wrote meanwhile to other columns survives, and to the same  *)
(* column is overwritten.  update() of the repositories skips arguments    *)
(* that are None.  A transaction whose read part finds nothing to write    *)
(* takes no step.                                                          *)
(***************************************************************************)
EXTENDS Integers, FiniteSets, FiniteSetsExt

CONSTANTS
  Workers,         \* API requests, webhooks and Celery tasks running at a time
  Partners,        \* partner profiles
  Customers,       \* referred customers, one referral each
  Payments,        \* payment references of the billing provider
  Payouts,         \* bound: payouts created in a behaviour
  MaxCommissions,  \* bound: commission rows created in a behaviour
  None,            \* SQL NULL
  PartnerOf,       \* referral.partner_id of a customer
  CustomerOf,      \* the customer whose organization made a payment
  Collected,       \* amount collected by a payment, in minor units
  Rate             \* settings.PARTNER_COMMISSION_RATE, in percent

Commissions == 1..MaxCommissions   \* in the order of created_at

ASSUME ConstantsAssumption ==
  /\ MaxCommissions \in Nat
  /\ PartnerOf \in [Customers -> Partners]
  /\ CustomerOf \in [Payments -> Customers]
  /\ Collected \in [Payments -> Nat]
  /\ Rate \in Nat
  /\ None \notin Payouts \cup Payments \cup Partners

VARIABLES
  commission,  \* partner_commissions rows
  payout,      \* partner_payouts rows
  referral,    \* partner_referrals.status of each customer
  tx,          \* the transaction of each worker
  reserved,    \* history: <<commission, payout>> pairs written by create_payout
  overlapped   \* history: two transactions have been open at the same time

vars == <<commission, payout, referral, tx, reserved, overlapped>>

----------------------------------------------------------------------------
(* Rows *)

\* due: payable_at is in the past.  reason: reversal_reason is not NULL.
CommissionRow == [status : {"none", "pending", "payable", "paid", "reversed"},
                  payment : Payments \cup {None}, due : BOOLEAN,
                  payout : Payouts \cup {None}, reason : BOOLEAN]

NoCommission == [status |-> "none", payment |-> None, due |-> FALSE,
                 payout |-> None, reason |-> FALSE]

\* referenced: a transaction reference has been recorded.
PayoutRow == [status : {"none", "pending", "paid", "failed"},
              partner : Partners \cup {None}, amount : Nat, referenced : BOOLEAN]

NoPayout == [status |-> "none", partner |-> None, amount |-> 0, referenced |-> FALSE]

\* subject: the payment, customer, partner or payout it works on; rows: the
\* commissions it will write; dirty: it will write the status of its subject.
Kinds == {"idle", "payment", "reversal", "churn", "release", "reservation",
          "pay", "settlement", "fail"}
Tx == [kind : Kinds,
       subject : Payments \cup Customers \cup Partners \cup Payouts \cup {None},
       rows : SUBSET Commissions, amount : Nat, dirty : BOOLEAN]

IdleTx == [kind |-> "idle", subject |-> None, rows |-> {}, amount |-> 0, dirty |-> FALSE]

TypeOK ==
  /\ commission \in [Commissions -> CommissionRow]
  /\ payout \in [Payouts -> PayoutRow]
  /\ referral \in [Customers -> {"signed_up", "paid", "churned"}]
  /\ tx \in [Workers -> Tx]
  /\ reserved \subseteq Commissions \X Payouts
  /\ overlapped \in BOOLEAN

Init ==
  /\ commission = [c \in Commissions |-> NoCommission]
  /\ payout = [q \in Payouts |-> NoPayout]
  /\ referral = [k \in Customers |-> "signed_up"]
  /\ tx = [w \in Workers |-> IdleTx]
  /\ reserved = {}
  /\ overlapped = FALSE

----------------------------------------------------------------------------
(* Amounts *)

\* rate_pct percent of amount_minor, rounded half up, in integers.
apply_rate(amount_minor, rate_pct) == (amount_minor * rate_pct + 50) \div 100

Amount(c) == apply_rate(Collected[commission[c].payment], Rate)

Total(S) == MapThenSumSet(Amount, S)

PartnerOfCommission(c) == PartnerOf[CustomerOf[commission[c].payment]]

----------------------------------------------------------------------------
(* Transactions *)

Begin(w, kind, subject, rows, amount, dirty) ==
  /\ tx[w].kind = "idle"
  /\ tx' = [tx EXCEPT ![w] = [kind |-> kind, subject |-> subject, rows |-> rows,
                              amount |-> amount, dirty |-> dirty]]
  /\ overlapped' = (overlapped \/ \E v \in Workers : tx[v].kind # "idle")
  /\ UNCHANGED <<commission, payout, referral, reserved>>

End(w) ==
  /\ tx' = [tx EXCEPT ![w] = IdleTx]
  /\ UNCHANGED overlapped

\* The write part sets column of the rows that tx[w] has loaded.
SetStatus(rows, status) ==
  [c \in Commissions |-> IF c \in rows THEN [commission[c] EXCEPT !.status = status]
                                       ELSE commission[c]]

\* The request fails, the worker dies or PostgreSQL cancels the transaction.
Abort(w) ==
  /\ tx[w].kind # "idle"
  /\ End(w)
  /\ UNCHANGED <<commission, payout, referral, reserved>>

----------------------------------------------------------------------------
(* record_payment *)

\* The idempotency lookup and the status checks of record_payment.
ReadPayment(w, p) ==
  /\ referral[CustomerOf[p]] # "churned"
  /\ \A c \in Commissions : commission[c].payment # p
  /\ apply_rate(Collected[p], Rate) > 0
  /\ Begin(w, "payment", p, {}, 0,
           referral[CustomerOf[p]] = "signed_up")

\* Faulty: the table has no unique constraint.
FaultyCommitPayment(w) ==
  LET p == tx[w].subject
  IN /\ tx[w].kind = "payment"
     /\ \E c \in Commissions, due \in BOOLEAN :
          /\ commission[c].status = "none"
          /\ commission' = [commission EXCEPT ![c] =
                              [NoCommission EXCEPT !.status = "pending",
                                                   !.payment = p, !.due = due]]
     /\ referral' = IF tx[w].dirty THEN [referral EXCEPT ![CustomerOf[p]] = "paid"]
                                   ELSE referral
     /\ End(w)
     /\ UNCHANGED <<payout, reserved>>

\* uq_partner_commissions_idempotency: no second row for a payment.  A late
\* delivery may insert a commission whose hold is over.
CommitPayment(w) ==
  LET p == tx[w].subject
  IN /\ tx[w].kind = "payment"
     /\ \A c \in Commissions : commission[c].payment # p
     /\ \E c \in Commissions, due \in BOOLEAN :
          /\ commission[c].status = "none"
          /\ commission' = [commission EXCEPT ![c] =
                              [NoCommission EXCEPT !.status = "pending",
                                                   !.payment = p, !.due = due]]
     /\ referral' = IF tx[w].dirty THEN [referral EXCEPT ![CustomerOf[p]] = "paid"]
                                   ELSE referral
     /\ End(w)
     /\ UNCHANGED <<payout, reserved>>

\* The insert that loses the race fails and takes its transaction with it.
RejectDuplicate(w) ==
  /\ tx[w].kind = "payment"
  /\ \E c \in Commissions : commission[c].payment = tx[w].subject
  /\ End(w)
  /\ UNCHANGED <<commission, payout, referral, reserved>>

----------------------------------------------------------------------------
(* Reversal, churn, release *)

\* reverse_by_reference: refunds and chargebacks.
ReadRefund(w, p) ==
  LET rows == {c \in Commissions : /\ commission[c].payment = p
                                   /\ commission[c].status # "reversed"}
  IN rows # {} /\ Begin(w, "reversal", None, rows, 0, TRUE)

\* reverse_commission: an administrator reverses one row.
ReadReversal(w, c) ==
  /\ commission[c].status \notin {"none", "reversed"}
  /\ Begin(w, "reversal", None, {c}, 0, TRUE)

\* payout_id=None is skipped by update(): the reservation stays.
CommitReversal(w) ==
  /\ tx[w].kind = "reversal"
  /\ commission' = [c \in Commissions |->
                      IF c \in tx[w].rows
                      THEN [commission[c] EXCEPT !.status = "reversed", !.reason = TRUE]
                      ELSE commission[c]]
  /\ End(w)
  /\ UNCHANGED <<payout, referral, reserved>>

ReadChurn(w, k) ==
  /\ referral[k] # "churned"
  /\ Begin(w, "churn", k, {}, 0, TRUE)

CommitChurn(w) ==
  /\ tx[w].kind = "churn"
  /\ referral' = [referral EXCEPT ![tx[w].subject] = "churned"]
  /\ End(w)
  /\ UNCHANGED <<commission, payout, reserved>>

HoldElapses(c) ==
  /\ commission[c].status # "none"
  /\ ~commission[c].due
  /\ commission' = [commission EXCEPT ![c].due = TRUE]
  /\ UNCHANGED <<payout, referral, tx, reserved, overlapped>>

\* Faulty: the comparison with payable_at is missing, or the wrong way round.
EagerReleasable == {c \in Commissions : commission[c].status = "pending"}
InvertedReleasable == {c \in Commissions : commission[c].status = "pending"
                                          /\ ~commission[c].due}

\* pending_past_hold
Releasable == {c \in Commissions : commission[c].status = "pending" /\ commission[c].due}

ReadRelease(w) ==
  /\ Releasable # {}
  /\ Begin(w, "release", None, Releasable, 0, TRUE)

CommitRelease(w) ==
  /\ tx[w].kind = "release"
  /\ commission' = SetStatus(tx[w].rows, "payable")
  /\ End(w)
  /\ UNCHANGED <<payout, referral, reserved>>

----------------------------------------------------------------------------
(* create_payout and process_payout *)

\* Faulty: the query forgets that a row may be reserved already.
ReservedPayable(n) == {c \in Commissions : /\ commission[c].status = "payable"
                                           /\ PartnerOfCommission(c) = n}

\* payable_by_partner
Payable(n) == {c \in Commissions : /\ commission[c].status = "payable"
                                   /\ commission[c].payout = None
                                   /\ PartnerOfCommission(c) = n}

\* Faulty: the loop stops one commission late (remaining < 0).
FaultyCover(S, amount) == {c \in S : Total({d \in S : d < c}) <= amount}

\* The oldest rows of S, until they cover amount.
Cover(S, amount) == {c \in S : Total({d \in S : d < c}) < amount}

\* The amount the administrator asks for, or the whole balance.  The minimum
\* threshold stops only a request without an amount.
ReadPayable(w, n) ==
  \E amount \in 1..Total(Payable(n)) :
    Begin(w, "reservation", n, Cover(Payable(n), amount), amount, TRUE)

CommitReservation(w) ==
  /\ tx[w].kind = "reservation"
  /\ \E q \in Payouts :
       /\ payout[q].status = "none"
       /\ payout' = [payout EXCEPT ![q] =
                       [status |-> "pending", partner |-> tx[w].subject,
                        amount |-> tx[w].amount, referenced |-> FALSE]]
       /\ commission' = [c \in Commissions |->
                           IF c \in tx[w].rows THEN [commission[c] EXCEPT !.payout = q]
                                               ELSE commission[c]]
       /\ reserved' = reserved \cup (tx[w].rows \X {q})
  /\ End(w)
  /\ UNCHANGED referral

\* mark_paid and mark_failed load the payout and do not look at its status.
\* mark_failed on a failed payout writes nothing.
ReadPayout(w, q) ==
  /\ payout[q].status # "none"
  /\ \/ Begin(w, "pay", q, {}, 0, payout[q].status # "paid")
     \/ payout[q].status # "failed" /\ Begin(w, "fail", q, {}, 0, TRUE)

\* The first UPDATE of a payout locks its row until the transaction ends.
PayoutLocked(q) == \E v \in Workers : tx[v].kind = "settlement" /\ tx[v].subject = q

\* Faulty: the payout is left in a status outside the vocabulary in use.
FaultySettlement(w) ==
  /\ tx[w].kind = "settlement"
  /\ payout' = [payout EXCEPT ![tx[w].subject].status = "processing",
                              ![tx[w].subject].referenced = TRUE]
  /\ commission' = SetStatus(tx[w].rows, "paid")
  /\ End(w)
  /\ UNCHANGED <<referral, reserved>>

\* Faulty: settles what is payable instead of what the payout has reserved.
FaultyUnsettled(q) == {c \in Commissions : commission[c].status = "payable"}

\* commissions_for_payout, the rows whose status mark_paid will change.
Unsettled(q) == {c \in Commissions : /\ commission[c].payout = q
                                     /\ commission[c].status # "paid"}

\* mark_paid: update the payout, then read the commissions it has reserved.
LockPayout(w) ==
  /\ tx[w].kind = "pay"
  /\ ~PayoutLocked(tx[w].subject)
  /\ tx' = [tx EXCEPT ![w] = [@ EXCEPT !.kind = "settlement",
                                       !.rows = Unsettled(tx[w].subject)]]
  /\ UNCHANGED <<commission, payout, referral, reserved, overlapped>>

MarkedPaid(row, dirty) ==
  [row EXCEPT !.status = IF dirty THEN "paid" ELSE row.status, !.referenced = TRUE]

CommitSettlement(w) ==
  LET q == tx[w].subject
  IN /\ tx[w].kind = "settlement"
     /\ payout' = [payout EXCEPT ![q] = MarkedPaid(payout[q], tx[w].dirty)]
     /\ commission' = SetStatus(tx[w].rows, "paid")
     /\ End(w)
     /\ UNCHANGED <<referral, reserved>>

\* mark_failed: update(payout_id=None) on the reserved rows writes nothing.
CommitFailure(w) ==
  /\ tx[w].kind = "fail"
  /\ ~PayoutLocked(tx[w].subject)
  /\ payout' = [payout EXCEPT ![tx[w].subject].status = "failed"]
  /\ End(w)
  /\ UNCHANGED <<commission, referral, reserved>>

----------------------------------------------------------------------------
ReadStep(w) ==
  \/ \E p \in Payments : ReadPayment(w, p) \/ ReadRefund(w, p)
  \/ \E c \in Commissions : ReadReversal(w, c)
  \/ \E k \in Customers : ReadChurn(w, k)
  \/ ReadRelease(w)
  \/ \E n \in Partners : ReadPayable(w, n)
  \/ \E q \in Payouts : ReadPayout(w, q)

WriteStep(w) ==
  \/ CommitPayment(w)
  \/ RejectDuplicate(w)
  \/ CommitReversal(w)
  \/ CommitChurn(w)
  \/ CommitRelease(w)
  \/ CommitReservation(w)
  \/ LockPayout(w)
  \/ CommitSettlement(w)
  \/ CommitFailure(w)

Next ==
  \/ \E w \in Workers : ReadStep(w) \/ WriteStep(w) \/ Abort(w)
  \/ \E c \in Commissions : HoldElapses(c)

\* Open transactions end.  The hold-release task runs every night, finds a
\* free worker, and is not rolled back for ever.
Fairness ==
  /\ \A w \in Workers : WF_vars(WriteStep(w) \/ Abort(w))
  /\ SF_vars(\E w \in Workers : ReadRelease(w))
  /\ SF_vars(\E w \in Workers : CommitRelease(w))

Spec == Init /\ [][Next]_vars /\ Fairness

----------------------------------------------------------------------------
(* What the ledger promises, and keeps under every interleaving *)

\* record_payment: "converts one confirmed payment into at most one
\* commission", however often and from however many requests it is delivered.
OneCommissionPerPayment ==
  \A c, d \in Commissions :
    commission[c].payment = commission[d].payment /\ commission[c].payment # None => c = d

\* release_payable, create_payout, process_payout: no money of a commission
\* whose hold has not elapsed is payable, reserved or paid.
HoldRespected ==
  \A c \in Commissions :
    commission[c].status \in {"payable", "paid"} \/ commission[c].payout # None
      => commission[c].due

\* create_payout: a payout holds commissions of its own partner only.
PartnerSeparation ==
  \A c \in Commissions : commission[c].payout # None =>
    payout[commission[c].payout].partner = PartnerOfCommission(c)

\* process_payout: commissions "settle to paid only when the payout itself is
\* marked paid".  A paid commission has been in a payout of its partner that was
\* marked paid with a transaction reference.
PaidThroughPayout ==
  \A c \in Commissions : commission[c].status = "paid" =>
    \E q \in Payouts : <<c, q>> \in reserved /\ payout[q].referenced

\* create_payout: the commissions a payout reserves cover its amount, and
\* without the newest of them they would not.
PayoutCovered ==
  \A q \in Payouts : payout[q].status # "none" =>
    LET rows == {c \in Commissions : <<c, q>> \in reserved}
    IN /\ payout[q].amount <= Total(rows)
       /\ \A c \in rows : Total({d \in rows : d < c}) < payout[q].amount

\* create_payout: reserved commissions "are excluded from future payouts".  As
\* long as no two transactions have overlapped, no commission has been in two
\* payouts.
SerialReservationsDisjoint ==
  ~overlapped =>
    \A c \in Commissions, q, r \in Payouts :
      <<c, q>> \in reserved /\ <<c, r>> \in reserved => q = r

\* PartnerCommission: "the ledger is append-only in spirit".  Whatever operations
\* do with a row, it does not vanish or change its payment, its hold does not
\* start again, its reservation is not lifted, and a payout keeps its partner and
\* its reference.
Extended ==
  /\ \A c \in Commissions : commission[c].status # "none" =>
       /\ commission'[c].status # "none"
       /\ commission'[c].payment = commission[c].payment
       /\ commission[c].due => commission'[c].due
       /\ commission[c].payout # None => commission'[c].payout # None
  /\ \A q \in Payouts : payout[q].status # "none" =>
       /\ payout'[q].status # "none"
       /\ payout'[q].partner = payout[q].partner
       /\ payout[q].referenced => payout'[q].referenced
  /\ reserved \subseteq reserved'

AppendOnly == [][Extended]_vars

\* commission_hold_release: a pending commission does not stay pending after
\* its hold has elapsed.
HeldMoneyReleased ==
  \A c \in Commissions :
    commission[c].status = "pending" /\ commission[c].due ~> commission[c].status # "pending"

----------------------------------------------------------------------------
(* What its comments and documents promise besides, and it does not keep *)

\* process_payout, mark_failed: "Return reserved commissions to the payable
\* pool."  No commission belongs to a failed payout.
FailedPayoutReturnsCommissions ==
  \A q \in Payouts : payout[q].status = "failed" =>
    \A c \in Commissions : commission[c].payout # q

\* docs/PARTNER_NETWORK.md, section 3: no status follows "reversed".  A
\* commission with a reversal reason is reversed.
ReversedStaysReversed ==
  \A c \in Commissions : commission[c].reason => commission[c].status = "reversed"
=============================================================================
