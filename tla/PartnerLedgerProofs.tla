------------------------ MODULE PartnerLedgerProofs ------------------------
(***************************************************************************)
(* Theorems about PartnerLedger for any number of workers, partners,       *)
(* payments, commissions and payouts, and any commission rate.             *)
(***************************************************************************)
EXTENDS PartnerLedger, FiniteSums, TLAPS

----------------------------------------------------------------------------
(* The inductive invariant *)

\* A transaction works on a subject of its kind, and a payout it has loaded
\* exists.
SubjectOK(w) ==
  /\ tx[w].kind = "payment" => tx[w].subject \in Payments
  /\ tx[w].kind = "reservation" => tx[w].subject \in Partners
  /\ tx[w].kind \in {"pay", "settlement", "fail"} =>
       tx[w].subject \in Payouts /\ payout[tx[w].subject].status # "none"

SubjectsOK == \A w \in Workers : SubjectOK(w)

\* What a transaction has read of a row it will write stays true until it
\* writes it, whoever writes meanwhile: the columns it relies on never change
\* back.
RowReadOK(w, c) ==
  /\ commission[c].status # "none"
  /\ tx[w].kind \in {"release", "reservation"} => commission[c].due
  /\ tx[w].kind = "reservation" => PartnerOfCommission(c) = tx[w].subject
  /\ tx[w].kind = "settlement" => <<c, tx[w].subject>> \in reserved

RowsReadOK == \A w \in Workers : \A c \in tx[w].rows : RowReadOK(w, c)

\* The columns of a commission row agree.
ColumnsAgree(c) ==
  /\ commission[c].status = "none" <=> commission[c].payment = None
  /\ commission[c].status \in {"payable", "paid"} => commission[c].due
  /\ commission[c].payout # None => <<c, commission[c].payout>> \in reserved

ColumnsOK == \A c \in Commissions : ColumnsAgree(c)

\* A reservation ties a due commission to an existing payout of its partner.
ReservationOK(c, q) ==
  /\ commission[c].status # "none"
  /\ commission[c].due
  /\ commission[c].payout # None
  /\ payout[q].status # "none"
  /\ payout[q].partner = PartnerOfCommission(c)

ReservationsOK ==
  \A c \in Commissions, q \in Payouts : <<c, q>> \in reserved => ReservationOK(c, q)

LedgerInv ==
  /\ TypeOK
  /\ SubjectsOK
  /\ RowsReadOK
  /\ ColumnsOK
  /\ ReservationsOK

\* While transactions have never overlapped there is one at most, and the rows
\* it is about to reserve are still free.
SerialInv ==
  ~overlapped =>
    /\ \A v, w \in Workers : tx[v].kind # "idle" /\ tx[w].kind # "idle" => v = w
    /\ \A w \in Workers : tx[w].kind = "reservation" =>
         \A c \in tx[w].rows : commission[c].payout = None

----------------------------------------------------------------------------
(* Type correctness *)

\* Opening a transaction: every read part of commissions.py and payouts.py is
\* an instance of Begin.
LEMMA BeginType ==
  ASSUME TypeOK, NEW w \in Workers, NEW kind \in Kinds,
         NEW subject \in Payments \cup Customers \cup Partners \cup Payouts \cup {None},
         NEW rows \in SUBSET Commissions, NEW amount \in Nat, NEW dirty \in BOOLEAN,
         Begin(w, kind, subject, rows, amount, dirty)
  PROVE  TypeOK'
<1>1. [kind |-> kind, subject |-> subject, rows |-> rows,
       amount |-> amount, dirty |-> dirty] \in Tx
  BY DEF Tx
<1>2. tx' \in [Workers -> Tx]
  BY <1>1 DEF Begin, TypeOK
<1>3. overlapped' \in BOOLEAN
  BY DEF Begin, TypeOK
<1>4. QED
  BY <1>2, <1>3 DEF Begin, TypeOK

\* Closing a transaction, by commit or rollback, resets tx[w].
LEMMA EndType ==
  ASSUME TypeOK, NEW w \in Workers, End(w)
  PROVE  tx' \in [Workers -> Tx] /\ overlapped' \in BOOLEAN
BY DEF End, IdleTx, Tx, Kinds, TypeOK

\* Every step of every operation of the ledger preserves the types.
LEMMA TypeStep == TypeOK /\ SubjectsOK /\ [Next]_vars => TypeOK'
<1> SUFFICES ASSUME TypeOK, SubjectsOK, [Next]_vars PROVE TypeOK'
  OBVIOUS
<1> USE ConstantsAssumption
<1>1. ASSUME NEW w \in Workers, ReadStep(w) PROVE TypeOK'
  <2>1. ASSUME NEW p \in Payments, ReadPayment(w, p) PROVE TypeOK'
    BY <2>1, BeginType DEF ReadPayment, Kinds
  <2>2. ASSUME NEW p \in Payments, ReadRefund(w, p) PROVE TypeOK'
    BY <2>2, BeginType DEF ReadRefund, Kinds
  <2>3. ASSUME NEW c \in Commissions, ReadReversal(w, c) PROVE TypeOK'
    BY <2>3, BeginType DEF ReadReversal, Kinds
  <2>4. ASSUME NEW k \in Customers, ReadChurn(w, k) PROVE TypeOK'
    BY <2>4, BeginType DEF ReadChurn, Kinds
  <2>5. CASE ReadRelease(w)
    BY <2>5, BeginType DEF ReadRelease, Releasable, Kinds
  <2>6. ASSUME NEW n \in Partners, ReadPayable(w, n) PROVE TypeOK'
    <3>1. PICK amount \in 1..Total(Payable(n)) :
            Begin(w, "reservation", n, Cover(Payable(n), amount), amount, TRUE)
      BY <2>6 DEF ReadPayable
    <3>2. amount \in Nat
      OBVIOUS
    <3>3. Cover(Payable(n), amount) \in SUBSET Commissions
      BY DEF Cover, Payable
    <3>4. QED
      BY <3>1, <3>2, <3>3, BeginType DEF Kinds
  <2>7. ASSUME NEW q \in Payouts, ReadPayout(w, q) PROVE TypeOK'
    BY <2>7, BeginType DEF ReadPayout, Kinds
  <2>8. QED
    BY <1>1, <2>1, <2>2, <2>3, <2>4, <2>5, <2>6, <2>7 DEF ReadStep
<1>2. ASSUME NEW w \in Workers, WriteStep(w) PROVE TypeOK'
  <2>1. CASE CommitPayment(w)
    <3> DEFINE p == tx[w].subject
    <3>1. p \in Payments
      BY <2>1 DEF CommitPayment, SubjectsOK, SubjectOK
    <3>2. PICK c \in Commissions, due \in BOOLEAN :
            commission' = [commission EXCEPT ![c] =
                             [NoCommission EXCEPT !.status = "pending",
                                                  !.payment = p, !.due = due]]
      BY <2>1 DEF CommitPayment
    <3>3. commission' \in [Commissions -> CommissionRow]
      BY <3>1, <3>2 DEF TypeOK, NoCommission, CommissionRow
    <3>4. referral' \in [Customers -> {"signed_up", "paid", "churned"}]
      BY <2>1 DEF CommitPayment, TypeOK
    <3>5. QED
      BY <2>1, <3>3, <3>4, EndType DEF CommitPayment, TypeOK
  <2>2. CASE RejectDuplicate(w)
    BY <2>2, EndType DEF RejectDuplicate, TypeOK
  <2>3. CASE CommitReversal(w)
    <3>1. commission' \in [Commissions -> CommissionRow]
      <4>1. \A r \in CommissionRow :
              [r EXCEPT !.status = "reversed", !.reason = TRUE] \in CommissionRow
        BY DEF CommissionRow
      <4>2. \A c \in Commissions : commission[c] \in CommissionRow
        BY DEF TypeOK
      <4>3. QED
        BY <2>3, <4>1, <4>2 DEF CommitReversal
    <3>2. QED
      BY <2>3, <3>1, EndType DEF CommitReversal, TypeOK
  <2>4. CASE CommitChurn(w)
    <3>1. referral' \in [Customers -> {"signed_up", "paid", "churned"}]
      BY <2>4 DEF CommitChurn, TypeOK
    <3>2. QED
      BY <2>4, <3>1, EndType DEF CommitChurn, TypeOK
  <2>5. CASE CommitRelease(w)
    <3>1. commission' \in [Commissions -> CommissionRow]
      BY <2>5 DEF CommitRelease, SetStatus, TypeOK, CommissionRow
    <3>2. QED
      BY <2>5, <3>1, EndType DEF CommitRelease, TypeOK
  <2>6. CASE CommitReservation(w)
    <3>1. PICK q \in Payouts :
            /\ payout' = [payout EXCEPT ![q] =
                            [status |-> "pending", partner |-> tx[w].subject,
                             amount |-> tx[w].amount, referenced |-> FALSE]]
            /\ commission' = [c \in Commissions |->
                                IF c \in tx[w].rows THEN [commission[c] EXCEPT !.payout = q]
                                                    ELSE commission[c]]
            /\ reserved' = reserved \cup (tx[w].rows \X {q})
      BY <2>6 DEF CommitReservation
    <3>2. tx[w].subject \in Partners /\ tx[w].amount \in Nat /\ tx[w].rows \subseteq Commissions
      BY <2>6 DEF CommitReservation, SubjectsOK, SubjectOK, TypeOK, Tx
    <3>3. payout' \in [Payouts -> PayoutRow]
      BY <3>1, <3>2 DEF TypeOK, PayoutRow
    <3>4. commission' \in [Commissions -> CommissionRow]
      BY <3>1, <3>2 DEF TypeOK, CommissionRow
    <3>5. reserved' \subseteq Commissions \X Payouts
      BY <3>1, <3>2 DEF TypeOK
    <3>6. QED
      BY <2>6, <3>3, <3>4, <3>5, EndType DEF CommitReservation, TypeOK
  <2>7. CASE LockPayout(w)
    <3>1. tx[w] \in Tx /\ Unsettled(tx[w].subject) \subseteq Commissions
      BY DEF TypeOK, Unsettled
    <3>2. [tx[w] EXCEPT !.kind = "settlement", !.rows = Unsettled(tx[w].subject)] \in Tx
      BY <3>1 DEF Tx, Kinds
    <3>3. tx' \in [Workers -> Tx]
      BY <2>7, <3>2 DEF LockPayout, TypeOK
    <3>4. QED
      BY <2>7, <3>3 DEF LockPayout, TypeOK
  <2>8. CASE CommitSettlement(w)
    <3>1. commission' \in [Commissions -> CommissionRow]
      BY <2>8 DEF CommitSettlement, SetStatus, TypeOK, CommissionRow
    <3>2. payout' \in [Payouts -> PayoutRow]
      <4>1. payout[tx[w].subject] \in PayoutRow
        BY <2>8 DEF CommitSettlement, SubjectsOK, SubjectOK, TypeOK
      <4>2. MarkedPaid(payout[tx[w].subject], tx[w].dirty) \in PayoutRow
        BY <4>1 DEF MarkedPaid, PayoutRow
      <4>3. QED
        BY <2>8, <4>2 DEF CommitSettlement, TypeOK
    <3>3. QED
      BY <2>8, <3>1, <3>2, EndType DEF CommitSettlement, TypeOK
  <2>9. CASE CommitFailure(w)
    <3>1. payout' \in [Payouts -> PayoutRow]
      <4>1. \A r \in PayoutRow : [r EXCEPT !.status = "failed"] \in PayoutRow
        BY DEF PayoutRow
      <4>2. payout \in [Payouts -> PayoutRow]
        BY DEF TypeOK
      <4>3. QED
        BY <2>9, <4>1, <4>2 DEF CommitFailure
    <3>2. QED
      BY <2>9, <3>1, EndType DEF CommitFailure, TypeOK
  <2>10. QED
    BY <1>2, <2>1, <2>2, <2>3, <2>4, <2>5, <2>6, <2>7, <2>8, <2>9 DEF WriteStep
<1>3. ASSUME NEW w \in Workers, Abort(w) PROVE TypeOK'
  BY <1>3, EndType DEF Abort, TypeOK
<1>4. ASSUME NEW c \in Commissions, HoldElapses(c) PROVE TypeOK'
  <2>1. \A r \in CommissionRow : [r EXCEPT !.due = TRUE] \in CommissionRow
    BY DEF CommissionRow
  <2>2. commission \in [Commissions -> CommissionRow]
    BY DEF TypeOK
  <2>3. commission' \in [Commissions -> CommissionRow]
    BY <1>4, <2>1, <2>2 DEF HoldElapses
  <2>4. QED
    BY <1>4, <2>3 DEF HoldElapses, TypeOK
<1>5. CASE UNCHANGED vars
  BY <1>5 DEF TypeOK, vars
<1>6. QED
  BY <1>1, <1>2, <1>3, <1>4, <1>5 DEF Next

----------------------------------------------------------------------------
(* The ledger is append-only *)

\* Every operation of commissions.py and payouts.py extends what is there.
LEMMA ExtendedStep == LedgerInv /\ [Next]_vars => Extended
<1> SUFFICES ASSUME LedgerInv, [Next]_vars PROVE Extended
  OBVIOUS
<1> USE ConstantsAssumption DEF LedgerInv
<1>1. CASE UNCHANGED <<commission, payout, reserved>>
  BY <1>1 DEF Extended
<1>2. ASSUME NEW w \in Workers, CommitPayment(w) PROVE Extended
  <2>1. PICK c \in Commissions, due \in BOOLEAN :
          /\ commission[c].status = "none"
          /\ commission' = [commission EXCEPT ![c] =
                              [NoCommission EXCEPT !.status = "pending",
                                                   !.payment = tx[w].subject, !.due = due]]
    BY <1>2 DEF CommitPayment
  <2>2. QED
    BY <1>2, <2>1 DEF CommitPayment, Extended, TypeOK
<1>3. ASSUME NEW w \in Workers, CommitReversal(w) PROVE Extended
  BY <1>3 DEF CommitReversal, Extended, TypeOK, CommissionRow
<1>4. ASSUME NEW w \in Workers, CommitRelease(w) PROVE Extended
  BY <1>4 DEF CommitRelease, SetStatus, Extended, TypeOK, CommissionRow
<1>5. ASSUME NEW w \in Workers, CommitReservation(w) PROVE Extended
  <2>1. PICK q \in Payouts :
          /\ payout[q].status = "none"
          /\ payout' = [payout EXCEPT ![q] =
                          [status |-> "pending", partner |-> tx[w].subject,
                           amount |-> tx[w].amount, referenced |-> FALSE]]
          /\ commission' = [c \in Commissions |->
                              IF c \in tx[w].rows THEN [commission[c] EXCEPT !.payout = q]
                                                  ELSE commission[c]]
          /\ reserved' = reserved \cup (tx[w].rows \X {q})
    BY <1>5 DEF CommitReservation
  <2>2. QED
    BY <2>1 DEF Extended, TypeOK, CommissionRow
<1>6. ASSUME NEW w \in Workers, CommitSettlement(w) PROVE Extended
  <2>1. tx[w].subject \in Payouts /\ payout[tx[w].subject] \in PayoutRow
    BY <1>6 DEF CommitSettlement, SubjectsOK, SubjectOK, TypeOK
  <2>2. /\ MarkedPaid(payout[tx[w].subject], tx[w].dirty).referenced
        /\ MarkedPaid(payout[tx[w].subject], tx[w].dirty).partner = payout[tx[w].subject].partner
        /\ payout[tx[w].subject].status # "none" =>
             MarkedPaid(payout[tx[w].subject], tx[w].dirty).status # "none"
    BY <2>1 DEF MarkedPaid, PayoutRow
  <2>3. QED
    BY <1>6, <2>1, <2>2 DEF CommitSettlement, SetStatus, Extended, TypeOK, CommissionRow
<1>7. ASSUME NEW w \in Workers, CommitFailure(w) PROVE Extended
  BY <1>7 DEF CommitFailure, Extended, TypeOK, PayoutRow
<1>8. ASSUME NEW c \in Commissions, HoldElapses(c) PROVE Extended
  BY <1>8 DEF HoldElapses, Extended, TypeOK, CommissionRow
<1>9. ASSUME NEW w \in Workers, ReadStep(w) PROVE UNCHANGED <<commission, payout, reserved>>
  BY <1>9 DEF ReadStep, ReadPayment, ReadRefund, ReadReversal, ReadChurn, ReadRelease,
              ReadPayable, ReadPayout, Begin
<1>10. QED
  BY <1>1, <1>2, <1>3, <1>4, <1>5, <1>6, <1>7, <1>8, <1>9
     DEF Next, WriteStep, RejectDuplicate, CommitChurn, LockPayout, Abort, vars

----------------------------------------------------------------------------
(* The inductive invariant holds *)

\* A step of a worker leaves the transactions of the others alone; its own is
\* closed, or has just read, or has just locked its payout.
LEMMA TxStep ==
  ASSUME LedgerInv, [Next]_vars, NEW v \in Workers
  PROVE  \/ tx'[v] = tx[v]
         \/ tx'[v] = IdleTx
         \/ ReadStep(v)
         \/ LockPayout(v)
<1> USE DEF LedgerInv
<1>1. ASSUME NEW w \in Workers, ReadStep(w) PROVE w = v \/ tx'[v] = tx[v]
  BY <1>1 DEF ReadStep, ReadPayment, ReadRefund, ReadReversal, ReadChurn, ReadRelease,
              ReadPayable, ReadPayout, Begin, TypeOK
<1>2. ASSUME NEW w \in Workers, LockPayout(w) PROVE w = v \/ tx'[v] = tx[v]
  BY <1>2 DEF LockPayout, TypeOK
<1>3. ASSUME NEW w \in Workers, End(w) PROVE tx'[v] = IdleTx \/ tx'[v] = tx[v]
  BY <1>3 DEF End, TypeOK
<1>4. QED
  BY <1>1, <1>2, <1>3
     DEF Next, WriteStep, CommitPayment, RejectDuplicate, CommitReversal, CommitChurn,
         CommitRelease, CommitReservation, CommitSettlement, CommitFailure, Abort,
         HoldElapses, vars

\* Every transaction's subject has the type its kind gives it, and a payout's row
\* exists: subjects are chosen by Read... and rows do not vanish.
LEMMA SubjectsStep == LedgerInv /\ [Next]_vars => SubjectsOK'
<1> SUFFICES ASSUME LedgerInv, [Next]_vars, NEW v \in Workers
             PROVE  SubjectOK(v)'
  BY DEF SubjectsOK
<1> USE DEF LedgerInv
<1>1. Extended
  BY ExtendedStep
<1>2. CASE tx'[v] = tx[v]
  BY <1>1, <1>2 DEF Extended, SubjectsOK, SubjectOK
<1>3. CASE tx'[v] = IdleTx
  BY <1>3 DEF IdleTx, SubjectOK
<1>4. CASE ReadStep(v)
  BY <1>4 DEF ReadStep, ReadPayment, ReadRefund, ReadReversal, ReadChurn, ReadRelease,
              ReadPayable, ReadPayout, Begin, SubjectOK, TypeOK
<1>5. CASE LockPayout(v)
  <2>1. tx[v] \in Tx
    BY DEF TypeOK
  <2>2. tx'[v] = [tx[v] EXCEPT !.kind = "settlement", !.rows = Unsettled(tx[v].subject)]
    BY <1>5 DEF LockPayout, TypeOK
  <2>3. tx'[v].kind = "settlement" /\ tx'[v].subject = tx[v].subject
    BY <2>1, <2>2 DEF Tx
  <2>4. QED
    BY <1>1, <1>5, <2>3 DEF LockPayout, Extended, SubjectsOK, SubjectOK
<1>6. QED
  BY <1>2, <1>3, <1>4, <1>5, TxStep

\* What a Read... saw of its rows still holds when it writes, as far as no other
\* transaction can undo it: the payment, the hold, the partner.
LEMMA RowsReadStep == LedgerInv /\ [Next]_vars => RowsReadOK'
<1> SUFFICES ASSUME LedgerInv, [Next]_vars, NEW v \in Workers, NEW c \in tx'[v].rows
             PROVE  RowReadOK(v, c)'
  BY DEF RowsReadOK
<1> USE DEF LedgerInv
<1>1. Extended
  BY ExtendedStep
<1>2. CASE tx'[v] = tx[v]
  <2>1. c \in Commissions /\ RowReadOK(v, c)
    BY <1>2 DEF RowsReadOK, TypeOK, Tx
  <2>2. QED
    BY <1>1, <1>2, <2>1 DEF Extended, RowReadOK, PartnerOfCommission
<1>3. CASE tx'[v] = IdleTx
  BY <1>3 DEF IdleTx
<1>4. CASE ReadStep(v)
  <2>1. UNCHANGED <<commission, payout, reserved>>
    BY <1>4 DEF ReadStep, ReadPayment, ReadRefund, ReadReversal, ReadChurn, ReadRelease,
                ReadPayable, ReadPayout, Begin
  <2>2. ASSUME NEW p \in Payments, ReadPayment(v, p) \/ ReadRefund(v, p)
        PROVE  RowReadOK(v, c)'
    <3>1. CASE ReadPayment(v, p)
      BY <3>1 DEF ReadPayment, Begin, TypeOK
    <3>2. CASE ReadRefund(v, p)
      <4>1. tx'[v].kind = "reversal" /\ c \in Commissions /\ commission[c].payment = p
        BY <3>2 DEF ReadRefund, Begin, TypeOK
      <4>2. QED
        BY <2>1, <4>1, ConstantsAssumption DEF RowReadOK, ColumnsOK, ColumnsAgree
    <3>3. QED
      BY <2>2, <3>1, <3>2
  <2>3. ASSUME NEW d \in Commissions, ReadReversal(v, d) PROVE RowReadOK(v, c)'
    BY <2>1, <2>3 DEF ReadReversal, Begin, TypeOK, RowReadOK
  <2>4. ASSUME NEW k \in Customers, ReadChurn(v, k) PROVE RowReadOK(v, c)'
    BY <2>4 DEF ReadChurn, Begin, TypeOK
  <2>5. CASE ReadRelease(v)
    BY <2>1, <2>5 DEF ReadRelease, Releasable, Begin, TypeOK, RowReadOK
  <2>6. ASSUME NEW n \in Partners, ReadPayable(v, n) PROVE RowReadOK(v, c)'
    <3>1. /\ tx'[v].kind = "reservation" /\ tx'[v].subject = n
          /\ c \in Payable(n)
      BY <2>6 DEF ReadPayable, Cover, Begin, TypeOK
    <3>2. c \in Commissions /\ commission[c].status = "payable" /\ PartnerOfCommission(c) = n
      BY <3>1 DEF Payable
    <3>3. QED
      BY <2>1, <3>1, <3>2 DEF RowReadOK, ColumnsOK, ColumnsAgree, PartnerOfCommission
  <2>7. ASSUME NEW q \in Payouts, ReadPayout(v, q) PROVE RowReadOK(v, c)'
    BY <2>7 DEF ReadPayout, Begin, TypeOK
  <2>8. QED
    BY <1>4, <2>2, <2>3, <2>4, <2>5, <2>6, <2>7 DEF ReadStep
<1>5. CASE LockPayout(v)
  <2>1. tx[v] \in Tx
    BY DEF TypeOK
  <2>2. tx'[v] = [tx[v] EXCEPT !.kind = "settlement", !.rows = Unsettled(tx[v].subject)]
    BY <1>5 DEF LockPayout, TypeOK
  <2>3. /\ tx'[v].kind = "settlement" /\ tx'[v].subject = tx[v].subject
        /\ c \in Unsettled(tx[v].subject)
    BY <2>1, <2>2 DEF Tx
  <2>4. tx[v].subject \in Payouts
    BY <1>5 DEF LockPayout, SubjectsOK, SubjectOK
  <2>5. c \in Commissions /\ <<c, tx[v].subject>> \in reserved
    BY <2>3, <2>4, ConstantsAssumption DEF Unsettled, ColumnsOK, ColumnsAgree
  <2>6. commission[c].status # "none"
    BY <2>4, <2>5 DEF ReservationsOK, ReservationOK
  <2>7. QED
    BY <1>5, <2>3, <2>5, <2>6 DEF LockPayout, RowReadOK
<1>6. QED
  BY <1>2, <1>3, <1>4, <1>5, TxStep

\* Each write part against the columns of one row.
LEMMA ColumnsStep == LedgerInv /\ [Next]_vars => ColumnsOK'
<1> SUFFICES ASSUME LedgerInv, [Next]_vars, NEW c \in Commissions
             PROVE  ColumnsAgree(c)'
  BY DEF ColumnsOK
<1> USE ConstantsAssumption DEF LedgerInv
<1>1. ColumnsAgree(c) /\ commission[c] \in CommissionRow
  BY DEF ColumnsOK, TypeOK
<1>2. CASE UNCHANGED <<commission, reserved>>
  BY <1>1, <1>2 DEF ColumnsAgree
<1>3. ASSUME NEW w \in Workers, CommitPayment(w) PROVE ColumnsAgree(c)'
  <2>1. PICK d \in Commissions, due \in BOOLEAN :
          /\ commission[d].status = "none"
          /\ commission' = [commission EXCEPT ![d] =
                              [NoCommission EXCEPT !.status = "pending",
                                                   !.payment = tx[w].subject, !.due = due]]
    BY <1>3 DEF CommitPayment
  <2>2. tx[w].subject # None
    BY <1>3 DEF CommitPayment, SubjectsOK, SubjectOK
  <2>3. CASE c = d
    <3>1. /\ commission'[c].status = "pending" /\ commission'[c].payment = tx[w].subject
          /\ commission'[c].payout = None
      BY <2>1, <2>3 DEF TypeOK, NoCommission
    <3>2. QED
      BY <2>2, <3>1 DEF ColumnsAgree
  <2>4. CASE c # d
    BY <1>1, <1>3, <2>1, <2>4 DEF CommitPayment, ColumnsAgree, TypeOK
  <2>5. QED
    BY <2>3, <2>4
<1>4. ASSUME NEW w \in Workers, CommitReversal(w) PROVE ColumnsAgree(c)'
  BY <1>1, <1>4 DEF CommitReversal, ColumnsAgree, RowsReadOK, RowReadOK, CommissionRow
<1>5. ASSUME NEW w \in Workers, CommitRelease(w) PROVE ColumnsAgree(c)'
  BY <1>1, <1>5 DEF CommitRelease, SetStatus, ColumnsAgree, RowsReadOK, RowReadOK, CommissionRow
<1>6. ASSUME NEW w \in Workers, CommitReservation(w) PROVE ColumnsAgree(c)'
  <2>1. PICK q \in Payouts :
          /\ commission' = [d \in Commissions |->
                              IF d \in tx[w].rows THEN [commission[d] EXCEPT !.payout = q]
                                                  ELSE commission[d]]
          /\ reserved' = reserved \cup (tx[w].rows \X {q})
    BY <1>6 DEF CommitReservation
  <2>2. QED
    BY <1>1, <2>1 DEF ColumnsAgree, CommissionRow
<1>7. ASSUME NEW w \in Workers, CommitSettlement(w) PROVE ColumnsAgree(c)'
  <2>1. c \in tx[w].rows => commission[c].due /\ commission[c].status # "none"
    BY <1>7 DEF CommitSettlement, RowsReadOK, RowReadOK, ReservationsOK, ReservationOK,
                SubjectsOK, SubjectOK
  <2>2. QED
    BY <1>1, <1>7, <2>1 DEF CommitSettlement, SetStatus, ColumnsAgree, CommissionRow
<1>8. ASSUME NEW d \in Commissions, HoldElapses(d) PROVE ColumnsAgree(c)'
  BY <1>1, <1>8 DEF HoldElapses, ColumnsAgree, CommissionRow, TypeOK
<1>9. ASSUME NEW w \in Workers, ReadStep(w) PROVE UNCHANGED <<commission, reserved>>
  BY <1>9 DEF ReadStep, ReadPayment, ReadRefund, ReadReversal, ReadChurn, ReadRelease,
              ReadPayable, ReadPayout, Begin
<1>10. QED
  BY <1>2, <1>3, <1>4, <1>5, <1>6, <1>7, <1>8, <1>9
     DEF Next, WriteStep, RejectDuplicate, CommitChurn, CommitFailure, LockPayout, Abort, vars

\* Only create_payout adds reservations, and none is ever undone.
LEMMA ReservationsStep == LedgerInv /\ [Next]_vars => ReservationsOK'
<1> SUFFICES ASSUME LedgerInv, [Next]_vars, NEW c \in Commissions, NEW q \in Payouts,
                    <<c, q>> \in reserved'
             PROVE  ReservationOK(c, q)'
  BY DEF ReservationsOK
<1> USE ConstantsAssumption DEF LedgerInv
<1>1. Extended
  BY ExtendedStep
<1>2. CASE <<c, q>> \in reserved
  BY <1>1, <1>2 DEF ReservationsOK, ReservationOK, Extended, PartnerOfCommission
<1>3. ASSUME NEW w \in Workers, CommitReservation(w), <<c, q>> \notin reserved
      PROVE  ReservationOK(c, q)'
  <2>1. PICK r \in Payouts :
          /\ payout' = [payout EXCEPT ![r] =
                          [status |-> "pending", partner |-> tx[w].subject,
                           amount |-> tx[w].amount, referenced |-> FALSE]]
          /\ commission' = [d \in Commissions |->
                              IF d \in tx[w].rows THEN [commission[d] EXCEPT !.payout = r]
                                                  ELSE commission[d]]
          /\ reserved' = reserved \cup (tx[w].rows \X {r})
    BY <1>3 DEF CommitReservation
  <2>2. c \in tx[w].rows /\ q = r
    BY <1>3, <2>1
  <2>3. /\ commission[c].status # "none" /\ commission[c].due
        /\ PartnerOfCommission(c) = tx[w].subject
    BY <1>3, <2>2 DEF CommitReservation, RowsReadOK, RowReadOK
  <2>4. /\ commission'[c].status = commission[c].status
        /\ commission'[c].due = commission[c].due
        /\ commission'[c].payment = commission[c].payment
        /\ commission'[c].payout = q
    BY <2>1, <2>2 DEF TypeOK, CommissionRow
  <2>5. payout'[q].status = "pending" /\ payout'[q].partner = tx[w].subject
    BY <2>1, <2>2 DEF TypeOK
  <2>6. QED
    BY <2>3, <2>4, <2>5 DEF ReservationOK, PartnerOfCommission
<1>4. QED
  BY <1>2, <1>3
     DEF Next, ReadStep, ReadPayment, ReadRefund, ReadReversal, ReadChurn, ReadRelease,
         ReadPayable, ReadPayout, Begin, WriteStep, CommitPayment, RejectDuplicate,
         CommitReversal, CommitChurn, CommitRelease, CommitSettlement, CommitFailure,
         LockPayout, Abort, HoldElapses, vars

\* Init establishes the invariant.
LEMMA LedgerInit == Init => LedgerInv
<1> SUFFICES ASSUME Init PROVE LedgerInv
  OBVIOUS
<1> USE ConstantsAssumption DEF Init, NoCommission, NoPayout, IdleTx
<1>1. TypeOK
  BY DEF TypeOK, CommissionRow, PayoutRow, Tx, Kinds
<1>2. SubjectsOK /\ RowsReadOK
  BY DEF SubjectsOK, SubjectOK, RowsReadOK
<1>3. ColumnsOK /\ ReservationsOK
  BY DEF ColumnsOK, ColumnsAgree, ReservationsOK
<1>4. QED
  BY <1>1, <1>2, <1>3 DEF LedgerInv

\* Every step preserves it.
LEMMA LedgerStep == LedgerInv /\ [Next]_vars => LedgerInv'
<1> SUFFICES ASSUME LedgerInv, [Next]_vars PROVE LedgerInv'
  OBVIOUS
<1>1. TypeOK /\ SubjectsOK
  BY DEF LedgerInv
<1>2. QED
  BY <1>1, TypeStep, SubjectsStep, RowsReadStep, ColumnsStep, ReservationsStep DEF LedgerInv

\* The ledger of the partner program keeps its inductive invariant under every
\* interleaving of the operations of commissions.py and payouts.py.
THEOREM LedgerInvariant == Spec => []LedgerInv
BY LedgerInit, LedgerStep, PTL DEF Spec

----------------------------------------------------------------------------
(* What follows from it *)

\* The state of the ledger always has its types.
THEOREM TypeCorrect == Spec => []TypeOK
<1>1. LedgerInv => TypeOK
  BY DEF LedgerInv
<1>2. QED
  BY LedgerInvariant, <1>1, PTL

\* release_payable, create_payout and process_payout never let money of a
\* running hold become payable, reserved or paid.
THEOREM HoldIsRespected == Spec => []HoldRespected
<1>1. LedgerInv => HoldRespected
  BY ConstantsAssumption
     DEF LedgerInv, HoldRespected, ColumnsOK, ColumnsAgree, ReservationsOK, ReservationOK,
         TypeOK, CommissionRow
<1>2. QED
  BY LedgerInvariant, <1>1, PTL

\* create_payout never reserves a commission of another partner.
THEOREM PartnersAreSeparate == Spec => []PartnerSeparation
<1>1. LedgerInv => PartnerSeparation
  BY ConstantsAssumption
     DEF LedgerInv, PartnerSeparation, ColumnsOK, ColumnsAgree, ReservationsOK, ReservationOK,
         TypeOK, CommissionRow
<1>2. QED
  BY LedgerInvariant, <1>1, PTL

\* No operation takes back what the ledger has recorded.
THEOREM LedgerIsAppendOnly == Spec => AppendOnly
<1>1. LedgerInv /\ [Next]_vars => [Extended]_vars
  BY ExtendedStep
<1>2. QED
  BY LedgerInvariant, <1>1, PTL DEF Spec, AppendOnly

----------------------------------------------------------------------------
(* Invariants with an argument of their own *)

\* record_payment creates at most one commission for a payment, however many
\* deliveries race: the unique constraint decides, whatever the lookups saw.
THEOREM AtMostOneCommission == Spec => []OneCommissionPerPayment
<1>1. Init => OneCommissionPerPayment
  BY DEF Init, NoCommission, OneCommissionPerPayment
<1>2. TypeOK /\ OneCommissionPerPayment /\ [Next]_vars => OneCommissionPerPayment'
  <2> SUFFICES ASSUME TypeOK, OneCommissionPerPayment, [Next]_vars
               PROVE  OneCommissionPerPayment'
    OBVIOUS
  <2>1. ASSUME NEW w \in Workers, CommitPayment(w) PROVE OneCommissionPerPayment'
    <3>1. PICK d \in Commissions, due \in BOOLEAN :
            commission' = [commission EXCEPT ![d] =
                             [NoCommission EXCEPT !.status = "pending",
                                                  !.payment = tx[w].subject, !.due = due]]
      BY <2>1 DEF CommitPayment
    <3>2. \A c \in Commissions : commission[c].payment # tx[w].subject
      BY <2>1 DEF CommitPayment
    <3>3. commission'[d].payment = tx[w].subject
      BY <3>1 DEF TypeOK, NoCommission
    <3>4. \A c \in Commissions \ {d} : commission'[c] = commission[c]
      BY <3>1 DEF TypeOK
    <3>5. QED
      BY <3>2, <3>3, <3>4 DEF OneCommissionPerPayment
  <2>2. ASSUME \A c \in Commissions : commission'[c].payment = commission[c].payment
        PROVE  OneCommissionPerPayment'
    BY <2>2 DEF OneCommissionPerPayment
  <2>3. ASSUME NEW w \in Workers,
               \/ CommitReversal(w) \/ CommitRelease(w)
               \/ CommitReservation(w) \/ CommitSettlement(w)
        PROVE  \A c \in Commissions : commission'[c].payment = commission[c].payment
    <3>1. CASE CommitReversal(w)
      BY <3>1 DEF CommitReversal, TypeOK, CommissionRow
    <3>2. CASE CommitRelease(w)
      BY <3>2 DEF CommitRelease, SetStatus, TypeOK, CommissionRow
    <3>3. CASE CommitReservation(w)
      BY <3>3 DEF CommitReservation, TypeOK, CommissionRow
    <3>4. CASE CommitSettlement(w)
      BY <3>4 DEF CommitSettlement, SetStatus, TypeOK, CommissionRow
    <3>5. QED
      BY <2>3, <3>1, <3>2, <3>3, <3>4
  <2>4. ASSUME NEW d \in Commissions, HoldElapses(d)
        PROVE  \A c \in Commissions : commission'[c].payment = commission[c].payment
    BY <2>4 DEF HoldElapses, TypeOK, CommissionRow
  <2>5. CASE UNCHANGED commission
    BY <2>5 DEF OneCommissionPerPayment
  <2>6. ASSUME NEW w \in Workers, ReadStep(w) PROVE UNCHANGED commission
    BY <2>6 DEF ReadStep, ReadPayment, ReadRefund, ReadReversal, ReadChurn, ReadRelease,
                ReadPayable, ReadPayout, Begin
  <2>7. QED
    BY <2>1, <2>2, <2>3, <2>4, <2>5, <2>6
       DEF Next, WriteStep, RejectDuplicate, CommitChurn, CommitFailure, LockPayout, Abort, vars
<1>3. QED
  BY <1>1, <1>2, TypeCorrect, PTL DEF Spec

\* process_payout is the only way to "paid", and it settles only what it has
\* found reserved by a payout it gives a transaction reference.
THEOREM PaidOnlyThroughPayout == Spec => []PaidThroughPayout
<1>1. Init => PaidThroughPayout
  BY DEF Init, NoCommission, PaidThroughPayout
<1>2. LedgerInv /\ PaidThroughPayout /\ [Next]_vars => PaidThroughPayout'
  <2> SUFFICES ASSUME LedgerInv, PaidThroughPayout, [Next]_vars,
                      NEW c \in Commissions, commission'[c].status = "paid"
               PROVE  \E q \in Payouts : <<c, q>> \in reserved' /\ payout'[q].referenced
    BY DEF PaidThroughPayout
  <2> USE DEF LedgerInv
  <2>1. Extended
    BY ExtendedStep
  <2>2. CASE commission[c].status = "paid"
    BY <2>1, <2>2 DEF PaidThroughPayout, ReservationsOK, ReservationOK, Extended
  <2>3. ASSUME NEW w \in Workers, CommitSettlement(w), commission[c].status # "paid"
        PROVE  \E q \in Payouts : <<c, q>> \in reserved' /\ payout'[q].referenced
    <3>1. tx[w].subject \in Payouts /\ payout[tx[w].subject] \in PayoutRow
      BY <2>3 DEF CommitSettlement, SubjectsOK, SubjectOK, TypeOK
    <3>2. payout'[tx[w].subject].referenced
      BY <2>3, <3>1 DEF CommitSettlement, MarkedPaid, TypeOK, PayoutRow
    <3>3. c \in tx[w].rows
      BY <2>3 DEF CommitSettlement, SetStatus
    <3>4. <<c, tx[w].subject>> \in reserved
      BY <2>3, <3>3 DEF CommitSettlement, RowsReadOK, RowReadOK
    <3>5. QED
      BY <2>1, <3>1, <3>2, <3>4 DEF Extended
  <2>4. ASSUME NEW w \in Workers, CommitPayment(w) PROVE commission[c].status = "paid"
    <3>1. PICK d \in Commissions, due \in BOOLEAN :
            commission' = [commission EXCEPT ![d] =
                             [NoCommission EXCEPT !.status = "pending",
                                                  !.payment = tx[w].subject, !.due = due]]
      BY <2>4 DEF CommitPayment
    <3>2. c # d
      BY <3>1 DEF TypeOK, NoCommission
    <3>3. QED
      BY <3>1, <3>2 DEF TypeOK
  <2>5. ASSUME NEW w \in Workers,
               CommitReversal(w) \/ CommitRelease(w) \/ CommitReservation(w)
        PROVE  commission[c].status = "paid"
    <3>1. CASE CommitReversal(w)
      BY <3>1 DEF CommitReversal, TypeOK, CommissionRow
    <3>2. CASE CommitRelease(w)
      BY <3>2 DEF CommitRelease, SetStatus, TypeOK, CommissionRow
    <3>3. CASE CommitReservation(w)
      BY <3>3 DEF CommitReservation, TypeOK, CommissionRow
    <3>4. QED
      BY <2>5, <3>1, <3>2, <3>3
  <2>6. ASSUME NEW d \in Commissions, HoldElapses(d) PROVE commission[c].status = "paid"
    BY <2>6 DEF HoldElapses, TypeOK, CommissionRow
  <2>7. ASSUME NEW w \in Workers, ReadStep(w) PROVE UNCHANGED commission
    BY <2>7 DEF ReadStep, ReadPayment, ReadRefund, ReadReversal, ReadChurn, ReadRelease,
                ReadPayable, ReadPayout, Begin
  <2>8. CASE UNCHANGED commission
    BY <2>2, <2>8
  <2>9. QED
    BY <2>2, <2>3, <2>4, <2>5, <2>6, <2>7, <2>8
       DEF Next, WriteStep, RejectDuplicate, CommitChurn, CommitFailure, LockPayout, Abort, vars
<1>3. QED
  BY <1>1, <1>2, LedgerInvariant, PTL DEF Spec

\* A payout column changes only when create_payout commits.
LEMMA PayoutColumnStep ==
  ASSUME TypeOK, [Next]_vars, \A w \in Workers : ~CommitReservation(w),
         NEW c \in Commissions, commission[c].status # "none"
  PROVE  commission'[c].payout = commission[c].payout
<1>1. CASE UNCHANGED commission
  BY <1>1
<1>2. ASSUME NEW w \in Workers, CommitPayment(w)
      PROVE  commission'[c].payout = commission[c].payout
  BY <1>2 DEF CommitPayment, TypeOK
<1>3. ASSUME NEW w \in Workers, CommitReversal(w)
      PROVE  commission'[c].payout = commission[c].payout
  BY <1>3 DEF CommitReversal, TypeOK, CommissionRow
<1>4. ASSUME NEW w \in Workers, CommitRelease(w)
      PROVE  commission'[c].payout = commission[c].payout
  BY <1>4 DEF CommitRelease, SetStatus, TypeOK, CommissionRow
<1>5. ASSUME NEW w \in Workers, CommitSettlement(w)
      PROVE  commission'[c].payout = commission[c].payout
  BY <1>5 DEF CommitSettlement, SetStatus, TypeOK, CommissionRow
<1>6. ASSUME NEW d \in Commissions, HoldElapses(d)
      PROVE  commission'[c].payout = commission[c].payout
  BY <1>6 DEF HoldElapses, TypeOK, CommissionRow
<1>7. ASSUME NEW w \in Workers, ReadStep(w) PROVE UNCHANGED commission
  BY <1>7 DEF ReadStep, ReadPayment, ReadRefund, ReadReversal, ReadChurn, ReadRelease,
              ReadPayable, ReadPayout, Begin
<1>8. QED
  BY <1>1, <1>2, <1>3, <1>4, <1>5, <1>6, <1>7
     DEF Next, WriteStep, RejectDuplicate, CommitChurn, CommitFailure, LockPayout, Abort, vars

\* The shape of a read part that starts while no transaction has overlapped:
\* nobody else is active, and rows it will reserve are free.
LEMMA SerialRead ==
  ASSUME TypeOK, NEW w \in Workers, ReadStep(w), ~overlapped'
  PROVE  /\ ~overlapped
         /\ \A v \in Workers : tx[v].kind = "idle"
         /\ \A v \in Workers \ {w} : tx'[v] = tx[v]
         /\ tx'[w].kind = "reservation" =>
              \A c \in tx'[w].rows : commission'[c].payout = None
<1> DEFINE Alone == /\ ~overlapped
                    /\ \A v \in Workers : tx[v].kind = "idle"
                    /\ \A v \in Workers \ {w} : tx'[v] = tx[v]
<1>1. Alone
  BY DEF ReadStep, ReadPayment, ReadRefund, ReadReversal, ReadChurn, ReadRelease,
         ReadPayable, ReadPayout, Begin, TypeOK
<1>2. ASSUME NEW n \in Partners, ReadPayable(w, n)
      PROVE  \A c \in tx'[w].rows : commission'[c].payout = None
  BY <1>2 DEF ReadPayable, Cover, Payable, Begin, TypeOK
<1>3. ASSUME tx'[w].kind = "reservation" PROVE \E n \in Partners : ReadPayable(w, n)
  BY <1>3 DEF ReadStep, ReadPayment, ReadRefund, ReadReversal, ReadChurn, ReadRelease,
              ReadPayout, Begin, TypeOK
<1>4. QED
  BY <1>1, <1>2, <1>3

\* Serial execution stays serial.
LEMMA SerialStep == LedgerInv /\ SerialInv /\ [Next]_vars => SerialInv'
<1> SUFFICES ASSUME LedgerInv, SerialInv, [Next]_vars, ~overlapped'
             PROVE  /\ \A u, v \in Workers :
                         tx'[u].kind # "idle" /\ tx'[v].kind # "idle" => u = v
                    /\ \A v \in Workers : tx'[v].kind = "reservation" =>
                         \A c \in tx'[v].rows : commission'[c].payout = None
  BY DEF SerialInv
<1> USE DEF LedgerInv
<1>1. ASSUME NEW w \in Workers, ReadStep(w)
      PROVE  /\ \A u, v \in Workers :
                  tx'[u].kind # "idle" /\ tx'[v].kind # "idle" => u = v
             /\ \A v \in Workers : tx'[v].kind = "reservation" =>
                  \A c \in tx'[v].rows : commission'[c].payout = None
  <2>1. \A v \in Workers \ {w} : tx'[v].kind = "idle"
    BY <1>1, SerialRead
  <2>2. QED
    BY <1>1, <2>1, SerialRead
<1>2. ASSUME \A w \in Workers : ~ReadStep(w)
      PROVE  ~overlapped /\ \A v \in Workers : \/ tx'[v] = tx[v]
                                               \/ tx'[v] = IdleTx
                                               \/ LockPayout(v)
  <2>1. ~overlapped
    BY <1>2 DEF Next, WriteStep, CommitPayment, RejectDuplicate, CommitReversal, CommitChurn,
                CommitRelease, CommitReservation, CommitSettlement, CommitFailure, LockPayout,
                Abort, End, HoldElapses, vars
  <2>2. QED
    BY <1>2, <2>1, TxStep
<1>3. ASSUME NEW v \in Workers, LockPayout(v)
      PROVE  tx[v].kind = "pay" /\ tx'[v].kind = "settlement"
  <2>1. tx[v] \in Tx
    BY DEF TypeOK
  <2>2. tx'[v] = [tx[v] EXCEPT !.kind = "settlement", !.rows = Unsettled(tx[v].subject)]
    BY <1>3 DEF LockPayout, TypeOK
  <2>3. QED
    BY <1>3, <2>1, <2>2 DEF LockPayout, Tx
<1>4. ASSUME \A w \in Workers : ~ReadStep(w)
      PROVE  \A u, v \in Workers : tx'[u].kind # "idle" /\ tx'[v].kind # "idle" => u = v
  BY <1>2, <1>3, <1>4 DEF SerialInv, IdleTx
<1>5. ASSUME \A w \in Workers : ~ReadStep(w),
             NEW v \in Workers, tx'[v].kind = "reservation", NEW c \in tx'[v].rows
      PROVE  commission'[c].payout = None
  <2>1. tx'[v] = tx[v]
    BY <1>2, <1>3, <1>5 DEF IdleTx
  <2>2. /\ c \in Commissions /\ commission[c].payout = None
        /\ commission[c].status # "none"
    BY <1>2, <1>5, <2>1 DEF SerialInv, RowsReadOK, RowReadOK, TypeOK, Tx
  <2>3. ASSUME NEW w \in Workers, CommitReservation(w) PROVE FALSE
    <3>1. w = v
      BY <1>2, <1>5, <2>1, <2>3 DEF CommitReservation, SerialInv
    <3>2. QED
      BY <1>5, <2>3, <3>1 DEF CommitReservation, End, IdleTx, TypeOK
  <2>4. QED
    BY <2>2, <2>3, PayoutColumnStep
<1>6. QED
  BY <1>1, <1>4, <1>5

\* create_payout: a reserved commission is "excluded from future payouts" as long
\* as the ledger's transactions run one after the other.
THEOREM SerialPayoutsAreDisjoint == Spec => []SerialReservationsDisjoint
<1>1. Init => SerialInv /\ SerialReservationsDisjoint
  BY DEF Init, IdleTx, SerialInv, SerialReservationsDisjoint
<1>2. LedgerInv /\ SerialInv /\ SerialReservationsDisjoint /\ [Next]_vars
        => SerialReservationsDisjoint'
  <2> SUFFICES ASSUME LedgerInv, SerialInv, SerialReservationsDisjoint, [Next]_vars,
                      ~overlapped', NEW c \in Commissions,
                      NEW q \in Payouts, NEW r \in Payouts,
                      <<c, q>> \in reserved', <<c, r>> \in reserved'
               PROVE  q = r
    BY DEF SerialReservationsDisjoint
  <2>1. ~overlapped
    BY DEF Next, ReadStep, ReadPayment, ReadRefund, ReadReversal, ReadChurn, ReadRelease,
           ReadPayable, ReadPayout, Begin, WriteStep, CommitPayment, RejectDuplicate,
           CommitReversal, CommitChurn, CommitRelease, CommitReservation, CommitSettlement,
           CommitFailure, LockPayout, Abort, End, HoldElapses, vars, LedgerInv, TypeOK
  <2>2. CASE UNCHANGED reserved
    BY <2>1, <2>2 DEF SerialReservationsDisjoint
  <2>3. ASSUME NEW w \in Workers, CommitReservation(w) PROVE q = r
    <3>1. PICK s \in Payouts : reserved' = reserved \cup (tx[w].rows \X {s})
      BY <2>3 DEF CommitReservation
    <3>2. c \in tx[w].rows => <<c, q>> \notin reserved /\ <<c, r>> \notin reserved
      BY <2>1, <2>3 DEF CommitReservation, SerialInv, LedgerInv, ReservationsOK, ReservationOK
    <3>3. QED
      BY <2>1, <3>1, <3>2 DEF SerialReservationsDisjoint
  <2>4. QED
    BY <2>2, <2>3
       DEF Next, ReadStep, ReadPayment, ReadRefund, ReadReversal, ReadChurn, ReadRelease,
           ReadPayable, ReadPayout, Begin, WriteStep, CommitPayment, RejectDuplicate,
           CommitReversal, CommitChurn, CommitRelease, CommitSettlement, CommitFailure,
           LockPayout, Abort, HoldElapses, vars
<1>3. QED
  BY <1>1, <1>2, SerialStep, LedgerInvariant, PTL DEF Spec

\* apply_rate rounds half up: the result times 100 is at most 50 above, and less
\* than 50 below, amount times rate.
THEOREM ApplyRateRoundsHalfUp ==
  ASSUME NEW amount \in Nat, NEW rate \in Nat
  PROVE  /\ apply_rate(amount, rate) \in Nat
         /\ 100 * apply_rate(amount, rate) - amount * rate \in -49..50
<1>1. amount * rate \in Nat
  OBVIOUS
<1>2. ASSUME NEW n \in Nat
      PROVE  (n + 50) \div 100 \in Nat /\ 100 * ((n + 50) \div 100) - n \in -49..50
  OBVIOUS
<1>3. QED
  BY <1>1, <1>2 DEF apply_rate

----------------------------------------------------------------------------
(* Payouts are covered *)

\* The rows that have been inserted, and what each is worth.
Earned == {c \in Commissions : commission[c].status # "none"}
Earnings == [c \in Earned |-> Amount(c)]

\* Total adds up the amounts of inserted rows.
TotalsAdd ==
  /\ IsFiniteSet(Earned)
  /\ Earnings \in [Earned -> Nat]
  /\ \E g : Adds(g, Earnings, Earned) /\ \A S \in SUBSET Earned : Total(S) = g[S]

\* MapThenSumSet over inserted rows is the sum of their amounts, in every state and
\* in the next one.
LEMMA TotalIsTheSum == TypeOK /\ ColumnsOK => TotalsAdd
<1> SUFFICES ASSUME TypeOK, ColumnsOK PROVE TotalsAdd
  OBVIOUS
<1> USE ConstantsAssumption
<1>1. IsFiniteSet(Earned)
  <2>1. IsFiniteSet(1..MaxCommissions) /\ Earned \in SUBSET (1..MaxCommissions)
    BY FS_Interval DEF Earned, Commissions
  <2>2. QED
    BY <2>1, FS_Subset
<1>2. ASSUME NEW c \in Earned PROVE Amount(c) \in Nat
  <2>1. commission[c].payment \in Payments
    BY DEF Earned, ColumnsOK, ColumnsAgree, TypeOK, CommissionRow
  <2>2. Collected[commission[c].payment] \in Nat
    BY <2>1
  <2>3. QED
    BY <2>2, ApplyRateRoundsHalfUp DEF Amount
<1>3. Earnings \in [Earned -> Nat]
  BY <1>2 DEF Earnings
<1>4. PICK g : Adds(g, Earnings, Earned)
  BY <1>1, <1>3, SumsExist
<1>5. ASSUME NEW S \in SUBSET Earned PROVE Total(S) = g[S]
  <2> DEFINE f == [c \in S |-> Amount(c)]
             P(h) == h = [T \in SUBSET S |->
                            IF T = {} THEN 0
                            ELSE Amount(Chosen(T)) + h[T \ {Chosen(T)}]]
             sum == CHOOSE h : P(h)
  <2>1. Total(S) = sum[S]
    BY DEF Total, MapThenSumSet, MapThenFoldSet, Chosen
  <2>2. IsFiniteSet(S)
    BY <1>1, FS_Subset
  <2>3. f \in [S -> Nat]
    BY <1>2
  <2>4. \A T \in SUBSET S : T # {} => f[Chosen(T)] = Amount(Chosen(T))
    BY DEF Chosen
  <2>5. \A h : P(h) <=> Folds(h, f, S)
    <3> HIDE DEF f
    <3>1. QED
      BY <2>4 DEF Folds
  <2>6. P(sum)
    <3>1. \E h : P(h)
      <4> HIDE DEF P, f
      <4>1. QED
        BY <2>2, <2>3, <2>5, FoldIsTheSum
    <3> HIDE DEF P
    <3>2. QED
      BY <3>1
  <2>7. Adds(sum, f, S)
    <3> HIDE DEF P, f, sum
    <3>1. QED
      BY <2>2, <2>3, <2>5, <2>6, FoldIsTheSum
  <2>8. \A c \in S : Earnings[c] = f[c]
    BY DEF Earnings
  <2>9. g[S] = sum[S]
    <3> HIDE DEF P, f, sum
    <3>1. QED
      BY <1>1, <1>4, <2>7, <2>8, SumsAgree
  <2>10. QED
    BY <2>1, <2>9
<1>6. QED
  BY <1>1, <1>3, <1>4, <1>5 DEF TotalsAdd

LEMMA TotalIsTheSumNext == (TypeOK /\ ColumnsOK)' => TotalsAdd'
BY TotalIsTheSum, PTL

\* The total of part of the rows is no more than the total of all of them.
LEMMA TotalGrows ==
  ASSUME TypeOK, ColumnsOK, NEW T \in SUBSET Earned, NEW U \in SUBSET T
  PROVE  /\ Total(U) \in Nat
         /\ Total(T) \in Nat
         /\ Total(U) <= Total(T)
<1>1. IsFiniteSet(Earned)
  BY TotalIsTheSum DEF TotalsAdd
<1>2. PICK g : Adds(g, Earnings, Earned) /\ \A S \in SUBSET Earned : Total(S) = g[S]
  BY TotalIsTheSum DEF TotalsAdd
<1>3. Earnings \in [Earned -> Nat]
  BY TotalIsTheSum DEF TotalsAdd
<1>4. g[U] <= g[T]
  BY <1>1, <1>2, <1>3, SumIsMonotone
<1>5. QED
  BY <1>2, <1>4 DEF Adds

\* The amount of a row that has been inserted never changes, so the total of such
\* rows does not.
LEMMA TotalKept ==
  ASSUME LedgerInv, [Next]_vars, NEW S \in SUBSET Earned
  PROVE  Total(S)' = Total(S)
<1>1. LedgerInv'
  BY LedgerStep
<1>2. PICK g : Adds(g, Earnings, Earned) /\ \A T \in SUBSET Earned : Total(T) = g[T]
  BY TotalIsTheSum DEF LedgerInv, TotalsAdd
<1>3. PICK h : /\ Adds(h, Earnings', Earned')
               /\ \A T \in SUBSET Earned' : Total(T)' = h[T]
  BY <1>1, TotalIsTheSumNext DEF LedgerInv, TotalsAdd
<1>4. IsFiniteSet(Earned)
  BY TotalIsTheSum DEF LedgerInv, TotalsAdd
<1>5. \A c \in S : c \in Earned' /\ Earnings'[c] = Earnings[c]
  BY ExtendedStep DEF Extended, Earned, Earnings, Amount
<1>6. g[S] = h[S]
  <2>1. S \subseteq Earned'
    BY <1>5
  <2>2. QED
    BY <1>2, <1>3, <1>4, <1>5, <2>1, SumsAgree
<1>7. QED
  BY <1>2, <1>3, <1>5, <1>6

\* The rows cover the amount, and without the newest of them they would not.
Covered(rows, amount) ==
  /\ amount <= Total(rows)
  /\ \A c \in rows : Total({d \in rows : d < c}) < amount

\* Between the read and the write of create_payout.
CoverInv == \A w \in Workers : tx[w].kind = "reservation" => Covered(tx[w].rows, tx[w].amount)

\* The rows create_payout has tied to q.
ReservedBy(q) == {c \in Commissions : <<c, q>> \in reserved}

\* create_payout: the loop over the oldest payable rows stops as soon as they
\* cover the amount, and reaches it if the balance does.
LEMMA CoverCovers ==
  ASSUME TypeOK, ColumnsOK, NEW S \in SUBSET Earned, NEW amount \in Nat,
         amount <= Total(S)
  PROVE  Covered(Cover(S, amount), amount)
<1> DEFINE rows == Cover(S, amount)
           Older(c) == {d \in S : d < c}
<1>1. S \subseteq Nat /\ \A m, n, k \in Nat : k < m /\ m < n => k < n
  BY ConstantsAssumption DEF Earned, Commissions
<1>2. \A c \in S : Older(c) \in SUBSET S /\ Total(Older(c)) \in Nat
  BY TotalGrows
<1>3. ASSUME NEW c \in rows, NEW d \in S, d < c PROVE d \in rows
  <2>1. c \in S /\ Total(Older(c)) < amount
    BY DEF Cover
  <2>2. Older(d) \in SUBSET Older(c)
    BY <1>1, <1>3, <2>1
  <2>3. Total(Older(d)) <= Total(Older(c))
    BY <2>1, <2>2, TotalGrows
  <2>4. Total(Older(d)) < amount
    BY <1>2, <2>1, <2>3
  <2>5. QED
    BY <2>4 DEF Cover
<1>4. ASSUME NEW c \in rows PROVE Total({d \in rows : d < c}) < amount
  <2>1. {d \in rows : d < c} = Older(c)
    BY <1>3 DEF Cover
  <2>2. QED
    BY <2>1 DEF Cover
<1>5. amount <= Total(rows)
  <2>1. CASE rows = S
    BY <2>1
  <2>2. CASE rows # S
    <3>1. S \ rows \in SUBSET Nat /\ S \ rows # {}
      BY <1>1, <2>2 DEF Cover
    <3>2. PICK m \in S \ rows : \A n \in S \ rows : m <= n
      BY <3>1, LeastIsReached
    <3>3. Older(m) \in SUBSET rows /\ rows \in SUBSET Earned
      <4>1. ASSUME NEW d \in Older(m) PROVE d \in rows
        <5>1. d \in S /\ ~(m <= d)
          BY <1>1, <3>2
        <5>2. QED
          BY <3>2, <5>1
      <4>2. QED
        BY <4>1 DEF Cover
    <3>4. ~(Total(Older(m)) < amount)
      BY <3>2 DEF Cover
    <3>5. Total(Older(m)) <= Total(rows) /\ Total(rows) \in Nat
      BY <3>3, TotalGrows
    <3>6. QED
      BY <1>2, <3>4, <3>5
  <2>3. QED
    BY <2>1, <2>2
<1>6. QED
  BY <1>4, <1>5 DEF Covered

\* What has been covered stays so.
LEMMA CoveredKept ==
  ASSUME LedgerInv, [Next]_vars, NEW rows \in SUBSET Earned, NEW amount,
         Covered(rows, amount)
  PROVE  Covered(rows, amount)'
<1>1. Total(rows)' = Total(rows)
  BY TotalKept
<1>2. \A c \in rows : Total({d \in rows : d < c})' = Total({d \in rows : d < c})
  <2>1. ASSUME NEW c \in rows
        PROVE  Total({d \in rows : d < c})' = Total({d \in rows : d < c})
    <3> DEFINE older == {d \in rows : d < c}
    <3>1. older \in SUBSET Earned
      OBVIOUS
    <3> HIDE DEF older
    <3>2. Total(older)' = Total(older)
      BY <3>1, TotalKept
    <3>3. QED
      BY <3>2 DEF older
  <2>2. QED
    BY <2>1
<1>3. QED
  BY <1>1, <1>2 DEF Covered

\* A reservation keeps what it has read covered until it writes it.
LEMMA CoverStep == LedgerInv /\ CoverInv /\ [Next]_vars => CoverInv'
<1> SUFFICES ASSUME LedgerInv, CoverInv, [Next]_vars,
                    NEW w \in Workers, tx'[w].kind = "reservation"
             PROVE  Covered(tx[w].rows, tx[w].amount)'
  BY DEF CoverInv
<1> USE DEF LedgerInv
<1>1. CASE tx'[w] = tx[w]
  <2> DEFINE rows == tx[w].rows
             amount == tx[w].amount
  <2>1. rows \in SUBSET Earned
    BY DEF RowsReadOK, RowReadOK, Earned, TypeOK, Tx
  <2>2. Covered(rows, amount)
    BY <1>1 DEF CoverInv
  <2>3. PICK r, a : r = rows /\ a = amount
    OBVIOUS
  <2>4. Covered(r, a)'
    BY <2>1, <2>2, <2>3, CoveredKept
  <2>5. tx'[w].rows = r /\ tx'[w].amount = a
    BY <1>1, <2>3
  <2>6. QED
    BY <2>4, <2>5 DEF Covered
<1>2. ASSUME NEW n \in Partners, ReadPayable(w, n)
      PROVE  Covered(tx[w].rows, tx[w].amount)'
  <2>1. PICK amount \in 1..Total(Payable(n)) :
          Begin(w, "reservation", n, Cover(Payable(n), amount), amount, TRUE)
    BY <1>2 DEF ReadPayable
  <2>2. PICK rows : rows = Cover(Payable(n), amount)
    OBVIOUS
  <2>3. Payable(n) \in SUBSET Earned
    BY DEF Payable, Earned
  <2>4. amount \in Nat /\ amount <= Total(Payable(n))
    BY <2>3, TotalGrows
  <2>5. Covered(rows, amount)
    BY <2>2, <2>3, <2>4, CoverCovers
  <2>6. rows \in SUBSET Earned
    BY <2>2, <2>3 DEF Cover
  <2>7. Covered(rows, amount)'
    BY <2>5, <2>6, CoveredKept
  <2>8. tx'[w].rows = rows /\ tx'[w].amount = amount
    BY <2>1, <2>2 DEF Begin, TypeOK
  <2>9. QED
    BY <2>7, <2>8 DEF Covered
<1>3. CASE ReadStep(w)
  <2>1. \E n \in Partners : ReadPayable(w, n)
    BY <1>3 DEF ReadStep, ReadPayment, ReadRefund, ReadReversal, ReadChurn, ReadRelease,
                ReadPayout, Begin, TypeOK
  <2>2. QED
    BY <1>2, <2>1
<1>4. CASE tx'[w] = IdleTx
  BY <1>4 DEF IdleTx
<1>5. CASE LockPayout(w)
  <2>1. tx[w] \in Tx
    BY DEF TypeOK
  <2>2. tx'[w] = [tx[w] EXCEPT !.kind = "settlement", !.rows = Unsettled(tx[w].subject)]
    BY <1>5 DEF LockPayout, TypeOK
  <2>3. QED
    BY <2>1, <2>2 DEF Tx
<1>6. QED
  BY <1>1, <1>3, <1>4, <1>5, TxStep

\* create_payout: whatever commits between its read of the payable rows and its
\* write, the rows a payout reserves cover its amount, and without the newest of them
\* they would not.
THEOREM PayoutsAreCovered == Spec => []PayoutCovered
<1>1. Init => CoverInv /\ PayoutCovered
  BY DEF Init, IdleTx, NoPayout, CoverInv, PayoutCovered
<1>2. LedgerInv /\ CoverInv /\ PayoutCovered /\ [Next]_vars => PayoutCovered'
  <2> SUFFICES ASSUME LedgerInv, CoverInv, PayoutCovered, [Next]_vars,
                      NEW q \in Payouts, payout'[q].status # "none"
               PROVE  Covered(ReservedBy(q), payout[q].amount)'
    BY DEF PayoutCovered, Covered, ReservedBy
  <2> USE DEF LedgerInv
  <2>1. ReservedBy(q) \in SUBSET Earned
    BY DEF ReservedBy, Earned, ReservationsOK, ReservationOK
  <2>2. ASSUME payout[q].status # "none", ReservedBy(q)' = ReservedBy(q),
               payout'[q].amount = payout[q].amount
        PROVE  Covered(ReservedBy(q), payout[q].amount)'
    <3>1. PICK rows, amount : rows = ReservedBy(q) /\ amount = payout[q].amount
      OBVIOUS
    <3>2. Covered(rows, amount)
      BY <2>2, <3>1 DEF PayoutCovered, Covered, ReservedBy
    <3>3. Covered(rows, amount)'
      BY <2>1, <3>1, <3>2, CoveredKept
    <3>4. ReservedBy(q)' = rows /\ payout'[q].amount = amount
      BY <2>2, <3>1
    <3>5. QED
      BY <3>3, <3>4 DEF Covered
  <2>3. ASSUME NEW w \in Workers, CommitReservation(w)
        PROVE  Covered(ReservedBy(q), payout[q].amount)'
    <3>1. PICK r \in Payouts :
            /\ payout[r].status = "none"
            /\ payout' = [payout EXCEPT ![r] =
                            [status |-> "pending", partner |-> tx[w].subject,
                             amount |-> tx[w].amount, referenced |-> FALSE]]
            /\ reserved' = reserved \cup (tx[w].rows \X {r})
      BY <2>3 DEF CommitReservation
    <3>2. CASE q = r
      <4>1. PICK rows, amount : rows = tx[w].rows /\ amount = tx[w].amount
        OBVIOUS
      <4>2. Covered(rows, amount)
        BY <2>3, <4>1 DEF CoverInv, CommitReservation
      <4>3. rows \in SUBSET Earned
        BY <4>1 DEF RowsReadOK, RowReadOK, Earned, TypeOK, Tx
      <4>4. Covered(rows, amount)'
        BY <4>2, <4>3, CoveredKept
      <4>5. \A c \in Commissions : <<c, q>> \notin reserved
        BY <3>1, <3>2 DEF ReservationsOK, ReservationOK
      <4>6. ReservedBy(q)' = rows /\ payout'[q].amount = amount
        BY <3>1, <3>2, <4>1, <4>3, <4>5 DEF ReservedBy, TypeOK, Earned
      <4>7. QED
        BY <4>4, <4>6 DEF Covered
    <3>3. CASE q # r
      <4>1. payout'[q] = payout[q]
        BY <3>1, <3>3 DEF TypeOK
      <4>2. ReservedBy(q)' = ReservedBy(q)
        BY <3>1, <3>3 DEF ReservedBy
      <4>3. QED
        BY <2>2, <4>1, <4>2
    <3>4. QED
      BY <3>2, <3>3
  <2>4. ASSUME NEW w \in Workers, CommitSettlement(w)
        PROVE  Covered(ReservedBy(q), payout[q].amount)'
    <3>1. payout[tx[w].subject] \in PayoutRow /\ payout[tx[w].subject].status # "none"
      BY <2>4 DEF CommitSettlement, SubjectsOK, SubjectOK, TypeOK
    <3>2. payout'[q].amount = payout[q].amount /\ payout[q].status # "none"
      BY <2>4, <3>1 DEF CommitSettlement, MarkedPaid, TypeOK, PayoutRow
    <3>3. ReservedBy(q)' = ReservedBy(q)
      BY <2>4 DEF CommitSettlement, ReservedBy
    <3>4. QED
      BY <2>2, <3>2, <3>3
  <2>5. ASSUME NEW w \in Workers, CommitFailure(w)
        PROVE  Covered(ReservedBy(q), payout[q].amount)'
    <3>1. payout[tx[w].subject] \in PayoutRow /\ payout[tx[w].subject].status # "none"
      BY <2>5 DEF CommitFailure, SubjectsOK, SubjectOK, TypeOK
    <3>2. payout'[q].amount = payout[q].amount /\ payout[q].status # "none"
      BY <2>5, <3>1 DEF CommitFailure, TypeOK, PayoutRow
    <3>3. ReservedBy(q)' = ReservedBy(q)
      BY <2>5 DEF CommitFailure, ReservedBy
    <3>4. QED
      BY <2>2, <3>2, <3>3
  <2>6. CASE UNCHANGED <<payout, reserved>>
    BY <2>2, <2>6 DEF ReservedBy
  <2>7. ASSUME NEW w \in Workers, ReadStep(w) PROVE UNCHANGED <<payout, reserved>>
    BY <2>7 DEF ReadStep, ReadPayment, ReadRefund, ReadReversal, ReadChurn, ReadRelease,
                ReadPayable, ReadPayout, Begin
  <2>8. QED
    BY <2>3, <2>4, <2>5, <2>6, <2>7
       DEF Next, WriteStep, CommitPayment, RejectDuplicate, CommitReversal, CommitChurn,
           CommitRelease, LockPayout, Abort, HoldElapses, vars
<1>3. QED
  BY <1>1, <1>2, CoverStep, LedgerInvariant, PTL DEF Spec

----------------------------------------------------------------------------
(* Serially, no more is paid out than has been earned *)

Created == {q \in Payouts : payout[q].status # "none"}

Due(q) == payout[q].amount

\* The amounts of all the payouts of Q, whatever their status.
PaidOut(Q) == MapThenSumSet(Due, Q)

ReservedByAny(Q) == {c \in Commissions : \E q \in Q : <<c, q>> \in reserved}

\* create_payout, run by one transaction at a time: the payouts of any set amount to no
\* more than the different commissions they have reserved are worth.
SerialPayoutsBacked ==
  ~overlapped => \A Q \in SUBSET Created : IsFiniteSet(Q) => PaidOut(Q) <= Total(ReservedByAny(Q))

\* MapThenSumSet over payouts is the sum of their amounts.
LEMMA PaidOutIsTheSum ==
  ASSUME TypeOK, NEW Q \in SUBSET Payouts, IsFiniteSet(Q)
  PROVE  \E g : Adds(g, [q \in Q |-> Due(q)], Q) /\ \A R \in SUBSET Q : PaidOut(R) = g[R]
<1> DEFINE f == [q \in Q |-> Due(q)]
<1>1. f \in [Q -> Nat]
  BY DEF Due, TypeOK, PayoutRow
<1>2. PICK g : Adds(g, f, Q)
  <2> HIDE DEF f
  <2>1. QED
    BY <1>1, SumsExist
<1>3. ASSUME NEW R \in SUBSET Q PROVE PaidOut(R) = g[R]
  <2> DEFINE e == [q \in R |-> Due(q)]
             P(h) == h = [T \in SUBSET R |->
                            IF T = {} THEN 0 ELSE Due(Chosen(T)) + h[T \ {Chosen(T)}]]
             sum == CHOOSE h : P(h)
  <2>1. PaidOut(R) = sum[R]
    BY DEF PaidOut, MapThenSumSet, MapThenFoldSet, Chosen
  <2>2. IsFiniteSet(R)
    BY FS_Subset
  <2>3. e \in [R -> Nat]
    BY DEF Due, TypeOK, PayoutRow
  <2>4. \A T \in SUBSET R : T # {} => e[Chosen(T)] = Due(Chosen(T))
    BY DEF Chosen
  <2>5. \A h : P(h) <=> Folds(h, e, R)
    <3> HIDE DEF e
    <3>1. QED
      BY <2>4 DEF Folds
  <2>6. P(sum)
    <3>1. \E h : P(h)
      <4> HIDE DEF P, e
      <4>1. QED
        BY <2>2, <2>3, <2>5, FoldIsTheSum
    <3> HIDE DEF P
    <3>2. QED
      BY <3>1
  <2>7. Adds(sum, e, R)
    <3> HIDE DEF P, e, sum
    <3>1. QED
      BY <2>2, <2>3, <2>5, <2>6, FoldIsTheSum
  <2>8. \A q \in R : f[q] = e[q]
    OBVIOUS
  <2>9. g[R] = sum[R]
    <3> HIDE DEF P, f, e, sum
    <3>1. QED
      BY <1>2, <2>7, <2>8, SumsAgree
  <2>10. QED
    BY <2>1, <2>9
<1>4. QED
  BY <1>2, <1>3

\* create_payout: as long as the ledger's transactions run one after the other, no
\* commission is paid for twice: payouts never amount to more than the commissions they
\* have reserved.
THEOREM SerialLedgerDoesNotOverpay == Spec => []SerialPayoutsBacked
<1>1. LedgerInv /\ PayoutCovered /\ SerialReservationsDisjoint => SerialPayoutsBacked
  <2> SUFFICES ASSUME LedgerInv, PayoutCovered, SerialReservationsDisjoint, ~overlapped,
                      NEW Q \in SUBSET Created, IsFiniteSet(Q)
               PROVE  PaidOut(Q) <= Total(ReservedByAny(Q))
    BY DEF SerialPayoutsBacked
  <2> USE DEF LedgerInv
  <2> DEFINE Good == {R \in SUBSET Q : PaidOut(R) <= Total(ReservedByAny(R))}
  <2>1. PICK g : /\ Adds(g, [q \in Q |-> Due(q)], Q)
                 /\ \A R \in SUBSET Q : PaidOut(R) = g[R]
    BY PaidOutIsTheSum DEF Created
  <2>2. IsFiniteSet(Earned) /\ Earnings \in [Earned -> Nat]
    BY TotalIsTheSum DEF TotalsAdd
  <2>3. PICK h : Adds(h, Earnings, Earned) /\ \A S \in SUBSET Earned : Total(S) = h[S]
    BY TotalIsTheSum DEF TotalsAdd
  <2>4. \A R \in SUBSET Q : ReservedByAny(R) \in SUBSET Earned
    BY DEF ReservedByAny, Created, Earned, ReservationsOK, ReservationOK
  <2>5. ASSUME NEW R \in SUBSET Q, \A q \in R : R \ {q} \in Good PROVE R \in Good
    <3>1. CASE R = {}
      <4>1. PaidOut(R) = 0
        BY <2>1, <3>1 DEF Adds
      <4>2. Total(ReservedByAny(R)) \in Nat
        BY <2>4, TotalGrows
      <4>3. QED
        BY <4>1, <4>2
    <3>2. CASE R # {}
      <4>1. PICK q : q \in R
        BY <3>2
      <4> DEFINE rest == R \ {q}
                 old == ReservedByAny(rest)
                 new == ReservedBy(q)
      <4>2. PaidOut(rest) <= Total(old)
        BY <2>5, <4>1
      <4>3. PaidOut(R) = Due(q) + PaidOut(rest) /\ PaidOut(rest) \in Nat
        <5>1. R \in SUBSET Q /\ rest \in SUBSET R /\ q \in Q
          BY <4>1
        <5>2. g[R] = [r \in Q |-> Due(r)][q] + g[rest] /\ g[rest] \in Nat
          BY <2>1, <4>1 DEF Adds
        <5>3. [r \in Q |-> Due(r)][q] = Due(q)
          BY <5>1
        <5> HIDE DEF rest
        <5>4. PaidOut(R) = g[R] /\ PaidOut(rest) = g[rest]
          BY <2>1, <5>1
        <5>5. QED
          BY <5>2, <5>3, <5>4
      <4>4. old \in SUBSET Earned /\ new \in SUBSET Earned
        BY <2>4, <4>1 DEF ReservedBy, Created, Earned, ReservationsOK, ReservationOK
      <4>5. old \cap new = {}
        BY <4>1 DEF ReservedByAny, ReservedBy, Created, SerialReservationsDisjoint
      <4>6. ReservedByAny(R) = old \cup new
        BY <4>1 DEF ReservedByAny, ReservedBy
      <4>7. Due(q) \in Nat /\ Total(new) \in Nat /\ Total(old) \in Nat
        BY <4>1, <4>4, TotalGrows DEF Due, Created, TypeOK, PayoutRow
      <4>8. Due(q) <= Total(new)
        BY <4>1 DEF Due, Created, PayoutCovered, ReservedBy
      <4>9. Total(old \cup new) = Total(old) + Total(new)
        <5> HIDE DEF old, new
        <5>1. h[old \cup new] = h[old] + h[new]
          BY <2>2, <2>3, <4>4, <4>5, SumOfDisjoint
        <5>2. old \cup new \in SUBSET Earned
          BY <4>4
        <5>3. QED
          BY <2>3, <4>4, <5>1, <5>2
      <4>10. PaidOut(R) <= Total(ReservedByAny(R))
        <5> HIDE DEF rest, old, new
        <5>1. QED
          BY <4>2, <4>3, <4>6, <4>7, <4>8, <4>9
      <4>11. QED
        BY <4>10
    <3>3. QED
      BY <3>1, <3>2
  <2>6. SUBSET Q \subseteq Good
    <3> HIDE DEF Good
    <3>1. QED
      BY <2>5, SubsetsAreReached
  <2>7. QED
    BY <2>6
<1>2. QED
  BY <1>1, LedgerInvariant, PayoutsAreCovered, SerialPayoutsAreDisjoint, PTL
=============================================================================
