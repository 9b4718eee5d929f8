--------------------------- MODULE BillingProofs ---------------------------
(***************************************************************************)
(* What Billing guarantees for any number of handlers, payments, plans,    *)
(* deliveries and expired claims.                                          *)
(***************************************************************************)
EXTENDS Billing, FiniteSetTheorems, TLAPS

----------------------------------------------------------------------------
(* Operations *)

\* What the kinds of operations work on and which plans they name.
LEMMA OperationShape ==
  ASSUME NEW op \in Operations \cup {NoOperation}
  PROVE  /\ Pays(op) => op \in Operations /\ op[2] \in Payments
         /\ Refunds(op) => op \in Events /\ op[2] \in Payments
         /\ Overrides(op) => op[2] \in AdminPlans
         /\ PlanFor(op) \in OrganizationPlans
         /\ ~Overrides(op) => PlanFor(op) \in Plans
         /\ StatusFor(op) \in {"active", "inactive"}
<1> USE DEF Operations, Events, NoOperation, Pays, Refunds, Creates, Disables, Overrides
<1>1. Pays(op) => op \in Operations /\ op[2] \in Payments
  OBVIOUS
<1>2. Refunds(op) => op \in Events /\ op[2] \in Payments
  OBVIOUS
<1>3. Overrides(op) => op[2] \in AdminPlans
  OBVIOUS
<1>4. ASSUME NEW name PROVE NormalizedPlan(name) \in Plans
  BY BillingAssumption DEF NormalizedPlan, Plans
<1>5. CASE Overrides(op)
  BY <1>1, <1>2, <1>3, <1>5 DEF PlanFor, StatusFor, OrganizationPlans
<1>6. CASE ~Overrides(op)
  <2>1. PlanFor(op) \in Plans
    BY <1>4, <1>6 DEF PlanFor, Plans
  <2> QED BY <1>1, <1>2, <1>6, <2>1 DEF StatusFor, OrganizationPlans
<1> QED BY <1>5, <1>6

----------------------------------------------------------------------------
(* Types *)

\* What a request can have done by the time it is where it is.
Progress(t) ==
  /\ t.pc = "idle" => t.op = NoOperation
  /\ t.pc = "verified" => Pays(t.op)
  /\ t.pc \in {"orgRead", "subRead"} => ~Overrides(t.op)
  /\ t.pc \in {"idle", "claimed", "verified"} => t.wrote = {}
  /\ t.wrote \cap SubscriptionColumns # {} => ~Overrides(t.op)
  /\ "recorded" \in t.wrote => Pays(t.op) /\ t.pc = "ready"
  /\ "reversed" \in t.wrote => Refunds(t.op)
  /\ t.op = NoOperation => t.pc \in {"idle", "ready"} /\ t.wrote = {}

TypeInv == TypeOK /\ \A h \in Handlers : Progress(tx[h])

\* A step of one transaction keeps the types if the new transaction does.
LEMMA StepKeepsTypes ==
  ASSUME TypeInv, NEW h \in Handlers, NEW t \in Tx, Step(h, t), Progress(t)
  PROVE  TypeInv'
<1>1. TypeOK'
  BY DEF TypeInv, TypeOK, Step, database, history
<1>2. tx'[h] = t /\ \A g \in Handlers \ {h} : tx'[g] = tx[g]
  BY DEF TypeInv, TypeOK, Step
<1>3. \A g \in Handlers : Progress(tx'[g])
  BY <1>2 DEF TypeInv
<1> QED BY <1>1, <1>3 DEF TypeInv

\* So does the beginning of a request.
LEMMA BeginKeepsTypes ==
  ASSUME TypeInv, NEW h \in Handlers, NEW op \in Operations, Begin(h, op),
         requests < MaxRequests
  PROVE  /\ requests' \in 0..MaxRequests
         /\ tx' \in [Handlers -> Tx]
         /\ \A g \in Handlers : Progress(tx'[g])
<1>1. op # NoOperation
  BY BillingAssumption DEF Operations, Events, NoOperation
<1>2. /\ IdleTx \in Tx
      /\ org \in OrganizationPlans /\ Free \in OrganizationPlans
  BY DEF TypeInv, TypeOK, IdleTx, Tx, Free, Plans, OrganizationPlans, SubscriptionRow, NoSubscription
<1> DEFINE lone == {g \in Handlers : tx[g].pc # "idle"} = {}
           seen == IF op[1] = "verify" THEN org ELSE Free
           begun == [IdleTx EXCEPT !.pc = "claimed", !.op = op, !.alone = lone,
                                   !.seenOrg = seen]
<1>3. begun \in Tx
  <2>1. seen \in OrganizationPlans /\ lone \in BOOLEAN
    BY <1>2
  <2>2. \A x \in BOOLEAN, y \in OrganizationPlans :
          [IdleTx EXCEPT !.pc = "claimed", !.op = op, !.alone = x, !.seenOrg = y] \in Tx
    BY <1>2 DEF Tx
  <2>3. PICK x \in BOOLEAN, y \in OrganizationPlans : x = lone /\ y = seen
    BY <2>1
  <2>4. [IdleTx EXCEPT !.pc = "claimed", !.op = op, !.alone = x, !.seenOrg = y] \in Tx
    BY <2>2
  <2> QED BY ONLY <2>3, <2>4, Zenon
<1>4. \A g \in Handlers : [tx[g] EXCEPT !.alone = FALSE] \in Tx
  <2>1. \A t \in Tx : [t EXCEPT !.alone = FALSE] \in Tx
    BY DEF Tx
  <2>2. \A g \in Handlers : tx[g] \in Tx
    BY DEF TypeInv, TypeOK
  <2> QED BY <2>1, <2>2
<1>5. tx' = [g \in Handlers |-> IF g = h THEN begun ELSE [tx[g] EXCEPT !.alone = FALSE]]
  BY DEF Begin
<1>6. tx' \in [Handlers -> Tx]
  BY <1>3, <1>4, <1>5
<1>7. requests' \in 0..MaxRequests
  <2>1. requests' = requests + 1
    BY DEF Begin
  <2> QED BY <2>1, BillingAssumption DEF TypeInv, TypeOK
<1>8. Progress(tx'[h])
  <2>1. tx'[h] = begun
    BY <1>5
  <2>2. tx'[h].pc = "claimed" /\ tx'[h].op = op /\ tx'[h].wrote = {}
    BY <2>1 DEF IdleTx
  <2> QED BY <2>2, <1>1 DEF Progress
<1>9. ASSUME NEW g \in Handlers, g # h PROVE Progress(tx'[g])
  <2>1. tx'[g] = [tx[g] EXCEPT !.alone = FALSE]
    BY <1>5, <1>9
  <2>2. tx[g] \in Tx /\ Progress(tx[g])
    BY DEF TypeInv, TypeOK
  <2>3. tx'[g].pc = tx[g].pc /\ tx'[g].op = tx[g].op /\ tx'[g].wrote = tx[g].wrote
    BY <2>1, <2>2 DEF Tx
  <2> QED BY <2>2, <2>3 DEF Progress
<1> QED BY <1>6, <1>7, <1>8, <1>9

\* So do the steps that only change the transaction itself.
LEMMA TransactionTypes ==
  ASSUME TypeInv, NEW h \in Handlers,
         \/ AskProvider(h) \/ ReadOrg(h) \/ ReadSubscription(h) \/ WriteSubscription(h)
         \/ WriteOrg(h) \/ RecordPayment(h) \/ ReversePayment(h) \/ Finish(h) \/ Fail(h)
  PROVE  TypeInv'
<1>1. /\ tx[h] \in Tx /\ Progress(tx[h])
      /\ org \in OrganizationPlans /\ sub \in SubscriptionRow
  BY DEF TypeInv, TypeOK
<1>2. IdleTx \in Tx /\ IdleTx.pc = "idle" /\ IdleTx.op = NoOperation /\ IdleTx.wrote = {}
  BY DEF IdleTx, Tx, Free, Plans, OrganizationPlans, SubscriptionRow, NoSubscription
<1>3. CASE AskProvider(h)
  <2>1. tx[h].pc = "claimed" /\ Pays(tx[h].op) /\ tx[h].wrote = {}
    BY <1>1, <1>3 DEF AskProvider, Progress
  <2>2. [tx[h] EXCEPT !.pc = "verified"] \in Tx /\ Progress([tx[h] EXCEPT !.pc = "verified"])
    BY <1>1, <2>1 DEF Tx, Progress, Pays
  <2>3. /\ [tx[h] EXCEPT !.pc = "ready", !.op = NoOperation] \in Tx
        /\ Progress([tx[h] EXCEPT !.pc = "ready", !.op = NoOperation])
    BY <1>1, <2>1 DEF Tx, Progress
  <2> QED BY <1>3, <2>2, <2>3, StepKeepsTypes DEF AskProvider
<1>4. CASE ReadOrg(h)
  <2>1. PICK p \in {"planned", "subWritten", "orgRead"}, o \in OrganizationPlans :
          /\ Step(h, [tx[h] EXCEPT !.pc = p, !.seenOrg = o])
          /\ p = "orgRead" => ~Overrides(tx[h].op)
    BY <1>1, <1>4 DEF ReadOrg, Tx
  <2>2. tx[h].wrote = {}
    BY <1>1, <1>4 DEF ReadOrg, Progress
  <2> DEFINE t == [tx[h] EXCEPT !.pc = p, !.seenOrg = o]
  <2>3. t \in Tx /\ t.pc = p /\ t.op = tx[h].op /\ t.wrote = tx[h].wrote
    BY <1>1 DEF Tx, SubscriptionColumns
  <2>4. Progress(t)
    <3> HIDE DEF t
    <3> QED BY <1>1, <1>4, <2>1, <2>2, <2>3 DEF Progress, SubscriptionColumns, ReadOrg
  <2> QED BY <2>1, <2>3, <2>4, StepKeepsTypes
<1>5. CASE ReadSubscription(h)
  <2>1. /\ [tx[h] EXCEPT !.pc = "subRead", !.seenSub = sub] \in Tx
        /\ Progress([tx[h] EXCEPT !.pc = "subRead", !.seenSub = sub])
    BY <1>1, <1>5 DEF ReadSubscription, Tx, Progress
  <2> QED BY <1>5, <2>1, StepKeepsTypes DEF ReadSubscription
<1>6. CASE WriteSubscription(h)
  <2>1. PICK c \in SUBSET SubscriptionColumns :
          Step(h, [tx[h] EXCEPT !.pc = "subWritten", !.wrote = @ \cup c])
    BY <1>6 DEF WriteSubscription, SubscriptionColumns
  <2>2. ~Overrides(tx[h].op) /\ tx[h].pc = "subRead"
    BY <1>1, <1>6 DEF WriteSubscription, Progress
  <2>3. [tx[h] EXCEPT !.pc = "subWritten", !.wrote = @ \cup c] \in Tx
    BY <1>1 DEF Tx, SubscriptionColumns
  <2>4. tx[h].op # NoOperation
    BY <1>1, <2>2 DEF Progress
  <2>5. Progress([tx[h] EXCEPT !.pc = "subWritten", !.wrote = @ \cup c])
    BY <1>1, <2>2, <2>4 DEF Tx, Progress, SubscriptionColumns
  <2> QED BY <2>1, <2>3, <2>5, StepKeepsTypes
<1>7. CASE WriteOrg(h)
  <2>1. PICK c \in SUBSET {"org"} :
          Step(h, [tx[h] EXCEPT !.pc = "planned", !.wrote = @ \cup c])
    BY <1>7 DEF WriteOrg
  <2>2. tx[h].op # NoOperation /\ "recorded" \notin tx[h].wrote
    BY <1>1, <1>7 DEF WriteOrg, Progress
  <2> DEFINE t == [tx[h] EXCEPT !.pc = "planned", !.wrote = @ \cup c]
  <2>3. t \in Tx /\ t.pc = "planned" /\ t.op = tx[h].op /\ t.wrote = tx[h].wrote \cup c
    BY <1>1 DEF Tx, SubscriptionColumns
  <2>4. Progress(t)
    <3> HIDE DEF t
    <3> QED BY <1>1, <2>1, <2>2, <2>3 DEF Progress, SubscriptionColumns
  <2> QED BY <2>1, <2>3, <2>4, StepKeepsTypes
<1>8. CASE RecordPayment(h)
  <2> DEFINE nothing == [tx[h] EXCEPT !.pc = "ready"]
             write == [tx[h] EXCEPT !.pc = "ready", !.wrote = @ \cup {"recorded"}]
             fail == [tx[h] EXCEPT !.pc = "ready", !.dead = TRUE]
  <2>1. PICK t \in {nothing, write, fail} : Step(h, t)
    BY <1>8 DEF RecordPayment
  <2>2. Pays(tx[h].op)
    BY <1>8 DEF RecordPayment
  <2> DEFINE Good(u) == /\ u \in Tx /\ u.pc = "ready" /\ u.op = tx[h].op
                        /\ u.wrote \in {tx[h].wrote, tx[h].wrote \cup {"recorded"}}
  <2>3. Good(t)
    <3>1. Good(nothing)
      BY <1>1 DEF Tx
    <3>2. Good(write)
      BY <1>1 DEF Tx
    <3>3. Good(fail)
      BY <1>1 DEF Tx
    <3> HIDE DEF nothing, write, fail, Good
    <3> QED BY <2>1, <3>1, <3>2, <3>3
  <2>4. Progress(t)
    <3> HIDE DEF nothing, write, fail
    <3> QED BY <1>1, <2>2, <2>3 DEF Progress, SubscriptionColumns, Pays, Refunds
  <2> QED BY <2>1, <2>3, <2>4, StepKeepsTypes
<1>9. CASE ReversePayment(h)
  <2> DEFINE nothing == [tx[h] EXCEPT !.pc = "ready"]
             write == [tx[h] EXCEPT !.pc = "ready", !.wrote = @ \cup {"reversed"}]
             fail == [tx[h] EXCEPT !.pc = "ready", !.dead = TRUE]
  <2>1. PICK t \in {nothing, write, fail} : Step(h, t)
    BY <1>9 DEF ReversePayment
  <2>2. Refunds(tx[h].op)
    BY <1>9 DEF ReversePayment
  <2> DEFINE Good(u) == /\ u \in Tx /\ u.pc = "ready" /\ u.op = tx[h].op
                        /\ u.wrote \in {tx[h].wrote, tx[h].wrote \cup {"reversed"}}
  <2>3. Good(t)
    <3>1. Good(nothing)
      BY <1>1 DEF Tx
    <3>2. Good(write)
      BY <1>1 DEF Tx
    <3>3. Good(fail)
      BY <1>1 DEF Tx
    <3> HIDE DEF nothing, write, fail, Good
    <3> QED BY <2>1, <3>1, <3>2, <3>3
  <2>4. Progress(t)
    <3> HIDE DEF nothing, write, fail
    <3> QED BY <1>1, <2>2, <2>3 DEF Progress, SubscriptionColumns, Refunds, NoOperation
  <2> QED BY <2>1, <2>3, <2>4, StepKeepsTypes
<1>10. CASE Finish(h)
  <2>1. PICK d \in {FALSE, Disables(tx[h].op)} :
          Step(h, [tx[h] EXCEPT !.pc = "ready", !.dead = d])
    BY <1>10 DEF Finish
  <2>2. d \in BOOLEAN
    BY DEF Disables
  <2> DEFINE t == [tx[h] EXCEPT !.pc = "ready", !.dead = d]
  <2>3. t \in Tx /\ t.pc = "ready" /\ t.op = tx[h].op /\ t.wrote = tx[h].wrote
    BY <1>1, <2>2 DEF Tx
  <2>4. Progress(t)
    <3> HIDE DEF t
    <3> QED BY <1>1, <2>3 DEF Progress
  <2> QED BY <2>1, <2>3, <2>4, StepKeepsTypes
<1>11. CASE Fail(h)
  <2>1. Progress(IdleTx)
    BY <1>2 DEF Progress
  <2> QED BY <1>2, <1>11, <2>1, StepKeepsTypes DEF Fail
<1> QED BY <1>3, <1>4, <1>5, <1>6, <1>7, <1>8, <1>9, <1>10, <1>11

LEMMA InitTypes == Init => TypeInv
<1> SUFFICES ASSUME Init PROVE TypeInv
  OBVIOUS
<1>1. IdleTx \in Tx /\ IdleTx.pc = "idle" /\ IdleTx.op = NoOperation /\ IdleTx.wrote = {}
  BY DEF IdleTx, Tx, Free, Plans, OrganizationPlans, SubscriptionRow, NoSubscription
<1>2. TypeOK
  BY <1>1, BillingAssumption
     DEF Init, TypeOK, Plans, OrganizationPlans, SubscriptionRow, NoSubscription
<1>3. Progress(IdleTx)
  BY <1>1 DEF Progress
<1> QED BY <1>2, <1>3 DEF Init, TypeInv

LEMMA NextTypes == TypeInv /\ [Next]_vars => TypeInv'
<1> SUFFICES ASSUME TypeInv, [Next]_vars PROVE TypeInv'
  OBVIOUS
<1> USE DEF database, history
<1>1. CASE \E p \in Payments : Collect(p)
  BY <1>1 DEF Collect, TypeInv, TypeOK
<1>2. CASE \E e \in Events : ExpireClaim(e)
  <2>1. PICK e \in Events : ExpireClaim(e)
    BY <1>2
  <2>2. expiries' \in [Events -> 0..MaxExpiries]
    BY <2>1, BillingAssumption DEF ExpireClaim, TypeInv, TypeOK
  <2> QED BY <2>1, <2>2 DEF ExpireClaim, TypeInv, TypeOK
<1>3. ASSUME NEW h \in Handlers, NEW e \in Events, ClaimEvent(h, e) PROVE TypeInv'
  <2>0. e \in Operations
    BY DEF Operations
  <2>1. CASE Begin(h, e)
    <3>1. requests' \in 0..MaxRequests /\ tx' \in [Handlers -> Tx] /\ \A g \in Handlers : Progress(tx'[g])
      BY <1>3, <2>0, <2>1, BeginKeepsTypes DEF ClaimEvent
    <3>2. claims' \subseteq Events /\ skipped' \subseteq Events
      BY <1>3 DEF ClaimEvent, TypeInv, TypeOK
    <3> QED BY <1>3, <3>1, <3>2 DEF ClaimEvent, TypeInv, TypeOK
  <2>2. CASE ~Begin(h, e)
    <3>1. requests' = requests + 1 /\ requests < MaxRequests /\ tx' = tx
      BY <1>3, <2>2 DEF ClaimEvent
    <3>2. requests' \in 0..MaxRequests
      BY <3>1, BillingAssumption DEF TypeInv, TypeOK
    <3>3. claims' \subseteq Events /\ skipped' \subseteq Events
      BY <1>3 DEF ClaimEvent, TypeInv, TypeOK
    <3> QED BY <1>3, <3>1, <3>2, <3>3 DEF ClaimEvent, TypeInv, TypeOK
  <2> QED BY <2>1, <2>2
<1>4. ASSUME NEW h \in Handlers, NEW op \in Operations \ Events, StartRequest(h, op) PROVE TypeInv'
  <2>1. requests' \in 0..MaxRequests /\ tx' \in [Handlers -> Tx] /\ \A g \in Handlers : Progress(tx'[g])
    BY <1>4, BeginKeepsTypes DEF StartRequest
  <2> QED BY <1>4, <2>1 DEF StartRequest, TypeInv, TypeOK
<1>5. ASSUME NEW h \in Handlers, Answer(h) PROVE TypeInv'
  <2> DEFINE op == tx[h].op
  <2>1. /\ op \in Operations \cup {NoOperation} /\ Progress(tx[h]) /\ tx[h].pc = "ready"
        /\ IdleTx \in Tx /\ Progress(IdleTx)
    BY <1>5 DEF Answer, TypeInv, TypeOK, Tx, IdleTx, Free, Plans, OrganizationPlans,
                SubscriptionRow, NoSubscription, Progress
  <2>2. tx' \in [Handlers -> Tx] /\ \A g \in Handlers : Progress(tx'[g])
    BY <1>5, <2>1 DEF Answer, TypeInv, TypeOK
  <2>3. CASE tx[h].dead
    BY <1>5, <2>2, <2>3 DEF Answer, TypeInv, TypeOK
  <2>4. CASE ~tx[h].dead
    <3>1. org' \in OrganizationPlans
      BY <1>5, <2>1, <2>4, OperationShape DEF Answer, TypeInv, TypeOK
    <3>2. sub' \in SubscriptionRow
      <4>1. /\ sub'.status \in {"none", "active", "inactive"}
            /\ sub'.plan \in Plans
            /\ sub' = [status |-> sub'.status, plan |-> sub'.plan]
        BY <1>5, <2>1, <2>4, OperationShape
           DEF Answer, TypeInv, TypeOK, SubscriptionRow, Progress, SubscriptionColumns
      <4> QED BY <4>1 DEF SubscriptionRow
    <3>3. commission' \in [Payments -> {"none", "recorded", "reversed"}]
      BY <1>5, <2>1, <2>4, OperationShape DEF Answer, TypeInv, TypeOK, Progress
    <3>4. applied' \in [Events -> Nat]
      BY <1>5, <2>1, <2>4 DEF Answer, TypeInv, TypeOK
    <3>5. provisioned' \subseteq Payments
      BY <1>5, <2>1, <2>4, OperationShape DEF Answer, TypeInv, TypeOK
    <3> QED BY <1>5, <2>2, <3>1, <3>2, <3>3, <3>4, <3>5 DEF Answer, TypeInv, TypeOK
  <2> QED BY <2>3, <2>4
<1>6. CASE UNCHANGED vars
  BY <1>6 DEF vars, TypeInv, TypeOK
<1> QED BY <1>1, <1>2, <1>3, <1>4, <1>5, <1>6, TransactionTypes DEF Next

\* Every row, claim and transaction keeps its type: in particular only known
\* plans reach the subscription, whatever names the provider sends.
THEOREM BillingTypeCorrect == Spec => []TypeOK
<1>1. TypeInv => TypeOK
  BY DEF TypeInv
<1> QED BY <1>1, InitTypes, NextTypes, PTL DEF Spec

----------------------------------------------------------------------------
(* Commissions *)

\* What a transaction t of h has written of its commission can be committed: it
\* inserts one that does not exist, holding the key of the unique index, or
\* reverses one that exists.
CommitsOK(h, t) ==
  /\ "recorded" \in t.wrote =>
       /\ commission[t.op[2]] = "none"
       /\ \A g \in Handlers \ {h} : "recorded" \in tx[g].wrote => tx[g].op[2] # t.op[2]
  /\ "reversed" \in t.wrote => commission[t.op[2]] # "none"

CommissionInv == CreditedWasProvisioned /\ \A h \in Handlers : CommitsOK(h, tx[h])

LEMMA StepKeepsCommissions ==
  ASSUME TypeInv, CommissionInv, NEW h \in Handlers, NEW t \in Tx, Step(h, t), CommitsOK(h, t)
  PROVE  CommissionInv'
<1>1. tx'[h] = t /\ \A g \in Handlers \ {h} : tx'[g] = tx[g]
  BY DEF TypeInv, TypeOK, Step
<1>2. commission' = commission /\ provisioned' = provisioned
  BY DEF Step, database, history
<1>3. CreditedWasProvisioned'
  BY <1>2 DEF CommissionInv, CreditedWasProvisioned
<1>4. CommitsOK(h, tx[h])'
  BY <1>1, <1>2 DEF CommitsOK
<1>5. ASSUME NEW g \in Handlers, g # h PROVE CommitsOK(g, tx[g])'
  BY <1>1, <1>2, <1>5 DEF CommissionInv, CommitsOK
<1> QED BY <1>3, <1>4, <1>5 DEF CommissionInv

\* Steps that leave what was written of the commission as it was.
LEMMA OtherWrites ==
  ASSUME TypeInv, CommissionInv, NEW h \in Handlers, NEW t \in Tx, Step(h, t),
         \/ t.wrote \cap {"recorded", "reversed"} = {}
         \/ t.op = tx[h].op /\ t.wrote \ tx[h].wrote \subseteq SubscriptionColumns \cup {"org"}
  PROVE  CommissionInv'
<1>1. CommitsOK(h, t)
  BY DEF CommissionInv, CommitsOK, SubscriptionColumns
<1> QED BY <1>1, StepKeepsCommissions

LEMMA TransactionCommissions ==
  ASSUME TypeInv, CommissionInv, NEW h \in Handlers,
         \/ AskProvider(h) \/ ReadOrg(h) \/ ReadSubscription(h) \/ WriteSubscription(h)
         \/ WriteOrg(h) \/ RecordPayment(h) \/ ReversePayment(h) \/ Finish(h) \/ Fail(h)
  PROVE  CommissionInv'
<1>1. /\ tx[h] \in Tx /\ Progress(tx[h])
      /\ org \in OrganizationPlans /\ sub \in SubscriptionRow
  BY DEF TypeInv, TypeOK
<1>3. CASE AskProvider(h)
  <2> DEFINE yes == [tx[h] EXCEPT !.pc = "verified"]
             no == [tx[h] EXCEPT !.pc = "ready", !.op = NoOperation]
  <2>1. PICK t \in {yes, no} : Step(h, t)
    BY <1>3 DEF AskProvider
  <2>2. tx[h].wrote = {}
    BY <1>1, <1>3 DEF AskProvider, Progress
  <2>3. t \in Tx /\ t.wrote = {}
    BY <1>1, <2>2 DEF Tx
  <2> QED BY <2>1, <2>3, OtherWrites
<1>4. CASE ReadOrg(h)
  <2>1. PICK p \in {"planned", "subWritten", "orgRead"}, o \in OrganizationPlans :
          Step(h, [tx[h] EXCEPT !.pc = p, !.seenOrg = o])
    BY <1>1, <1>4 DEF ReadOrg, Tx
  <2> DEFINE t == [tx[h] EXCEPT !.pc = p, !.seenOrg = o]
  <2>2. t \in Tx /\ t.op = tx[h].op /\ t.wrote = tx[h].wrote
    BY <1>1 DEF Tx
  <2> QED BY <2>1, <2>2, OtherWrites
<1>5. CASE ReadSubscription(h)
  <2> DEFINE t == [tx[h] EXCEPT !.pc = "subRead", !.seenSub = sub]
  <2>1. t \in Tx /\ t.op = tx[h].op /\ t.wrote = tx[h].wrote
    BY <1>1 DEF Tx
  <2> QED BY <1>5, <2>1, OtherWrites DEF ReadSubscription
<1>6. CASE WriteSubscription(h)
  <2>1. PICK c \in SUBSET SubscriptionColumns :
          Step(h, [tx[h] EXCEPT !.pc = "subWritten", !.wrote = @ \cup c])
    BY <1>6 DEF WriteSubscription, SubscriptionColumns
  <2> DEFINE t == [tx[h] EXCEPT !.pc = "subWritten", !.wrote = @ \cup c]
  <2>2. t \in Tx /\ t.op = tx[h].op /\ t.wrote = tx[h].wrote \cup c
    BY <1>1 DEF Tx, SubscriptionColumns
  <2>3. t.wrote \ tx[h].wrote \subseteq SubscriptionColumns \cup {"org"}
    BY <2>2
  <2> QED BY <2>1, <2>2, <2>3, OtherWrites
<1>7. CASE WriteOrg(h)
  <2>1. PICK c \in SUBSET {"org"} :
          Step(h, [tx[h] EXCEPT !.pc = "planned", !.wrote = @ \cup c])
    BY <1>7 DEF WriteOrg
  <2> DEFINE t == [tx[h] EXCEPT !.pc = "planned", !.wrote = @ \cup c]
  <2>2. t \in Tx /\ t.op = tx[h].op /\ t.wrote = tx[h].wrote \cup c
    BY <1>1 DEF Tx
  <2>3. t.wrote \ tx[h].wrote \subseteq SubscriptionColumns \cup {"org"}
    BY <2>2
  <2> QED BY <2>1, <2>2, <2>3, OtherWrites
<1>8. CASE RecordPayment(h)
  <2> DEFINE nothing == [tx[h] EXCEPT !.pc = "ready"]
             write == [tx[h] EXCEPT !.pc = "ready", !.wrote = @ \cup {"recorded"}]
             fail == [tx[h] EXCEPT !.pc = "ready", !.dead = TRUE]
             free == ~Exists(tx[h].op[2]) /\ ~CommissionLocked(h, tx[h].op[2], {"recorded"})
  <2>1. Step(h, nothing) \/ Step(h, fail) \/ (free /\ Step(h, write))
    BY <1>8 DEF RecordPayment
  <2>2. nothing \in Tx /\ nothing.op = tx[h].op /\ nothing.wrote = tx[h].wrote
    BY <1>1 DEF Tx
  <2>3. fail \in Tx /\ fail.op = tx[h].op /\ fail.wrote = tx[h].wrote
    BY <1>1 DEF Tx
  <2>4. write \in Tx /\ write.op = tx[h].op /\ write.wrote = tx[h].wrote \cup {"recorded"}
    BY <1>1 DEF Tx
  <2>5. free => CommitsOK(h, write)
    <3> HIDE DEF write
    <3> QED BY <2>4 DEF CommissionInv, CommitsOK, Exists, CommissionLocked
  <2> HIDE DEF nothing, write, fail
  <2> QED BY <2>1, <2>2, <2>3, <2>4, <2>5, OtherWrites, StepKeepsCommissions
<1>9. CASE ReversePayment(h)
  <2> DEFINE nothing == [tx[h] EXCEPT !.pc = "ready"]
             write == [tx[h] EXCEPT !.pc = "ready", !.wrote = @ \cup {"reversed"}]
             fail == [tx[h] EXCEPT !.pc = "ready", !.dead = TRUE]
             due == commission[tx[h].op[2]] = "recorded"
  <2>1. Step(h, nothing) \/ Step(h, fail) \/ (due /\ Step(h, write))
    BY <1>9 DEF ReversePayment
  <2>2. nothing \in Tx /\ nothing.op = tx[h].op /\ nothing.wrote = tx[h].wrote
    BY <1>1 DEF Tx
  <2>3. fail \in Tx /\ fail.op = tx[h].op /\ fail.wrote = tx[h].wrote
    BY <1>1 DEF Tx
  <2>4. write \in Tx /\ write.op = tx[h].op /\ write.wrote = tx[h].wrote \cup {"reversed"}
    BY <1>1 DEF Tx
  <2>5. due => CommitsOK(h, write)
    <3> HIDE DEF write
    <3> QED BY <2>4 DEF CommissionInv, CommitsOK
  <2> HIDE DEF nothing, write, fail
  <2> QED BY <2>1, <2>2, <2>3, <2>4, <2>5, OtherWrites, StepKeepsCommissions
<1>10. CASE Finish(h)
  <2>1. PICK d \in {FALSE, Disables(tx[h].op)} :
          Step(h, [tx[h] EXCEPT !.pc = "ready", !.dead = d])
    BY <1>10 DEF Finish
  <2>2. d \in BOOLEAN
    BY DEF Disables
  <2> DEFINE t == [tx[h] EXCEPT !.pc = "ready", !.dead = d]
  <2>3. t \in Tx /\ t.op = tx[h].op /\ t.wrote = tx[h].wrote
    BY <1>1, <2>2 DEF Tx
  <2> QED BY <2>1, <2>3, OtherWrites
<1>11. CASE Fail(h)
  <2>1. IdleTx \in Tx /\ IdleTx.wrote = {}
    BY DEF IdleTx, Tx, Free, Plans, OrganizationPlans, SubscriptionRow, NoSubscription
  <2> QED BY <1>11, <2>1, OtherWrites DEF Fail
<1> QED BY <1>3, <1>4, <1>5, <1>6, <1>7, <1>8, <1>9, <1>10, <1>11

LEMMA AnswerCommissions ==
  ASSUME TypeInv, CommissionInv, NEW h \in Handlers, Answer(h)
  PROVE  /\ CommissionInv'
         /\ \A p \in Payments : commission[p] = "reversed" => commission'[p] = "reversed"
<1> DEFINE op == tx[h].op
           p == op[2]
<1>1. /\ tx[h] \in Tx /\ Progress(tx[h]) /\ CommitsOK(h, tx[h])
      /\ commission \in [Payments -> {"none", "recorded", "reversed"}]
      /\ op \in Operations \cup {NoOperation}
  BY DEF TypeInv, TypeOK, Tx, CommissionInv
<1>2. tx'[h] = IdleTx /\ \A g \in Handlers \ {h} : tx'[g] = tx[g]
  BY DEF Answer, TypeInv, TypeOK
<1>3. CommitsOK(h, tx[h])'
  <2>1. tx'[h].wrote = {}
    BY <1>2 DEF IdleTx
  <2> QED BY <2>1 DEF CommitsOK
<1>4. "recorded" \notin tx'[h].wrote
  BY <1>2 DEF IdleTx
<1>5. CASE tx[h].dead \/ tx[h].wrote \cap {"recorded", "reversed"} = {}
  <2>1. commission' = commission /\ provisioned \subseteq provisioned'
    BY <1>5 DEF Answer, database
  <2>2. \A g \in Handlers \ {h} : CommitsOK(g, tx[g])'
    BY <1>2, <1>4, <2>1 DEF CommissionInv, CommitsOK
  <2> QED BY <1>3, <2>1, <2>2 DEF CommissionInv, CreditedWasProvisioned
<1>6. CASE ~tx[h].dead /\ "recorded" \in tx[h].wrote
  <2>1. p \in Payments /\ Pays(op) /\ commission[p] = "none"
    BY <1>1, <1>6, OperationShape DEF Progress, CommitsOK
  <2>2. /\ commission' = [commission EXCEPT ![p] = "recorded"]
        /\ provisioned' = provisioned \cup {p}
    <3>1. "reversed" \notin tx[h].wrote
      BY <1>1, <2>1 DEF Progress, Pays, Refunds
    <3> QED BY <1>6, <2>1, <3>1 DEF Answer
  <2>3. \A g \in Handlers \ {h} : CommitsOK(g, tx[g])'
    <3> SUFFICES ASSUME NEW g \in Handlers \ {h} PROVE CommitsOK(g, tx[g])'
      OBVIOUS
    <3>1. CommitsOK(g, tx[g]) /\ tx'[g] = tx[g]
      BY <1>2 DEF CommissionInv
    <3>2. "recorded" \in tx[g].wrote => tx[g].op[2] # p
      BY <1>1, <1>6 DEF CommitsOK
    <3>3. tx[g] \in Tx /\ Progress(tx[g]) /\ tx[g].op \in Operations \cup {NoOperation}
      BY DEF TypeInv, TypeOK, Tx
    <3>4. tx[g].wrote \cap {"recorded", "reversed"} # {} => tx[g].op[2] \in Payments
      BY <3>3, OperationShape DEF Progress
    <3>5. "recorded" \in tx[g].wrote => commission'[tx[g].op[2]] = "none"
      BY <1>1, <2>2, <3>1, <3>2, <3>4 DEF CommitsOK
    <3>6. "reversed" \in tx[g].wrote => commission'[tx[g].op[2]] # "none"
      BY <1>1, <2>2, <3>1, <3>4 DEF CommitsOK
    <3> QED BY <1>2, <1>4, <3>1, <3>5, <3>6 DEF CommitsOK
  <2>4. CreditedWasProvisioned'
    BY <1>1, <2>1, <2>2 DEF CommissionInv, CreditedWasProvisioned
  <2> QED BY <1>1, <1>3, <2>1, <2>2, <2>3, <2>4 DEF CommissionInv
<1>7. CASE ~tx[h].dead /\ "recorded" \notin tx[h].wrote /\ "reversed" \in tx[h].wrote
  <2>1. p \in Payments /\ commission[p] # "none"
    BY <1>1, <1>7, OperationShape DEF Progress, CommitsOK
  <2>2. /\ commission' = [commission EXCEPT ![p] = "reversed"]
        /\ provisioned \subseteq provisioned'
    BY <1>7, <2>1 DEF Answer
  <2>3. \A g \in Handlers \ {h} : CommitsOK(g, tx[g])'
    <3> SUFFICES ASSUME NEW g \in Handlers \ {h} PROVE CommitsOK(g, tx[g])'
      OBVIOUS
    <3>1. CommitsOK(g, tx[g]) /\ tx'[g] = tx[g]
      BY <1>2 DEF CommissionInv
    <3>2. tx[g] \in Tx /\ Progress(tx[g]) /\ tx[g].op \in Operations \cup {NoOperation}
      BY DEF TypeInv, TypeOK, Tx
    <3>3. tx[g].wrote \cap {"recorded", "reversed"} # {} => tx[g].op[2] \in Payments
      BY <3>2, OperationShape DEF Progress
    <3>4. "recorded" \in tx[g].wrote => commission'[tx[g].op[2]] = "none"
      BY <1>1, <2>1, <2>2, <3>1, <3>3 DEF CommitsOK
    <3>5. "reversed" \in tx[g].wrote => commission'[tx[g].op[2]] # "none"
      BY <1>1, <2>2, <3>1, <3>3 DEF CommitsOK
    <3> QED BY <1>2, <1>4, <3>1, <3>4, <3>5 DEF CommitsOK
  <2>4. CreditedWasProvisioned'
    BY <1>1, <2>1, <2>2 DEF CommissionInv, CreditedWasProvisioned
  <2> QED BY <1>1, <1>3, <2>2, <2>3, <2>4 DEF CommissionInv
<1> QED BY <1>5, <1>6, <1>7

\* The beginning of a request and everything outside of transactions leave
\* commissions and written columns alone.
LEMMA OutsideCommissions ==
  ASSUME TypeInv, CommissionInv, commission' = commission, provisioned' = provisioned,
         \A h \in Handlers :
           \/ tx'[h].wrote = tx[h].wrote /\ tx'[h].op = tx[h].op
           \/ tx'[h].wrote = {}
  PROVE  CommissionInv'
<1>1. CreditedWasProvisioned'
  BY DEF CommissionInv, CreditedWasProvisioned
<1>2. ASSUME NEW h \in Handlers PROVE CommitsOK(h, tx[h])'
  BY DEF CommissionInv, CommitsOK
<1> QED BY <1>1, <1>2 DEF CommissionInv

LEMMA BeginWrites ==
  ASSUME TypeInv, NEW h \in Handlers, NEW op, Begin(h, op)
  PROVE  /\ tx'[h].op = op /\ tx'[h].wrote = {} /\ tx'[h].pc = "claimed"
         /\ \A g \in Handlers \ {h} :
              tx'[g].wrote = tx[g].wrote /\ tx'[g].op = tx[g].op /\ tx'[g].pc = tx[g].pc
<1> DEFINE busy == {g \in Handlers : tx[g].pc # "idle"}
           begun == [IdleTx EXCEPT !.pc = "claimed", !.op = op, !.alone = busy = {},
                                   !.seenOrg = IF op[1] = "verify" THEN org ELSE Free]
<1>1. tx' = [g \in Handlers |-> IF g = h THEN begun ELSE [tx[g] EXCEPT !.alone = FALSE]]
  BY DEF Begin
<1>2. tx'[h] = begun
  BY <1>1
<1>3. tx'[h].op = op /\ tx'[h].wrote = {} /\ tx'[h].pc = "claimed"
  BY <1>2 DEF IdleTx
<1>4. ASSUME NEW g \in Handlers \ {h}
      PROVE  tx'[g].wrote = tx[g].wrote /\ tx'[g].op = tx[g].op /\ tx'[g].pc = tx[g].pc
  <2>1. tx'[g] = [tx[g] EXCEPT !.alone = FALSE] /\ tx[g] \in Tx
    BY <1>1, <1>4 DEF TypeInv, TypeOK
  <2> QED BY <2>1 DEF Tx
<1> QED BY <1>3, <1>4

LEMMA NextCommissions ==
  ASSUME TypeInv, CommissionInv, [Next]_vars
  PROVE  /\ CommissionInv'
         /\ \A p \in Payments : commission[p] = "reversed" => commission'[p] = "reversed"
<1> USE DEF database, history
<1>1. CASE \E p \in Payments : Collect(p)
  BY <1>1, OutsideCommissions DEF Collect
<1>2. CASE \E e \in Events : ExpireClaim(e)
  BY <1>2, OutsideCommissions DEF ExpireClaim
<1>3. ASSUME NEW h \in Handlers, NEW e \in Events, ClaimEvent(h, e)
      PROVE  CommissionInv' /\ commission' = commission
  <2>1. commission' = commission /\ provisioned' = provisioned
    BY <1>3 DEF ClaimEvent
  <2>2. CASE Begin(h, e)
    BY <2>1, <2>2, BeginWrites, OutsideCommissions
  <2>3. CASE tx' = tx
    BY <2>1, <2>3, OutsideCommissions
  <2> QED BY <1>3, <2>1, <2>2, <2>3 DEF ClaimEvent
<1>4. ASSUME NEW h \in Handlers, NEW op \in Operations \ Events, StartRequest(h, op)
      PROVE  CommissionInv' /\ commission' = commission
  <2>1. commission' = commission /\ provisioned' = provisioned /\ Begin(h, op)
    BY <1>4 DEF StartRequest
  <2> QED BY <2>1, BeginWrites, OutsideCommissions
<1>5. ASSUME NEW h \in Handlers,
         \/ AskProvider(h) \/ ReadOrg(h) \/ ReadSubscription(h) \/ WriteSubscription(h)
         \/ WriteOrg(h) \/ RecordPayment(h) \/ ReversePayment(h) \/ Finish(h) \/ Fail(h)
      PROVE  CommissionInv' /\ commission' = commission
  <2>1. commission' = commission
    BY <1>5 DEF AskProvider, ReadOrg, ReadSubscription, WriteSubscription, WriteOrg,
                RecordPayment, ReversePayment, Finish, Fail, Step
  <2> QED BY <1>5, <2>1, TransactionCommissions
<1>6. CASE UNCHANGED vars
  BY <1>6, OutsideCommissions DEF vars
<1> QED BY <1>1, <1>2, <1>3, <1>4, <1>5, <1>6, AnswerCommissions DEF Next, Collect, ExpireClaim, vars

LEMMA InitCommissions == Init => CommissionInv
<1> SUFFICES ASSUME Init PROVE CommissionInv
  OBVIOUS
<1>1. IdleTx.wrote = {}
  BY DEF IdleTx
<1>2. \A h \in Handlers : tx[h] = IdleTx
  BY DEF Init
<1>3. CreditedWasProvisioned
  BY DEF Init, CreditedWasProvisioned
<1> QED BY <1>1, <1>2, <1>3 DEF CommissionInv, CommitsOK

\* However verifications, deliveries and refunds of one payment interleave, a
\* commission exists only for a plan that was provisioned with it.
THEOREM CreditImpliesPlan == Spec => []CreditedWasProvisioned
<1>1. Init => TypeInv /\ CommissionInv
  BY InitTypes, InitCommissions
<1>2. TypeInv /\ CommissionInv /\ [Next]_vars => (TypeInv /\ CommissionInv)'
  BY NextTypes, NextCommissions
<1>3. CommissionInv => CreditedWasProvisioned
  BY DEF CommissionInv
<1> QED BY <1>1, <1>2, <1>3, PTL DEF Spec

\* No delivery or verification brings back the commission of a refunded payment.
THEOREM RefundsAreFinal == Spec => NotRecordedAgain
<1>1. Init => TypeInv /\ CommissionInv
  BY InitTypes, InitCommissions
<1>2. TypeInv /\ CommissionInv /\ [Next]_vars => (TypeInv /\ CommissionInv)'
  BY NextTypes, NextCommissions
<1>3. TypeInv /\ CommissionInv /\ [Next]_vars =>
        [\A p \in Payments : commission[p] = "reversed" => commission'[p] = "reversed"]_vars
  BY NextCommissions
<1> QED BY <1>1, <1>2, <1>3, PTL DEF Spec, NotRecordedAgain

----------------------------------------------------------------------------
(* Deliveries *)

Working(e) == {h \in Handlers : tx[h].op = e}

\* A claim pays for one processing of its event: those that have committed and
\* those in progress are at most the claims that have been.
DeliveryInv ==
  \A e \in Events :
    applied[e] + Cardinality(Working(e)) <= expiries[e] + (IF e \in claims THEN 1 ELSE 0)

LEMMA WorkingIsFinite ==
  ASSUME NEW e
  PROVE  /\ IsFiniteSet(Working(e)) /\ Cardinality(Working(e)) \in Nat
         /\ IsFiniteSet(Working(e)') /\ Cardinality(Working(e)') \in Nat
<1>1. IsFiniteSet(Handlers) /\ Working(e) \subseteq Handlers /\ Working(e)' \subseteq Handlers
  BY BillingAssumption DEF Working
<1> QED BY <1>1, FS_Subset, FS_CardinalityType

\* Nobody begins to work on an event.
LEMMA NoNewWork ==
  ASSUME TypeInv, DeliveryInv, applied' = applied, expiries' = expiries, claims \subseteq claims',
         \A g \in Handlers : tx'[g].op = tx[g].op \/ tx'[g].op \notin Events
  PROVE  DeliveryInv'
<1> SUFFICES ASSUME NEW e \in Events
             PROVE  applied[e] + Cardinality(Working(e)')
                      <= expiries[e] + (IF e \in claims' THEN 1 ELSE 0)
  BY DEF DeliveryInv
<1>1. Working(e)' \subseteq Working(e)
  BY DEF Working
<1>2. Cardinality(Working(e)') <= Cardinality(Working(e))
  BY <1>1, WorkingIsFinite, FS_Subset
<1>3. applied[e] \in Nat /\ expiries[e] \in Nat
  BY BillingAssumption DEF TypeInv, TypeOK
<1>4. applied[e] + Cardinality(Working(e)) <= expiries[e] + (IF e \in claims THEN 1 ELSE 0)
  BY DEF DeliveryInv
<1> QED BY <1>2, <1>3, <1>4, WorkingIsFinite

LEMMA NextDeliveries ==
  ASSUME TypeInv, DeliveryInv, [Next]_vars
  PROVE  DeliveryInv'
<1> USE DEF database, history
<1>1. CASE \E p \in Payments : Collect(p)
  BY <1>1, NoNewWork DEF Collect
<1>2. ASSUME NEW e \in Events, ExpireClaim(e) PROVE DeliveryInv'
  <2> SUFFICES ASSUME NEW f \in Events
               PROVE  applied'[f] + Cardinality(Working(f)')
                        <= expiries'[f] + (IF f \in claims' THEN 1 ELSE 0)
    BY DEF DeliveryInv
  <2>1. Working(f)' = Working(f) /\ applied' = applied
    BY <1>2 DEF ExpireClaim, Working
  <2>2. /\ applied[f] \in Nat /\ expiries[f] \in Nat /\ Cardinality(Working(f)) \in Nat
        /\ expiries \in [Events -> 0..MaxExpiries]
    BY WorkingIsFinite, BillingAssumption DEF TypeInv, TypeOK
  <2>3. applied[f] + Cardinality(Working(f)) <= expiries[f] + (IF f \in claims THEN 1 ELSE 0)
    BY DEF DeliveryInv
  <2>4. CASE f = e
    <3>1. expiries'[f] = expiries[f] + 1 /\ f \in claims /\ f \notin claims'
      BY <1>2, <2>2, <2>4 DEF ExpireClaim
    <3> QED BY <2>1, <2>2, <2>3, <3>1
  <2>5. CASE f # e
    <3>1. expiries'[f] = expiries[f] /\ (f \in claims <=> f \in claims')
      BY <1>2, <2>2, <2>5 DEF ExpireClaim
    <3> QED BY <2>1, <2>2, <2>3, <3>1
  <2> QED BY <2>4, <2>5
<1>3. ASSUME NEW h \in Handlers, NEW e \in Events, ClaimEvent(h, e) PROVE DeliveryInv'
  <2>1. CASE e \notin claims /\ claims' = claims \cup {e} /\ Begin(h, e)
    <3> SUFFICES ASSUME NEW f \in Events
                 PROVE  applied'[f] + Cardinality(Working(f)')
                          <= expiries'[f] + (IF f \in claims' THEN 1 ELSE 0)
      BY DEF DeliveryInv
    <3>1. applied' = applied /\ expiries' = expiries
      BY <1>3 DEF ClaimEvent
    <3>2. /\ applied[f] \in Nat /\ expiries[f] \in Nat
          /\ Cardinality(Working(f)) \in Nat /\ Cardinality(Working(f)') \in Nat
      BY WorkingIsFinite, BillingAssumption DEF TypeInv, TypeOK
    <3>3. applied[f] + Cardinality(Working(f)) <= expiries[f] + (IF f \in claims THEN 1 ELSE 0)
      BY DEF DeliveryInv
    <3>4. CASE f = e
      <4>1. Working(f)' \subseteq Working(f) \cup {h}
        BY <2>1, BeginWrites DEF Working
      <4>2. /\ IsFiniteSet(Working(f) \cup {h})
            /\ Cardinality(Working(f) \cup {h}) \in Nat
            /\ Cardinality(Working(f) \cup {h}) <= Cardinality(Working(f)) + 1
        <5>1. /\ IsFiniteSet(Working(f) \cup {h})
              /\ Cardinality(Working(f) \cup {h}) \in
                   {Cardinality(Working(f)), Cardinality(Working(f)) + 1}
          BY WorkingIsFinite, FS_AddElement, Zenon
        <5> QED BY <3>2, <5>1
      <4>3. Cardinality(Working(f)') <= Cardinality(Working(f) \cup {h})
        BY <4>1, <4>2, FS_Subset
      <4>4. f \notin claims /\ f \in claims'
        BY <2>1, <3>4
      <4> QED BY <3>1, <3>2, <3>3, <4>2, <4>3, <4>4
    <3>5. CASE f # e
      <4>1. Working(f)' \subseteq Working(f)
        BY <2>1, <3>5, BeginWrites DEF Working
      <4>2. Cardinality(Working(f)') <= Cardinality(Working(f))
        BY <4>1, WorkingIsFinite, FS_Subset
      <4>3. f \in claims <=> f \in claims'
        BY <2>1, <3>5
      <4> QED BY <3>1, <3>2, <3>3, <4>2, <4>3
    <3> QED BY <3>4, <3>5
  <2>2. CASE claims' \in {claims, claims \cup {e}} /\ tx' = tx
    BY <1>3, <2>2, NoNewWork DEF ClaimEvent
  <2> QED BY <1>3, <2>1, <2>2 DEF ClaimEvent
<1>4. ASSUME NEW h \in Handlers, NEW op \in Operations \ Events, StartRequest(h, op)
      PROVE  DeliveryInv'
  BY <1>4, BeginWrites, NoNewWork DEF StartRequest
<1>5. ASSUME NEW h \in Handlers, Answer(h) PROVE DeliveryInv'
  <2>1. tx'[h] = IdleTx /\ \A g \in Handlers \ {h} : tx'[g] = tx[g]
    BY <1>5 DEF Answer, TypeInv, TypeOK
  <2>2. IdleTx.op = NoOperation /\ NoOperation \notin Events
    BY DEF IdleTx, NoOperation, Events
  <2>3. claims' = claims /\ expiries' = expiries
    BY <1>5 DEF Answer
  <2>4. CASE applied' = applied
    BY <2>1, <2>2, <2>3, <2>4, NoNewWork
  <2>5. CASE tx[h].op \in Events /\ applied' = [applied EXCEPT ![tx[h].op] = @ + 1]
    <3> SUFFICES ASSUME NEW f \in Events
                 PROVE  applied'[f] + Cardinality(Working(f)')
                          <= expiries'[f] + (IF f \in claims' THEN 1 ELSE 0)
      BY DEF DeliveryInv
    <3>1. /\ applied[f] \in Nat /\ expiries[f] \in Nat /\ applied \in [Events -> Nat]
          /\ Cardinality(Working(f)) \in Nat /\ Cardinality(Working(f)') \in Nat
      BY WorkingIsFinite, BillingAssumption DEF TypeInv, TypeOK
    <3>2. applied[f] + Cardinality(Working(f)) <= expiries[f] + (IF f \in claims THEN 1 ELSE 0)
      BY DEF DeliveryInv
    <3>3. CASE f = tx[h].op
      <4>1. Working(f)' = Working(f) \ {h} /\ h \in Working(f)
        BY <2>1, <2>2, <3>3 DEF Working
      <4>2. Cardinality(Working(f)') = Cardinality(Working(f)) - 1
        BY <4>1, WorkingIsFinite, FS_RemoveElement
      <4>3. applied'[f] = applied[f] + 1
        BY <2>5, <3>1, <3>3
      <4> QED BY <2>3, <3>1, <3>2, <4>2, <4>3
    <3>4. CASE f # tx[h].op
      <4>1. Working(f)' = Working(f)
        BY <2>1, <2>2, <3>4 DEF Working
      <4>2. applied'[f] = applied[f]
        BY <2>5, <3>1, <3>4
      <4> QED BY <2>3, <3>1, <3>2, <4>1, <4>2
    <3> QED BY <3>3, <3>4
  <2> QED BY <1>5, <2>4, <2>5 DEF Answer
<1>6. ASSUME NEW h \in Handlers,
         \/ AskProvider(h) \/ ReadOrg(h) \/ ReadSubscription(h) \/ WriteSubscription(h)
         \/ WriteOrg(h) \/ RecordPayment(h) \/ ReversePayment(h) \/ Finish(h) \/ Fail(h)
      PROVE  DeliveryInv'
  <2>1. applied' = applied /\ expiries' = expiries /\ claims' = claims
    BY <1>6 DEF AskProvider, ReadOrg, ReadSubscription, WriteSubscription, WriteOrg,
                RecordPayment, ReversePayment, Finish, Fail, Step
  <2>2. NoOperation \notin Events
    BY DEF NoOperation, Events
  <2>3. \A g \in Handlers \ {h} : tx'[g].op = tx[g].op
    BY <1>6 DEF AskProvider, ReadOrg, ReadSubscription, WriteSubscription, WriteOrg,
                RecordPayment, ReversePayment, Finish, Fail, Step, TypeInv, TypeOK
  <2>4. tx'[h].op = tx[h].op \/ tx'[h].op = NoOperation
    <3>1. tx[h] \in Tx /\ tx \in [Handlers -> Tx] /\ IdleTx.op = NoOperation
      BY DEF TypeInv, TypeOK, IdleTx
    <3>2. CASE AskProvider(h)
      BY <3>1, <3>2 DEF AskProvider, Step, Tx
    <3>3. CASE ReadOrg(h)
      BY <3>1, <3>3 DEF ReadOrg, Step, Tx
    <3>4. CASE ReadSubscription(h)
      BY <3>1, <3>4 DEF ReadSubscription, Step, Tx
    <3>5. CASE WriteSubscription(h)
      BY <3>1, <3>5 DEF WriteSubscription, Step, Tx
    <3>6. CASE WriteOrg(h)
      BY <3>1, <3>6 DEF WriteOrg, Step, Tx
    <3>7. CASE RecordPayment(h)
      <4> DEFINE nothing == [tx[h] EXCEPT !.pc = "ready"]
                 write == [tx[h] EXCEPT !.pc = "ready", !.wrote = @ \cup {"recorded"}]
                 fail == [tx[h] EXCEPT !.pc = "ready", !.dead = TRUE]
      <4>1. Step(h, nothing) \/ Step(h, write) \/ Step(h, fail)
        BY <3>7 DEF RecordPayment
      <4>2. nothing.op = tx[h].op /\ write.op = tx[h].op /\ fail.op = tx[h].op
        BY <3>1 DEF Tx
      <4> HIDE DEF nothing, write, fail
      <4> QED BY <3>1, <4>1, <4>2 DEF Step
    <3>8. CASE ReversePayment(h)
      <4> DEFINE nothing == [tx[h] EXCEPT !.pc = "ready"]
                 write == [tx[h] EXCEPT !.pc = "ready", !.wrote = @ \cup {"reversed"}]
                 fail == [tx[h] EXCEPT !.pc = "ready", !.dead = TRUE]
      <4>1. Step(h, nothing) \/ Step(h, write) \/ Step(h, fail)
        BY <3>8 DEF ReversePayment
      <4>2. nothing.op = tx[h].op /\ write.op = tx[h].op /\ fail.op = tx[h].op
        BY <3>1 DEF Tx
      <4> HIDE DEF nothing, write, fail
      <4> QED BY <3>1, <4>1, <4>2 DEF Step
    <3>9. CASE Finish(h)
      BY <3>1, <3>9 DEF Finish, Step, Tx
    <3>10. CASE Fail(h)
      BY <3>1, <3>10 DEF Fail, Step, Tx
    <3> QED BY <1>6, <3>2, <3>3, <3>4, <3>5, <3>6, <3>7, <3>8, <3>9, <3>10
  <2> QED BY <2>1, <2>2, <2>3, <2>4, NoNewWork
<1>7. CASE UNCHANGED vars
  BY <1>7, NoNewWork DEF vars
<1> QED BY <1>1, <1>2, <1>3, <1>4, <1>5, <1>6, <1>7 DEF Next

LEMMA InitDeliveries == Init => DeliveryInv
<1> SUFFICES ASSUME Init, NEW e \in Events
             PROVE  applied[e] + Cardinality(Working(e))
                      <= expiries[e] + (IF e \in claims THEN 1 ELSE 0)
  BY DEF DeliveryInv
<1>1. IdleTx.op = NoOperation /\ NoOperation # e
  BY DEF IdleTx, NoOperation, Events
<1>2. Working(e) = {}
  BY <1>1 DEF Init, Working
<1>3. Cardinality(Working(e)) = 0
  BY <1>2, FS_EmptySet
<1> QED BY <1>3 DEF Init

\* However deliveries of an event overlap, fail and are repeated, it takes effect
\* at most once for each claim it has had.
THEOREM EventsApplyOncePerClaim == Spec => []AppliedOncePerClaim
<1>1. Init => TypeInv /\ DeliveryInv
  BY InitTypes, InitDeliveries
<1>2. TypeInv /\ DeliveryInv /\ [Next]_vars => (TypeInv /\ DeliveryInv)'
  BY NextTypes, NextDeliveries
<1>3. TypeInv /\ DeliveryInv => AppliedOncePerClaim
  <2> SUFFICES ASSUME TypeInv, DeliveryInv, NEW e \in Events PROVE applied[e] <= 1 + expiries[e]
    BY DEF AppliedOncePerClaim
  <2>1. applied[e] \in Nat /\ expiries[e] \in Nat
    BY BillingAssumption DEF TypeInv, TypeOK
  <2>2. applied[e] + Cardinality(Working(e)) <= expiries[e] + (IF e \in claims THEN 1 ELSE 0)
    BY DEF DeliveryInv
  <2> QED BY <2>1, <2>2, WorkingIsFinite
<1> QED BY <1>1, <1>2, <1>3, PTL DEF Spec

----------------------------------------------------------------------------
(* Requests that run alone *)

\* The plan columns if t were committed now ...
OrgAfter(t) == IF "org" \in t.wrote THEN PlanFor(t.op) ELSE org
StatusAfter(t) == IF t.wrote \cap {"row", "status"} # {} THEN StatusFor(t.op) ELSE sub.status
PlanAfter(t) == IF t.wrote \cap {"row", "plan"} # {} THEN PlanFor(t.op) ELSE sub.plan

\* ... and as its operation wants them.
SetsPlan(op) == Pays(op) \/ Creates(op)
Downgrades(op) == Disables(op) /\ sub.status # "none"

OrgTarget(op) == IF SetsPlan(op) \/ Overrides(op) \/ Downgrades(op) THEN PlanFor(op) ELSE org
StatusTarget(op) == IF SetsPlan(op) \/ Downgrades(op) THEN StatusFor(op) ELSE sub.status
PlanTarget(op) == IF SetsPlan(op) THEN PlanFor(op) ELSE sub.plan

SubscriptionSet(t) == StatusAfter(t) = StatusTarget(t.op) /\ PlanAfter(t) = PlanTarget(t.op)

\* A transaction t of h that has been alone has read what the tables hold.
AloneOK(h, t) ==
  t.alone /\ t.pc # "idle" =>
    /\ \A g \in Handlers \ {h} : tx[g].pc = "idle"
    /\ t.pc \in {"claimed", "verified"} /\ t.op[1] = "verify" => t.seenOrg = org
    /\ t.pc \in {"orgRead", "subRead", "subWritten"} =>
         t.seenOrg = org /\ (SetsPlan(t.op) \/ Overrides(t.op) \/ Downgrades(t.op))
    /\ t.pc \in {"orgRead", "subRead"} => t.wrote = {}
    /\ t.pc = "subRead" => t.seenSub = sub
    /\ t.pc = "subWritten" => SubscriptionSet(t) /\ "org" \notin t.wrote
    /\ t.pc \in {"planned", "ready"} => SubscriptionSet(t) /\ OrgAfter(t) = OrgTarget(t.op)

AloneInv == \A h \in Handlers : AloneOK(h, tx[h])

\* Effect, column by column.
LEMMA EffectColumns ==
  ASSUME TypeInv, NEW op \in Operations \cup {NoOperation}
  PROVE  Effect(op, [org |-> org, sub |-> sub]) =
           [org |-> OrgTarget(op), sub |-> [status |-> StatusTarget(op), plan |-> PlanTarget(op)]]
<1>1. sub = [status |-> sub.status, plan |-> sub.plan]
  BY DEF TypeInv, TypeOK, SubscriptionRow
<1>2. CASE SetsPlan(op)
  <2>1. ~Disables(op) /\ ~Overrides(op) /\ StatusFor(op) = "active"
    BY <1>2 DEF SetsPlan, Pays, Creates, Disables, Overrides, StatusFor
  <2>2. Effect(op, [org |-> org, sub |-> sub]) =
          [org |-> PlanFor(op), sub |-> [status |-> "active", plan |-> PlanFor(op)]]
    BY <1>2, <2>1 DEF Effect, SetsPlan
  <2> QED BY <1>2, <2>1, <2>2 DEF OrgTarget, StatusTarget, PlanTarget
<1>3. CASE ~SetsPlan(op) /\ Downgrades(op)
  <2>1. ~Overrides(op) /\ Disables(op) /\ sub.status # "none"
    BY <1>3 DEF Downgrades, Disables, Overrides
  <2>2. PlanFor(op) = Free /\ StatusFor(op) = "inactive"
    BY <1>3, <2>1 DEF PlanFor, StatusFor, SetsPlan
  <2>3. Effect(op, [org |-> org, sub |-> sub]) = [org |-> Free, sub |-> [sub EXCEPT !.status = "inactive"]]
    BY <1>3, <2>1 DEF Effect, SetsPlan
  <2>4. [sub EXCEPT !.status = "inactive"] = [status |-> "inactive", plan |-> sub.plan]
    BY <1>1
  <2> QED BY <1>3, <2>2, <2>3, <2>4 DEF OrgTarget, StatusTarget, PlanTarget
<1>4. CASE ~SetsPlan(op) /\ ~Downgrades(op) /\ Overrides(op)
  <2>1. PlanFor(op) = op[2]
    BY <1>4 DEF PlanFor, SetsPlan
  <2>2. Effect(op, [org |-> org, sub |-> sub]) = [[org |-> org, sub |-> sub] EXCEPT !.org = op[2]]
    BY <1>4 DEF Effect, SetsPlan, Downgrades
  <2>3. [[org |-> org, sub |-> sub] EXCEPT !.org = op[2]] = [org |-> op[2], sub |-> sub]
    OBVIOUS
  <2> QED BY <1>1, <1>4, <2>1, <2>2, <2>3 DEF OrgTarget, StatusTarget, PlanTarget
<1>5. CASE ~SetsPlan(op) /\ ~Downgrades(op) /\ ~Overrides(op)
  <2>1. Effect(op, [org |-> org, sub |-> sub]) = [org |-> org, sub |-> sub]
    BY <1>5 DEF Effect, SetsPlan, Downgrades
  <2> QED BY <1>1, <1>5, <2>1 DEF OrgTarget, StatusTarget, PlanTarget
<1> QED BY <1>2, <1>3, <1>4, <1>5

LEMMA StepKeepsAlone ==
  ASSUME TypeInv, AloneInv, NEW h \in Handlers, tx[h].pc # "idle", NEW t \in Tx, Step(h, t),
         AloneOK(h, t)
  PROVE  AloneInv'
<1>1. tx'[h] = t /\ \A g \in Handlers \ {h} : tx'[g] = tx[g]
  BY DEF TypeInv, TypeOK, Step
<1>2. org' = org /\ sub' = sub
  BY DEF Step, database
<1>3. AloneOK(h, tx[h])'
  BY <1>1, <1>2 DEF AloneOK, SubscriptionSet, StatusAfter, PlanAfter, OrgAfter, StatusTarget,
                    PlanTarget, OrgTarget, Downgrades
<1>4. ASSUME NEW g \in Handlers, g # h PROVE AloneOK(g, tx[g])'
  <2>1. ~tx[g].alone \/ tx[g].pc = "idle"
    BY <1>4 DEF AloneInv, AloneOK
  <2> QED BY <1>1, <1>4, <2>1 DEF AloneOK
<1> QED BY <1>3, <1>4 DEF AloneInv

LEMMA TransactionAlone ==
  ASSUME TypeInv, AloneInv, NEW h \in Handlers,
         \/ AskProvider(h) \/ ReadOrg(h) \/ ReadSubscription(h) \/ WriteSubscription(h)
         \/ WriteOrg(h) \/ RecordPayment(h) \/ ReversePayment(h) \/ Finish(h) \/ Fail(h)
  PROVE  AloneInv'
<1> DEFINE op == tx[h].op
<1>1. /\ tx[h] \in Tx /\ Progress(tx[h]) /\ AloneOK(h, tx[h])
      /\ org \in OrganizationPlans /\ sub \in SubscriptionRow
      /\ op \in Operations \cup {NoOperation}
  BY DEF TypeInv, TypeOK, AloneInv, Tx
<1>2. CASE AskProvider(h)
  <2>1. tx[h].pc = "claimed" /\ Pays(op) /\ tx[h].wrote = {}
    BY <1>1, <1>2 DEF AskProvider, Progress
  <2> DEFINE yes == [tx[h] EXCEPT !.pc = "verified"]
             no == [tx[h] EXCEPT !.pc = "ready", !.op = NoOperation]
  <2>2. Step(h, yes) \/ Step(h, no)
    BY <1>2 DEF AskProvider
  <2>3. /\ yes \in Tx /\ yes.pc = "verified" /\ yes.op = op /\ yes.alone = tx[h].alone
        /\ yes.seenOrg = tx[h].seenOrg
    BY <1>1 DEF Tx
  <2>4. no \in Tx /\ no.pc = "ready" /\ no.op = NoOperation /\ no.wrote = {} /\ no.alone = tx[h].alone
    BY <1>1, <2>1 DEF Tx
  <2> HIDE DEF yes, no
  <2>5. AloneOK(h, yes)
    BY <1>1, <2>1, <2>3 DEF AloneOK
  <2>6. ~SetsPlan(NoOperation) /\ ~Overrides(NoOperation) /\ ~Downgrades(NoOperation)
    BY DEF SetsPlan, Pays, Creates, Overrides, Downgrades, Disables, NoOperation
  <2>7. AloneOK(h, no)
    BY <1>1, <2>1, <2>4, <2>6
       DEF AloneOK, SubscriptionSet, StatusAfter, PlanAfter, OrgAfter, StatusTarget, PlanTarget, OrgTarget
  <2> QED BY <2>1, <2>2, <2>3, <2>4, <2>5, <2>7, StepKeepsAlone
<1>3. CASE ReadOrg(h)
  <2>1. PICK p, o :
          /\ Step(h, [tx[h] EXCEPT !.pc = p, !.seenOrg = o])
          /\ p = IF Disables(op) /\ sub.status = "none" THEN "planned"
                 ELSE IF Overrides(op) THEN "subWritten" ELSE "orgRead"
          /\ o = IF op[1] = "verify" THEN tx[h].seenOrg ELSE org
    BY <1>1, <1>3 DEF ReadOrg, Tx
  <2>2. tx[h].pc \in {"claimed", "verified"} /\ tx[h].wrote = {} /\ op # NoOperation /\ ~Refunds(op)
    BY <1>1, <1>3 DEF ReadOrg, Progress, Pays, Refunds
  <2> DEFINE t == [tx[h] EXCEPT !.pc = p, !.seenOrg = o]
  <2>3. /\ t \in Tx /\ t.pc = p /\ t.op = op /\ t.wrote = {} /\ t.alone = tx[h].alone
        /\ t.seenOrg = o
    BY <1>1, <2>1, <2>2 DEF Tx
  <2>4. SetsPlan(op) \/ Overrides(op) \/ Disables(op)
    BY <1>1, <2>2 DEF Operations, Events, SetsPlan, Pays, Creates, Overrides, Disables, Refunds
  <2>5. /\ Overrides(op) => ~SetsPlan(op) /\ ~Disables(op)
        /\ Disables(op) => ~SetsPlan(op) /\ ~Overrides(op)
    BY DEF SetsPlan, Pays, Creates, Overrides, Disables
  <2> HIDE DEF t
  <2>6. AloneOK(h, t)
    BY <1>1, <2>1, <2>2, <2>3, <2>4, <2>5
       DEF AloneOK, SubscriptionSet, StatusAfter, PlanAfter, OrgAfter, StatusTarget, PlanTarget,
           OrgTarget, Downgrades
  <2> QED BY <2>1, <2>2, <2>3, <2>6, StepKeepsAlone DEF t
<1>4. CASE ReadSubscription(h)
  <2> DEFINE t == [tx[h] EXCEPT !.pc = "subRead", !.seenSub = sub]
  <2>1. /\ t \in Tx /\ t.pc = "subRead" /\ t.op = op /\ t.wrote = tx[h].wrote
        /\ t.alone = tx[h].alone /\ t.seenOrg = tx[h].seenOrg /\ t.seenSub = sub
    BY <1>1 DEF Tx
  <2>2. Step(h, t) /\ tx[h].pc = "orgRead"
    BY <1>4 DEF ReadSubscription
  <2> HIDE DEF t
  <2>3. AloneOK(h, t)
    BY <1>1, <2>1, <2>2 DEF AloneOK
  <2> QED BY <2>1, <2>2, <2>3, StepKeepsAlone
<1>5. CASE WriteSubscription(h)
  <2> DEFINE seen == tx[h].seenSub
             changed == IF seen.status = "none" THEN {"row"}
                        ELSE {c \in {"plan", "status"} :
                                \/ c = "plan" /\ ~Disables(op) /\ seen.plan # PlanFor(op)
                                \/ c = "status" /\ seen.status # StatusFor(op)}
             t == [tx[h] EXCEPT !.pc = "subWritten", !.wrote = @ \cup changed]
  <2>1. Step(h, t) /\ tx[h].pc = "subRead" /\ ~Overrides(op)
    BY <1>1, <1>5 DEF WriteSubscription, Progress
  <2>2. changed \subseteq {"row", "plan", "status"}
    OBVIOUS
  <2>3. /\ seen.status = "none" => changed = {"row"}
        /\ seen.status # "none" =>
             /\ "row" \notin changed
             /\ "plan" \in changed <=> ~Disables(op) /\ seen.plan # PlanFor(op)
             /\ "status" \in changed <=> seen.status # StatusFor(op)
    OBVIOUS
  <2> HIDE DEF changed
  <2>4. /\ t \in Tx /\ t.pc = "subWritten" /\ t.op = op /\ t.wrote = tx[h].wrote \cup changed
        /\ t.alone = tx[h].alone /\ t.seenOrg = tx[h].seenOrg
    BY <1>1, <2>2 DEF Tx
  <2> HIDE DEF t
  <2>5. SetsPlan(op) => ~Disables(op)
    BY DEF SetsPlan, Pays, Creates, Disables
  <2>6. AloneOK(h, t)
    <3> SUFFICES ASSUME t.alone PROVE AloneOK(h, t)
      BY DEF AloneOK
    <3>1. /\ seen = sub /\ tx[h].wrote = {} /\ tx[h].seenOrg = org
          /\ SetsPlan(op) \/ Downgrades(op)
          /\ \A g \in Handlers \ {h} : tx[g].pc = "idle"
      BY <1>1, <2>1, <2>4 DEF AloneOK
    <3>2. t.wrote = changed
      BY <2>4, <3>1
    <3>3. StatusAfter(t) = StatusTarget(op)
      BY <2>3, <2>4, <3>1, <3>2 DEF StatusAfter, StatusTarget
    <3>4. PlanAfter(t) = PlanTarget(op)
      BY <2>3, <2>4, <2>5, <3>1, <3>2 DEF PlanAfter, PlanTarget, Downgrades
    <3> QED BY <2>2, <2>4, <3>1, <3>2, <3>3, <3>4 DEF AloneOK, SubscriptionSet
  <2> QED BY <2>1, <2>4, <2>6, StepKeepsAlone
<1>6. CASE WriteOrg(h)
  <2> DEFINE c == IF tx[h].seenOrg # PlanFor(op) THEN {"org"} ELSE {}
             t == [tx[h] EXCEPT !.pc = "planned", !.wrote = @ \cup c]
  <2>1. Step(h, t) /\ c \subseteq {"org"} /\ ("org" \in c <=> tx[h].seenOrg # PlanFor(op))
    BY <1>6 DEF WriteOrg
  <2>2. tx[h].pc = "subWritten"
    BY <1>6 DEF WriteOrg
  <2> HIDE DEF c
  <2>3. /\ t \in Tx /\ t.pc = "planned" /\ t.op = op /\ t.wrote = tx[h].wrote \cup c
        /\ t.alone = tx[h].alone
    BY <1>1, <2>1 DEF Tx
  <2> HIDE DEF t
  <2>4. AloneOK(h, t)
    <3> SUFFICES ASSUME t.alone PROVE AloneOK(h, t)
      BY DEF AloneOK
    <3>1. /\ SubscriptionSet(tx[h]) /\ "org" \notin tx[h].wrote /\ tx[h].seenOrg = org
          /\ SetsPlan(op) \/ Overrides(op) \/ Downgrades(op)
          /\ \A g \in Handlers \ {h} : tx[g].pc = "idle"
      BY <1>1, <2>2, <2>3 DEF AloneOK
    <3>2. OrgAfter(t) = OrgTarget(op)
      BY <2>1, <2>3, <3>1 DEF OrgAfter, OrgTarget
    <3>3. SubscriptionSet(t)
      BY <2>1, <2>3, <3>1 DEF SubscriptionSet, StatusAfter, PlanAfter
    <3> QED BY <2>3, <3>1, <3>2, <3>3 DEF AloneOK
  <2> QED BY <2>1, <2>2, <2>3, <2>4, StepKeepsAlone
<1>7. ASSUME NEW t \in Tx, Step(h, t), t.pc = "ready", t.op = op, t.alone = tx[h].alone,
             t.wrote \in {tx[h].wrote, tx[h].wrote \cup {"recorded"}, tx[h].wrote \cup {"reversed"}},
             \/ tx[h].pc = "planned"
             \/ tx[h].pc = "claimed" /\ Refunds(op)
      PROVE  AloneInv'
  <2>1. AloneOK(h, t)
    <3> SUFFICES ASSUME t.alone PROVE AloneOK(h, t)
      BY DEF AloneOK
    <3>1. \A g \in Handlers \ {h} : tx[g].pc = "idle"
      BY <1>1, <1>7 DEF AloneOK
    <3>2. SubscriptionSet(t) /\ OrgAfter(t) = OrgTarget(op)
      <4>1. /\ StatusAfter(t) = StatusAfter(tx[h]) /\ PlanAfter(t) = PlanAfter(tx[h])
            /\ OrgAfter(t) = OrgAfter(tx[h])
        BY <1>7 DEF StatusAfter, PlanAfter, OrgAfter
      <4>2. CASE tx[h].pc = "planned"
        BY <1>1, <1>7, <4>1, <4>2 DEF AloneOK, SubscriptionSet
      <4>3. CASE tx[h].pc = "claimed" /\ Refunds(op)
        <5>1. ~SetsPlan(op) /\ ~Overrides(op) /\ ~Downgrades(op)
          BY <4>3 DEF Refunds, SetsPlan, Pays, Creates, Overrides, Downgrades, Disables
        <5>2. tx[h].wrote = {}
          BY <1>1, <4>3 DEF Progress
        <5> QED BY <1>7, <4>1, <5>1, <5>2
                DEF SubscriptionSet, StatusAfter, PlanAfter, OrgAfter, StatusTarget, PlanTarget, OrgTarget
      <4> QED BY <1>7, <4>2, <4>3
    <3> QED BY <1>7, <3>1, <3>2 DEF AloneOK
  <2> QED BY <1>7, <2>1, StepKeepsAlone
<1>8. CASE RecordPayment(h) \/ ReversePayment(h)
  <2> DEFINE nothing == [tx[h] EXCEPT !.pc = "ready"]
             write(c) == [tx[h] EXCEPT !.pc = "ready", !.wrote = @ \cup {c}]
             fail == [tx[h] EXCEPT !.pc = "ready", !.dead = TRUE]
  <2>1. Step(h, nothing) \/ Step(h, write("recorded")) \/ Step(h, write("reversed")) \/ Step(h, fail)
    BY <1>8 DEF RecordPayment, ReversePayment
  <2>2. tx[h].pc = "planned" \/ (tx[h].pc = "claimed" /\ Refunds(op))
    BY <1>8 DEF RecordPayment, ReversePayment
  <2>3. /\ nothing \in Tx /\ nothing.pc = "ready" /\ nothing.op = op
        /\ nothing.alone = tx[h].alone /\ nothing.wrote = tx[h].wrote
    BY <1>1 DEF Tx
  <2>4. /\ fail \in Tx /\ fail.pc = "ready" /\ fail.op = op
        /\ fail.alone = tx[h].alone /\ fail.wrote = tx[h].wrote
    BY <1>1 DEF Tx
  <2>5. ASSUME NEW c \in {"recorded", "reversed"}
        PROVE  /\ write(c) \in Tx /\ write(c).pc = "ready" /\ write(c).op = op
               /\ write(c).alone = tx[h].alone /\ write(c).wrote = tx[h].wrote \cup {c}
    BY <1>1 DEF Tx
  <2> HIDE DEF nothing, write, fail
  <2> QED BY <1>7, <2>1, <2>2, <2>3, <2>4, <2>5
<1>9. CASE Finish(h)
  <2>1. PICK d \in {FALSE, Disables(op)} : Step(h, [tx[h] EXCEPT !.pc = "ready", !.dead = d])
    BY <1>9 DEF Finish
  <2>2. d \in BOOLEAN
    BY DEF Disables
  <2> DEFINE t == [tx[h] EXCEPT !.pc = "ready", !.dead = d]
  <2>3. /\ t \in Tx /\ t.pc = "ready" /\ t.op = op /\ t.wrote = tx[h].wrote
        /\ t.alone = tx[h].alone
    BY <1>1, <2>2 DEF Tx
  <2> HIDE DEF t
  <2>4. Step(h, t) /\ tx[h].pc = "planned"
    BY <1>9, <2>1 DEF Finish, t
  <2> QED BY <1>7, <2>3, <2>4
<1>10. CASE Fail(h)
  <2>1. IdleTx \in Tx /\ IdleTx.pc = "idle"
    BY DEF IdleTx, Tx, Free, Plans, OrganizationPlans, SubscriptionRow, NoSubscription
  <2>2. AloneOK(h, IdleTx)
    BY <2>1 DEF AloneOK
  <2> QED BY <1>10, <2>1, <2>2, StepKeepsAlone DEF Fail
<1> QED BY <1>2, <1>3, <1>4, <1>5, <1>6, <1>8, <1>9, <1>10

\* The beginning of a request: it has been alone if all others are idle, and the
\* others have no longer been.
LEMMA BeginAlone ==
  ASSUME TypeInv, AloneInv, NEW h \in Handlers, NEW op, Begin(h, op), UNCHANGED <<org, sub>>
  PROVE  AloneInv'
<1> DEFINE busy == {g \in Handlers : tx[g].pc # "idle"}
           begun == [IdleTx EXCEPT !.pc = "claimed", !.op = op, !.alone = busy = {},
                                   !.seenOrg = IF op[1] = "verify" THEN org ELSE Free]
<1>1. tx' = [g \in Handlers |-> IF g = h THEN begun ELSE [tx[g] EXCEPT !.alone = FALSE]]
  BY DEF Begin
<1>2. /\ tx'[h].op = op /\ tx'[h].pc = "claimed" /\ tx'[h].alone = (busy = {})
      /\ op[1] = "verify" => tx'[h].seenOrg = org
  BY <1>1 DEF IdleTx
<1>3. \A g \in Handlers \ {h} : tx'[g].pc = tx[g].pc /\ tx'[g].alone = FALSE
  <2> SUFFICES ASSUME NEW g \in Handlers \ {h}
               PROVE  tx'[g].pc = tx[g].pc /\ tx'[g].alone = FALSE
    OBVIOUS
  <2>1. tx'[g] = [tx[g] EXCEPT !.alone = FALSE] /\ tx[g] \in Tx
    BY <1>1 DEF TypeInv, TypeOK
  <2> QED BY <2>1 DEF Tx
<1>4. AloneOK(h, tx[h])'
  BY <1>2, <1>3 DEF AloneOK
<1>5. ASSUME NEW g \in Handlers, g # h PROVE AloneOK(g, tx[g])'
  BY <1>3, <1>5 DEF AloneOK
<1> QED BY <1>4, <1>5 DEF AloneInv

LEMMA SameAlone ==
  ASSUME AloneInv, UNCHANGED <<org, sub, tx>>
  PROVE  AloneInv'
BY DEF AloneInv, AloneOK, SubscriptionSet, StatusAfter, PlanAfter, OrgAfter, StatusTarget,
       PlanTarget, OrgTarget, Downgrades

\* The end of a request that was alone leaves every request idle; one that was
\* not alone leaves no other request that was.
LEMMA AnswerAlone ==
  ASSUME TypeInv, AloneInv, NEW h \in Handlers, Answer(h)
  PROVE  AloneInv'
<1>1. tx'[h] = IdleTx /\ \A g \in Handlers \ {h} : tx'[g] = tx[g]
  BY DEF Answer, TypeInv, TypeOK
<1>2. IdleTx.pc = "idle" /\ tx[h].pc # "idle"
  BY DEF IdleTx, Answer
<1>3. AloneOK(h, tx[h])'
  BY <1>1, <1>2 DEF AloneOK
<1>4. ASSUME NEW g \in Handlers, g # h PROVE AloneOK(g, tx[g])'
  <2>1. ~tx[g].alone \/ tx[g].pc = "idle"
    BY <1>2, <1>4 DEF AloneInv, AloneOK
  <2> QED BY <1>1, <1>4, <2>1 DEF AloneOK
<1> QED BY <1>3, <1>4 DEF AloneInv

LEMMA NextAlone ==
  ASSUME TypeInv, AloneInv, [Next]_vars
  PROVE  AloneInv'
<1> USE DEF database, history
<1>1. CASE \E p \in Payments : Collect(p)
  BY <1>1, SameAlone DEF Collect
<1>2. CASE \E e \in Events : ExpireClaim(e)
  BY <1>2, SameAlone DEF ExpireClaim
<1>3. ASSUME NEW h \in Handlers, NEW e \in Events, ClaimEvent(h, e) PROVE AloneInv'
  BY <1>3, SameAlone, BeginAlone DEF ClaimEvent
<1>4. ASSUME NEW h \in Handlers, NEW op \in Operations \ Events, StartRequest(h, op) PROVE AloneInv'
  BY <1>4, BeginAlone DEF StartRequest
<1>5. CASE UNCHANGED vars
  BY <1>5, SameAlone DEF vars
<1> QED BY <1>1, <1>2, <1>3, <1>4, <1>5, AnswerAlone, TransactionAlone DEF Next

LEMMA InitAlone == Init => AloneInv
<1> SUFFICES ASSUME Init, NEW h \in Handlers PROVE AloneOK(h, tx[h])
  BY DEF AloneInv
<1>1. tx[h].pc = "idle"
  BY DEF Init, IdleTx
<1> QED BY <1>1 DEF AloneOK

\* What a transaction that has been alone commits.
LEMMA AloneCommits ==
  ASSUME TypeInv, AloneInv, NEW h \in Handlers, Answer(h), tx[h].alone, ~tx[h].dead
  PROVE  [org |-> org', sub |-> sub'] = Effect(tx[h].op, [org |-> org, sub |-> sub])
<1> DEFINE t == tx[h]
<1>1. t.op \in Operations \cup {NoOperation}
  BY DEF TypeInv, TypeOK, Tx
<1>2. SubscriptionSet(t) /\ OrgAfter(t) = OrgTarget(t.op)
  BY DEF AloneInv, AloneOK, Answer
<1>3. org' = OrgAfter(t) /\ sub' = [status |-> StatusAfter(t), plan |-> PlanAfter(t)]
  BY DEF Answer, OrgAfter, StatusAfter, PlanAfter
<1> QED BY <1>1, <1>2, <1>3, EffectColumns DEF SubscriptionSet

\* Whatever overlapping requests have left behind, the next one that runs alone
\* brings organization and subscription to what it says.
THEOREM AloneRequestTakesEffect == Spec => AloneTakesEffect
<1> DEFINE A == \A h \in Handlers :
                 Answer(h) /\ tx[h].alone /\ ~tx[h].dead =>
                   [org |-> org', sub |-> sub'] = Effect(tx[h].op, [org |-> org, sub |-> sub])
<1>1. Init => TypeInv /\ AloneInv
  BY InitTypes, InitAlone
<1>2. TypeInv /\ AloneInv /\ [Next]_vars => (TypeInv /\ AloneInv)'
  BY NextTypes, NextAlone
<1>3. TypeInv /\ AloneInv /\ [Next]_vars => [A]_vars
  BY AloneCommits
<1>4. AloneTakesEffect <=> [][A]_vars
  BY DEF AloneTakesEffect
<1> HIDE DEF A
<1> QED BY <1>1, <1>2, <1>3, <1>4, PTL DEF Spec
=============================================================================
