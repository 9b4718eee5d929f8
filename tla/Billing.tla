------------------------------ MODULE Billing ------------------------------
(***************************************************************************)
(* The plan of one organization: payments verified by the customer, signed *)
(* events of the payment provider, and plans set by an administrator.      *)
(*                                                                         *)
(* app/modules/billing/service.py with its repository, the claim of        *)
(* webhook events in Redis (infrastructure/redis_client.py), and the calls *)
(* into the partner ledger, which here is one commission per payment that  *)
(* may or may not be due; what makes it due, and churn, are PartnerLedger. *)
(*                                                                         *)
(* A request is one transaction at READ COMMITTED; a transaction writes    *)
(* the columns that differ from what it has read, holds the row locks of   *)
(* its writes until it ends, and the others see them once it has           *)
(* committed.  The claim is not part of the transaction.                   *)
(***************************************************************************)
EXTENDS Naturals, FiniteSets

CONSTANTS
  Handlers,     \* API processes handling a request
  Payments,     \* payment references of the organization
  PlanNamed,    \* the plan name in the metadata of each payment
  CreatedName,  \* the plan name in subscription.create
  PaidPlans,
  Starter,      \* the plan that stands for an unknown name
  AdminPlans,   \* plan names administrators enter; nothing validates them
  MaxRequests,  \* bound: requests started in a behaviour
  MaxExpiries   \* bound: claims whose 24 hours pass

Free == "free"
Plans == PaidPlans \cup {Free}
OrganizationPlans == Plans \cup AdminPlans

\* Provider events, as _webhook_event_id tells them apart.
Events == ({"charge", "refund"} \X Payments) \cup ({"subscription"} \X {"create", "disable"})

Operations == Events \cup ({"verify"} \X Payments) \cup ({"override"} \X AdminPlans)

NoOperation == <<"verify", "nothing">>

ASSUME BillingAssumption ==
  /\ Starter \in PaidPlans
  /\ IsFiniteSet(Handlers)
  /\ NoOperation[2] \notin Payments
  /\ MaxRequests \in Nat
  /\ MaxExpiries \in Nat

VARIABLES
  collected,   \* payments the provider reports as successful
  org,         \* organizations.plan
  sub,         \* the subscriptions row
  commission,  \* the commission of each payment
  claims,      \* event keys in Redis
  tx,          \* the request each handler works on
  \* history
  requests,    \* requests started
  expiries,    \* claims of an event that expired
  applied,     \* committed transactions of an event
  skipped,     \* events answered as duplicates
  provisioned  \* payments whose plan a transaction committed

vars == <<collected, org, sub, commission, claims, tx,
          requests, expiries, applied, skipped, provisioned>>

----------------------------------------------------------------------------
SubscriptionRow == [status : {"none", "active", "inactive"}, plan : Plans]
NoSubscription == [status |-> "none", plan |-> Free]

\* wrote: columns written and not yet committed ("row" is an INSERT);
\* dead: the database has aborted the transaction behind a swallowed exception;
\* alone: no other request has been in progress since this one began.
Tx == [pc : {"idle", "claimed", "verified", "orgRead", "subRead", "subWritten",
             "planned", "ready"},
       op : Operations \cup {NoOperation},
       seenOrg : OrganizationPlans, seenSub : SubscriptionRow,
       wrote : SUBSET {"row", "plan", "status", "org", "recorded", "reversed"},
       dead : BOOLEAN, alone : BOOLEAN]

IdleTx == [pc |-> "idle", op |-> NoOperation, seenOrg |-> Free, seenSub |-> NoSubscription,
           wrote |-> {}, dead |-> FALSE, alone |-> FALSE]

TypeOK ==
  /\ collected \subseteq Payments
  /\ org \in OrganizationPlans
  /\ sub \in SubscriptionRow
  /\ commission \in [Payments -> {"none", "recorded", "reversed"}]
  /\ claims \subseteq Events
  /\ tx \in [Handlers -> Tx]
  /\ requests \in 0..MaxRequests
  /\ expiries \in [Events -> 0..MaxExpiries]
  /\ applied \in [Events -> Nat]
  /\ skipped \subseteq Events
  /\ provisioned \subseteq Payments

Init ==
  /\ collected = {}
  /\ org = Free
  /\ sub = NoSubscription
  /\ commission = [p \in Payments |-> "none"]
  /\ claims = {}
  /\ tx = [h \in Handlers |-> IdleTx]
  /\ requests = 0
  /\ expiries = [e \in Events |-> 0]
  /\ applied = [e \in Events |-> 0]
  /\ skipped = {}
  /\ provisioned = {}

database == <<org, sub, commission>>
history == <<requests, expiries, applied, skipped, provisioned>>

----------------------------------------------------------------------------
(* Operations *)

Pays(op) == op[1] \in {"charge", "verify"} /\ op # NoOperation
Refunds(op) == op[1] = "refund"
Creates(op) == op = <<"subscription", "create">>
Disables(op) == op = <<"subscription", "disable">>
Overrides(op) == op[1] = "override"

\* Faulty: the name as the provider sends it.
FaultyNormalizedPlan(name) == name

\* _normalized_plan.
NormalizedPlan(name) == IF name \in Plans THEN name ELSE Starter

\* The plan an operation gives the organization.
PlanFor(op) ==
  CASE Pays(op) -> NormalizedPlan(PlanNamed[op[2]])
    [] Creates(op) -> NormalizedPlan(CreatedName)
    [] Overrides(op) -> op[2]
    [] OTHER -> Free

StatusFor(op) == IF Disables(op) THEN "inactive" ELSE "active"

\* What an operation does to the plan when nothing else runs.
Effect(op, state) ==
  CASE Pays(op) \/ Creates(op) ->
         [org |-> PlanFor(op), sub |-> [status |-> "active", plan |-> PlanFor(op)]]
    [] Disables(op) /\ state.sub.status # "none" ->
         [org |-> Free, sub |-> [state.sub EXCEPT !.status = "inactive"]]
    [] Overrides(op) -> [state EXCEPT !.org = op[2]]
    [] OTHER -> state

\* Another transaction has written one of these columns of a row they share.
Locked(h, columns) == \E g \in Handlers \ {h} : tx[g].wrote \cap columns # {}

SubscriptionColumns == {"row", "plan", "status"}

\* Another transaction has written the commission of the payment p.
CommissionLocked(h, p, writes) ==
  \E g \in Handlers \ {h} : tx[g].wrote \cap writes # {} /\ tx[g].op[2] = p

----------------------------------------------------------------------------
(* The start of a request *)

\* The request of a member loads the organization before its handler runs.
Begin(h, op) ==
  LET busy == {g \in Handlers : tx[g].pc # "idle"}
      begun == [IdleTx EXCEPT !.pc = "claimed", !.op = op, !.alone = busy = {},
                              !.seenOrg = IF op[1] = "verify" THEN org ELSE Free]
  IN /\ requests' = requests + 1
     /\ tx' = [g \in Handlers |-> IF g = h THEN begun ELSE [tx[g] EXCEPT !.alone = FALSE]]

\* A customer pays at the provider.
Collect(p) ==
  /\ p \notin collected
  /\ collected' = collected \cup {p}
  /\ UNCHANGED <<claims, tx>> /\ UNCHANGED database /\ UNCHANGED history

Sent(e) == e[1] \in {"charge", "refund"} => e[2] \in collected

\* Faulty: a failed SET NX lets the event through.
FaultyClaimEvent(h, e) ==
  /\ tx[h].pc = "idle" /\ requests < MaxRequests /\ Sent(e)
  /\ \/ /\ e \notin claims
        /\ claims' = claims \cup {e}
        /\ Begin(h, e)
        /\ UNCHANGED skipped
     \/ /\ e \in claims
        /\ requests' = requests + 1
        /\ skipped' = skipped \cup {e}
        /\ UNCHANGED <<claims, tx>>
     \/ /\ claims' \in {claims, claims \cup {e}}
        /\ Begin(h, e)
        /\ UNCHANGED skipped
  /\ UNCHANGED <<collected, expiries, applied, provisioned>> /\ UNCHANGED database

\* handle_webhook, for a first delivery, a retry or a duplicate: the claim.
\* safe_redis_set_nx answers False when the key exists and when Redis fails,
\* with the key set or not; both are answered as duplicates.
ClaimEvent(h, e) ==
  /\ tx[h].pc = "idle" /\ requests < MaxRequests /\ Sent(e)
  /\ \/ /\ e \notin claims
        /\ claims' = claims \cup {e}
        /\ Begin(h, e)
        /\ UNCHANGED skipped
     \/ /\ claims' \in {claims, claims \cup {e}}
        /\ requests' = requests + 1
        /\ skipped' = skipped \cup {e}
        /\ UNCHANGED tx
  /\ UNCHANGED <<collected, expiries, applied, provisioned>> /\ UNCHANGED database

\* The claim's TTL of 24 hours ends.
ExpireClaim(e) ==
  /\ e \in claims /\ expiries[e] < MaxExpiries
  /\ claims' = claims \ {e}
  /\ expiries' = [expiries EXCEPT ![e] = @ + 1]
  /\ UNCHANGED <<collected, tx, requests, applied, skipped, provisioned>>
  /\ UNCHANGED database

\* POST /billing/verify, and an administrator's change of the plan.
StartRequest(h, op) ==
  /\ tx[h].pc = "idle" /\ requests < MaxRequests
  /\ Begin(h, op)
  /\ UNCHANGED <<collected, claims, expiries, applied, skipped, provisioned>>
  /\ UNCHANGED database

----------------------------------------------------------------------------
(* The transaction *)

Step(h, t) ==
  /\ tx' = [tx EXCEPT ![h] = t]
  /\ UNCHANGED <<collected, claims>> /\ UNCHANGED database /\ UNCHANGED history

\* GET /transaction/verify at the provider.
AskProvider(h) ==
  /\ tx[h].pc = "claimed" /\ Pays(tx[h].op)
  /\ Step(h, IF tx[h].op[2] \in collected THEN [tx[h] EXCEPT !.pc = "verified"]
             ELSE [tx[h] EXCEPT !.pc = "ready", !.op = NoOperation])

\* The organization; subscription.disable finds it through the customer code of
\* its subscription, and goes on to the churn without one.  The object a member's
\* request has already loaded is not refreshed.
ReadOrg(h) ==
  LET found == Disables(tx[h].op) => sub.status # "none"
  IN /\ \/ tx[h].pc = "verified"
        \/ tx[h].pc = "claimed" /\ ~Pays(tx[h].op) /\ ~Refunds(tx[h].op)
     /\ Step(h, [tx[h] EXCEPT !.pc = IF ~found THEN "planned"
                                     ELSE IF Overrides(tx[h].op) THEN "subWritten" ELSE "orgRead",
                              !.seenOrg = IF tx[h].op[1] = "verify" THEN @ ELSE org])

ReadSubscription(h) ==
  /\ tx[h].pc = "orgRead"
  /\ Step(h, [tx[h] EXCEPT !.pc = "subRead", !.seenSub = sub])

\* create_subscription or update_subscription.  A row inserted meanwhile makes
\* the INSERT fail (Fail).
WriteSubscription(h) ==
  LET seen == tx[h].seenSub
      op == tx[h].op
      changed == IF seen.status = "none" THEN {"row"}
                 ELSE {c \in {"plan", "status"} :
                         \/ c = "plan" /\ ~Disables(op) /\ seen.plan # PlanFor(op)
                         \/ c = "status" /\ seen.status # StatusFor(op)}
  IN /\ tx[h].pc = "subRead"
     /\ changed # {} => ~Locked(h, SubscriptionColumns)
     /\ "row" \in changed => sub.status = "none"
     /\ Step(h, [tx[h] EXCEPT !.pc = "subWritten", !.wrote = @ \cup changed])

\* Faulty: the organization is left alone when its subscription has the plan.
FaultyWriteOrg(h) ==
  LET changed == IF PlanFor(tx[h].op) \in {tx[h].seenOrg, tx[h].seenSub.plan} THEN {} ELSE {"org"}
  IN /\ tx[h].pc = "subWritten"
     /\ ~Locked(h, changed)
     /\ Step(h, [tx[h] EXCEPT !.pc = "planned", !.wrote = @ \cup changed])

\* OrganizationRepository.update.
WriteOrg(h) ==
  LET changed == IF tx[h].seenOrg # PlanFor(tx[h].op) THEN {"org"} ELSE {}
  IN /\ tx[h].pc = "subWritten"
     /\ ~Locked(h, changed)
     /\ Step(h, [tx[h] EXCEPT !.pc = "planned", !.wrote = @ \cup changed])

\* Faulty: the commission is written in a session of its own.
FaultyRecordPayment(h) ==
  LET p == tx[h].op[2]
  IN /\ tx[h].pc = "planned" /\ Pays(tx[h].op)
     /\ commission' = IF commission[p] = "none" THEN [commission EXCEPT ![p] = "recorded"]
                      ELSE commission
     /\ tx' = [tx EXCEPT ![h].pc = "ready"]
     /\ UNCHANGED <<collected, claims, org, sub>> /\ UNCHANGED history

\* Faulty: only a live commission counts as an existing one.
FaultyExists(p) == commission[p] = "recorded"

\* get_by_billing_event: a commission of the payment, whatever its status.
Exists(p) == commission[p] # "none"

\* _record_partner_commission: nothing when the payment earns none or has its
\* commission; a database error is swallowed and leaves the transaction dead
\* (so does the unique index, when a concurrent delivery commits first).
RecordPayment(h) ==
  LET p == tx[h].op[2]
  IN /\ tx[h].pc = "planned" /\ Pays(tx[h].op)
     /\ \/ Step(h, [tx[h] EXCEPT !.pc = "ready"])
        \/ /\ ~Exists(p) /\ ~CommissionLocked(h, p, {"recorded"})
           /\ Step(h, [tx[h] EXCEPT !.pc = "ready", !.wrote = @ \cup {"recorded"}])
        \/ Step(h, [tx[h] EXCEPT !.pc = "ready", !.dead = TRUE])

\* _reverse_partner_commissions, which swallows errors too.
ReversePayment(h) ==
  LET p == tx[h].op[2]
      due == commission[p] = "recorded"
  IN /\ tx[h].pc = "claimed" /\ Refunds(tx[h].op)
     /\ \/ ~due /\ Step(h, [tx[h] EXCEPT !.pc = "ready"])
        \/ /\ due /\ ~CommissionLocked(h, p, {"reversed"})
           /\ Step(h, [tx[h] EXCEPT !.pc = "ready", !.wrote = @ \cup {"reversed"}])
        \/ Step(h, [tx[h] EXCEPT !.pc = "ready", !.dead = TRUE])

\* After the plan: nothing for a created subscription; an administrator's history
\* row; _handle_partner_churn of a disabled subscription, which swallows errors.
Finish(h) ==
  /\ tx[h].pc = "planned" /\ ~Pays(tx[h].op)
  /\ \E dead \in {FALSE, Disables(tx[h].op)} :
       Step(h, [tx[h] EXCEPT !.pc = "ready", !.dead = dead])

\* The request answers 200.  A dead transaction is not committed.
Answer(h) ==
  LET op == tx[h].op
      wrote == tx[h].wrote
      p == op[2]
  IN /\ tx[h].pc = "ready"
     /\ tx' = [tx EXCEPT ![h] = IdleTx]
     /\ UNCHANGED <<collected, claims, requests, expiries, skipped>>
     /\ IF tx[h].dead
        THEN UNCHANGED database /\ UNCHANGED <<applied, provisioned>>
        ELSE /\ org' = IF "org" \in wrote THEN PlanFor(op) ELSE org
             /\ sub' = [status |-> IF wrote \cap {"row", "status"} # {} THEN StatusFor(op)
                                   ELSE sub.status,
                        plan |-> IF wrote \cap {"row", "plan"} # {} THEN PlanFor(op)
                                 ELSE sub.plan]
             /\ commission' = CASE "recorded" \in wrote -> [commission EXCEPT ![p] = "recorded"]
                                [] "reversed" \in wrote -> [commission EXCEPT ![p] = "reversed"]
                                [] OTHER -> commission
             /\ applied' = IF op \in Events THEN [applied EXCEPT ![op] = @ + 1] ELSE applied
             /\ provisioned' = IF Pays(op) THEN provisioned \cup {p} ELSE provisioned

\* Provider or database error, lost connection, crash: rolled back, and the
\* claim stays in Redis.
Fail(h) ==
  /\ tx[h].pc # "idle"
  /\ Step(h, IdleTx)

----------------------------------------------------------------------------
Next ==
  \/ \E p \in Payments : Collect(p)
  \/ \E e \in Events : ExpireClaim(e)
  \/ \E h \in Handlers :
       \/ \E e \in Events : ClaimEvent(h, e)
       \/ \E op \in Operations \ Events : StartRequest(h, op)
       \/ AskProvider(h)
       \/ ReadOrg(h)
       \/ ReadSubscription(h)
       \/ WriteSubscription(h)
       \/ WriteOrg(h)
       \/ RecordPayment(h)
       \/ ReversePayment(h)
       \/ Finish(h)
       \/ Answer(h)
       \/ Fail(h)

Spec == Init /\ [][Next]_vars

----------------------------------------------------------------------------
(* What billing promises *)

\* FIX 31: Paystack retries never double-process an event within the lifetime
\* of its claim, however deliveries overlap and fail.
AppliedOncePerClaim == \A e \in Events : applied[e] <= 1 + expiries[e]

\* verify_transaction: a commission exists only for a payment whose plan was
\* provisioned by a transaction that committed.
CreditedWasProvisioned == \A p \in Payments : commission[p] # "none" => p \in provisioned

\* record_payment: the charge of a refunded payment can be delivered and verified
\* any number of times, before, during and after the refund, and no transaction
\* brings its commission back.  (A payout that settles it is PartnerLedger's.)
NotRecordedAgain ==
  [][\A p \in Payments : commission[p] = "reversed" => commission'[p] = "reversed"]_vars

\* verify_transaction, _upsert_ and _disable_webhook_subscription, override_plan:
\* a request that ran alone leaves both tables as its operation says, whatever
\* disagreement earlier requests left, although it writes only the columns that
\* differ from what it has read.
AloneTakesEffect ==
  [][\A h \in Handlers :
       Answer(h) /\ tx[h].alone /\ ~tx[h].dead =>
         [org |-> org', sub |-> sub'] = Effect(tx[h].op, [org |-> org, sub |-> sub])]_vars

\* The docstring of _claim_webhook_event: Redis failures fail open "rather than
\* dropping payments".  An event answered as a duplicate has been processed or
\* is being processed.
NoEventDropped ==
  \A e \in skipped : applied[e] > 0 \/ \E h \in Handlers : tx[h].op = e
=============================================================================
