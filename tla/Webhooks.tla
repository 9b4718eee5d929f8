------------------------------ MODULE Webhooks ------------------------------
(***************************************************************************)
(* Outgoing webhooks: an event is posted to the active webhooks of an      *)
(* organization, and a run of the retry engine posts failed deliveries     *)
(* again until an attempt limit.                                           *)
(*                                                                         *)
(* app/modules/webhooks/service.py, repository.py, models.py, router.py.   *)
(*                                                                         *)
(* An event and a retry run are each one transaction over several          *)
(* deliveries: rows are selected without a lock, each post happens outside *)
(* the database, and its outcome is flushed at once and visible when the   *)
(* caller commits.  A flushed row stays locked until then, and a second    *)
(* writer of it waits.  A rollback, of a caller's error, a crash or a      *)
(* deadlock, undoes every outcome of the transaction and no post.          *)
(***************************************************************************)
EXTENDS Integers, FiniteSets

CONSTANTS
  HookWorkers,    \* transactions of callers of the engine
  Hooks,          \* webhooks of one organization
  Events,
  MaxDeliveries,  \* bound: deliveries created in a behaviour
  MaxRetries,     \* _MAX_RETRIES
  MaxPosts,       \* bound: posts of one delivery in a behaviour
  NoHook

Deliveries == 1..MaxDeliveries

ASSUME WebhooksAssumption ==
  /\ MaxDeliveries \in Nat
  /\ MaxRetries \in Nat \ {0, 1}
  /\ MaxPosts \in Nat \ {0}
  /\ NoHook \notin Hooks

VARIABLES
  hook,      \* webhooks rows
  delivery,  \* webhook_deliveries rows
  engine,    \* the transaction of each worker
  posted,    \* history: how often each delivery was posted
  contested  \* history: deliveries two transactions held at once, or whose post was rolled back

webhooksVars == <<hook, delivery, engine, posted, contested>>

HookRow == [exists : BOOLEAN, active : BOOLEAN, deleted : BOOLEAN, events : SUBSET Events]

NoHookRow == [exists |-> FALSE, active |-> FALSE, deleted |-> FALSE, events |-> {}]

Statuses == {"none", "pending", "retrying", "success", "failed_permanently"}
DeliveryRow == [status : Statuses, hook : Hooks \cup {NoHook}, attempt_count : 0..MaxRetries]

NoDelivery == [status |-> "none", hook |-> NoHook, attempt_count |-> 0]

\* What a transaction did with a delivery: selected it, is waiting to write the answer of
\* a post, or has flushed an outcome.
Outcomes == {"none", "todo", "answered", "refused", "success", "failed", "dropped"}
Flushed == {"success", "failed", "dropped"}

\* fired: the webhooks an event has yet to be posted to.
\* copy: the deliveries as the transaction loaded or inserted them.
Engine == [kind : {"idle", "deliver", "retry"}, fired : SUBSET Hooks,
           copy : [Deliveries -> DeliveryRow], outcome : [Deliveries -> Outcomes]]

IdleEngine == [kind |-> "idle", fired |-> {}, copy |-> [d \in Deliveries |-> NoDelivery],
               outcome |-> [d \in Deliveries |-> "none"]]

WebhooksTypeOK ==
  /\ hook \in [Hooks -> HookRow]
  /\ delivery \in [Deliveries -> DeliveryRow]
  /\ engine \in [HookWorkers -> Engine]
  /\ posted \in [Deliveries -> Nat]
  /\ contested \subseteq Deliveries

WebhooksInit ==
  /\ hook = [h \in Hooks |-> NoHookRow]
  /\ delivery = [d \in Deliveries |-> NoDelivery]
  /\ engine = [w \in HookWorkers |-> IdleEngine]
  /\ posted = [d \in Deliveries |-> 0]
  /\ contested = {}

----------------------------------------------------------------------------
(* Locks *)

Held(w) == {d \in Deliveries : engine[w].outcome[d] # "none"}

LocksDelivery(w, d) == engine[w].outcome[d] \in Flushed

\* A success writes last_delivery_at and a failure increments failure_count.
LocksHook(w, h) ==
  \E d \in Deliveries :
    engine[w].outcome[d] \in {"success", "failed"} /\ engine[w].copy[d].hook = h

HookFree(h) == \A v \in HookWorkers : ~LocksHook(v, h)

----------------------------------------------------------------------------
(* Webhooks *)

LiveHook(h) == hook[h].exists /\ ~hook[h].deleted

create_webhook(h, active, events) ==
  /\ ~hook[h].exists
  /\ hook' = [hook EXCEPT ![h] = [exists |-> TRUE, active |-> active, deleted |-> FALSE,
                                  events |-> events]]
  /\ UNCHANGED <<delivery, engine, posted, contested>>

update_webhook(h, active, events) ==
  /\ LiveHook(h)
  /\ HookFree(h)
  /\ hook' = [hook EXCEPT ![h].active = active, ![h].events = events]
  /\ UNCHANGED <<delivery, engine, posted, contested>>

delete_webhook(h) ==
  /\ LiveHook(h)
  /\ HookFree(h)
  /\ hook' = [hook EXCEPT ![h].deleted = TRUE]
  /\ UNCHANGED <<delivery, engine, posted, contested>>

----------------------------------------------------------------------------
(* Delivery of an event *)

list_active_for_org_and_event(e) ==
  {h \in Hooks : LiveHook(h) /\ hook[h].active /\ e \in hook[h].events}

\* The rest of the transaction uses the webhooks as they are now.
deliver_webhook(w, e) ==
  /\ engine[w].kind = "idle"
  /\ list_active_for_org_and_event(e) # {}
  /\ engine' = [engine EXCEPT ![w].kind = "deliver",
                              ![w].fired = list_active_for_org_and_event(e)]
  /\ UNCHANGED <<hook, delivery, posted, contested>>

\* The post of the previous delivery has been dealt with.
Ready(w) ==
  \A d \in Deliveries : engine[w].outcome[d] \notin {"answered", "refused"}

Unused(d) ==
  /\ delivery[d].status = "none"
  /\ posted[d] = 0
  /\ \A v \in HookWorkers : d \notin Held(v)

\* The row is inserted, then the body is posted.
_deliver_single(w, h, d, answer) ==
  /\ engine[w].kind = "deliver"
  /\ Ready(w)
  /\ h \in engine[w].fired
  /\ Unused(d)
  /\ engine' = [engine EXCEPT
       ![w].fired = @ \ {h},
       ![w].copy[d] = [status |-> "pending", hook |-> h, attempt_count |-> 1],
       ![w].outcome[d] = answer]
  /\ posted' = [posted EXCEPT ![d] = @ + 1]
  /\ UNCHANGED <<hook, delivery, contested>>

----------------------------------------------------------------------------
(* Retries *)

\* A query that includes the limit.
SelectableAtLimit == {d \in Deliveries : delivery[d].status = "retrying"
                                         /\ delivery[d].attempt_count <= MaxRetries}

\* The query, but for next_retry_at: any of them may be due.
Selectable == {d \in Deliveries : delivery[d].status = "retrying"
                                  /\ delivery[d].attempt_count < MaxRetries}

retry_pending_deliveries(w, due) ==
  /\ engine[w].kind = "idle"
  /\ due # {}
  /\ due \subseteq Selectable
  /\ engine' = [engine EXCEPT
       ![w].kind = "retry",
       ![w].copy = [d \in Deliveries |-> IF d \in due THEN delivery[d] ELSE NoDelivery],
       ![w].outcome = [d \in Deliveries |-> IF d \in due THEN "todo" ELSE "none"]]
  /\ contested' = contested \cup {d \in due : \E v \in HookWorkers \ {w} : d \in Held(v)}
  /\ UNCHANGED <<hook, delivery, posted>>

\* An inactive webhook this transaction has loaded once stays inactive in its session.
LoadedInactive(w, h) ==
  \E d \in Deliveries : engine[w].outcome[d] = "dropped" /\ engine[w].copy[d].hook = h

PostAgain(w, d, answer) ==
  LET h == engine[w].copy[d].hook IN
  /\ engine[w].kind = "retry"
  /\ Ready(w)
  /\ engine[w].outcome[d] = "todo"
  /\ LiveHook(h) /\ hook[h].active
  /\ posted[d] < MaxPosts
  /\ engine' = [engine EXCEPT ![w].outcome[d] = answer]
  /\ posted' = [posted EXCEPT ![d] = @ + 1]
  /\ UNCHANGED <<hook, delivery, contested>>

\* The webhook is gone or inactive: mark_permanently_failed.
DropDelivery(w, d) ==
  LET h == engine[w].copy[d].hook IN
  /\ engine[w].kind = "retry"
  /\ Ready(w)
  /\ engine[w].outcome[d] = "todo"
  /\ ~LiveHook(h) \/ ~hook[h].active \/ LoadedInactive(w, h)
  /\ \A v \in HookWorkers : ~LocksDelivery(v, d)
  /\ engine' = [engine EXCEPT ![w].outcome[d] = "dropped"]
  /\ UNCHANGED <<hook, delivery, posted, contested>>

----------------------------------------------------------------------------
(* Outcomes *)

\* mark_success and the webhook's row, or _handle_delivery_failure: both write the rows
\* of the delivery and of its webhook.
FlushOutcome(w, d) ==
  /\ engine[w].outcome[d] \in {"answered", "refused"}
  /\ \A v \in HookWorkers \ {w} :
       ~LocksDelivery(v, d) /\ ~LocksHook(v, engine[w].copy[d].hook)
  /\ engine' = [engine EXCEPT
       ![w].outcome[d] = IF @ = "answered" THEN "success" ELSE "failed"]
  /\ UNCHANGED <<hook, delivery, posted, contested>>

\* Of a row the transaction inserted every column is written.
Inserted(w, d) == engine[w].copy[d].status = "pending"

\* A retry that counts itself and its failure.
CountedTwice(w, d) ==
  LET copy == engine[w].copy[d] IN
  IF Inserted(w, d)
    THEN [copy EXCEPT !.status = "retrying", !.attempt_count = @ + 1]
    ELSE [delivery[d] EXCEPT !.attempt_count = copy.attempt_count + 2]

\* A failure that writes the status along with the count.
WrittenBack(w, d) ==
  LET copy == engine[w].copy[d] IN
  IF Inserted(w, d)
    THEN [copy EXCEPT !.status = "retrying", !.attempt_count = @ + 1]
    ELSE [delivery[d] EXCEPT !.status = "retrying", !.attempt_count = copy.attempt_count + 1]

\* mark_failed sets the status "retrying", which an updated row had when it was loaded:
\* only the count is written.
mark_failed(w, d) ==
  LET copy == engine[w].copy[d] IN
  IF Inserted(w, d)
    THEN [copy EXCEPT !.status = "retrying", !.attempt_count = @ + 1]
    ELSE [delivery[d] EXCEPT !.attempt_count = copy.attempt_count + 1]

mark_success(w, d) ==
  IF Inserted(w, d) THEN [engine[w].copy[d] EXCEPT !.status = "success"]
                    ELSE [delivery[d] EXCEPT !.status = "success"]

mark_permanently_failed(w, d) ==
  IF Inserted(w, d) THEN [engine[w].copy[d] EXCEPT !.status = "failed_permanently"]
                    ELSE [delivery[d] EXCEPT !.status = "failed_permanently"]

_handle_delivery_failure(w, d) ==
  IF engine[w].copy[d].attempt_count >= MaxRetries
    THEN mark_permanently_failed(w, d)
    ELSE mark_failed(w, d)

Written(w, d) ==
  CASE engine[w].outcome[d] = "success" -> mark_success(w, d)
    [] engine[w].outcome[d] = "failed" -> _handle_delivery_failure(w, d)
    [] engine[w].outcome[d] = "dropped" -> mark_permanently_failed(w, d)
    [] OTHER -> delivery[d]

EndEngine(w) == engine' = [engine EXCEPT ![w] = IdleEngine]

CommitDeliveries(w) ==
  /\ engine[w].kind # "idle"
  /\ engine[w].fired = {}
  /\ \A d \in Held(w) : engine[w].outcome[d] \in Flushed
  /\ delivery' = [d \in Deliveries |-> Written(w, d)]
  /\ EndEngine(w)
  /\ UNCHANGED <<hook, posted, contested>>

RollbackDeliveries(w) ==
  /\ engine[w].kind # "idle"
  /\ EndEngine(w)
  /\ contested' = contested \cup
       {d \in Held(w) : engine[w].outcome[d] \in {"answered", "refused", "success", "failed"}}
  /\ UNCHANGED <<hook, delivery, posted>>

WebhooksNext ==
  \/ \E h \in Hooks, active \in BOOLEAN, events \in SUBSET Events :
       create_webhook(h, active, events) \/ update_webhook(h, active, events)
  \/ \E h \in Hooks : delete_webhook(h)
  \/ \E w \in HookWorkers, e \in Events : deliver_webhook(w, e)
  \/ \E w \in HookWorkers, h \in Hooks, d \in Deliveries, answer \in {"answered", "refused"} :
       _deliver_single(w, h, d, answer)
  \/ \E w \in HookWorkers, due \in SUBSET Deliveries : retry_pending_deliveries(w, due)
  \/ \E w \in HookWorkers, d \in Deliveries :
       \/ \E answer \in {"answered", "refused"} : PostAgain(w, d, answer)
       \/ DropDelivery(w, d)
       \/ FlushOutcome(w, d)
  \/ \E w \in HookWorkers : CommitDeliveries(w) \/ RollbackDeliveries(w)

WebhooksSpec == WebhooksInit /\ [][WebhooksNext]_webhooksVars

----------------------------------------------------------------------------
(* Properties *)

\* A receiver sees one delivery fewer times than _MAX_RETRIES (retry_pending_deliveries
\* selects below the limit and mark_failed counts every failure), unless two runs held
\* the delivery at the same time or a run that posted it was rolled back.
PostsBelowLimit ==
  \A d \in Deliveries \ contested : posted[d] < MaxRetries

\* A delivery recorded as successful is never scheduled for a retry again, even by a run
\* that loaded it before and failed after: mark_failed does not write the status back.
SuccessNotRetried ==
  [][\A d \in Deliveries :
       delivery[d].status = "success" => delivery'[d].status # "retrying"]_webhooksVars
=============================================================================
