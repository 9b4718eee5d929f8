--------------------------- MODULE PlatformProofs ---------------------------
(***************************************************************************)
(* Theorems about Idempotency, Tenancy, AdminConsole, ApiKeys and Webhooks *)
(* for any number of workers, keys, organizations, users, campaigns,       *)
(* tickets and deliveries, and about the platform they make up with        *)
(* Sessions.                                                               *)
(***************************************************************************)
EXTENDS MCPlatform, SessionsProofs, FiniteSetTheorems, TLAPS

----------------------------------------------------------------------------
(* Idempotency: the inductive invariant *)

\* A worker that is not idle serves a key; a handler that runs without the lock, or is
\* about to, raised once.
RequestsOK ==
  \A w \in HttpWorkers :
    /\ ~At(w, "idle") => request[w].key \in Keys
    /\ request[w].step \in {"raised", "fallback"} => request[w].key \in faulty

\* The lock of a key without a fault is set while a worker holds it, and only one does.
LocksOK ==
  \A w \in HttpWorkers, k \in Keys \ faulty :
    Holding(w, k) =>
      /\ k \in locked
      /\ \A v \in HttpWorkers \ {w} : ~Holding(v, k)

IdempotencyInv ==
  /\ IdempotencyTypeOK
  /\ RequestsOK
  /\ LocksOK

----------------------------------------------------------------------------
(* Idempotency: it holds *)

\* Initially every worker is idle.
LEMMA IdempotencyInitOK == IdempotencyInit => IdempotencyInv
BY IdempotencyAssumption
   DEF IdempotencyInit, IdempotencyInv, IdempotencyTypeOK, RequestsOK, LocksOK, At, Holding,
       Free, Steps

\* A step of one request.
LEMMA RequestPreserves ==
  ASSUME IdempotencyInv, NEW w \in HttpWorkers,
         \/ \E k \in Keys : CacheMiss(w, k)
         \/ safe_redis_set_nx(w)
         \/ InFlight(w)
         \/ \E c \in BOOLEAN : HandlerAnswers(w, c)
         \/ HandlerRaises(w)
         \/ ReleaseLock(w)
         \/ safe_redis_setex(w)
         \/ FallbackEnds(w)
         \/ Crash(w)
  PROVE  IdempotencyInv'
<1> USE IdempotencyAssumption
    DEF IdempotencyInv, RequestsOK, LocksOK, At, Goto, Finish, Free, Holding,
        IdempotencyTypeOK, Steps
<1>1. ASSUME NEW k \in Keys, CacheMiss(w, k) PROVE IdempotencyInv'
  BY <1>1 DEF CacheMiss
<1>2. CASE safe_redis_set_nx(w)
  BY <1>2 DEF safe_redis_set_nx
<1>3. CASE InFlight(w)
  BY <1>3 DEF InFlight
<1>4. ASSUME NEW c \in BOOLEAN, HandlerAnswers(w, c) PROVE IdempotencyInv'
  <2>1. request[w] \in [step : Steps, key : Keys \cup {NoKey}, cacheable : BOOLEAN]
    OBVIOUS
  <2>2. /\ request[w].step = "running"
        /\ request' = [request EXCEPT ![w] =
             [step |-> "answered", key |-> request[w].key, cacheable |-> c]]
        /\ UNCHANGED <<cached, locked, faulty>>
    BY <1>4 DEF HandlerAnswers
  <2>3. IdempotencyTypeOK'
    BY <2>1, <2>2
  <2>4. RequestsOK' /\ LocksOK'
    BY <2>2
  <2>5. QED
    BY <2>3, <2>4
<1>5. CASE HandlerRaises(w)
  <2>1. request[w].key \in Keys /\ request[w] \in [step : Steps, key : Keys \cup {NoKey},
                                                 cacheable : BOOLEAN]
    BY <1>5 DEF HandlerRaises
  <2>2. faulty' = faulty \cup {request[w].key} /\ UNCHANGED <<cached, locked>>
    BY <1>5 DEF HandlerRaises
  <2>3. request' = [request EXCEPT ![w].step = "raised"]
    BY <1>5 DEF HandlerRaises
  <2>4. IdempotencyTypeOK'
    BY <2>1, <2>2, <2>3
  <2>5. RequestsOK'
    BY <2>1, <2>2, <2>3
  <2>6. LocksOK'
    BY <1>5, <2>1, <2>2, <2>3 DEF HandlerRaises
  <2>7. QED
    BY <2>4, <2>5, <2>6
<1>6. CASE ReleaseLock(w)
  <2>1. /\ locked' = locked \ {request[w].key} \/ locked' = locked
        /\ request[w].step \in {"answered", "raised"}
        /\ UNCHANGED <<cached, faulty>>
    BY <1>6 DEF ReleaseLock
  <2>2. \/ request[w].step = "raised" /\ request' = [request EXCEPT ![w].step = "fallback"]
        \/ request' = [request EXCEPT ![w].step = "caching"]
        \/ request' = [request EXCEPT ![w] = Free]
    BY <1>6 DEF ReleaseLock
  <2>3. IdempotencyTypeOK'
    <3>1. request[w] \in [step : Steps, key : Keys \cup {NoKey}, cacheable : BOOLEAN]
      OBVIOUS
    <3>2. CASE request' = [request EXCEPT ![w].step = "fallback"]
      BY <2>1, <3>1, <3>2
    <3>3. CASE request' = [request EXCEPT ![w].step = "caching"]
      BY <2>1, <3>1, <3>3
    <3>4. CASE request' = [request EXCEPT ![w] = Free]
      BY <2>1, <3>4
    <3>5. QED
      BY <2>2, <3>2, <3>3, <3>4
  <2>8. \A v \in HttpWorkers \ {w} : request'[v] = request[v]
    BY <2>2
  <2>9. \/ request'[w] = Free
        \/ /\ request'[w].step \in {"fallback", "caching"}
           /\ request'[w].step = "fallback" => request[w].step = "raised"
           /\ request'[w].key = request[w].key
    <3>1. CASE request' = [request EXCEPT ![w].step = "fallback"]
      <4>1. request[w].step = "raised"
        BY <1>6, <3>1 DEF ReleaseLock
      <4>2. QED
        BY <3>1, <4>1
    <3>2. CASE request' = [request EXCEPT ![w].step = "caching"]
      BY <3>2
    <3>3. CASE request' = [request EXCEPT ![w] = Free]
      BY <3>3
    <3>4. QED
      BY <2>2, <3>1, <3>2, <3>3
  <2>10. RequestsOK'
    BY <2>1, <2>8, <2>9
  <2>4. \A v \in HttpWorkers, k \in Keys :
           (Holding(v, k))' => v # w /\ Holding(v, k)
    BY <2>1, <2>2
  <2>5. \A v \in HttpWorkers \ {w} : Holding(v, request[w].key) => request[w].key \in faulty
    BY <2>1
  <2>6. LocksOK'
    BY <2>1, <2>4, <2>5
  <2>7. QED
    BY <2>3, <2>10, <2>6
<1>7. CASE safe_redis_setex(w)
  BY <1>7 DEF safe_redis_setex
<1>8. CASE FallbackEnds(w)
  BY <1>8 DEF FallbackEnds
<1>9. CASE Crash(w)
  BY <1>9 DEF Crash
<1>10. QED
  BY <1>1, <1>2, <1>3, <1>4, <1>5, <1>6, <1>7, <1>8, <1>9

\* A lock or a cached response expires.
LEMMA ExpiryPreserves ==
  ASSUME IdempotencyInv, NEW k \in Keys, LockExpires(k) \/ ResponseExpires(k)
  PROVE  IdempotencyInv'
BY IdempotencyAssumption
   DEF IdempotencyInv, IdempotencyTypeOK, RequestsOK, LocksOK, At, Holding, LockExpires,
       ResponseExpires, Steps

\* The invariant holds throughout: every step of a request and every expiry keeps it.
THEOREM IdempotencyInvariant == IdempotencySpec => []IdempotencyInv
<1>1. IdempotencyInv /\ [IdempotencyNext]_idempotencyVars => IdempotencyInv'
  <2> SUFFICES ASSUME IdempotencyInv, [IdempotencyNext]_idempotencyVars
               PROVE  IdempotencyInv'
    OBVIOUS
  <2>1. CASE IdempotencyNext
    BY <2>1, RequestPreserves, ExpiryPreserves DEF IdempotencyNext
  <2>2. CASE UNCHANGED idempotencyVars
    BY <2>2 DEF idempotencyVars, IdempotencyInv, IdempotencyTypeOK, RequestsOK, LocksOK,
                At, Holding
  <2>3. QED
    BY <2>1, <2>2
<1>2. QED
  BY IdempotencyInitOK, <1>1, PTL DEF IdempotencySpec

\* Type correctness of the middleware (IdempotencyMiddleware.dispatch).
THEOREM IdempotencyTypes == IdempotencySpec => []IdempotencyTypeOK
<1>1. IdempotencyInv => IdempotencyTypeOK
  BY DEF IdempotencyInv
<1>2. QED
  BY IdempotencyInvariant, <1>1, PTL

\* Single flight: the handler runs twice at once for a key only after its lock expired under
\* its holder or its handler raised.
THEOREM SingleFlight == IdempotencySpec => []OverlapNeedsFault
<1>1. IdempotencyInv => OverlapNeedsFault
  BY DEF IdempotencyInv, IdempotencyTypeOK, RequestsOK, LocksOK, OverlapNeedsFault, Executing,
         Holding, At, Steps
<1>2. QED
  BY IdempotencyInvariant, <1>1, PTL

----------------------------------------------------------------------------
(* AdminConsole: the inductive invariant *)

\* What an open request is about.
TargetsOK ==
  \A w \in AdminWorkers :
    /\ adminTx[w].kind = "send" => adminTx[w].target \in Campaigns
    /\ adminTx[w].kind = "publish" => adminTx[w].target \in Notifications
    /\ adminTx[w].kind = "ticket" => adminTx[w].target \in Tickets

Sends(w, c) == adminTx[w].kind = "send" /\ adminTx[w].target = c

\* A campaign that is being sent, by one request, is still a draft.
SendsOK ==
  \A w \in AdminWorkers, c \in Campaigns \ raced :
    Sends(w, c) =>
      /\ campaign[c].status = "draft"
      /\ \A v \in AdminWorkers \ {w} : ~Sends(v, c)

\* Before it is sent it has no recipient, and then the ones it counts, once each.
RecipientsOK ==
  \A c \in Campaigns \ raced :
    IF campaign[c].status = "sent"
      THEN /\ \A u \in Recipients : recipient[c][u] <= 1
           /\ campaign[c].recipient_count = Cardinality({u \in Recipients : recipient[c][u] = 1})
      ELSE /\ \A u \in Recipients : recipient[c][u] = 0
           /\ campaign[c].recipient_count = 0

AdminConsoleInv ==
  /\ AdminConsoleTypeOK
  /\ TargetsOK
  /\ SendsOK
  /\ RecipientsOK

----------------------------------------------------------------------------
(* AdminConsole: it holds *)

\* Initially nothing exists and no request is open.
LEMMA AdminConsoleInitOK == AdminConsoleInit => AdminConsoleInv
BY AdminConsoleAssumption
   DEF AdminConsoleInit, AdminConsoleInv, AdminConsoleTypeOK, TargetsOK, SendsOK, RecipientsOK,
       Sends, IdleAdmin, NoTicket, AdminTx, TicketRow, TicketStatuses

\* A set of users has a number.
LEMMA UsersCounted == \A users \in SUBSET Recipients : Cardinality(users) \in Nat
BY AdminConsoleAssumption, FS_Subset, FS_CardinalityType DEF AdminConsoleAssumption

\* What one more row per user does to a table.
LEMMA RowsAdded ==
  ASSUME NEW Table, NEW table \in [Table -> [Recipients -> Nat]], NEW x \in Table,
         NEW users \in SUBSET Recipients
  PROVE  /\ AddRows(table, x, users) \in [Table -> [Recipients -> Nat]]
         /\ \A y \in Table \ {x} : AddRows(table, x, users)[y] = table[y]
         /\ \A u \in Recipients : AddRows(table, x, users)[x][u] =
              IF u \in users THEN table[x][u] + 1 ELSE table[x][u]
BY DEF AddRows

\* Opening a send.
LEMMA ReadSendPreserves ==
  ASSUME AdminConsoleInv, NEW w \in AdminWorkers, NEW c \in Campaigns, ReadSend(w, c)
  PROVE  AdminConsoleInv'
<1> DEFINE tx == [IdleAdmin EXCEPT !.kind = "send", !.target = c, !.users = reachable]
<1> USE DEF AdminConsoleInv
<1>1. /\ campaign[c].status = "draft"
      /\ adminTx[w].kind = "idle"
      /\ adminTx' = [adminTx EXCEPT ![w] = tx]
      /\ UNCHANGED <<reachable, campaign, recipient, delivered, publishes, ticket>>
  BY DEF ReadSend, OpenAdmin, Sendable
<1>2. /\ raced' \in {raced, raced \cup {c}}
      /\ c \notin raced' => \A v \in AdminWorkers : ~Sends(v, c)
  BY DEF ReadSend, Sends
<1>3. tx \in AdminTx /\ tx.kind = "send" /\ tx.target = c
  BY DEF AdminTx, IdleAdmin, NoTicket, TicketRow, TicketStatuses, AdminConsoleTypeOK
<1>4. AdminConsoleTypeOK'
  BY <1>1, <1>2, <1>3 DEF AdminConsoleTypeOK
<1>5. \A v \in AdminWorkers : adminTx'[v] = IF v = w THEN tx ELSE adminTx[v]
  BY <1>1 DEF AdminConsoleTypeOK
<1>6. TargetsOK'
  BY <1>3, <1>5 DEF TargetsOK
<1>7. SendsOK'
  BY <1>1, <1>2, <1>3, <1>5 DEF SendsOK, Sends
<1>8. RecipientsOK'
  BY <1>1, <1>2 DEF RecipientsOK
<1>9. QED
  BY <1>4, <1>6, <1>7, <1>8

\* Writing one.
LEMMA CommitSendPreserves ==
  ASSUME AdminConsoleInv, NEW w \in AdminWorkers, CommitSend(w)
  PROVE  AdminConsoleInv'
<1> DEFINE c == adminTx[w].target
           users == adminTx[w].users
<1> USE DEF AdminConsoleInv
<1>1. /\ adminTx[w].kind = "send"
      /\ recipient' = AddRows(recipient, c, users)
      /\ campaign' = [campaign EXCEPT ![c] =
           [status |-> "sent", recipient_count |-> Cardinality(users)]]
      /\ adminTx' = [adminTx EXCEPT ![w] = IdleAdmin]
      /\ UNCHANGED <<reachable, delivered, publishes, ticket, raced>>
  BY DEF CommitSend, CloseAdmin
<1>2. c \in Campaigns /\ users \in SUBSET Recipients
  BY <1>1 DEF TargetsOK, AdminConsoleTypeOK, AdminTx
<1>3. Cardinality(users) \in Nat
  BY <1>2, UsersCounted
<1>4. /\ recipient' \in [Campaigns -> [Recipients -> Nat]]
      /\ \A d \in Campaigns \ {c} : recipient'[d] = recipient[d]
      /\ \A u \in Recipients : recipient'[c][u] =
           IF u \in users THEN recipient[c][u] + 1 ELSE recipient[c][u]
  <2>1. recipient \in [Campaigns -> [Recipients -> Nat]]
    BY DEF AdminConsoleTypeOK
  <2> HIDE DEF c, users, AdminConsoleInv
  <2>2. QED
    BY <1>1, <1>2, <2>1, RowsAdded
<1>5. IdleAdmin \in AdminTx /\ IdleAdmin.kind = "idle"
  BY DEF AdminTx, IdleAdmin, NoTicket, TicketRow, TicketStatuses
<1>6. AdminConsoleTypeOK'
  <2>1. campaign' \in [Campaigns -> [status : {"none", "draft", "sent"}, recipient_count : Nat]]
    BY <1>1, <1>2, <1>3 DEF AdminConsoleTypeOK
  <2>2. QED
    BY <1>1, <1>4, <1>5, <2>1 DEF AdminConsoleTypeOK
<1>7. \A v \in AdminWorkers : adminTx'[v] = IF v = w THEN IdleAdmin ELSE adminTx[v]
  BY <1>1 DEF AdminConsoleTypeOK
<1>8. TargetsOK'
  BY <1>5, <1>7 DEF TargetsOK
<1>9. \A d \in Campaigns : campaign'[d] =
        IF d = c THEN [status |-> "sent", recipient_count |-> Cardinality(users)]
                 ELSE campaign[d]
  BY <1>1, <1>2 DEF AdminConsoleTypeOK
<1>10. SendsOK'
  BY <1>1, <1>5, <1>7, <1>9 DEF SendsOK, Sends
<1>11. RecipientsOK'
  <2> SUFFICES ASSUME NEW d \in Campaigns \ raced'
               PROVE  IF campaign'[d].status = "sent"
                        THEN /\ \A u \in Recipients : recipient'[d][u] <= 1
                             /\ campaign'[d].recipient_count =
                                  Cardinality({u \in Recipients : recipient'[d][u] = 1})
                        ELSE /\ \A u \in Recipients : recipient'[d][u] = 0
                             /\ campaign'[d].recipient_count = 0
    BY DEF RecipientsOK
  <2>1. d \notin raced
    BY <1>1
  <2>2. CASE d # c
    <3>1. recipient'[d] = recipient[d] /\ campaign'[d] = campaign[d]
      BY <1>4, <1>9, <2>2
    <3>2. CASE campaign[d].status = "sent"
      BY <2>1, <3>1, <3>2 DEF RecipientsOK
    <3>3. CASE campaign[d].status # "sent"
      BY <2>1, <3>1, <3>3 DEF RecipientsOK
    <3>4. QED
      BY <3>2, <3>3
  <2>3. CASE d = c
    <3>1. campaign[c].status = "draft"
      BY <1>1, <1>2, <2>1, <2>3 DEF SendsOK, Sends
    <3>2. \A u \in Recipients : recipient[c][u] = 0
      BY <1>2, <2>1, <2>3, <3>1 DEF RecipientsOK
    <3>3. \A u \in Recipients : recipient'[c][u] = IF u \in users THEN 1 ELSE 0
      BY <1>4, <3>2
    <3>4. {u \in Recipients : recipient'[c][u] = 1} = users
      BY <1>2, <3>3
    <3>5. campaign'[c] = [status |-> "sent", recipient_count |-> Cardinality(users)]
      BY <1>9, <1>2
    <3>6. QED
      BY <2>3, <3>3, <3>4, <3>5
  <2>4. QED
    BY <2>2, <2>3
<1>12. QED
  BY <1>6, <1>8, <1>10, <1>11

\* A step that touches neither campaigns nor sends and closes or opens another request.
LEMMA OtherRequestPreserves ==
  ASSUME AdminConsoleInv, NEW w \in AdminWorkers, NEW tx \in AdminTx,
         adminTx' = [adminTx EXCEPT ![w] = tx],
         tx.kind # "send",
         tx.kind = "publish" => tx.target \in Notifications,
         tx.kind = "ticket" => tx.target \in Tickets,
         UNCHANGED <<campaign, recipient, raced>>
  PROVE  TargetsOK' /\ SendsOK' /\ RecipientsOK'
<1> USE DEF AdminConsoleInv
<1>1. \A v \in AdminWorkers : adminTx'[v] = IF v = w THEN tx ELSE adminTx[v]
  BY DEF AdminConsoleTypeOK
<1>2. TargetsOK'
  BY <1>1 DEF TargetsOK
<1>3. SendsOK'
  BY <1>1 DEF SendsOK, Sends
<1>4. RecipientsOK'
  BY DEF RecipientsOK
<1>5. QED
  BY <1>2, <1>3, <1>4

\* A step that touches none of them.
LEMMA UntouchedPreserves ==
  ASSUME AdminConsoleInv, UNCHANGED <<campaign, recipient, raced, adminTx>>
  PROVE  TargetsOK' /\ SendsOK' /\ RecipientsOK'
<1> USE DEF AdminConsoleInv
<1>1. TargetsOK' /\ SendsOK'
  BY DEF TargetsOK, SendsOK, Sends
<1>2. RecipientsOK'
  BY DEF RecipientsOK
<1>3. QED
  BY <1>1, <1>2

\* Requests that are given up, publications and tickets.
LEMMA RestPreserves ==
  ASSUME AdminConsoleInv, NEW w \in AdminWorkers,
         \/ AbortAdmin(w)
         \/ \E n \in Notifications : ReadPublish(w, n)
         \/ CommitPublish(w)
         \/ \E t \in Tickets, status \in TicketStatuses : ReadTicket(w, t, status)
         \/ CommitTicket(w)
  PROVE  AdminConsoleInv'
<1> USE DEF AdminConsoleInv
<1>1. IdleAdmin \in AdminTx /\ IdleAdmin.kind = "idle"
  BY DEF AdminTx, IdleAdmin, NoTicket, TicketRow, TicketStatuses
<1>2. CASE AbortAdmin(w)
  <2>1. TargetsOK' /\ SendsOK' /\ RecipientsOK'
    BY <1>1, <1>2, OtherRequestPreserves DEF AbortAdmin, CloseAdmin
  <2>2. QED
    BY <1>1, <1>2, <2>1 DEF AbortAdmin, CloseAdmin, AdminConsoleTypeOK
<1>3. ASSUME NEW n \in Notifications, ReadPublish(w, n) PROVE AdminConsoleInv'
  <2> DEFINE tx == [IdleAdmin EXCEPT !.kind = "publish", !.target = n, !.users = reachable]
  <2>1. tx \in AdminTx /\ tx.kind = "publish" /\ tx.target = n
    BY DEF AdminTx, IdleAdmin, NoTicket, TicketRow, TicketStatuses, AdminConsoleTypeOK
  <2>2. adminTx' = [adminTx EXCEPT ![w] = tx]
    BY <1>3 DEF ReadPublish, OpenAdmin
  <2>3. UNCHANGED <<reachable, campaign, recipient, delivered, ticket, raced>>
    BY <1>3 DEF ReadPublish
  <2> HIDE DEF tx
  <2>4. TargetsOK' /\ SendsOK' /\ RecipientsOK'
    BY <2>1, <2>2, <2>3, OtherRequestPreserves
  <2>5. publishes' \in 0..MaxPublishes
    <3>1. publishes \in 0..MaxPublishes /\ publishes < MaxPublishes /\ publishes' = publishes + 1
      BY <1>3 DEF ReadPublish, AdminConsoleTypeOK
    <3>2. QED
      BY <3>1, AdminConsoleAssumption DEF AdminConsoleAssumption
  <2>6. QED
    BY <2>1, <2>2, <2>3, <2>4, <2>5 DEF AdminConsoleTypeOK
<1>4. CASE CommitPublish(w)
  <2>1. TargetsOK' /\ SendsOK' /\ RecipientsOK'
    BY <1>1, <1>4, OtherRequestPreserves DEF CommitPublish, CloseAdmin
  <2>2. adminTx[w].target \in Notifications /\ adminTx[w].users \in SUBSET Recipients
    BY <1>4 DEF CommitPublish, TargetsOK, AdminConsoleTypeOK, AdminTx
  <2>3. delivered' \in [Notifications -> [Recipients -> Nat]]
    BY <1>4, <2>2, RowsAdded DEF CommitPublish, AdminConsoleTypeOK
  <2>4. QED
    BY <1>1, <1>4, <2>1, <2>3 DEF CommitPublish, CloseAdmin, AdminConsoleTypeOK
<1>5. ASSUME NEW t \in Tickets, NEW status \in TicketStatuses, ReadTicket(w, t, status)
      PROVE  AdminConsoleInv'
  <2> DEFINE tx == [IdleAdmin EXCEPT !.kind = "ticket", !.target = t, !.status = status,
                                     !.loaded = ticket[t]]
  <2>1. tx \in AdminTx /\ tx.kind = "ticket" /\ tx.target = t
    BY DEF AdminTx, IdleAdmin, NoTicket, TicketRow, AdminConsoleTypeOK
  <2>2. /\ adminTx' = [adminTx EXCEPT ![w] = tx]
        /\ UNCHANGED <<reachable, campaign, recipient, delivered, publishes, ticket, raced>>
    BY <1>5 DEF ReadTicket, OpenAdmin
  <2> HIDE DEF tx
  <2>3. TargetsOK' /\ SendsOK' /\ RecipientsOK'
    BY <2>1, <2>2, OtherRequestPreserves
  <2>4. QED
    BY <2>1, <2>2, <2>3 DEF AdminConsoleTypeOK
<1>6. CASE CommitTicket(w)
  <2> DEFINE tx == adminTx[w]
             t == adminTx[w].target
  <2>1. TargetsOK' /\ SendsOK' /\ RecipientsOK'
    BY <1>1, <1>6, OtherRequestPreserves DEF CommitTicket, CloseAdmin
  <2>2. t \in Tickets /\ tx.status \in TicketStatuses
    BY <1>6 DEF CommitTicket, TargetsOK, AdminConsoleTypeOK, AdminTx
  <2>3. ticket' = [ticket EXCEPT
          ![t].status = IF tx.status # tx.loaded.status THEN tx.status ELSE @,
          ![t].resolved_at = @ \/ (tx.status = "resolved" /\ ~tx.loaded.resolved_at)]
    BY <1>6 DEF CommitTicket
  <2>4. ticket' \in [Tickets -> TicketRow]
    BY <2>2, <2>3 DEF TicketRow, AdminConsoleTypeOK
  <2>5. QED
    BY <1>1, <1>6, <2>1, <2>4 DEF CommitTicket, CloseAdmin, AdminConsoleTypeOK
<1>7. QED
  BY <1>2, <1>3, <1>4, <1>5, <1>6

\* Users change, campaigns and tickets are created.
LEMMA CreationPreserves ==
  ASSUME AdminConsoleInv,
         \/ \E u \in Recipients : UserChanges(u)
         \/ \E c \in Campaigns : create_campaign(c)
         \/ \E t \in Tickets : create_ticket(t)
  PROVE  AdminConsoleInv'
<1> USE DEF AdminConsoleInv
<1>1. ASSUME NEW u \in Recipients, UserChanges(u) PROVE AdminConsoleInv'
  <2>1. TargetsOK' /\ SendsOK' /\ RecipientsOK'
    BY <1>1, UntouchedPreserves DEF UserChanges
  <2>2. AdminConsoleTypeOK'
    BY <1>1 DEF UserChanges, AdminConsoleTypeOK
  <2>3. QED
    BY <2>1, <2>2
<1>2. ASSUME NEW c \in Campaigns, create_campaign(c) PROVE AdminConsoleInv'
  <2>1. /\ campaign[c].status = "none"
        /\ campaign' = [campaign EXCEPT ![c].status = "draft"]
        /\ UNCHANGED <<reachable, recipient, delivered, publishes, ticket, adminTx, raced>>
    BY <1>2 DEF create_campaign
  <2>2. AdminConsoleTypeOK'
    BY <2>1 DEF AdminConsoleTypeOK
  <2>3. /\ campaign'[c].status = "draft"
        /\ campaign'[c].recipient_count = campaign[c].recipient_count
        /\ \A d \in Campaigns \ {c} : campaign'[d] = campaign[d]
    BY <2>1 DEF AdminConsoleTypeOK
  <2>4. TargetsOK' /\ SendsOK' /\ RecipientsOK'
    BY <2>1, <2>3 DEF TargetsOK, SendsOK, RecipientsOK, Sends
  <2>5. QED
    BY <2>2, <2>4
<1>3. ASSUME NEW t \in Tickets, create_ticket(t) PROVE AdminConsoleInv'
  <2>1. /\ ticket' = [ticket EXCEPT ![t].exists = TRUE]
        /\ UNCHANGED <<reachable, campaign, recipient, delivered, publishes, adminTx, raced>>
    BY <1>3 DEF create_ticket
  <2>2. ticket' \in [Tickets -> TicketRow]
    BY <2>1 DEF AdminConsoleTypeOK, TicketRow
  <2>3. TargetsOK' /\ SendsOK' /\ RecipientsOK'
    BY <2>1, UntouchedPreserves
  <2>4. QED
    BY <2>1, <2>2, <2>3 DEF AdminConsoleTypeOK
<1>4. QED
  BY <1>1, <1>2, <1>3

\* The invariant holds throughout: by cases on the step, of which only sends touch campaigns
\* and their recipients.
THEOREM AdminConsoleInvariant == AdminConsoleSpec => []AdminConsoleInv
<1>1. AdminConsoleInv /\ [AdminConsoleNext]_adminVars => AdminConsoleInv'
  <2> SUFFICES ASSUME AdminConsoleInv, [AdminConsoleNext]_adminVars
               PROVE  AdminConsoleInv'
    OBVIOUS
  <2>1. CASE AdminConsoleNext
    BY <2>1, ReadSendPreserves, CommitSendPreserves, RestPreserves, CreationPreserves
       DEF AdminConsoleNext
  <2>2. CASE UNCHANGED adminVars
    <3>1. TargetsOK' /\ SendsOK' /\ RecipientsOK'
      BY <2>2, UntouchedPreserves DEF adminVars
    <3>2. QED
      BY <2>2, <3>1 DEF adminVars, AdminConsoleInv, AdminConsoleTypeOK
  <2>3. QED
    BY <2>1, <2>2
<1>2. QED
  BY AdminConsoleInitOK, <1>1, PTL DEF AdminConsoleSpec

\* Type correctness of the console's tables and requests.
THEOREM AdminConsoleTypes == AdminConsoleSpec => []AdminConsoleTypeOK
<1>1. AdminConsoleInv => AdminConsoleTypeOK
  BY DEF AdminConsoleInv
<1>2. QED
  BY AdminConsoleInvariant, <1>1, PTL

\* A campaign reaches nobody twice and counts its recipients, unless two sends of it were
\* open at once (send_campaign).
THEOREM CampaignSentOnce == AdminConsoleSpec => []SentOnce
<1>1. AdminConsoleInv => SentOnce
  <2> SUFFICES ASSUME AdminConsoleInv, NEW c \in Campaigns \ raced
               PROVE  /\ \A u \in Recipients : recipient[c][u] <= 1
                      /\ campaign[c].recipient_count =
                           Cardinality({u \in Recipients : recipient[c][u] = 1})
    BY DEF SentOnce
  <2>1. CASE campaign[c].status = "sent"
    BY <2>1 DEF AdminConsoleInv, RecipientsOK
  <2>2. CASE campaign[c].status # "sent"
    <3>1. /\ \A u \in Recipients : recipient[c][u] = 0
          /\ campaign[c].recipient_count = 0
      BY <2>2 DEF AdminConsoleInv, RecipientsOK
    <3>2. {u \in Recipients : recipient[c][u] = 1} = {}
      BY <3>1
    <3>3. QED
      BY <3>1, <3>2, FS_EmptySet
  <2>3. QED
    BY <2>1, <2>2
<1>2. QED
  BY AdminConsoleInvariant, <1>1, PTL

----------------------------------------------------------------------------
(* Tenancy: the inductive invariant *)

\* What an open request is about.
MembershipsOK ==
  \A w \in OrgWorkers :
    /\ orgTx[w].kind # "idle" => orgTx[w].org \in Orgs
    /\ orgTx[w].kind \in MembershipKinds \cup {"org"} => orgTx[w].user \in Members
    /\ orgTx[w].kind \in MembershipKinds \cup {"create"} => plan[orgTx[w].org] # Nothing
    /\ orgTx[w].kind \in {"update", "delete"} => orgTx[w].dep \in Deps

OpenMembership(w, o) == orgTx[w].kind \in MembershipKinds /\ orgTx[w].org = o

\* What one membership request at a time saw still holds: the user it restores is no
\* member, and the one it removes leaves an owner.
MembershipOK(w, o) ==
  /\ \A v \in OrgWorkers \ {w} : ~OpenMembership(v, o)
  /\ orgTx[w].kind = "restore" => ~get_member(o, orgTx[w].user)
  /\ orgTx[w].kind = "remove" => Owners(o) \ {orgTx[w].user} # {}

OwnersOK ==
  \A o \in Orgs \ (demoted \cup crowded) :
    /\ plan[o] # Nothing => Owners(o) # {}
    /\ \A w \in OrgWorkers : OpenMembership(w, o) => MembershipOK(w, o)

OpenCreation(w, o) == orgTx[w].kind = "create" /\ orgTx[w].org = o

\* One creation at a time still has the room it saw.
LimitOK ==
  /\ \A d \in Deps : dependency[d].org # Nothing => plan[dependency[d].org] # Nothing
  /\ \A o \in Orgs \ stretched : plan[o] # Nothing =>
       /\ count_for_org(o) <= DepLimit[plan[o]]
       /\ \A w \in OrgWorkers : OpenCreation(w, o) =>
            /\ count_for_org(o) < DepLimit[plan[o]]
            /\ \A v \in OrgWorkers \ {w} : ~OpenCreation(v, o)

TenancyInv ==
  /\ TenancyTypeOK
  /\ MembershipsOK
  /\ OwnersOK
  /\ LimitOK

----------------------------------------------------------------------------
(* Tenancy: it holds *)

\* Initially there is no organization.
LEMMA TenancyInitOK == TenancyInit => TenancyInv
BY TenancyAssumption
   DEF TenancyInit, TenancyInv, TenancyTypeOK, MembershipsOK, OwnersOK, LimitOK, OpenMembership,
       MembershipKinds, IdleOrg, NoMember, NoDep, MemberRow, DepRow, OrgTx, OrgKinds, Roles

\* Dependencies can be counted, and counting follows what is added or taken away.
LEMMA CountOK ==
  /\ \A D \in SUBSET Deps : IsFiniteSet(D) /\ Cardinality(D) \in Nat
  /\ \A D \in SUBSET Deps, d \in Deps :
       /\ Cardinality(D \cup {d}) <= Cardinality(D) + 1
       /\ Cardinality(D \ {d}) <= Cardinality(D)
<1>1. IsFiniteSet(Deps)
  BY TenancyAssumption, FS_Interval DEF Deps, TenancyAssumption
<1>2. \A D \in SUBSET Deps : IsFiniteSet(D) /\ Cardinality(D) \in Nat
  BY <1>1, FS_Subset, FS_CardinalityType
<1>3. ASSUME NEW D \in SUBSET Deps, NEW d \in Deps
      PROVE  Cardinality(D \cup {d}) <= Cardinality(D) + 1 /\ Cardinality(D \ {d}) <= Cardinality(D)
  <2>1. Cardinality(D \cup {d}) = IF d \in D THEN Cardinality(D) ELSE Cardinality(D) + 1
    BY <1>2, FS_AddElement
  <2>2. Cardinality(D \ {d}) = IF d \in D THEN Cardinality(D) - 1 ELSE Cardinality(D)
    BY <1>2, FS_RemoveElement
  <2>3. QED
    BY <1>2, <2>1, <2>2
<1>4. QED
  BY <1>2, <1>3

\* More than one owner is one besides any of them.
LEMMA AnotherOwner ==
  ASSUME NEW o \in Orgs, NEW u \in Members, Cardinality(Owners(o)) > 1
  PROVE  Owners(o) \ {u} # {}
<1> SUFFICES ASSUME Owners(o) \subseteq {u} PROVE FALSE
  OBVIOUS
<1>1. Cardinality({u}) = 1 /\ IsFiniteSet({u})
  BY FS_Singleton
<1>2. Cardinality(Owners(o)) <= 1
  BY <1>1, FS_Subset
<1>3. Cardinality(Owners(o)) \in Nat
  BY <1>1, FS_Subset, FS_CardinalityType
<1>4. QED
  BY <1>2, <1>3

\* A request that opens, or ends, and writes nothing keeps what the tables say.
LEMMA OwnersKept ==
  ASSUME UNCHANGED member, NEW o
  PROVE  Owners(o)' = Owners(o) /\ list_members(o)' = list_members(o)
BY DEF Owners, list_members, get_member

LEMMA CountKept ==
  ASSUME UNCHANGED dependency, NEW o
  PROVE  count_for_org(o)' = count_for_org(o)
BY DEF count_for_org, LiveDeps

\* The limit is kept by a step that writes no plan and no dependency and opens no creation.
LEMMA LimitUntouched ==
  ASSUME TenancyInv, UNCHANGED <<plan, dependency>>, stretched \subseteq stretched',
         \A v \in OrgWorkers, o \in Orgs : OpenCreation(v, o)' => OpenCreation(v, o)
  PROVE  LimitOK'
<1> USE DEF TenancyInv
<1>1. ASSUME NEW d \in Deps, dependency'[d].org # Nothing PROVE plan'[dependency'[d].org] # Nothing
  BY <1>1 DEF LimitOK
<1>2. ASSUME NEW o \in Orgs \ stretched', plan'[o] # Nothing
      PROVE  /\ count_for_org(o)' <= DepLimit[plan'[o]]
             /\ \A w \in OrgWorkers : OpenCreation(w, o)' =>
                  /\ count_for_org(o)' < DepLimit[plan'[o]]
                  /\ \A v \in OrgWorkers \ {w} : ~OpenCreation(v, o)'
  <2>1. o \in Orgs \ stretched /\ plan[o] # Nothing /\ count_for_org(o)' = count_for_org(o)
    BY <1>2, CountKept
  <2>2. /\ count_for_org(o) <= DepLimit[plan[o]]
        /\ \A w \in OrgWorkers : OpenCreation(w, o) =>
             /\ count_for_org(o) < DepLimit[plan[o]]
             /\ \A v \in OrgWorkers \ {w} : ~OpenCreation(v, o)
    BY <2>1 DEF LimitOK
  <2>3. QED
    BY <2>1, <2>2
<1>3. QED
  BY <1>1, <1>2 DEF LimitOK

\* Opening a membership request.
LEMMA MembershipOpens ==
  ASSUME TenancyInv, NEW w \in OrgWorkers, NEW fields \in OrgTx, BeginMembership(w, fields),
         fields.kind \in MembershipKinds, fields.org \in Orgs, fields.user \in Members,
         plan[fields.org] # Nothing,
         fields.kind = "restore" => ~get_member(fields.org, fields.user),
         fields.kind = "remove" /\ Owners(fields.org) # {} =>
           Owners(fields.org) \ {fields.user} # {}
  PROVE  TenancyInv'
<1> USE DEF TenancyInv
<1>1. /\ orgTx[w].kind = "idle"
      /\ orgTx' = [orgTx EXCEPT ![w] = fields]
      /\ crowded' = IF OpenOn(fields.org, MembershipKinds) THEN crowded \cup {fields.org}
                                                           ELSE crowded
      /\ UNCHANGED <<plan, member, dependency, demoted, stretched>>
  BY DEF BeginMembership, BeginOrg
<1>2. \A v \in OrgWorkers : orgTx'[v] = IF v = w THEN fields ELSE orgTx[v]
  BY <1>1 DEF TenancyTypeOK
<1>3. TenancyTypeOK'
  BY <1>1 DEF TenancyTypeOK
<1>4. MembershipsOK'
  BY <1>1, <1>2 DEF MembershipsOK, MembershipKinds
<1>5. fields.org \notin crowded' => \A v \in OrgWorkers : ~OpenMembership(v, fields.org)
  BY <1>1 DEF OpenOn, OpenMembership
<1>6. OwnersOK'
  <2> SUFFICES ASSUME NEW o \in Orgs \ (demoted' \cup crowded')
               PROVE  /\ plan'[o] # Nothing => Owners(o)' # {}
                      /\ \A v \in OrgWorkers : OpenMembership(v, o)' => MembershipOK(v, o)'
    BY DEF OwnersOK
  <2>1. o \in Orgs \ (demoted \cup crowded) /\ Owners(o)' = Owners(o)
    BY <1>1, OwnersKept
  <2>2. plan'[o] # Nothing => Owners(o)' # {}
    BY <1>1, <2>1 DEF OwnersOK
  <2>3. \A u : get_member(o, u)' = get_member(o, u)
    BY <1>1 DEF get_member
  <2>4. ASSUME NEW v \in OrgWorkers, OpenMembership(v, o)' PROVE MembershipOK(v, o)'
    <3>1. CASE o = fields.org
      <4>1. \A x \in OrgWorkers : ~OpenMembership(x, o)
        BY <1>5, <3>1
      <4>2. v = w
        BY <1>2, <2>4, <4>1 DEF OpenMembership
      <4>3. Owners(o) # {}
        BY <2>1, <3>1 DEF OwnersOK
      <4>4. QED
        BY <1>2, <2>1, <2>3, <3>1, <4>1, <4>2, <4>3 DEF MembershipOK, OpenMembership
    <3>2. CASE o # fields.org
      <4>1. v # w /\ OpenMembership(v, o)
        BY <1>2, <2>4, <3>2 DEF OpenMembership
      <4>2. MembershipOK(v, o)
        BY <2>1, <4>1 DEF OwnersOK
      <4>3. QED
        BY <1>2, <2>1, <2>3, <3>2, <4>1, <4>2 DEF MembershipOK, OpenMembership
    <3>3. QED
      BY <3>1, <3>2
  <2>5. QED
    BY <2>2, <2>4
<1>7. LimitOK'
  <2>1. \A v \in OrgWorkers, o \in Orgs : OpenCreation(v, o)' => OpenCreation(v, o)
    BY <1>2 DEF OpenCreation, MembershipKinds
  <2>2. QED
    BY <1>1, <2>1, LimitUntouched
<1>8. QED
  BY <1>3, <1>4, <1>6, <1>7

\* Membership is kept by a step that writes no member, opens no membership request and
\* creates no organization.
LEMMA OwnersUntouched ==
  ASSUME TenancyInv, UNCHANGED member, demoted \subseteq demoted', crowded \subseteq crowded',
         \A o \in Orgs : plan'[o] # Nothing => plan[o] # Nothing,
         \A v \in OrgWorkers : orgTx'[v].kind \in MembershipKinds => orgTx'[v] = orgTx[v]
  PROVE  OwnersOK'
<1> USE DEF TenancyInv
<1> SUFFICES ASSUME NEW o \in Orgs \ (demoted' \cup crowded')
             PROVE  /\ plan'[o] # Nothing => Owners(o)' # {}
                    /\ \A v \in OrgWorkers : OpenMembership(v, o)' => MembershipOK(v, o)'
  BY DEF OwnersOK
<1>1. o \in Orgs \ (demoted \cup crowded) /\ Owners(o)' = Owners(o)
  BY OwnersKept
<1>2. \A u : get_member(o, u)' = get_member(o, u)
  BY DEF get_member
<1>3. \A v \in OrgWorkers : OpenMembership(v, o)' => OpenMembership(v, o) /\ orgTx'[v] = orgTx[v]
  BY DEF OpenMembership
<1>4. plan'[o] # Nothing => Owners(o)' # {}
  BY <1>1 DEF OwnersOK
<1>5. ASSUME NEW v \in OrgWorkers, OpenMembership(v, o)' PROVE MembershipOK(v, o)'
  <2>1. OpenMembership(v, o) /\ orgTx'[v] = orgTx[v]
    BY <1>3, <1>5
  <2>2. MembershipOK(v, o)
    BY <1>1, <2>1 DEF OwnersOK
  <2>3. QED
    BY <1>1, <1>2, <1>3, <2>1, <2>2 DEF MembershipOK
<1>6. QED
  BY <1>4, <1>5

\* An idle request in the table of requests.
LEMMA OrgRequestEnds ==
  ASSUME TenancyTypeOK, NEW w \in OrgWorkers, EndOrg(w)
  PROVE  /\ orgTx' \in [OrgWorkers -> OrgTx]
         /\ orgTx'[w].kind = "idle"
         /\ \A v \in OrgWorkers \ {w} : orgTx'[v] = orgTx[v]
<1>1. IdleOrg \in OrgTx /\ IdleOrg.kind = "idle"
  BY TenancyAssumption DEF IdleOrg, OrgTx, OrgKinds, TenancyAssumption
<1>2. QED
  BY <1>1 DEF EndOrg, TenancyTypeOK

\* A request is given up.
LEMMA AbortPreserves ==
  ASSUME TenancyInv, NEW w \in OrgWorkers, AbortOrg(w)
  PROVE  TenancyInv'
<1> USE DEF TenancyInv
<1>1. /\ orgTx' \in [OrgWorkers -> OrgTx]
      /\ orgTx'[w].kind = "idle"
      /\ \A v \in OrgWorkers \ {w} : orgTx'[v] = orgTx[v]
  BY OrgRequestEnds DEF AbortOrg
<1>2. UNCHANGED <<plan, member, dependency, demoted, crowded, stretched>>
  BY DEF AbortOrg
<1>3. TenancyTypeOK'
  BY <1>1, <1>2 DEF TenancyTypeOK
<1>4. MembershipsOK'
  BY <1>1, <1>2 DEF MembershipsOK, MembershipKinds
<1>5. OwnersOK'
  BY <1>1, <1>2, OwnersUntouched DEF MembershipKinds
<1>6. LimitOK'
  BY <1>1, <1>2, LimitUntouched DEF OpenCreation
<1>7. QED
  BY <1>3, <1>4, <1>5, <1>6

\* Opening a request about an organization or a dependency.
LEMMA OtherOpens ==
  ASSUME TenancyInv, NEW w \in OrgWorkers, NEW fields \in OrgTx, BeginOrg(w, fields),
         fields.kind \in {"org", "update", "delete"}, fields.org \in Orgs,
         fields.kind = "org" => fields.user \in Members,
         fields.kind \in {"update", "delete"} => fields.dep \in Deps,
         UNCHANGED <<plan, member, dependency, demoted, crowded, stretched>>
  PROVE  TenancyInv'
<1> USE DEF TenancyInv
<1>1. orgTx' = [orgTx EXCEPT ![w] = fields]
  BY DEF BeginOrg
<1>2. \A v \in OrgWorkers : orgTx'[v] = IF v = w THEN fields ELSE orgTx[v]
  BY <1>1 DEF TenancyTypeOK
<1>3. TenancyTypeOK'
  BY <1>1 DEF TenancyTypeOK
<1>4. MembershipsOK'
  BY <1>2 DEF MembershipsOK, MembershipKinds
<1>5. OwnersOK'
  BY <1>2, OwnersUntouched DEF MembershipKinds
<1>6. LimitOK'
  BY <1>2, LimitUntouched DEF OpenCreation
<1>7. QED
  BY <1>3, <1>4, <1>5, <1>6

\* An organization is created with its owner.
LEMMA CommitCreateOrgPreserves ==
  ASSUME TenancyInv, NEW w \in OrgWorkers, CommitCreateOrg(w)
  PROVE  TenancyInv'
<1> DEFINE o == orgTx[w].org
           u == orgTx[w].user
           owner == [role |-> "owner", deleted |-> FALSE]
<1> USE DEF TenancyInv
<1>1. /\ orgTx[w].kind = "org"
      /\ plan[o] = Nothing
      /\ plan' = [plan EXCEPT ![o] = FreePlan]
      /\ member' = [member EXCEPT ![o][u] = owner]
      /\ UNCHANGED <<dependency, demoted, crowded, stretched>>
  BY DEF CommitCreateOrg
<1>2. /\ orgTx' \in [OrgWorkers -> OrgTx]
      /\ orgTx'[w].kind = "idle"
      /\ \A v \in OrgWorkers \ {w} : orgTx'[v] = orgTx[v]
  BY OrgRequestEnds DEF CommitCreateOrg
<1>3. o \in Orgs /\ u \in Members
  BY <1>1 DEF MembershipsOK
<1>4. /\ plan' \in [Orgs -> Plans \cup {Nothing}]
      /\ plan'[o] # Nothing
      /\ \A p \in Orgs \ {o} : plan'[p] = plan[p]
  BY <1>1, <1>3, TenancyAssumption DEF TenancyTypeOK, TenancyAssumption
<1>5. owner \in MemberRow
  BY DEF MemberRow, Roles
<1>6. /\ member' \in [Orgs -> [Members -> MemberRow]]
      /\ member'[o][u] = owner
      /\ \A p \in Orgs \ {o} : member'[p] = member[p]
  BY <1>1, <1>3, <1>5 DEF TenancyTypeOK
<1>7. TenancyTypeOK'
  BY <1>1, <1>2, <1>4, <1>6 DEF TenancyTypeOK
<1>8. MembershipsOK'
  BY <1>2, <1>4 DEF MembershipsOK, MembershipKinds
<1>9. \A v \in OrgWorkers : ~OpenMembership(v, o) /\ ~OpenCreation(v, o)
  BY <1>1 DEF MembershipsOK, OpenMembership, OpenCreation
<1>10. \A v \in OrgWorkers, p \in Orgs :
         /\ OpenMembership(v, p)' => OpenMembership(v, p) /\ orgTx'[v] = orgTx[v]
         /\ OpenCreation(v, p)' => OpenCreation(v, p)
  BY <1>2 DEF OpenMembership, OpenCreation, MembershipKinds
<1>11. OwnersOK'
  <2> SUFFICES ASSUME NEW p \in Orgs \ (demoted' \cup crowded')
               PROVE  /\ plan'[p] # Nothing => Owners(p)' # {}
                      /\ \A v \in OrgWorkers : OpenMembership(v, p)' => MembershipOK(v, p)'
    BY DEF OwnersOK
  <2>1. CASE p = o
    <3>1. u \in Owners(p)'
      BY <1>3, <1>6, <2>1 DEF Owners, list_members, get_member
    <3>2. QED
      BY <1>9, <1>10, <2>1, <3>1
  <2>2. CASE p # o
    <3>1. Owners(p)' = Owners(p) /\ \A x : get_member(p, x)' = get_member(p, x)
      BY <1>6, <2>2 DEF Owners, list_members, get_member
    <3>2. plan'[p] # Nothing => Owners(p)' # {}
      BY <1>1, <1>4, <2>2, <3>1 DEF OwnersOK
    <3>3. ASSUME NEW v \in OrgWorkers, OpenMembership(v, p)' PROVE MembershipOK(v, p)'
      <4>1. MembershipOK(v, p)
        BY <1>1, <1>10, <3>3 DEF OwnersOK
      <4>2. QED
        BY <1>10, <3>1, <3>3, <4>1 DEF MembershipOK
    <3>4. QED
      BY <3>2, <3>3
  <2>3. QED
    BY <2>1, <2>2
<1>12. LimitOK'
  <2>1. ASSUME NEW d \in Deps, dependency'[d].org # Nothing
        PROVE  plan'[dependency'[d].org] # Nothing
    BY <1>1, <1>4, <2>1 DEF LimitOK, TenancyTypeOK, DepRow
  <2>2. ASSUME NEW p \in Orgs \ stretched', plan'[p] # Nothing
        PROVE  /\ count_for_org(p)' <= DepLimit[plan'[p]]
               /\ \A x \in OrgWorkers : OpenCreation(x, p)' =>
                    /\ count_for_org(p)' < DepLimit[plan'[p]]
                    /\ \A v \in OrgWorkers \ {x} : ~OpenCreation(v, p)'
    <3>1. count_for_org(p)' = count_for_org(p) /\ p \in Orgs \ stretched
      BY <1>1, CountKept
    <3>2. CASE p = o
      <4>1. LiveDeps(o) = {}
        BY <1>1, <1>3, TenancyAssumption DEF LiveDeps, LimitOK, TenancyAssumption
      <4>2. count_for_org(o) = 0
        BY <4>1, FS_EmptySet DEF count_for_org
      <4>3. DepLimit[plan'[o]] \in Nat
        BY <1>3, <1>4, TenancyAssumption DEF TenancyAssumption
      <4>4. QED
        BY <1>9, <1>10, <3>1, <3>2, <4>2, <4>3
    <3>3. CASE p # o
      <4>1. /\ count_for_org(p) <= DepLimit[plan[p]]
            /\ \A x \in OrgWorkers : OpenCreation(x, p) =>
                 /\ count_for_org(p) < DepLimit[plan[p]]
                 /\ \A v \in OrgWorkers \ {x} : ~OpenCreation(v, p)
        BY <1>4, <2>2, <3>1, <3>3 DEF LimitOK
      <4>2. QED
        BY <1>4, <1>10, <3>1, <3>3, <4>1
    <3>4. QED
      BY <3>2, <3>3
  <2>3. QED
    BY <2>1, <2>2 DEF LimitOK
<1>13. QED
  BY <1>7, <1>8, <1>11, <1>12

\* A membership request writes the members of its organization and leaves it an owner,
\* unless that is excused.
LEMMA MembershipWrites ==
  ASSUME TenancyInv, NEW w \in OrgWorkers, NEW o \in Orgs,
         OpenMembership(w, o), EndOrg(w),
         UNCHANGED <<plan, dependency, crowded, stretched>>,
         demoted \subseteq demoted', demoted' \subseteq Orgs,
         member' \in [Orgs -> [Members -> MemberRow]],
         \A p \in Orgs \ {o} : member'[p] = member[p],
         o \notin demoted' \cup crowded => Owners(o)' # {}
  PROVE  TenancyInv'
<1> USE DEF TenancyInv
<1>1. /\ orgTx' \in [OrgWorkers -> OrgTx]
      /\ orgTx'[w].kind = "idle"
      /\ \A v \in OrgWorkers \ {w} : orgTx'[v] = orgTx[v]
  BY OrgRequestEnds
<1>2. TenancyTypeOK'
  BY <1>1 DEF TenancyTypeOK
<1>3. MembershipsOK'
  BY <1>1 DEF MembershipsOK, MembershipKinds
<1>4. \A v \in OrgWorkers, p \in Orgs :
         OpenMembership(v, p)' => OpenMembership(v, p) /\ v # w /\ orgTx'[v] = orgTx[v]
  BY <1>1 DEF OpenMembership, MembershipKinds
<1>5. OwnersOK'
  <2> SUFFICES ASSUME NEW p \in Orgs \ (demoted' \cup crowded')
               PROVE  /\ plan'[p] # Nothing => Owners(p)' # {}
                      /\ \A v \in OrgWorkers : OpenMembership(v, p)' => MembershipOK(v, p)'
    BY DEF OwnersOK
  <2>1. p \in Orgs \ (demoted \cup crowded)
    OBVIOUS
  <2>2. CASE p = o
    <3>1. \A v \in OrgWorkers \ {w} : ~OpenMembership(v, p)
      BY <2>1, <2>2 DEF OwnersOK, MembershipOK
    <3>2. QED
      BY <1>4, <2>2, <3>1
  <2>3. CASE p # o
    <3>1. Owners(p)' = Owners(p) /\ \A x : get_member(p, x)' = get_member(p, x)
      BY <2>3 DEF Owners, list_members, get_member
    <3>2. plan'[p] # Nothing => Owners(p)' # {}
      BY <2>1, <3>1 DEF OwnersOK
    <3>3. ASSUME NEW v \in OrgWorkers, OpenMembership(v, p)' PROVE MembershipOK(v, p)'
      <4>1. MembershipOK(v, p)
        BY <1>4, <2>1, <3>3 DEF OwnersOK
      <4>2. QED
        BY <1>4, <3>1, <3>3, <4>1 DEF MembershipOK
    <3>4. QED
      BY <3>2, <3>3
  <2>4. QED
    BY <2>2, <2>3
<1>6. LimitOK'
  BY <1>1, LimitUntouched DEF OpenCreation
<1>7. QED
  BY <1>2, <1>3, <1>5, <1>6

\* The row of one member is written.
LEMMA RowWritten ==
  ASSUME TenancyTypeOK, NEW o \in Orgs, NEW u \in Members, NEW row \in MemberRow,
         member' = [member EXCEPT ![o][u] = row]
  PROVE  /\ member' \in [Orgs -> [Members -> MemberRow]]
         /\ \A p \in Orgs \ {o} : member'[p] = member[p]
         /\ member'[o][u] = row
         /\ \A x \in Members \ {u} : member'[o][x] = member[o][x]
         /\ Owners(o) \ {u} \subseteq Owners(o)'
<1>1. /\ member' \in [Orgs -> [Members -> MemberRow]]
      /\ \A p \in Orgs \ {o} : member'[p] = member[p]
      /\ member'[o][u] = row
      /\ \A x \in Members \ {u} : member'[o][x] = member[o][x]
  BY DEF TenancyTypeOK
<1>2. Owners(o) \ {u} \subseteq Owners(o)'
  BY <1>1 DEF Owners, list_members, get_member
<1>3. QED
  BY <1>1, <1>2

\* The commits of the four membership requests.
LEMMA MembershipCommits ==
  ASSUME TenancyInv, NEW w \in OrgWorkers,
         add_member(w) \/ restore_member(w) \/ CommitChangeRole(w) \/ CommitRemoveMember(w)
  PROVE  TenancyInv'
<1> USE DEF TenancyInv
<1>1. PICK o \in Orgs, u \in Members, role \in Roles \cup {"none"} :
        /\ o = orgTx[w].org /\ u = orgTx[w].user /\ role = orgTx[w].role
        /\ OpenMembership(w, o)
        /\ plan[o] # Nothing
  <2>1. orgTx[w].kind \in MembershipKinds
    BY DEF add_member, restore_member, CommitChangeRole, CommitRemoveMember, MembershipKinds
  <2>2. orgTx[w].org \in Orgs /\ orgTx[w].user \in Members /\ plan[orgTx[w].org] # Nothing
    BY <2>1 DEF MembershipsOK, MembershipKinds
  <2>3. orgTx[w].role \in Roles \cup {"none"}
    BY DEF TenancyTypeOK, OrgTx
  <2>4. QED
    BY <2>1, <2>2, <2>3 DEF OpenMembership
<1>2. member[o][u] \in MemberRow
  BY DEF TenancyTypeOK
<1>3. o \notin demoted \cup crowded => Owners(o) # {} /\ MembershipOK(w, o)
  BY <1>1 DEF OwnersOK
<1>4. EndOrg(w) /\ UNCHANGED <<plan, dependency, crowded, stretched>>
  BY DEF add_member, restore_member, CommitChangeRole, CommitRemoveMember
<1>5. CASE add_member(w)
  <2>1. /\ member' = [member EXCEPT ![o][u] = [role |-> role, deleted |-> FALSE]]
        /\ member[o][u].role = "none"
        /\ UNCHANGED demoted
    BY <1>1, <1>5 DEF add_member
  <2>2. [role |-> role, deleted |-> FALSE] \in MemberRow
    BY DEF MemberRow
  <2>3. u \notin Owners(o)
    BY <2>1 DEF Owners, list_members
  <2>4. /\ member' \in [Orgs -> [Members -> MemberRow]]
        /\ \A p \in Orgs \ {o} : member'[p] = member[p]
        /\ Owners(o) \ {u} \subseteq Owners(o)'
    BY <2>1, <2>2, RowWritten
  <2>5. o \notin demoted' \cup crowded => Owners(o)' # {}
    BY <1>3, <2>1, <2>3, <2>4
  <2>6. QED
    BY <1>1, <1>4, <2>1, <2>4, <2>5, MembershipWrites DEF TenancyTypeOK
<1>6. CASE restore_member(w)
  <2> DEFINE row == [role |-> IF role = "none" THEN member[o][u].role ELSE role,
                     deleted |-> FALSE]
  <2>1. /\ member' = [member EXCEPT ![o][u] = row]
        /\ orgTx[w].kind = "restore"
        /\ UNCHANGED demoted
    BY <1>1, <1>6 DEF restore_member
  <2>2. row \in MemberRow
    BY <1>2 DEF MemberRow
  <2>3. o \notin demoted \cup crowded => u \notin Owners(o)
    BY <1>1, <1>3, <2>1 DEF MembershipOK, Owners, list_members
  <2> HIDE DEF row
  <2>4. /\ member' \in [Orgs -> [Members -> MemberRow]]
        /\ \A p \in Orgs \ {o} : member'[p] = member[p]
        /\ Owners(o) \ {u} \subseteq Owners(o)'
    BY <2>1, <2>2, RowWritten
  <2>5. o \notin demoted' \cup crowded => Owners(o)' # {}
    BY <1>3, <2>1, <2>3, <2>4
  <2>6. QED
    BY <1>1, <1>4, <2>1, <2>4, <2>5, MembershipWrites DEF TenancyTypeOK
<1>7. CASE CommitChangeRole(w)
  <2> DEFINE row == [member[o][u] EXCEPT !.role = role]
  <2>1. /\ member' = [member EXCEPT ![o][u] = row]
        /\ demoted' = IF member[o][u].role = "owner" THEN demoted \cup {o} ELSE demoted
    BY <1>1, <1>7 DEF CommitChangeRole, TenancyTypeOK
  <2>2. row \in MemberRow
    BY <1>2 DEF MemberRow
  <2>3. o \notin demoted' => u \notin Owners(o)
    BY <2>1 DEF Owners
  <2> HIDE DEF row
  <2>4. demoted \subseteq demoted' /\ demoted' \subseteq Orgs
    BY <2>1 DEF TenancyTypeOK
  <2>5. /\ member' \in [Orgs -> [Members -> MemberRow]]
        /\ \A p \in Orgs \ {o} : member'[p] = member[p]
        /\ Owners(o) \ {u} \subseteq Owners(o)'
    BY <2>1, <2>2, RowWritten
  <2>6. o \notin demoted' \cup crowded => Owners(o)' # {}
    BY <1>3, <2>1, <2>3, <2>5
  <2>7. QED
    BY <1>1, <1>4, <2>1, <2>4, <2>5, <2>6, MembershipWrites DEF TenancyTypeOK
<1>8. CASE CommitRemoveMember(w)
  <2> DEFINE row == [member[o][u] EXCEPT !.deleted = TRUE]
  <2>1. /\ member' = [member EXCEPT ![o][u] = row]
        /\ orgTx[w].kind = "remove"
        /\ UNCHANGED demoted
    BY <1>1, <1>8 DEF CommitRemoveMember, TenancyTypeOK
  <2>2. row \in MemberRow
    BY <1>2 DEF MemberRow
  <2>3. o \notin demoted \cup crowded => Owners(o) \ {u} # {}
    BY <1>1, <1>3, <2>1 DEF MembershipOK
  <2> HIDE DEF row
  <2>4. /\ member' \in [Orgs -> [Members -> MemberRow]]
        /\ \A p \in Orgs \ {o} : member'[p] = member[p]
        /\ Owners(o) \ {u} \subseteq Owners(o)'
    BY <2>1, <2>2, RowWritten
  <2>5. o \notin demoted' \cup crowded => Owners(o)' # {}
    BY <1>3, <2>1, <2>3, <2>4
  <2>6. QED
    BY <1>1, <1>4, <2>1, <2>4, <2>5, MembershipWrites DEF TenancyTypeOK
<1>9. QED
  BY <1>5, <1>6, <1>7, <1>8

\* Opening a creation, with room.
LEMMA ReadCreatePreserves ==
  ASSUME TenancyInv, NEW w \in OrgWorkers, NEW o \in Orgs, ReadCreateDependency(w, o)
  PROVE  TenancyInv'
<1> DEFINE fields == [IdleOrg EXCEPT !.kind = "create", !.org = o]
<1> USE DEF TenancyInv
<1>1. /\ plan[o] # Nothing
      /\ count_for_org(o) < DepLimit[plan[o]]
      /\ orgTx' = [orgTx EXCEPT ![w] = fields]
      /\ stretched' = IF OpenOn(o, {"create"}) THEN stretched \cup {o} ELSE stretched
      /\ UNCHANGED <<plan, member, dependency, demoted, crowded>>
  BY DEF ReadCreateDependency, require_role, Room, BeginOrg
<1>2. fields \in OrgTx /\ fields.kind = "create" /\ fields.org = o
  <2>1. 0 \in 0..MaxDeps
    BY TenancyAssumption DEF TenancyAssumption
  <2>2. QED
    BY <2>1 DEF IdleOrg, OrgTx, OrgKinds
<1> HIDE DEF fields
<1>3. \A v \in OrgWorkers : orgTx'[v] = IF v = w THEN fields ELSE orgTx[v]
  BY <1>1 DEF TenancyTypeOK
<1>4. TenancyTypeOK'
  BY <1>1, <1>2 DEF TenancyTypeOK
<1>5. MembershipsOK'
  BY <1>1, <1>2, <1>3 DEF MembershipsOK, MembershipKinds
<1>6. OwnersOK'
  BY <1>1, <1>2, <1>3, OwnersUntouched DEF MembershipKinds
<1>7. LimitOK'
  <2>1. ASSUME NEW d \in Deps, dependency'[d].org # Nothing
        PROVE  plan'[dependency'[d].org] # Nothing
    BY <1>1, <2>1 DEF LimitOK
  <2>2. ASSUME NEW p \in Orgs \ stretched', plan'[p] # Nothing
        PROVE  /\ count_for_org(p)' <= DepLimit[plan'[p]]
               /\ \A x \in OrgWorkers : OpenCreation(x, p)' =>
                    /\ count_for_org(p)' < DepLimit[plan'[p]]
                    /\ \A v \in OrgWorkers \ {x} : ~OpenCreation(v, p)'
    <3>1. p \in Orgs \ stretched /\ plan'[p] = plan[p] /\ count_for_org(p)' = count_for_org(p)
      BY <1>1, CountKept
    <3>2. /\ count_for_org(p) <= DepLimit[plan[p]]
          /\ \A x \in OrgWorkers : OpenCreation(x, p) =>
               /\ count_for_org(p) < DepLimit[plan[p]]
               /\ \A v \in OrgWorkers \ {x} : ~OpenCreation(v, p)
      BY <1>1, <2>2, <3>1 DEF LimitOK
    <3>3. CASE p = o
      <4>1. \A v \in OrgWorkers : ~OpenCreation(v, o)
        BY <1>1, <2>2, <3>3 DEF OpenOn, OpenCreation
      <4>2. \A v \in OrgWorkers \ {w} : ~OpenCreation(v, p)'
        BY <1>3, <3>3, <4>1 DEF OpenCreation
      <4>3. QED
        BY <1>1, <3>1, <3>2, <3>3, <4>2
    <3>4. CASE p # o
      <4>1. \A v \in OrgWorkers : OpenCreation(v, p)' => OpenCreation(v, p)
        BY <1>2, <1>3, <3>4 DEF OpenCreation
      <4>2. QED
        BY <3>1, <3>2, <4>1
    <3>5. QED
      BY <3>3, <3>4
  <2>3. QED
    BY <2>1, <2>2 DEF LimitOK
<1>8. QED
  BY <1>4, <1>5, <1>6, <1>7

\* A dependency request is committed: it adds one dependency to the organization it had room
\* in, or none to any.
LEMMA DependencyWrites ==
  ASSUME TenancyInv, NEW w \in OrgWorkers, NEW o \in Orgs, EndOrg(w),
         UNCHANGED <<plan, member, demoted, crowded, stretched>>,
         dependency' \in [Deps -> DepRow],
         \A d \in Deps : dependency'[d].org # Nothing => plan[dependency'[d].org] # Nothing,
         \/ OpenCreation(w, o) /\ \E d \in Deps : LiveDeps(o)' \subseteq LiveDeps(o) \cup {d}
         \/ LiveDeps(o)' \subseteq LiveDeps(o),
         \A p \in Orgs \ {o} : LiveDeps(p)' \subseteq LiveDeps(p)
  PROVE  TenancyInv'
<1> USE DEF TenancyInv
<1>1. /\ orgTx' \in [OrgWorkers -> OrgTx]
      /\ orgTx'[w].kind = "idle"
      /\ \A v \in OrgWorkers \ {w} : orgTx'[v] = orgTx[v]
  BY OrgRequestEnds
<1>2. TenancyTypeOK'
  BY <1>1 DEF TenancyTypeOK
<1>3. MembershipsOK'
  BY <1>1 DEF MembershipsOK, MembershipKinds
<1>4. OwnersOK'
  BY <1>1, OwnersUntouched DEF MembershipKinds
<1>5. LimitOK'
  <2> SUFFICES ASSUME NEW p \in Orgs \ stretched, plan[p] # Nothing
               PROVE  /\ count_for_org(p)' <= DepLimit[plan[p]]
                      /\ \A x \in OrgWorkers : OpenCreation(x, p)' =>
                           /\ count_for_org(p)' < DepLimit[plan[p]]
                           /\ \A v \in OrgWorkers \ {x} : ~OpenCreation(v, p)'
    BY DEF LimitOK
  <2>1. /\ count_for_org(p) <= DepLimit[plan[p]]
        /\ \A x \in OrgWorkers : OpenCreation(x, p) =>
             /\ count_for_org(p) < DepLimit[plan[p]]
             /\ \A v \in OrgWorkers \ {x} : ~OpenCreation(v, p)
    BY DEF LimitOK
  <2>2. /\ LiveDeps(p) \in SUBSET Deps /\ LiveDeps(p)' \in SUBSET Deps
        /\ count_for_org(p) \in Nat /\ count_for_org(p)' \in Nat
        /\ DepLimit[plan[p]] \in Nat
    BY CountOK, TenancyAssumption DEF LiveDeps, count_for_org, TenancyTypeOK, TenancyAssumption
  <2>3. \A v \in OrgWorkers : OpenCreation(v, p)' => OpenCreation(v, p) /\ v # w
    BY <1>1 DEF OpenCreation
  <2>4. CASE LiveDeps(p)' \subseteq LiveDeps(p)
    <3>1. count_for_org(p)' <= count_for_org(p)
      BY <2>2, <2>4, CountOK, FS_Subset DEF count_for_org
    <3>2. QED
      BY <2>1, <2>2, <2>3, <3>1
  <2>5. ASSUME p = o, OpenCreation(w, o), NEW d \in Deps,
               LiveDeps(o)' \subseteq LiveDeps(o) \cup {d}
        PROVE  /\ count_for_org(p)' <= DepLimit[plan[p]]
               /\ \A x \in OrgWorkers : ~OpenCreation(x, p)'
    <3>1. LiveDeps(p) \cup {d} \in SUBSET Deps
      BY <2>2
    <3>2. Cardinality(LiveDeps(p)') <= Cardinality(LiveDeps(p) \cup {d})
      BY <2>5, <3>1, CountOK, FS_Subset
    <3>3. Cardinality(LiveDeps(p) \cup {d}) <= Cardinality(LiveDeps(p)) + 1
      BY <2>2, <2>5, CountOK
    <3>4. Cardinality(LiveDeps(p) \cup {d}) \in Nat
      BY <3>1, CountOK
    <3>5. count_for_org(p)' <= count_for_org(p) + 1
      BY <2>2, <3>2, <3>3, <3>4 DEF count_for_org
    <3>6. QED
      BY <2>1, <2>2, <2>3, <2>5, <3>5
  <2>6. QED
    BY <2>4, <2>5
<1>6. QED
  BY <1>2, <1>3, <1>4, <1>5

\* The commits of the three dependency requests.
LEMMA DependencyCommits ==
  ASSUME TenancyInv, NEW w \in OrgWorkers,
         \/ \E d \in Deps, active \in BOOLEAN : CommitCreateDependency(w, d, active)
         \/ \E active \in BOOLEAN : CommitUpdateDependency(w, active)
         \/ CommitDeleteDependency(w)
  PROVE  TenancyInv'
<1> USE DEF TenancyInv
<1>1. EndOrg(w) /\ UNCHANGED <<plan, member, demoted, crowded, stretched>>
  BY DEF CommitCreateDependency, CommitUpdateDependency, CommitDeleteDependency
<1>2. PICK o \in Orgs : o = orgTx[w].org
  BY DEF CommitCreateDependency, CommitUpdateDependency, CommitDeleteDependency, MembershipsOK
<1>3. ASSUME NEW d \in Deps, NEW active \in BOOLEAN, CommitCreateDependency(w, d, active)
      PROVE  TenancyInv'
  <2>1. /\ OpenCreation(w, o) /\ plan[o] # Nothing
        /\ dependency' = [dependency EXCEPT ![d] = [org |-> o, deleted |-> FALSE,
                                                    active |-> active]]
    BY <1>2, <1>3 DEF CommitCreateDependency, OpenCreation, MembershipsOK
  <2>2. /\ dependency' \in [Deps -> DepRow]
        /\ dependency'[d].org = o
        /\ \A e \in Deps \ {d} : dependency'[e] = dependency[e]
    BY <2>1 DEF TenancyTypeOK, DepRow
  <2>3. /\ LiveDeps(o)' \subseteq LiveDeps(o) \cup {d}
        /\ \A p \in Orgs \ {o} : LiveDeps(p)' \subseteq LiveDeps(p)
    BY <2>2 DEF LiveDeps
  <2>4. \A e \in Deps : dependency'[e].org # Nothing => plan[dependency'[e].org] # Nothing
    BY <2>1, <2>2 DEF LimitOK
  <2>5. QED
    BY <1>1, <2>1, <2>2, <2>3, <2>4, DependencyWrites
<1>4. ASSUME \/ \E active \in BOOLEAN : CommitUpdateDependency(w, active)
             \/ CommitDeleteDependency(w)
      PROVE  TenancyInv'
  <2>1. PICK d \in Deps : d = orgTx[w].dep
    BY <1>4 DEF CommitUpdateDependency, CommitDeleteDependency, MembershipsOK
  <2>2. /\ dependency' \in [Deps -> DepRow]
        /\ \A e \in Deps : dependency'[e].org = dependency[e].org
        /\ \A e \in Deps : dependency[e].deleted => dependency'[e].deleted
    <3>1. ASSUME NEW active \in BOOLEAN, CommitUpdateDependency(w, active)
          PROVE  /\ dependency' \in [Deps -> DepRow]
                 /\ \A e \in Deps : dependency'[e].org = dependency[e].org
                 /\ \A e \in Deps : dependency[e].deleted => dependency'[e].deleted
      <4>1. dependency' = [dependency EXCEPT ![d].active = active]
        BY <2>1, <3>1 DEF CommitUpdateDependency
      <4>2. QED
        BY <4>1 DEF TenancyTypeOK, DepRow
    <3>2. CASE CommitDeleteDependency(w)
      <4>1. dependency' = [dependency EXCEPT ![d].deleted = TRUE, ![d].active = FALSE]
        BY <2>1, <3>2 DEF CommitDeleteDependency
      <4>2. QED
        BY <4>1 DEF TenancyTypeOK, DepRow
    <3>3. QED
      BY <1>4, <3>1, <3>2
  <2>3. \A p \in Orgs : LiveDeps(p)' \subseteq LiveDeps(p)
    BY <2>2 DEF LiveDeps
  <2>4. \A e \in Deps : dependency'[e].org # Nothing => plan[dependency'[e].org] # Nothing
    BY <2>2 DEF LimitOK
  <2>5. QED
    BY <1>1, <2>2, <2>3, <2>4, DependencyWrites
<1>5. QED
  BY <1>3, <1>4

\* A lowered plan excuses the organization; a raised one keeps its room.
LEMMA ChangePlanPreserves ==
  ASSUME TenancyInv, NEW o \in Orgs, NEW q \in Plans, ChangePlan(o, q)
  PROVE  TenancyInv'
<1> USE DEF TenancyInv
<1>1. /\ plan[o] # Nothing
      /\ plan' = [plan EXCEPT ![o] = q]
      /\ stretched' = IF DepLimit[q] < DepLimit[plan[o]] THEN stretched \cup {o} ELSE stretched
      /\ UNCHANGED <<member, dependency, orgTx, demoted, crowded>>
  BY DEF ChangePlan
<1>2. /\ plan' \in [Orgs -> Plans \cup {Nothing}]
      /\ plan'[o] = q /\ q # Nothing
      /\ \A p \in Orgs \ {o} : plan'[p] = plan[p]
  BY <1>1, TenancyAssumption DEF TenancyTypeOK, TenancyAssumption
<1>3. TenancyTypeOK'
  BY <1>1, <1>2 DEF TenancyTypeOK
<1>4. MembershipsOK'
  BY <1>1, <1>2 DEF MembershipsOK, MembershipKinds
<1>5. OwnersOK'
  BY <1>1, <1>2, OwnersUntouched
<1>6. LimitOK'
  <2>1. ASSUME NEW d \in Deps, dependency'[d].org # Nothing
        PROVE  plan'[dependency'[d].org] # Nothing
    BY <1>1, <1>2, <2>1 DEF LimitOK, TenancyTypeOK, DepRow
  <2>2. ASSUME NEW p \in Orgs \ stretched', plan'[p] # Nothing
        PROVE  /\ count_for_org(p)' <= DepLimit[plan'[p]]
               /\ \A x \in OrgWorkers : OpenCreation(x, p)' =>
                    /\ count_for_org(p)' < DepLimit[plan'[p]]
                    /\ \A v \in OrgWorkers \ {x} : ~OpenCreation(v, p)'
    <3>1. p \in Orgs \ stretched /\ plan[p] # Nothing /\ count_for_org(p)' = count_for_org(p)
      BY <1>1, <1>2, <2>2, CountKept
    <3>2. /\ count_for_org(p) <= DepLimit[plan[p]]
          /\ \A x \in OrgWorkers : OpenCreation(x, p) =>
               /\ count_for_org(p) < DepLimit[plan[p]]
               /\ \A v \in OrgWorkers \ {x} : ~OpenCreation(v, p)
      BY <3>1 DEF LimitOK
    <3>3. \A v \in OrgWorkers : OpenCreation(v, p)' => OpenCreation(v, p)
      BY <1>1 DEF OpenCreation
    <3>4. /\ count_for_org(p) \in Nat
          /\ DepLimit[plan[p]] \in Nat /\ DepLimit[plan'[p]] \in Nat
          /\ DepLimit[plan[p]] <= DepLimit[plan'[p]]
      <4>1. LiveDeps(p) \in SUBSET Deps
        BY DEF LiveDeps
      <4>2. count_for_org(p) \in Nat
        BY <4>1, CountOK DEF count_for_org
      <4>3. DepLimit[plan[p]] \in Nat /\ DepLimit[plan'[p]] \in Nat
        BY <1>2, <2>2, <3>1, TenancyAssumption DEF TenancyTypeOK, TenancyAssumption
      <4>4. QED
        BY <1>1, <1>2, <2>2, <4>2, <4>3
    <3>5. QED
      BY <3>1, <3>2, <3>3, <3>4
  <2>3. QED
    BY <2>1, <2>2 DEF LimitOK
<1>7. QED
  BY <1>3, <1>4, <1>5, <1>6

\* The requests that open.
LEMMA OrgReadsPreserve ==
  ASSUME TenancyInv, NEW w \in OrgWorkers,
         \/ \E o \in Orgs, u \in Members : ReadCreateOrg(w, o, u) \/ ReadRemoveMember(w, o, u)
         \/ \E o \in Orgs, u \in Members, role \in Roles :
              ReadInvite(w, o, u, role) \/ ReadChangeRole(w, o, u, role)
         \/ \E d \in Deps : ReadUpdateDependency(w, d) \/ ReadDeleteDependency(w, d)
  PROVE  TenancyInv'
<1> USE DEF TenancyInv
<1>1. 0 \in 0..MaxDeps
  BY TenancyAssumption DEF TenancyAssumption
<1>2. ASSUME NEW o \in Orgs, NEW u \in Members, ReadCreateOrg(w, o, u) PROVE TenancyInv'
  <2> DEFINE fields == [IdleOrg EXCEPT !.kind = "org", !.org = o, !.user = u]
  <2>1. fields \in OrgTx /\ fields.kind = "org" /\ fields.org = o /\ fields.user = u
    BY <1>1 DEF IdleOrg, OrgTx, OrgKinds
  <2>2. BeginOrg(w, fields) /\ UNCHANGED <<plan, member, dependency, demoted, crowded, stretched>>
    BY <1>2 DEF ReadCreateOrg
  <2> HIDE DEF fields
  <2>3. QED
    BY <2>1, <2>2, OtherOpens
<1>3. ASSUME NEW o \in Orgs, NEW u \in Members, ReadRemoveMember(w, o, u) PROVE TenancyInv'
  <2> DEFINE fields == [IdleOrg EXCEPT !.kind = "remove", !.org = o, !.user = u]
  <2>1. fields \in OrgTx /\ fields.kind = "remove" /\ fields.org = o /\ fields.user = u
    BY <1>1 DEF IdleOrg, OrgTx, OrgKinds
  <2>2. BeginMembership(w, fields) /\ plan[o] # Nothing /\ ~LastOwner(o, u)
    BY <1>3 DEF ReadRemoveMember, require_role
  <2>3. Owners(o) # {} => Owners(o) \ {u} # {}
    <3>1. CASE Cardinality(Owners(o)) > 1
      BY <3>1, AnotherOwner
    <3>2. CASE member[o][u].role # "owner"
      BY <3>2 DEF Owners
    <3>3. Owners(o) \subseteq Members
      BY DEF Owners, list_members
    <3>4. Cardinality(Owners(o)) \in Nat
      BY <3>3, TenancyAssumption, FS_Subset, FS_CardinalityType DEF TenancyAssumption
    <3>5. QED
      BY <2>2, <3>1, <3>2, <3>4 DEF LastOwner
  <2> HIDE DEF fields
  <2>4. QED
    BY <2>1, <2>2, <2>3, MembershipOpens DEF MembershipKinds
<1>4. ASSUME NEW o \in Orgs, NEW u \in Members, NEW role \in Roles, ReadInvite(w, o, u, role)
      PROVE  TenancyInv'
  <2> DEFINE kind == IF member[o][u].role = "none" THEN "invite" ELSE "restore"
             given == IF member[o][u].role = role THEN "none" ELSE role
             fields == [IdleOrg EXCEPT !.kind = kind, !.org = o, !.user = u, !.role = given]
  <2>1. kind \in {"invite", "restore"} /\ given \in Roles \cup {"none"}
    OBVIOUS
  <2>2. BeginMembership(w, fields) /\ plan[o] # Nothing /\ ~get_member(o, u)
    BY <1>4 DEF ReadInvite, require_role
  <2> HIDE DEF kind, given
  <2>3. fields \in OrgTx /\ fields.kind = kind /\ fields.org = o /\ fields.user = u
    BY <1>1, <2>1 DEF IdleOrg, OrgTx, OrgKinds
  <2> HIDE DEF fields
  <2>4. QED
    BY <2>1, <2>2, <2>3, MembershipOpens DEF MembershipKinds
<1>5. ASSUME NEW o \in Orgs, NEW u \in Members, NEW role \in Roles,
             ReadChangeRole(w, o, u, role)
      PROVE  TenancyInv'
  <2> DEFINE fields == [IdleOrg EXCEPT !.kind = "role", !.org = o, !.user = u, !.role = role]
  <2>1. fields \in OrgTx /\ fields.kind = "role" /\ fields.org = o /\ fields.user = u
    BY <1>1 DEF IdleOrg, OrgTx, OrgKinds
  <2>2. BeginMembership(w, fields) /\ plan[o] # Nothing
    BY <1>5 DEF ReadChangeRole, require_role
  <2> HIDE DEF fields
  <2>3. QED
    BY <2>1, <2>2, MembershipOpens DEF MembershipKinds
<1>6. ASSUME NEW d \in Deps, ReadUpdateDependency(w, d) \/ ReadDeleteDependency(w, d)
      PROVE  TenancyInv'
  <2>1. PICK kind \in {"update", "delete"} :
          /\ BeginOrg(w, [IdleOrg EXCEPT !.kind = kind, !.org = dependency[d].org, !.dep = d])
          /\ dependency[d].org # Nothing
          /\ UNCHANGED <<plan, member, dependency, demoted, crowded, stretched>>
    BY <1>6 DEF ReadUpdateDependency, ReadDeleteDependency
  <2> DEFINE fields == [IdleOrg EXCEPT !.kind = kind, !.org = dependency[d].org, !.dep = d]
  <2>2. dependency[d].org \in Orgs
    BY <2>1 DEF TenancyTypeOK, DepRow
  <2>3. d \in 0..MaxDeps
    BY TenancyAssumption DEF Deps, TenancyAssumption
  <2>4. fields \in OrgTx /\ fields.kind = kind /\ fields.org \in Orgs /\ fields.dep = d
    BY <2>2, <2>3 DEF IdleOrg, OrgTx, OrgKinds
  <2>5. BeginOrg(w, fields)
    BY <2>1
  <2> HIDE DEF fields
  <2>6. QED
    BY <2>1, <2>4, <2>5, OtherOpens
<1>7. QED
  BY <1>2, <1>3, <1>4, <1>5, <1>6

\* The invariant holds throughout: by cases on the request that opens, commits or is given
\* up, and on a change of plan.
THEOREM TenancyInvariant == TenancySpec => []TenancyInv
<1>1. TenancyInv /\ [TenancyNext]_tenancyVars => TenancyInv'
  <2> SUFFICES ASSUME TenancyInv, [TenancyNext]_tenancyVars PROVE TenancyInv'
    OBVIOUS
  <2>1. CASE TenancyNext
    BY <2>1, AbortPreserves, CommitCreateOrgPreserves, MembershipCommits, DependencyCommits,
       ReadCreatePreserves, OrgReadsPreserve, ChangePlanPreserves DEF TenancyNext
  <2>2. CASE UNCHANGED tenancyVars
    <3>1. UNCHANGED <<plan, member, dependency, orgTx, demoted, crowded, stretched>>
      BY <2>2 DEF tenancyVars
    <3>2. TenancyTypeOK' /\ MembershipsOK'
      BY <3>1 DEF TenancyInv, TenancyTypeOK, MembershipsOK
    <3>3. OwnersOK' /\ LimitOK'
      BY <3>1, OwnersUntouched, LimitUntouched DEF OpenCreation
    <3>4. QED
      BY <3>2, <3>3 DEF TenancyInv
  <2>3. QED
    BY <2>1, <2>2
<1>2. QED
  BY TenancyInitOK, <1>1, PTL DEF TenancySpec

\* Type correctness of organizations, members, dependencies and requests.
THEOREM TenancyTypes == TenancySpec => []TenancyTypeOK
<1>1. TenancyInv => TenancyTypeOK
  BY DEF TenancyInv
<1>2. QED
  BY TenancyInvariant, <1>1, PTL

\* An organization loses its last owner only through a lowered role or two membership
\* requests open at once (remove_member).
THEOREM OwnerStays == TenancySpec => []OrphanNeedsDemotionOrOverlap
<1>1. TenancyInv => OrphanNeedsDemotionOrOverlap
  BY DEF TenancyInv, OwnersOK, OrphanNeedsDemotionOrOverlap
<1>2. QED
  BY TenancyInvariant, <1>1, PTL

\* An organization exceeds its dependency limit only through two creations open at once or
\* a lowered plan (create_dependency).
THEOREM LimitHolds == TenancySpec => []WithinLimit
<1>1. TenancyInv => WithinLimit
  BY DEF TenancyInv, LimitOK, WithinLimit
<1>2. QED
  BY TenancyInvariant, <1>1, PTL

----------------------------------------------------------------------------
(* ApiKeys: UseIsKept is inductive along with the types *)

ApiKeysInv == ApiKeysTypeOK /\ UseIsKept

\* What a worker may be doing.
LEMMA WorkOK ==
  ASSUME ApiKeysTypeOK, NEW w \in KeyWorkers
  PROVE  /\ keyWork[w] \in KeyWork
         /\ keyWork[w].time \in Times
         /\ keyWork[w].unread \subseteq ApiKeyIds
         /\ keyWork[w].read \in [ApiKeyIds -> Times]
BY DEF ApiKeysTypeOK, KeyWork

\* Initially no key was used.
LEMMA ApiKeysInitOK == ApiKeysInit => ApiKeysInv
<1> SUFFICES ASSUME ApiKeysInit PROVE ApiKeysInv
  OBVIOUS
<1>1. 0 \in Times /\ NoKeyWork \in KeyWork
  BY ApiKeysAssumption DEF Times, NoKeyWork, KeyWork
<1>2. ApiKeysTypeOK
  BY <1>1 DEF ApiKeysInit, ApiKeysTypeOK, ApiKeyRow
<1>3. UseIsKept
  BY DEF ApiKeysInit, UseIsKept
<1>4. QED
  BY <1>2, <1>3 DEF ApiKeysInv

\* Every step writes values of their types.
LEMMA ApiKeysTypesPreserved ==
  ASSUME ApiKeysTypeOK, [ApiKeysNext]_apiKeysVars
  PROVE  ApiKeysTypeOK'
<1> USE ApiKeysAssumption DEF ApiKeysTypeOK
<1>0. 0 \in Times /\ NoKeyWork \in KeyWork
  BY DEF Times, NoKeyWork, KeyWork
<1>1. ASSUME NEW k \in ApiKeyIds, create_key(k) \/ revoke_key(k)
      PROVE  ApiKeysTypeOK'
  BY <1>1 DEF create_key, revoke_key, ApiKeyRow
<1>2. ASSUME NEW k \in ApiKeyIds, EntryExpires(k)
      PROVE  ApiKeysTypeOK'
  BY <1>0, <1>2 DEF EntryExpires
<1>3. ASSUME NEW w \in KeyWorkers, NEW k \in ApiKeyIds, authenticate_key(w, k)
      PROVE  ApiKeysTypeOK'
  <2>1. uses + 1 \in Times
    BY <1>3 DEF authenticate_key, Times
  <2>2. [keyWork[w] EXCEPT !.step = "noting", !.key = k, !.time = uses + 1] \in KeyWork
    BY <2>1, WorkOK DEF KeyWork
  <2>3. keyWork' \in [KeyWorkers -> KeyWork]
    BY <1>3, <2>2 DEF authenticate_key
  <2>4. QED
    BY <1>3, <2>1, <2>3 DEF authenticate_key
<1>4. ASSUME NEW w \in KeyWorkers, _record_last_used(w)
      PROVE  ApiKeysTypeOK'
  BY <1>0, <1>4, WorkOK DEF _record_last_used, EndWork
<1>5. ASSUME NEW w \in KeyWorkers, StartFlush(w)
      PROVE  ApiKeysTypeOK'
  <2>1. [keyWork[w] EXCEPT !.step = "draining", !.unread = {k \in ApiKeyIds : entry[k] # 0}]
          \in KeyWork
    BY WorkOK DEF KeyWork
  <2>2. keyWork' \in [KeyWorkers -> KeyWork]
    BY <1>5, <2>1 DEF StartFlush
  <2>3. QED
    BY <1>5, <2>2 DEF StartFlush
<1>6. ASSUME NEW w \in KeyWorkers, NEW k \in ApiKeyIds, _drain_last_used_redis(w, k)
      PROVE  ApiKeysTypeOK'
  <2>1. [keyWork[w].read EXCEPT ![k] = entry[k]] \in [ApiKeyIds -> Times]
    BY WorkOK
  <2>2. [keyWork[w] EXCEPT !.unread = @ \ {k}, !.read = [keyWork[w].read EXCEPT ![k] = entry[k]]]
          \in KeyWork
    BY <2>1, WorkOK DEF KeyWork
  <2>3. keyWork' \in [KeyWorkers -> KeyWork]
    BY <1>6, <2>2 DEF _drain_last_used_redis
  <2>4. QED
    BY <1>6, <2>3 DEF _drain_last_used_redis
<1>7. ASSUME NEW w \in KeyWorkers, update_last_used_batch(w)
      PROVE  ApiKeysTypeOK'
  <2>1. [keyWork[w] EXCEPT !.step = "written"] \in KeyWork
    BY WorkOK DEF KeyWork
  <2>2. QED
    BY <1>7, <2>1 DEF update_last_used_batch
<1>8. ASSUME NEW w \in KeyWorkers, _clear_redis_keys(w)
      PROVE  ApiKeysTypeOK'
  <2>1. [keyWork[w] EXCEPT !.step = "cleared"] \in KeyWork
    BY WorkOK DEF KeyWork
  <2>2. Mapping(w) \subseteq ApiKeyIds
    BY DEF Mapping
  <2>3. QED
    BY <1>0, <1>8, <2>1, <2>2 DEF _clear_redis_keys
<1>9. ASSUME NEW w \in KeyWorkers, CommitFlush(w)
      PROVE  ApiKeysTypeOK'
  <2>1. \A k \in ApiKeyIds :
          [apiKey[k] EXCEPT !.last_used_at = Greatest(@, keyWork[w].read[k])] \in ApiKeyRow
    BY WorkOK DEF Greatest, ApiKeyRow
  <2>2. QED
    BY <1>0, <1>9, <2>1 DEF CommitFlush, EndWork
<1>10. ASSUME NEW w \in KeyWorkers, RollbackFlush(w)
       PROVE  ApiKeysTypeOK'
  BY <1>0, <1>10 DEF RollbackFlush, EndWork, Mapping
<1>11. CASE UNCHANGED apiKeysVars
  BY <1>11 DEF apiKeysVars
<1>12. QED
  BY <1>1, <1>2, <1>3, <1>4, <1>5, <1>6, <1>7, <1>8, <1>9, <1>10, <1>11 DEF ApiKeysNext

\* What UseIsKept says of one key.
Kept(k) ==
  \/ noted[k] = entry[k]
  \/ noted[k] <= apiKey[k].last_used_at
  \/ \E w \in KeyWorkers : keyWork[w].step = "cleared" /\ noted[k] <= keyWork[w].read[k]

\* A step that touches neither rows nor entries, of a worker that has deleted none.
LEMMA KeptBesides ==
  ASSUME NEW k \in ApiKeyIds, Kept(k), NEW w \in KeyWorkers,
         keyWork[w].step # "cleared",
         \A v \in KeyWorkers \ {w} : keyWork'[v] = keyWork[v],
         UNCHANGED <<apiKey, entry, noted>>
  PROVE  Kept(k)'
BY DEF Kept

\* Every step keeps what it does not record as lost.
LEMMA UseKeptByStep ==
  ASSUME ApiKeysInv, [ApiKeysNext]_apiKeysVars, NEW k \in ApiKeyIds \ lost'
  PROVE  Kept(k)'
<1> USE DEF ApiKeysInv
<1>0. k \notin lost => Kept(k)
  BY DEF UseIsKept, Kept
<1>a. ASSUME NEW j \in ApiKeyIds
      PROVE  /\ noted[j] \in Nat /\ entry[j] \in Nat /\ apiKey[j].last_used_at \in Nat
             /\ \A v \in KeyWorkers : keyWork[v].read[j] \in Nat
  <2>1. \A v \in KeyWorkers : keyWork[v].read[j] \in Times
    BY WorkOK
  <2>2. QED
    BY <2>1, ApiKeysAssumption DEF ApiKeysTypeOK, ApiKeyRow, Times
<1>1. ASSUME NEW j \in ApiKeyIds, create_key(j) \/ revoke_key(j)
      PROVE  Kept(k)'
  <2>1. apiKey'[k].last_used_at = apiKey[k].last_used_at
    BY <1>1 DEF create_key, revoke_key, ApiKeysTypeOK, ApiKeyRow
  <2>2. UNCHANGED <<entry, keyWork, noted, lost>>
    BY <1>1 DEF create_key, revoke_key
  <2>3. QED
    BY <1>0, <2>1, <2>2 DEF Kept
<1>2. ASSUME NEW j \in ApiKeyIds, EntryExpires(j)
      PROVE  Kept(k)'
  <2>1. k # j /\ lost' = lost \cup {j}
    BY <1>2 DEF EntryExpires
  <2>2. entry'[k] = entry[k]
    BY <1>2, <2>1 DEF EntryExpires, ApiKeysTypeOK
  <2>3. QED
    BY <1>0, <1>2, <2>1, <2>2 DEF EntryExpires, Kept
<1>3. ASSUME NEW w \in KeyWorkers, NEW j \in ApiKeyIds, authenticate_key(w, j)
      PROVE  Kept(k)'
  BY <1>0, <1>3, KeptBesides DEF authenticate_key, ApiKeysTypeOK
<1>4. ASSUME NEW w \in KeyWorkers, _record_last_used(w)
      PROVE  Kept(k)'
  <2>1. keyWork[w].step = "noting" /\ \A v \in KeyWorkers \ {w} : keyWork'[v] = keyWork[v]
    BY <1>4 DEF _record_last_used, EndWork, ApiKeysTypeOK
  <2>2. CASE UNCHANGED <<entry, noted, lost>>
    BY <1>0, <1>4, <2>1, <2>2, KeptBesides DEF _record_last_used
  <2>3. CASE /\ entry' = [entry EXCEPT ![keyWork[w].key] = keyWork[w].time]
             /\ noted' = [noted EXCEPT ![keyWork[w].key] = keyWork[w].time]
             /\ lost' = lost \ {keyWork[w].key}
    <3>1. CASE k = keyWork[w].key
      BY <2>3, <3>1 DEF Kept, ApiKeysTypeOK
    <3>2. CASE k # keyWork[w].key
      <4>1. k \notin lost /\ entry'[k] = entry[k] /\ noted'[k] = noted[k] /\ apiKey' = apiKey
        BY <1>4, <2>3, <3>2 DEF _record_last_used, ApiKeysTypeOK
      <4>2. QED
        BY <1>0, <2>1, <4>1 DEF Kept
    <3>3. QED
      BY <3>1, <3>2
  <2>4. QED
    BY <1>4, <2>2, <2>3 DEF _record_last_used
<1>5. ASSUME NEW w \in KeyWorkers, StartFlush(w)
      PROVE  Kept(k)'
  BY <1>0, <1>5, KeptBesides DEF StartFlush, ApiKeysTypeOK
<1>6. ASSUME NEW w \in KeyWorkers, NEW j \in ApiKeyIds, _drain_last_used_redis(w, j)
      PROVE  Kept(k)'
  BY <1>0, <1>6, KeptBesides DEF _drain_last_used_redis, ApiKeysTypeOK
<1>7. ASSUME NEW w \in KeyWorkers, update_last_used_batch(w)
      PROVE  Kept(k)'
  BY <1>0, <1>7, KeptBesides DEF update_last_used_batch, ApiKeysTypeOK
<1>8. ASSUME NEW w \in KeyWorkers, _clear_redis_keys(w)
      PROVE  Kept(k)'
  <2>1. /\ keyWork'[w].step = "cleared" /\ keyWork'[w].read = keyWork[w].read
        /\ keyWork[w].step = "written"
        /\ \A v \in KeyWorkers \ {w} : keyWork'[v] = keyWork[v]
    BY <1>8, WorkOK DEF _clear_redis_keys, ApiKeysTypeOK, KeyWork
  <2>2. k \notin lost /\ (k \in Mapping(w) => entry[k] \in {0, keyWork[w].read[k]})
    BY <1>8 DEF _clear_redis_keys
  <2>3. CASE k \in Mapping(w) /\ noted[k] = entry[k]
    <3>1. noted[k] <= keyWork[w].read[k]
      BY <1>a, <2>2, <2>3
    <3>2. noted' = noted
      BY <1>8 DEF _clear_redis_keys
    <3>3. QED
      BY <2>1, <3>1, <3>2 DEF Kept
  <2>4. CASE k \notin Mapping(w) \/ noted[k] # entry[k]
    <3>1. k \notin Mapping(w) => entry'[k] = entry[k]
      BY <1>8 DEF _clear_redis_keys
    <3>2. QED
      BY <1>0, <1>8, <2>1, <2>2, <2>4, <3>1 DEF _clear_redis_keys, Kept
  <2>5. QED
    BY <2>3, <2>4
<1>9. ASSUME NEW w \in KeyWorkers, CommitFlush(w)
      PROVE  Kept(k)'
  <2>1. apiKey'[k].last_used_at = Greatest(apiKey[k].last_used_at, keyWork[w].read[k])
    BY <1>9 DEF CommitFlush, ApiKeysTypeOK, ApiKeyRow
  <2>2. /\ apiKey[k].last_used_at <= apiKey'[k].last_used_at
        /\ keyWork[w].read[k] <= apiKey'[k].last_used_at
        /\ apiKey'[k].last_used_at \in Nat
    BY <1>a, <2>1 DEF Greatest
  <2>3. /\ UNCHANGED <<entry, noted, lost>>
        /\ \A v \in KeyWorkers \ {w} : keyWork'[v] = keyWork[v]
    BY <1>9 DEF CommitFlush, EndWork, ApiKeysTypeOK
  <2>4. CASE noted[k] = entry[k]
    BY <2>3, <2>4 DEF Kept
  <2>5. CASE noted[k] <= apiKey[k].last_used_at
    BY <1>a, <2>2, <2>3, <2>5 DEF Kept
  <2>6. ASSUME NEW v \in KeyWorkers,
               keyWork[v].step = "cleared", noted[k] <= keyWork[v].read[k]
        PROVE  Kept(k)'
    <3>1. CASE v = w
      <4>1. noted'[k] <= apiKey'[k].last_used_at
        BY <1>a, <2>2, <2>3, <2>6, <3>1
      <4>2. QED
        BY <4>1 DEF Kept
    <3>2. CASE v # w
      BY <2>3, <2>6, <3>2 DEF Kept
    <3>3. QED
      BY <3>1, <3>2
  <2>7. QED
    BY <1>0, <2>3, <2>4, <2>5, <2>6 DEF Kept
<1>10. ASSUME NEW w \in KeyWorkers, RollbackFlush(w)
       PROVE  Kept(k)'
  <2>1. /\ UNCHANGED <<apiKey, entry, noted>>
        /\ \A v \in KeyWorkers \ {w} : keyWork'[v] = keyWork[v]
    BY <1>10 DEF RollbackFlush, EndWork, ApiKeysTypeOK
  <2>2. CASE keyWork[w].step # "cleared"
    BY <1>0, <1>10, <2>1, <2>2, KeptBesides DEF RollbackFlush
  <2>3. CASE keyWork[w].step = "cleared"
    <3>1. k \notin lost /\ k \notin Mapping(w)
      BY <1>10, <2>3 DEF RollbackFlush
    <3>2. keyWork[w].read[k] = 0
      BY <3>1 DEF Mapping
    <3>3. noted[k] <= keyWork[w].read[k] => noted[k] <= apiKey[k].last_used_at
      BY <1>a, <3>2
    <3>4. QED
      BY <1>0, <2>1, <3>1, <3>3 DEF Kept
  <2>4. QED
    BY <2>2, <2>3
<1>11. CASE UNCHANGED apiKeysVars
  BY <1>0, <1>11 DEF apiKeysVars, Kept
<1>12. QED
  BY <1>1, <1>2, <1>3, <1>4, <1>5, <1>6, <1>7, <1>8, <1>9, <1>10, <1>11 DEF ApiKeysNext

\* The types and UseIsKept hold throughout.
THEOREM ApiKeysInvariant == ApiKeysSpec => []ApiKeysInv
<1>1. ApiKeysInv /\ [ApiKeysNext]_apiKeysVars => ApiKeysInv'
  <2> SUFFICES ASSUME ApiKeysInv, [ApiKeysNext]_apiKeysVars PROVE ApiKeysInv'
    OBVIOUS
  <2>1. ApiKeysTypeOK'
    BY ApiKeysTypesPreserved DEF ApiKeysInv
  <2>2. UseIsKept'
    BY UseKeptByStep DEF UseIsKept, Kept
  <2>3. QED
    BY <2>1, <2>2 DEF ApiKeysInv
<1>2. QED
  BY ApiKeysInitOK, <1>1, PTL DEF ApiKeysSpec

\* The time of the last use of a key reaches its row unless its entry expired, was replaced
\* under a run, or the run was rolled back (flush_api_key_last_used).
THEOREM LastUseIsKept == ApiKeysSpec => []UseIsKept
<1>1. ApiKeysInv => UseIsKept
  BY DEF ApiKeysInv
<1>2. QED
  BY ApiKeysInvariant, <1>1, PTL

----------------------------------------------------------------------------
(* Webhooks: the inductive invariant *)

\* The post of a delivery has an outcome that is not yet committed.
Posting(w, d) == engine[w].outcome[d] \in {"answered", "refused", "success", "failed"}

\* A row that a transaction inserted is seen by nobody else until it commits.
InsertedOK ==
  \A w \in HookWorkers, d \in Deliveries : d \in Held(w) /\ Inserted(w, d) =>
    /\ delivery[d].status = "none"
    /\ \A v \in HookWorkers \ {w} : d \notin Held(v)

\* Unless it is contested, a delivery is held by one transaction at most.
OneHolderOK ==
  \A d \in Deliveries \ contested, v \in HookWorkers, w \in HookWorkers :
    d \in Held(v) /\ d \in Held(w) => v = w

\* Unless it is contested, the count of a delivery is one ahead of its posts while it waits
\* for a retry, and a transaction that posts it makes them equal, below the limit.
CountsOK ==
  \A d \in Deliveries \ contested :
    /\ posted[d] < MaxRetries
    /\ \A w \in HookWorkers : Posting(w, d) =>
         posted[d] = engine[w].copy[d].attempt_count
    /\ \A w \in HookWorkers : engine[w].outcome[d] = "todo" =>
         /\ posted[d] + 1 = engine[w].copy[d].attempt_count
         /\ engine[w].copy[d].attempt_count < MaxRetries
    /\ delivery[d].status = "retrying" /\ (\A w \in HookWorkers : ~Posting(w, d)) =>
         posted[d] + 1 = delivery[d].attempt_count

\* A transaction that has not begun holds nothing.
IdleHoldsNothing ==
  \A w \in HookWorkers, d \in Deliveries :
    engine[w].kind = "idle" => engine[w].outcome[d] = "none"

WebhooksInv ==
  /\ WebhooksTypeOK
  /\ IdleHoldsNothing
  /\ InsertedOK
  /\ OneHolderOK
  /\ CountsOK

----------------------------------------------------------------------------
(* Webhooks: it holds *)

\* What a transaction may be.
LEMMA EngineOK ==
  ASSUME WebhooksTypeOK, NEW w \in HookWorkers
  PROVE  /\ engine[w] \in Engine
         /\ engine[w].kind \in {"idle", "deliver", "retry"}
         /\ engine[w].fired \subseteq Hooks
         /\ engine[w].copy \in [Deliveries -> DeliveryRow]
         /\ engine[w].outcome \in [Deliveries -> Outcomes]
         /\ engine[w] = [kind |-> engine[w].kind, fired |-> engine[w].fired,
                         copy |-> engine[w].copy, outcome |-> engine[w].outcome]
BY DEF WebhooksTypeOK, Engine

\* The rows that stand for nothing have the type of rows.
LEMMA EmptyRowsOK ==
  /\ NoDelivery \in DeliveryRow
  /\ IdleEngine \in Engine
<1>1. NoDelivery \in DeliveryRow
  BY WebhooksAssumption DEF NoDelivery, DeliveryRow, Statuses
<1>2. QED
  BY <1>1 DEF IdleEngine, Engine, Outcomes

\* Initially there is no webhook, no delivery and no transaction.
LEMMA WebhooksInitOK == WebhooksInit => WebhooksInv
<1> SUFFICES ASSUME WebhooksInit PROVE WebhooksInv
  OBVIOUS
<1>1. WebhooksTypeOK
  <2>1. hook \in [Hooks -> HookRow]
    BY DEF WebhooksInit, NoHookRow, HookRow
  <2>2. QED
    BY <2>1, EmptyRowsOK DEF WebhooksInit, WebhooksTypeOK
<1>2. \A w \in HookWorkers, d \in Deliveries : engine[w].outcome[d] = "none"
  BY DEF WebhooksInit, IdleEngine
<1>3. IdleHoldsNothing /\ InsertedOK /\ OneHolderOK
  BY <1>2 DEF IdleHoldsNothing, InsertedOK, OneHolderOK, Held
<1>4. CountsOK
  BY <1>2, WebhooksAssumption DEF CountsOK, Posting, WebhooksInit, NoDelivery
<1>5. QED
  BY <1>1, <1>3, <1>4 DEF WebhooksInv

\* Changes of a webhook touch no delivery and no transaction.
LEMMA HooksPreserve ==
  ASSUME WebhooksInv, NEW h \in Hooks, NEW active \in BOOLEAN, NEW events \in SUBSET Events,
         create_webhook(h, active, events) \/ update_webhook(h, active, events)
           \/ delete_webhook(h)
  PROVE  WebhooksInv'
<1>1. UNCHANGED <<delivery, engine, posted, contested>>
  BY DEF create_webhook, update_webhook, delete_webhook
<1>2. hook[h] \in HookRow
  BY DEF WebhooksInv, WebhooksTypeOK
<1>3. \E row \in HookRow : hook' = [hook EXCEPT ![h] = row]
  <2>1. CASE create_webhook(h, active, events)
    BY <2>1 DEF create_webhook, HookRow
  <2>2. CASE update_webhook(h, active, events)
    <3>1. hook' = [hook EXCEPT ![h] = [hook[h] EXCEPT !.active = active, !.events = events]]
      BY <2>2, <1>2 DEF update_webhook, WebhooksInv, WebhooksTypeOK
    <3>2. [hook[h] EXCEPT !.active = active, !.events = events] \in HookRow
      BY <1>2 DEF HookRow
    <3>3. QED
      BY <3>1, <3>2
  <2>3. CASE delete_webhook(h)
    <3>1. [hook[h] EXCEPT !.deleted = TRUE] \in HookRow
      BY <1>2 DEF HookRow
    <3>2. QED
      BY <2>3, <3>1 DEF delete_webhook
  <2>4. QED
    BY <2>1, <2>2, <2>3
<1>4. hook' \in [Hooks -> HookRow]
  BY <1>3 DEF WebhooksInv, WebhooksTypeOK
<1>5. WebhooksTypeOK'
  BY <1>1, <1>4 DEF WebhooksInv, WebhooksTypeOK
<1>6. IdleHoldsNothing' /\ InsertedOK' /\ OneHolderOK' /\ CountsOK'
  BY <1>1 DEF WebhooksInv, IdleHoldsNothing, InsertedOK, OneHolderOK, CountsOK, Held, Inserted, Posting
<1>7. QED
  BY <1>5, <1>6 DEF WebhooksInv

\* To start with an event is to hold nothing.
LEMMA DeliverPreserves ==
  ASSUME WebhooksInv, NEW w \in HookWorkers, NEW e \in Events, deliver_webhook(w, e)
  PROVE  WebhooksInv'
<1>1. UNCHANGED <<hook, delivery, posted, contested>>
  BY DEF deliver_webhook
<1>2. \A v \in HookWorkers :
        engine'[v].copy = engine[v].copy /\ engine'[v].outcome = engine[v].outcome
  BY EngineOK DEF deliver_webhook, WebhooksInv, WebhooksTypeOK
<1>3. WebhooksTypeOK'
  <2>1. list_active_for_org_and_event(e) \subseteq Hooks
    BY DEF list_active_for_org_and_event
  <2>2. [engine[w] EXCEPT !.kind = "deliver", !.fired = list_active_for_org_and_event(e)]
          \in Engine
    BY <2>1, EngineOK DEF Engine, WebhooksInv
  <2>3. engine' = [engine EXCEPT ![w] =
          [engine[w] EXCEPT !.kind = "deliver", !.fired = list_active_for_org_and_event(e)]]
    BY DEF deliver_webhook, WebhooksInv, WebhooksTypeOK
  <2>4. engine' \in [HookWorkers -> Engine]
    BY <2>2, <2>3 DEF WebhooksInv, WebhooksTypeOK
  <2>5. QED
    BY <1>1, <2>4 DEF WebhooksInv, WebhooksTypeOK
<1>4. IdleHoldsNothing'
  <2>1. \A v \in HookWorkers, d \in Deliveries :
          engine'[v].kind = "idle" => engine'[v].outcome[d] = "none"
    <3> SUFFICES ASSUME NEW v \in HookWorkers, NEW d \in Deliveries, engine'[v].kind = "idle"
                 PROVE  engine'[v].outcome[d] = "none"
      OBVIOUS
    <3>1. CASE v = w
      BY <3>1, EngineOK DEF deliver_webhook, WebhooksInv, WebhooksTypeOK, IdleHoldsNothing
    <3>2. CASE v # w
      BY <3>2 DEF deliver_webhook, WebhooksInv, WebhooksTypeOK, IdleHoldsNothing
    <3>3. QED
      BY <3>1, <3>2
  <2>2. QED
    BY <2>1 DEF IdleHoldsNothing
<1>5. InsertedOK' /\ OneHolderOK' /\ CountsOK'
  BY <1>1, <1>2 DEF WebhooksInv, InsertedOK, OneHolderOK, CountsOK, Held, Inserted, Posting
<1>6. QED
  BY <1>3, <1>4, <1>5 DEF WebhooksInv

\* A transaction changes its own record to one of the right type, and the other tables
\* keep theirs.
LEMMA StepType ==
  ASSUME WebhooksInv, NEW w \in HookWorkers, NEW new \in Engine,
         engine' = [engine EXCEPT ![w] = new],
         UNCHANGED <<hook, delivery>>, posted' \in [Deliveries -> Nat],
         contested' \subseteq Deliveries
  PROVE  WebhooksTypeOK'
BY DEF WebhooksInv, WebhooksTypeOK

\* The first post of a delivery is the first attempt it counts.
LEMMA FirstPostPreserves ==
  ASSUME WebhooksInv, NEW w \in HookWorkers, NEW h \in Hooks, NEW d \in Deliveries,
         NEW answer \in {"answered", "refused"}, _deliver_single(w, h, d, answer)
  PROVE  WebhooksInv'
<1> DEFINE row == [status |-> "pending", hook |-> h, attempt_count |-> 1]
           copy == [engine[w].copy EXCEPT ![d] = row]
           outcome == [engine[w].outcome EXCEPT ![d] = answer]
           new == [engine[w] EXCEPT !.fired = engine[w].fired \ {h}, !.copy = copy,
                                    !.outcome = outcome]
<1>1. UNCHANGED <<hook, delivery, contested>> /\ posted' = [posted EXCEPT ![d] = @ + 1]
  BY DEF _deliver_single
<1>2. engine[w] \in Engine /\ engine \in [HookWorkers -> Engine]
  BY EngineOK DEF WebhooksInv, WebhooksTypeOK
<1>3. engine' = [engine EXCEPT ![w] = new]
  BY <1>2 DEF _deliver_single, Engine
<1>4. row \in DeliveryRow
  BY WebhooksAssumption DEF DeliveryRow, Statuses
<1>5. new \in Engine /\ new.kind = engine[w].kind /\ new.copy = copy /\ new.outcome = outcome
  <2>1. copy \in [Deliveries -> DeliveryRow]
    BY <1>4, EngineOK DEF WebhooksInv
  <2>2. outcome \in [Deliveries -> Outcomes]
    BY EngineOK DEF WebhooksInv, Outcomes
  <2>3. engine[w].fired \ {h} \in SUBSET Hooks
    BY EngineOK DEF WebhooksInv
  <2>4. new = [engine[w] EXCEPT !.fired = engine[w].fired \ {h}, !.copy = copy,
                                !.outcome = outcome]
    OBVIOUS
  <2> HIDE DEF copy, outcome, new
  <2>5. QED
    BY <1>2, <2>1, <2>2, <2>3, <2>4 DEF Engine
<1>6. WebhooksTypeOK'
  BY <1>1, <1>3, <1>5, StepType DEF WebhooksInv, WebhooksTypeOK
<1>7. /\ engine'[w].kind = "deliver"
      /\ \A v \in HookWorkers \ {w} : engine'[v] = engine[v]
      /\ \A c \in Deliveries \ {d} : /\ engine'[w].copy[c] = engine[w].copy[c]
                                    /\ engine'[w].outcome[c] = engine[w].outcome[c]
                                    /\ posted'[c] = posted[c]
      /\ engine'[w].copy[d] = row /\ engine'[w].outcome[d] = answer
      /\ posted'[d] = 1
  <2>1. engine'[w] = new /\ \A v \in HookWorkers \ {w} : engine'[v] = engine[v]
    BY <1>2, <1>3
  <2>2. engine'[w].kind = "deliver"
    BY <2>1, <1>5 DEF _deliver_single
  <2>3. /\ \A c \in Deliveries \ {d} : copy[c] = engine[w].copy[c]
                                      /\ outcome[c] = engine[w].outcome[c]
        /\ copy[d] = row /\ outcome[d] = answer
    BY EngineOK DEF WebhooksInv
  <2>4. posted'[d] = 1 /\ \A c \in Deliveries \ {d} : posted'[c] = posted[c]
    BY <1>1 DEF _deliver_single, Unused, WebhooksInv, WebhooksTypeOK
  <2>5. QED
    BY <2>1, <2>2, <2>3, <2>4, <1>5
<1>8. delivery[d].status = "none" /\ \A v \in HookWorkers : d \notin Held(v)
  BY DEF _deliver_single, Unused
<1> HIDE DEF new, copy, outcome
<1>9. IdleHoldsNothing'
  BY <1>7 DEF WebhooksInv, IdleHoldsNothing
<1>10. InsertedOK'
  BY <1>1, <1>7, <1>8 DEF WebhooksInv, InsertedOK, Held, Inserted
<1>11. OneHolderOK'
  BY <1>1, <1>7, <1>8 DEF WebhooksInv, OneHolderOK, Held
<1>12. CountsOK'
  <2> SUFFICES ASSUME NEW c \in Deliveries \ contested
               PROVE  /\ posted'[c] < MaxRetries
                      /\ \A v \in HookWorkers : Posting(v, c)' =>
                           posted'[c] = engine'[v].copy[c].attempt_count
                      /\ \A v \in HookWorkers : engine'[v].outcome[c] = "todo" =>
                           /\ posted'[c] + 1 = engine'[v].copy[c].attempt_count
                           /\ engine'[v].copy[c].attempt_count < MaxRetries
                      /\ delivery'[c].status = "retrying"
                             /\ (\A v \in HookWorkers : ~Posting(v, c)') =>
                           posted'[c] + 1 = delivery'[c].attempt_count
    BY <1>1 DEF CountsOK
  <2>1. CASE c = d
    BY <2>1, <1>1, <1>7, <1>8, WebhooksAssumption DEF Held, Posting
  <2>2. CASE c # d
    BY <2>2, <1>1, <1>7 DEF WebhooksInv, CountsOK, Posting
  <2>3. QED
    BY <2>1, <2>2
<1>13. QED
  BY <1>6, <1>9, <1>10, <1>11, <1>12 DEF WebhooksInv

SetsOutcome(w, d, new) == engine' = [engine EXCEPT ![w].outcome[d] = new]

\* A change of one outcome of one transaction, and of nothing else of the transactions.
LEMMA OutcomeStep ==
  ASSUME WebhooksInv, NEW w \in HookWorkers, NEW d \in Deliveries, NEW new \in Outcomes,
         SetsOutcome(w, d, new)
  PROVE  /\ engine' \in [HookWorkers -> Engine]
         /\ \A v \in HookWorkers \ {w} : engine'[v] = engine[v]
         /\ engine'[w].kind = engine[w].kind /\ engine'[w].copy = engine[w].copy
         /\ \A c \in Deliveries \ {d} : engine'[w].outcome[c] = engine[w].outcome[c]
         /\ engine'[w].outcome[d] = new
<1> DEFINE outcome == [engine[w].outcome EXCEPT ![d] = new]
<1>1. engine[w] \in Engine /\ engine \in [HookWorkers -> Engine]
  BY EngineOK DEF WebhooksInv, WebhooksTypeOK
<1>2. outcome \in [Deliveries -> Outcomes]
  BY EngineOK DEF WebhooksInv
<1>3. outcome[d] = new /\ \A c \in Deliveries \ {d} : outcome[c] = engine[w].outcome[c]
  BY EngineOK DEF WebhooksInv
<1>4. engine' = [engine EXCEPT ![w] = [engine[w] EXCEPT !.outcome = outcome]]
  BY <1>1 DEF Engine, SetsOutcome
<1> HIDE DEF outcome
<1>5. /\ [engine[w] EXCEPT !.outcome = outcome] \in Engine
      /\ [engine[w] EXCEPT !.outcome = outcome].kind = engine[w].kind
      /\ [engine[w] EXCEPT !.outcome = outcome].copy = engine[w].copy
      /\ [engine[w] EXCEPT !.outcome = outcome].outcome = outcome
  BY <1>1, <1>2 DEF Engine
<1>6. QED
  BY <1>1, <1>3, <1>4, <1>5

\* A retry posts a delivery below the limit, and its count was one ahead.
LEMMA PostAgainPreserves ==
  ASSUME WebhooksInv, NEW w \in HookWorkers, NEW d \in Deliveries,
         NEW answer \in {"answered", "refused"}, PostAgain(w, d, answer)
  PROVE  WebhooksInv'
<1>1. UNCHANGED <<hook, delivery, contested>> /\ posted' = [posted EXCEPT ![d] = @ + 1]
  BY DEF PostAgain
<1>2. SetsOutcome(w, d, answer)
      /\ engine[w].outcome[d] = "todo" /\ engine[w].kind = "retry"
  BY DEF PostAgain, SetsOutcome
<1>3. answer \in Outcomes
  BY DEF Outcomes
<1>4. /\ engine' \in [HookWorkers -> Engine]
      /\ \A v \in HookWorkers \ {w} : engine'[v] = engine[v]
      /\ engine'[w].kind = engine[w].kind /\ engine'[w].copy = engine[w].copy
      /\ \A c \in Deliveries \ {d} : engine'[w].outcome[c] = engine[w].outcome[c]
      /\ engine'[w].outcome[d] = answer
  BY <1>2, <1>3, OutcomeStep
<1>5. posted'[d] = posted[d] + 1 /\ (\A c \in Deliveries \ {d} : posted'[c] = posted[c])
      /\ posted[d] \in Nat /\ posted' \in [Deliveries -> Nat]
  BY <1>1 DEF WebhooksInv, WebhooksTypeOK
<1>6. WebhooksTypeOK'
  BY <1>1, <1>4, <1>5 DEF WebhooksInv, WebhooksTypeOK
<1>7. IdleHoldsNothing'
  BY <1>2, <1>4 DEF WebhooksInv, IdleHoldsNothing
<1>8. \A v \in HookWorkers, c \in Deliveries : (c \in Held(v))' <=> c \in Held(v)
  BY <1>2, <1>4 DEF Held
<1>9. InsertedOK' /\ OneHolderOK'
  BY <1>1, <1>4, <1>8 DEF WebhooksInv, InsertedOK, OneHolderOK, Inserted
<1>10. CountsOK'
  <2> SUFFICES ASSUME NEW c \in Deliveries \ contested
               PROVE  /\ posted'[c] < MaxRetries
                      /\ \A v \in HookWorkers : Posting(v, c)' =>
                           posted'[c] = engine'[v].copy[c].attempt_count
                      /\ \A v \in HookWorkers : engine'[v].outcome[c] = "todo" =>
                           /\ posted'[c] + 1 = engine'[v].copy[c].attempt_count
                           /\ engine'[v].copy[c].attempt_count < MaxRetries
                      /\ delivery'[c].status = "retrying"
                             /\ (\A v \in HookWorkers : ~Posting(v, c)') =>
                           posted'[c] + 1 = delivery'[c].attempt_count
    BY <1>1 DEF CountsOK
  <2>1. CASE c = d
    <3>1. \A v \in HookWorkers \ {w} : engine[v].outcome[c] = "none"
      BY <2>1, <1>2 DEF WebhooksInv, OneHolderOK, Held
    <3>2. posted[c] + 1 = engine[w].copy[c].attempt_count
          /\ engine[w].copy[c].attempt_count < MaxRetries
      BY <2>1, <1>2 DEF WebhooksInv, CountsOK
    <3>3. Posting(w, c)' /\ \A v \in HookWorkers \ {w} : engine'[v].outcome[c] = "none"
      BY <2>1, <3>1, <1>4 DEF Posting
    <3>4. QED
      BY <2>1, <1>4, <1>5, <3>2, <3>3 DEF Posting
  <2>2. CASE c # d
    BY <2>2, <1>1, <1>4, <1>5 DEF WebhooksInv, CountsOK, Posting
  <2>3. QED
    BY <2>1, <2>2
<1>11. QED
  BY <1>6, <1>7, <1>9, <1>10 DEF WebhooksInv

\* A dropped delivery is held as before and is not posted.
LEMMA DropPreserves ==
  ASSUME WebhooksInv, NEW w \in HookWorkers, NEW d \in Deliveries, DropDelivery(w, d)
  PROVE  WebhooksInv'
<1>1. UNCHANGED <<hook, delivery, posted, contested>>
  BY DEF DropDelivery
<1>2. SetsOutcome(w, d, "dropped")
      /\ engine[w].outcome[d] = "todo" /\ engine[w].kind = "retry"
  BY DEF DropDelivery, SetsOutcome
<1>3. "dropped" \in Outcomes
  BY DEF Outcomes
<1>4. /\ engine' \in [HookWorkers -> Engine]
      /\ \A v \in HookWorkers \ {w} : engine'[v] = engine[v]
      /\ engine'[w].kind = engine[w].kind /\ engine'[w].copy = engine[w].copy
      /\ \A c \in Deliveries \ {d} : engine'[w].outcome[c] = engine[w].outcome[c]
      /\ engine'[w].outcome[d] = "dropped"
  BY <1>2, <1>3, OutcomeStep
<1>5. WebhooksTypeOK'
  BY <1>1, <1>4 DEF WebhooksInv, WebhooksTypeOK
<1>6. IdleHoldsNothing'
  BY <1>2, <1>4 DEF WebhooksInv, IdleHoldsNothing
<1>7. \A v \in HookWorkers, c \in Deliveries : (c \in Held(v))' <=> c \in Held(v)
  BY <1>2, <1>4 DEF Held
<1>8. \A v \in HookWorkers, c \in Deliveries : Posting(v, c)' <=> Posting(v, c)
  BY <1>2, <1>4 DEF Posting
<1>9. \A v \in HookWorkers, c \in Deliveries :
        engine'[v].outcome[c] = "todo" => engine[v].outcome[c] = "todo"
  BY <1>2, <1>4
<1>10. \A v \in HookWorkers : engine'[v].copy = engine[v].copy
  BY <1>4
<1>11. InsertedOK' /\ OneHolderOK'
  BY <1>1, <1>7, <1>10 DEF WebhooksInv, InsertedOK, OneHolderOK, Inserted
<1>12. CountsOK'
  BY <1>1, <1>8, <1>9, <1>10 DEF WebhooksInv, CountsOK
<1>13. QED
  BY <1>5, <1>6, <1>11, <1>12 DEF WebhooksInv

\* A flushed outcome is of the post that was made.
LEMMA FlushPreserves ==
  ASSUME WebhooksInv, NEW w \in HookWorkers, NEW d \in Deliveries, FlushOutcome(w, d)
  PROVE  WebhooksInv'
<1>1. UNCHANGED <<hook, delivery, posted, contested>>
  BY DEF FlushOutcome
<1>2. engine[w] \in Engine /\ engine \in [HookWorkers -> Engine]
  BY EngineOK DEF WebhooksInv, WebhooksTypeOK
<1>3. PICK new \in {"success", "failed"} : SetsOutcome(w, d, new)
  <2>1. CASE engine[w].outcome[d] = "answered"
    BY <1>2, <2>1, EngineOK DEF FlushOutcome, Engine, WebhooksInv, SetsOutcome
  <2>2. CASE engine[w].outcome[d] # "answered"
    BY <1>2, <2>2, EngineOK DEF FlushOutcome, Engine, WebhooksInv, SetsOutcome
  <2>3. QED
    BY <2>1, <2>2
<1>4. new \in Outcomes /\ engine[w].outcome[d] \in {"answered", "refused"}
  BY <1>3 DEF Outcomes, FlushOutcome
<1>5. /\ engine' \in [HookWorkers -> Engine]
      /\ \A v \in HookWorkers \ {w} : engine'[v] = engine[v]
      /\ engine'[w].kind = engine[w].kind /\ engine'[w].copy = engine[w].copy
      /\ \A c \in Deliveries \ {d} : engine'[w].outcome[c] = engine[w].outcome[c]
      /\ engine'[w].outcome[d] = new
  BY <1>3, <1>4, OutcomeStep
<1>6. WebhooksTypeOK'
  BY <1>1, <1>5 DEF WebhooksInv, WebhooksTypeOK
<1>7. IdleHoldsNothing'
  BY <1>4, <1>5 DEF WebhooksInv, IdleHoldsNothing
<1>8. \A v \in HookWorkers, c \in Deliveries : (c \in Held(v))' <=> c \in Held(v)
  BY <1>3, <1>4, <1>5 DEF Held
<1>9. \A v \in HookWorkers, c \in Deliveries : Posting(v, c)' <=> Posting(v, c)
  BY <1>3, <1>4, <1>5 DEF Posting
<1>10. \A v \in HookWorkers, c \in Deliveries :
         engine'[v].outcome[c] = "todo" => engine[v].outcome[c] = "todo"
  BY <1>3, <1>4, <1>5
<1>11. \A v \in HookWorkers : engine'[v].copy = engine[v].copy
  BY <1>5
<1>12. InsertedOK' /\ OneHolderOK'
  BY <1>1, <1>8, <1>11 DEF WebhooksInv, InsertedOK, OneHolderOK, Inserted
<1>13. CountsOK'
  BY <1>1, <1>9, <1>10, <1>11 DEF WebhooksInv, CountsOK
<1>14. QED
  BY <1>6, <1>7, <1>12, <1>13 DEF WebhooksInv

\* A run of retries holds what it selects, whose count is one ahead of its posts.
LEMMA RetryPreserves ==
  ASSUME WebhooksInv, NEW w \in HookWorkers, NEW due \in SUBSET Deliveries,
         retry_pending_deliveries(w, due)
  PROVE  WebhooksInv'
<1> DEFINE copy == [d \in Deliveries |-> IF d \in due THEN delivery[d] ELSE NoDelivery]
           outcome == [d \in Deliveries |-> IF d \in due THEN "todo" ELSE "none"]
           new == [engine[w] EXCEPT !.kind = "retry", !.copy = copy, !.outcome = outcome]
<1>1. UNCHANGED <<hook, delivery, posted>> /\ due \subseteq Selectable
      /\ engine[w].kind = "idle"
      /\ contested' = contested \cup {d \in due : \E v \in HookWorkers \ {w} : d \in Held(v)}
  BY DEF retry_pending_deliveries
<1>2. engine[w] \in Engine /\ engine \in [HookWorkers -> Engine]
  BY EngineOK DEF WebhooksInv, WebhooksTypeOK
<1>3. engine' = [engine EXCEPT ![w] = new]
  BY <1>2 DEF retry_pending_deliveries, Engine
<1>4. copy \in [Deliveries -> DeliveryRow]
  BY EmptyRowsOK DEF WebhooksInv, WebhooksTypeOK
<1>5. outcome \in [Deliveries -> Outcomes]
  BY DEF Outcomes
<1>6. /\ \A d \in due : copy[d] = delivery[d] /\ outcome[d] = "todo"
      /\ \A d \in Deliveries \ due : outcome[d] = "none"
  OBVIOUS
<1>7. new = [engine[w] EXCEPT !.kind = "retry", !.copy = copy, !.outcome = outcome]
  OBVIOUS
<1> HIDE DEF copy, outcome, new
<1>8. new \in Engine /\ new.kind = "retry" /\ new.copy = copy /\ new.outcome = outcome
  BY <1>2, <1>4, <1>5, <1>7 DEF Engine
<1>9. engine'[w] = new /\ \A v \in HookWorkers \ {w} : engine'[v] = engine[v]
  BY <1>2, <1>3
<1>10. \A d \in due : delivery[d].status = "retrying" /\ delivery[d].attempt_count < MaxRetries
  BY <1>1 DEF Selectable
<1>11. \A d \in Deliveries : engine[w].outcome[d] = "none"
  BY <1>1 DEF WebhooksInv, IdleHoldsNothing
<1>12. WebhooksTypeOK'
  <2>1. engine' \in [HookWorkers -> Engine]
    BY <1>2, <1>3, <1>8
  <2>2. contested' \subseteq Deliveries
    BY <1>1 DEF WebhooksInv, WebhooksTypeOK
  <2>3. QED
    BY <1>1, <2>1, <2>2 DEF WebhooksInv, WebhooksTypeOK
<1>13. IdleHoldsNothing'
  BY <1>8, <1>9 DEF WebhooksInv, IdleHoldsNothing
<1>14. InsertedOK'
  <2> SUFFICES ASSUME NEW v \in HookWorkers, NEW d \in Deliveries,
                      (d \in Held(v))', Inserted(v, d)'
               PROVE  /\ delivery'[d].status = "none"
                      /\ \A u \in HookWorkers \ {v} : (d \notin Held(u))'
    BY DEF InsertedOK
  <2>1. v # w
    BY <1>6, <1>8, <1>9, <1>10 DEF Held, Inserted
  <2>2. d \in Held(v) /\ Inserted(v, d)
    BY <2>1, <1>9 DEF Held, Inserted
  <2>3. delivery[d].status = "none" /\ \A u \in HookWorkers \ {v} : d \notin Held(u)
    BY <2>2 DEF WebhooksInv, InsertedOK
  <2>4. d \notin due
    BY <2>3, <1>10
  <2>5. QED
    BY <1>1, <1>6, <1>8, <1>9, <2>3, <2>4 DEF Held
<1>15. \A d \in Deliveries \ contested' :
         d \in due => \A v \in HookWorkers \ {w} : engine[v].outcome[d] = "none"
  BY <1>1 DEF Held
<1>16. OneHolderOK'
  <2> SUFFICES ASSUME NEW d \in Deliveries \ contested', NEW u \in HookWorkers,
                      NEW v \in HookWorkers, (d \in Held(u))', (d \in Held(v))'
               PROVE  u = v
    BY DEF OneHolderOK
  <2>1. CASE d \in due
    BY <2>1, <1>9, <1>15 DEF Held
  <2>2. CASE d \notin due
    <3>1. u # w /\ v # w
      BY <2>2, <1>6, <1>8, <1>9 DEF Held
    <3>2. QED
      BY <3>1, <1>1, <1>9 DEF WebhooksInv, OneHolderOK, Held
  <2>3. QED
    BY <2>1, <2>2
<1>17. CountsOK'
  <2> SUFFICES ASSUME NEW d \in Deliveries \ contested'
               PROVE  /\ posted'[d] < MaxRetries
                      /\ \A v \in HookWorkers : Posting(v, d)' =>
                           posted'[d] = engine'[v].copy[d].attempt_count
                      /\ \A v \in HookWorkers : engine'[v].outcome[d] = "todo" =>
                           /\ posted'[d] + 1 = engine'[v].copy[d].attempt_count
                           /\ engine'[v].copy[d].attempt_count < MaxRetries
                      /\ delivery'[d].status = "retrying"
                             /\ (\A v \in HookWorkers : ~Posting(v, d)') =>
                           posted'[d] + 1 = delivery'[d].attempt_count
    BY DEF CountsOK
  <2>1. d \in Deliveries \ contested
    BY <1>1
  <2>2. CASE d \in due
    <3>1. \A v \in HookWorkers : ~Posting(v, d)
      BY <2>2, <1>11, <1>15 DEF Posting
    <3>2. posted[d] < MaxRetries /\ posted[d] + 1 = delivery[d].attempt_count
      BY <2>1, <2>2, <3>1, <1>10 DEF WebhooksInv, CountsOK
    <3>3. engine'[w].outcome[d] = "todo" /\ engine'[w].copy[d] = delivery[d]
      BY <2>2, <1>6, <1>8, <1>9
    <3>4. \A v \in HookWorkers \ {w} : engine'[v].outcome[d] = "none"
      BY <2>2, <1>9, <1>15
    <3>5. \A v \in HookWorkers : ~Posting(v, d)'
      BY <3>3, <3>4 DEF Posting
    <3>6. QED
      BY <1>1, <1>10, <2>2, <3>2, <3>3, <3>4, <3>5
  <2>3. CASE d \notin due
    <3>1. engine'[w].outcome[d] = "none"
      BY <2>3, <1>6, <1>8, <1>9
    <3>2. \A v \in HookWorkers : Posting(v, d)' <=> Posting(v, d)
      BY <3>1, <1>9, <1>11 DEF Posting
    <3>3. QED
      BY <1>1, <1>9, <2>1, <3>1, <3>2 DEF WebhooksInv, CountsOK, Posting
  <2>4. QED
    BY <2>2, <2>3
<1>18. QED
  BY <1>12, <1>13, <1>14, <1>16, <1>17 DEF WebhooksInv

\* A transaction that ends holds nothing, and the others are as they were.
LEMMA EndStep ==
  ASSUME WebhooksInv, NEW w \in HookWorkers, EndEngine(w)
  PROVE  /\ engine' \in [HookWorkers -> Engine]
         /\ \A v \in HookWorkers \ {w} : engine'[v] = engine[v]
         /\ \A d \in Deliveries : engine'[w].outcome[d] = "none"
BY EmptyRowsOK DEF EndEngine, WebhooksInv, WebhooksTypeOK, IdleEngine

\* A rollback leaves the rows, and what it had posted is contested.
LEMMA RollbackPreserves ==
  ASSUME WebhooksInv, NEW w \in HookWorkers, RollbackDeliveries(w)
  PROVE  WebhooksInv'
<1>1. UNCHANGED <<hook, delivery, posted>> /\ EndEngine(w)
      /\ contested' = contested \cup {d \in Held(w) : Posting(w, d)}
  BY DEF RollbackDeliveries, Posting
<1>2. /\ engine' \in [HookWorkers -> Engine]
      /\ \A v \in HookWorkers \ {w} : engine'[v] = engine[v]
      /\ \A d \in Deliveries : engine'[w].outcome[d] = "none"
  BY <1>1, EndStep
<1>3. WebhooksTypeOK'
  BY <1>1, <1>2 DEF WebhooksInv, WebhooksTypeOK, Held
<1>4. IdleHoldsNothing'
  BY <1>2 DEF WebhooksInv, IdleHoldsNothing
<1>5. InsertedOK'
  BY <1>1, <1>2 DEF WebhooksInv, InsertedOK, Held, Inserted
<1>6. OneHolderOK'
  BY <1>1, <1>2 DEF WebhooksInv, OneHolderOK, Held
<1>7. \A d \in Deliveries \ contested', v \in HookWorkers : Posting(v, d)' <=> Posting(v, d)
  BY <1>1, <1>2 DEF Posting, Held
<1>8. CountsOK'
  BY <1>1, <1>2, <1>7 DEF WebhooksInv, CountsOK, Posting
<1>9. QED
  BY <1>3, <1>4, <1>5, <1>6, <1>8 DEF WebhooksInv

\* What is written has the type of a row.
LEMMA WrittenOK ==
  ASSUME WebhooksTypeOK, NEW w \in HookWorkers, NEW d \in Deliveries
  PROVE  Written(w, d) \in DeliveryRow
<1>1. delivery[d] \in DeliveryRow /\ engine[w].copy[d] \in DeliveryRow
  BY EngineOK DEF WebhooksTypeOK
<1>2. /\ \A row \in DeliveryRow, s \in Statuses : [row EXCEPT !.status = s] \in DeliveryRow
      /\ \A row \in DeliveryRow, n \in 0..MaxRetries :
           /\ [row EXCEPT !.attempt_count = n] \in DeliveryRow
           /\ [row EXCEPT !.status = "retrying", !.attempt_count = n] \in DeliveryRow
  BY DEF DeliveryRow, Statuses
<1>3. mark_success(w, d) \in DeliveryRow /\ mark_permanently_failed(w, d) \in DeliveryRow
  BY <1>1, <1>2 DEF mark_success, mark_permanently_failed, Statuses
<1>4. _handle_delivery_failure(w, d) \in DeliveryRow
  <2>1. CASE engine[w].copy[d].attempt_count >= MaxRetries
    BY <2>1, <1>3 DEF _handle_delivery_failure
  <2>2. CASE ~(engine[w].copy[d].attempt_count >= MaxRetries)
    <3>1. engine[w].copy[d].attempt_count + 1 \in 0..MaxRetries
      BY <1>1, <2>2, WebhooksAssumption DEF DeliveryRow
    <3>2. mark_failed(w, d) \in DeliveryRow
      BY <1>1, <1>2, <3>1 DEF mark_failed
    <3>3. QED
      BY <2>2, <3>2 DEF _handle_delivery_failure
  <2>3. QED
    BY <2>1, <2>2
<1>5. QED
  BY <1>1, <1>3, <1>4 DEF Written

\* What a transaction writes of an uncontested delivery that stays scheduled counts its post.
LEMMA WrittenCounts ==
  ASSUME WebhooksInv, NEW w \in HookWorkers, NEW d \in Deliveries \ contested,
         engine[w].outcome[d] \in Flushed, Written(w, d).status = "retrying"
  PROVE  posted[d] + 1 = Written(w, d).attempt_count
<1>1. delivery[d] \in DeliveryRow /\ engine[w].copy[d] \in DeliveryRow
  BY EngineOK DEF WebhooksInv, WebhooksTypeOK
<1>2. \A row \in DeliveryRow, s \in Statuses : [row EXCEPT !.status = s].status = s
  BY DEF DeliveryRow
<1>3. mark_success(w, d).status = "success"
      /\ mark_permanently_failed(w, d).status = "failed_permanently"
  BY <1>1, <1>2 DEF mark_success, mark_permanently_failed, Statuses
<1>4. engine[w].outcome[d] = "failed"
  BY <1>3 DEF Written, Flushed
<1>5. engine[w].copy[d].attempt_count < MaxRetries
  BY <1>1, <1>3, <1>4, WebhooksAssumption DEF Written, _handle_delivery_failure, DeliveryRow
<1>6. Written(w, d) = mark_failed(w, d)
  BY <1>1, <1>4, <1>5, WebhooksAssumption DEF Written, _handle_delivery_failure, DeliveryRow
<1>7. mark_failed(w, d).attempt_count = engine[w].copy[d].attempt_count + 1
  BY <1>1 DEF mark_failed, DeliveryRow
<1>8. posted[d] = engine[w].copy[d].attempt_count
  BY <1>4 DEF WebhooksInv, CountsOK, Posting
<1>9. QED
  BY <1>6, <1>7, <1>8

\* A commit writes what the transaction holds and lets it go.
LEMMA CommitPreserves ==
  ASSUME WebhooksInv, NEW w \in HookWorkers, CommitDeliveries(w)
  PROVE  WebhooksInv'
<1>1. UNCHANGED <<hook, posted, contested>> /\ EndEngine(w)
      /\ delivery' = [d \in Deliveries |-> Written(w, d)]
      /\ \A d \in Held(w) : engine[w].outcome[d] \in Flushed
  BY DEF CommitDeliveries
<1>2. /\ engine' \in [HookWorkers -> Engine]
      /\ \A v \in HookWorkers \ {w} : engine'[v] = engine[v]
      /\ \A d \in Deliveries : engine'[w].outcome[d] = "none"
  BY <1>1, EndStep
<1>3. \A d \in Deliveries : d \notin Held(w) => delivery'[d] = delivery[d]
  BY <1>1 DEF Held, Written
<1>4. WebhooksTypeOK'
  <2>1. delivery' \in [Deliveries -> DeliveryRow]
    BY <1>1, WrittenOK DEF WebhooksInv
  <2>2. QED
    BY <1>1, <1>2, <2>1 DEF WebhooksInv, WebhooksTypeOK
<1>5. IdleHoldsNothing'
  BY <1>2 DEF WebhooksInv, IdleHoldsNothing
<1>6. InsertedOK'
  <2> SUFFICES ASSUME NEW v \in HookWorkers, NEW d \in Deliveries,
                      (d \in Held(v))', Inserted(v, d)'
               PROVE  /\ delivery'[d].status = "none"
                      /\ \A u \in HookWorkers \ {v} : (d \notin Held(u))'
    BY DEF InsertedOK
  <2>1. v # w
    BY <1>2 DEF Held
  <2>2. d \in Held(v) /\ Inserted(v, d)
    BY <2>1, <1>2 DEF Held, Inserted
  <2>3. delivery[d].status = "none" /\ \A u \in HookWorkers \ {v} : d \notin Held(u)
    BY <2>2 DEF WebhooksInv, InsertedOK
  <2>4. QED
    BY <1>2, <1>3, <2>1, <2>3 DEF Held
<1>7. OneHolderOK'
  BY <1>1, <1>2 DEF WebhooksInv, OneHolderOK, Held
<1>8. CountsOK'
  <2> SUFFICES ASSUME NEW d \in Deliveries \ contested
               PROVE  /\ posted'[d] < MaxRetries
                      /\ \A v \in HookWorkers : Posting(v, d)' =>
                           posted'[d] = engine'[v].copy[d].attempt_count
                      /\ \A v \in HookWorkers : engine'[v].outcome[d] = "todo" =>
                           /\ posted'[d] + 1 = engine'[v].copy[d].attempt_count
                           /\ engine'[v].copy[d].attempt_count < MaxRetries
                      /\ delivery'[d].status = "retrying"
                             /\ (\A v \in HookWorkers : ~Posting(v, d)') =>
                           posted'[d] + 1 = delivery'[d].attempt_count
    BY <1>1 DEF CountsOK
  <2>1. CASE d \in Held(w)
    <3>1. delivery'[d] = Written(w, d) /\ engine[w].outcome[d] \in Flushed
      BY <1>1, <2>1
    <3>2. \A v \in HookWorkers : engine'[v].outcome[d] = "none"
      BY <1>2, <2>1 DEF WebhooksInv, OneHolderOK, Held
    <3>3. delivery'[d].status = "retrying" => posted[d] + 1 = delivery'[d].attempt_count
      BY <3>1, WrittenCounts
    <3>4. posted[d] < MaxRetries
      BY DEF WebhooksInv, CountsOK
    <3>5. QED
      BY <1>1, <3>2, <3>3, <3>4 DEF Posting
  <2>2. CASE d \notin Held(w)
    <3>1. \A v \in HookWorkers : Posting(v, d)' <=> Posting(v, d)
      BY <1>2, <2>2 DEF Posting, Held
    <3>2. delivery'[d] = delivery[d]
      BY <1>3, <2>2
    <3>3. QED
      BY <1>1, <1>2, <3>1, <3>2 DEF WebhooksInv, CountsOK, Posting
  <2>3. QED
    BY <2>1, <2>2
<1>9. QED
  BY <1>4, <1>5, <1>6, <1>7, <1>8 DEF WebhooksInv

----------------------------------------------------------------------------
(* Theorems *)

\* The strengthened invariant of the webhooks.
THEOREM WebhooksInvariant == WebhooksSpec => []WebhooksInv
<1>1. WebhooksInv /\ [WebhooksNext]_webhooksVars => WebhooksInv'
  <2> SUFFICES ASSUME WebhooksInv, [WebhooksNext]_webhooksVars
               PROVE  WebhooksInv'
    OBVIOUS
  <2>1. CASE WebhooksNext
    <3>1. CASE \E h \in Hooks, active \in BOOLEAN, events \in SUBSET Events :
                 create_webhook(h, active, events) \/ update_webhook(h, active, events)
      BY <3>1, HooksPreserve
    <3>2. CASE \E h \in Hooks : delete_webhook(h)
      BY <3>2, HooksPreserve
    <3>3. CASE \E w \in HookWorkers, e \in Events : deliver_webhook(w, e)
      BY <3>3, DeliverPreserves
    <3>4. CASE \E w \in HookWorkers, h \in Hooks, d \in Deliveries,
                  answer \in {"answered", "refused"} : _deliver_single(w, h, d, answer)
      BY <3>4, FirstPostPreserves
    <3>5. CASE \E w \in HookWorkers, due \in SUBSET Deliveries :
                 retry_pending_deliveries(w, due)
      BY <3>5, RetryPreserves
    <3>6. CASE \E w \in HookWorkers, d \in Deliveries :
                 \/ \E answer \in {"answered", "refused"} : PostAgain(w, d, answer)
                 \/ DropDelivery(w, d)
                 \/ FlushOutcome(w, d)
      BY <3>6, PostAgainPreserves, DropPreserves, FlushPreserves
    <3>7. CASE \E w \in HookWorkers : CommitDeliveries(w) \/ RollbackDeliveries(w)
      BY <3>7, CommitPreserves, RollbackPreserves
    <3>8. QED
      BY <2>1, <3>1, <3>2, <3>3, <3>4, <3>5, <3>6, <3>7 DEF WebhooksNext
  <2>2. CASE UNCHANGED webhooksVars
    BY <2>2 DEF webhooksVars, WebhooksInv, WebhooksTypeOK, IdleHoldsNothing, InsertedOK,
                OneHolderOK, CountsOK, Held, Inserted, Posting
  <2>3. QED
    BY <2>1, <2>2
<1>2. QED
  BY WebhooksInitOK, <1>1, PTL DEF WebhooksSpec

\* Type correctness of webhooks, deliveries and transactions.
THEOREM WebhooksTypes == WebhooksSpec => []WebhooksTypeOK
<1>1. WebhooksInv => WebhooksTypeOK
  BY DEF WebhooksInv
<1>2. QED
  BY WebhooksInvariant, <1>1, PTL

\* A delivery that no two transactions held, and none of whose posts was rolled back, is
\* posted fewer times than the limit (retry_pending_deliveries, mark_failed).
THEOREM PostsStayBelowLimit == WebhooksSpec => []PostsBelowLimit
<1>1. WebhooksInv => PostsBelowLimit
  BY DEF WebhooksInv, CountsOK, PostsBelowLimit
<1>2. QED
  BY WebhooksInvariant, <1>1, PTL

\* A successful delivery is not scheduled again by a run that loaded it before and failed
\* after (mark_failed).
THEOREM SuccessStaysSuccess == WebhooksSpec => SuccessNotRetried
<1>1. WebhooksInv /\ [WebhooksNext]_webhooksVars =>
        [\A d \in Deliveries :
           delivery[d].status = "success" => delivery'[d].status # "retrying"]_webhooksVars
  <2> SUFFICES ASSUME WebhooksInv, WebhooksNext, NEW d \in Deliveries,
                      delivery[d].status = "success"
               PROVE  delivery'[d].status # "retrying"
    OBVIOUS
  <2>1. CASE \E w \in HookWorkers : CommitDeliveries(w)
    <3>1. PICK w \in HookWorkers : CommitDeliveries(w)
      BY <2>1
    <3>2. delivery'[d] = Written(w, d)
      BY <3>1 DEF CommitDeliveries
    <3>3. delivery[d] \in DeliveryRow
      BY DEF WebhooksInv, WebhooksTypeOK
    <3>4. d \in Held(w) => ~Inserted(w, d)
      BY DEF WebhooksInv, InsertedOK
    <3>5. /\ \A s \in Statuses : [delivery[d] EXCEPT !.status = s].status = s
          /\ \A n : [delivery[d] EXCEPT !.attempt_count = n].status = "success"
      BY <3>3 DEF DeliveryRow
    <3>6. QED
      BY <3>2, <3>4, <3>5 DEF Held, Written, mark_success, mark_failed,
         mark_permanently_failed, _handle_delivery_failure, Statuses
  <2>2. CASE ~\E w \in HookWorkers : CommitDeliveries(w)
    <3>1. UNCHANGED delivery
      <4>1. ASSUME NEW h \in Hooks, NEW active, NEW events,
                   create_webhook(h, active, events) \/ update_webhook(h, active, events)
                     \/ delete_webhook(h)
            PROVE  UNCHANGED delivery
        BY <4>1 DEF create_webhook, update_webhook, delete_webhook
      <4>2. ASSUME NEW w, NEW e, deliver_webhook(w, e)
            PROVE  UNCHANGED delivery
        BY <4>2 DEF deliver_webhook
      <4>3. ASSUME NEW w, NEW h, NEW c, NEW answer, _deliver_single(w, h, c, answer)
            PROVE  UNCHANGED delivery
        BY <4>3 DEF _deliver_single
      <4>4. ASSUME NEW w, NEW due, retry_pending_deliveries(w, due)
            PROVE  UNCHANGED delivery
        BY <4>4 DEF retry_pending_deliveries
      <4>5. ASSUME NEW w, NEW c, NEW answer,
                   PostAgain(w, c, answer) \/ DropDelivery(w, c) \/ FlushOutcome(w, c)
                     \/ RollbackDeliveries(w)
            PROVE  UNCHANGED delivery
        BY <4>5 DEF PostAgain, DropDelivery, FlushOutcome, RollbackDeliveries
      <4>6. QED
        BY <2>2, <4>1, <4>2, <4>3, <4>4, <4>5 DEF WebhooksNext
    <3>2. QED
      BY <3>1
  <2>3. QED
    BY <2>1, <2>2
<1>2. QED
  BY WebhooksInvariant, <1>1, PTL DEF WebhooksSpec, SuccessNotRetried

----------------------------------------------------------------------------
(* The components side by side *)

\* A step of the platform is a step of one component, and of the others a stutter.
LEMMA PlatformSteps ==
  [PlatformNext]_componentVars =>
    /\ [SessionsNext]_sessionsVars
    /\ [IdempotencyNext]_idempotencyVars
    /\ [TenancyNext]_tenancyVars
    /\ [WebhooksNext]_webhooksVars
    /\ [AdminConsoleNext]_adminVars
    /\ [ApiKeysNext]_apiKeysVars
BY DEF PlatformNext, SessionsMove, IdempotencyMove, TenancyMove, WebhooksMove,
       AdminConsoleMove, ApiKeysMove, componentVars

\* The API runs requests of all its components at the same time; each component behaves as
\* specified alone, because no handler of one writes a variable of another.
THEOREM PlatformComposes ==
  PlatformSpec => /\ SessionsSpec
                  /\ IdempotencySpec
                  /\ TenancySpec
                  /\ WebhooksSpec
                  /\ AdminConsoleSpec
                  /\ ApiKeysSpec
<1>1. PlatformInit => /\ SessionsInit
                      /\ IdempotencyInit
                      /\ TenancyInit
                      /\ WebhooksInit
                      /\ AdminConsoleInit
                      /\ ApiKeysInit
  BY DEF PlatformInit
<1>2. QED
  BY <1>1, PlatformSteps, PTL
     DEF PlatformSpec, SessionsSpec, IdempotencySpec, TenancySpec, WebhooksSpec,
         AdminConsoleSpec, ApiKeysSpec

\* What TLC explores are behaviours of the platform.
LEMMA ExploredIsPlatform == MCSpec => PlatformSpec
<1>1. MCInit => PlatformInit
  BY DEF MCInit
<1>2. [MCNext]_<<componentVars, focus>> => [PlatformNext]_componentVars
  BY DEF MCNext, PlatformNext
<1>3. QED
  BY <1>1, <1>2, PTL DEF MCSpec, PlatformSpec

\* All requests, tasks and administrators together keep the types of all components.
THEOREM PlatformTypes ==
  /\ PlatformSpec => []PlatformTypeOK
  /\ MCSpec => []PlatformTypeOK
<1>1. /\ SessionsTypeOK
      /\ IdempotencyTypeOK
      /\ TenancyTypeOK
      /\ WebhooksTypeOK
      /\ AdminConsoleTypeOK
      /\ ApiKeysTypeOK
      => PlatformTypeOK
  BY DEF PlatformTypeOK
<1>2. ApiKeysInv => ApiKeysTypeOK
  BY DEF ApiKeysInv
<1>3. QED
  BY <1>1, <1>2, PlatformComposes, ExploredIsPlatform, SessionTypes, IdempotencyTypes,
     TenancyTypes, WebhooksTypes, AdminConsoleTypes, ApiKeysInvariant, PTL
=============================================================================
