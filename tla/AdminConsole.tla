---------------------------- MODULE AdminConsole ----------------------------
(***************************************************************************)
(* The administrators' console: campaigns sent to every active user,       *)
(* notifications published to them, and support tickets.                   *)
(*                                                                         *)
(* app/modules/admin/service.py, repository.py, router.py, models.py.      *)
(*                                                                         *)
(* A request is a READ COMMITTED transaction without locks: Read... is its *)
(* queries, Commit... its writes.  Recipient and delivery tables have no   *)
(* unique key.  Changes of users and plans are in Sessions and Tenancy;    *)
(* texts, announcements and audit rows are left out.                       *)
(***************************************************************************)
EXTENDS Integers, FiniteSets

CONSTANTS
  AdminWorkers,   \* requests served at a time
  Campaigns,
  Notifications,
  Tickets,
  Recipients,     \* users
  MaxPublishes,   \* bound: publications in a behaviour
  NoTarget

ASSUME AdminConsoleAssumption ==
  /\ MaxPublishes \in Nat
  /\ IsFiniteSet(Recipients)
  /\ NoTarget \notin Campaigns \cup Notifications \cup Tickets

VARIABLES
  reachable,   \* users with is_active
  campaign,    \* email_campaigns rows
  recipient,   \* email_campaign_recipients rows by campaign and user
  delivered,   \* in_app_notification_deliveries rows by notification and user
  publishes,   \* publications so far
  ticket,      \* feedback_tickets rows
  adminTx,     \* the transaction of each worker
  raced        \* history: campaigns with two sends open at once

adminVars == <<reachable, campaign, recipient, delivered, publishes, ticket, adminTx, raced>>

TicketStatuses == {"open", "resolved"}
TicketRow == [exists : BOOLEAN, status : TicketStatuses, resolved_at : BOOLEAN]

AdminTx == [kind : {"idle", "send", "publish", "ticket"},
            target : Campaigns \cup Notifications \cup Tickets \cup {NoTarget},
            users : SUBSET Recipients, status : TicketStatuses, loaded : TicketRow]

NoTicket == [exists |-> FALSE, status |-> "open", resolved_at |-> FALSE]
IdleAdmin == [kind |-> "idle", target |-> NoTarget, users |-> {}, status |-> "open",
              loaded |-> NoTicket]

AdminConsoleTypeOK ==
  /\ reachable \subseteq Recipients
  /\ campaign \in [Campaigns -> [status : {"none", "draft", "sent"}, recipient_count : Nat]]
  /\ recipient \in [Campaigns -> [Recipients -> Nat]]
  /\ delivered \in [Notifications -> [Recipients -> Nat]]
  /\ publishes \in 0..MaxPublishes
  /\ ticket \in [Tickets -> TicketRow]
  /\ adminTx \in [AdminWorkers -> AdminTx]
  /\ raced \subseteq Campaigns

AdminConsoleInit ==
  /\ reachable \in SUBSET Recipients
  /\ campaign = [c \in Campaigns |-> [status |-> "none", recipient_count |-> 0]]
  /\ recipient = [c \in Campaigns |-> [u \in Recipients |-> 0]]
  /\ delivered = [n \in Notifications |-> [u \in Recipients |-> 0]]
  /\ publishes = 0
  /\ ticket = [t \in Tickets |-> NoTicket]
  /\ adminTx = [w \in AdminWorkers |-> IdleAdmin]
  /\ raced = {}

OpenAdmin(w, tx) ==
  /\ adminTx[w].kind = "idle"
  /\ adminTx' = [adminTx EXCEPT ![w] = tx]

CloseAdmin(w) == adminTx' = [adminTx EXCEPT ![w] = IdleAdmin]

\* One more row for each of the users.
AddRows(table, x, users) ==
  [table EXCEPT ![x] = [u \in Recipients |-> IF u \in users THEN @[u] + 1 ELSE @[u]]]

AbortAdmin(w) ==
  /\ adminTx[w].kind # "idle"
  /\ CloseAdmin(w)
  /\ UNCHANGED <<reachable, campaign, recipient, delivered, publishes, ticket, raced>>

\* A user signs up or is enabled, or is disabled (module Sessions).
UserChanges(u) ==
  /\ reachable' = IF u \in reachable THEN reachable \ {u} ELSE reachable \cup {u}
  /\ UNCHANGED <<campaign, recipient, delivered, publishes, ticket, adminTx, raced>>

----------------------------------------------------------------------------
(* Campaigns *)

create_campaign(c) ==
  /\ campaign[c].status = "none"
  /\ campaign' = [campaign EXCEPT ![c].status = "draft"]
  /\ UNCHANGED <<reachable, recipient, delivered, publishes, ticket, adminTx, raced>>

\* A send that is refused only for a campaign that does not exist.
SendableAgain(c) == campaign[c].status # "none"

Sendable(c) == campaign[c].status = "draft"

ReadSend(w, c) ==
  /\ Sendable(c)
  /\ OpenAdmin(w, [IdleAdmin EXCEPT !.kind = "send", !.target = c, !.users = reachable])
  /\ raced' = IF \E v \in AdminWorkers : adminTx[v].kind = "send" /\ adminTx[v].target = c
                THEN raced \cup {c} ELSE raced
  /\ UNCHANGED <<reachable, campaign, recipient, delivered, publishes, ticket>>

\* A row per user, then status, recipient_count and sent_at.
CommitSend(w) ==
  LET tx == adminTx[w] IN
  /\ tx.kind = "send"
  /\ recipient' = AddRows(recipient, tx.target, tx.users)
  /\ campaign' = [campaign EXCEPT ![tx.target] =
       [status |-> "sent", recipient_count |-> Cardinality(tx.users)]]
  /\ CloseAdmin(w)
  /\ UNCHANGED <<reachable, delivered, publishes, ticket, raced>>

----------------------------------------------------------------------------
(* Notifications *)

\* Nothing records that a notification was published: it may be published again.
ReadPublish(w, n) ==
  /\ publishes < MaxPublishes
  /\ publishes' = publishes + 1
  /\ OpenAdmin(w, [IdleAdmin EXCEPT !.kind = "publish", !.target = n, !.users = reachable])
  /\ UNCHANGED <<reachable, campaign, recipient, delivered, ticket, raced>>

CommitPublish(w) ==
  /\ adminTx[w].kind = "publish"
  /\ delivered' = AddRows(delivered, adminTx[w].target, adminTx[w].users)
  /\ CloseAdmin(w)
  /\ UNCHANGED <<reachable, campaign, recipient, publishes, ticket, raced>>

----------------------------------------------------------------------------
(* Tickets *)

create_ticket(t) ==
  /\ ~ticket[t].exists
  /\ ticket' = [ticket EXCEPT ![t].exists = TRUE]
  /\ UNCHANGED <<reachable, campaign, recipient, delivered, publishes, adminTx, raced>>

\* update_ticket, or bulk_update_tickets for one of its tickets.
ReadTicket(w, t, status) ==
  /\ ticket[t].exists
  /\ OpenAdmin(w, [IdleAdmin EXCEPT !.kind = "ticket", !.target = t, !.status = status,
                                    !.loaded = ticket[t]])
  /\ UNCHANGED <<reachable, campaign, recipient, delivered, publishes, ticket, raced>>

\* Only a status that differs from the loaded one is written; resolved_at is set once.
CommitTicket(w) ==
  LET tx == adminTx[w]
      t == adminTx[w].target IN
  /\ tx.kind = "ticket"
  /\ ticket' = [ticket EXCEPT
       ![t].status = IF tx.status # tx.loaded.status THEN tx.status ELSE @,
       ![t].resolved_at = @ \/ (tx.status = "resolved" /\ ~tx.loaded.resolved_at)]
  /\ CloseAdmin(w)
  /\ UNCHANGED <<reachable, campaign, recipient, delivered, publishes, raced>>

----------------------------------------------------------------------------

AdminConsoleNext ==
  \/ \E u \in Recipients : UserChanges(u)
  \/ \E c \in Campaigns : create_campaign(c)
  \/ \E t \in Tickets : create_ticket(t)
  \/ \E w \in AdminWorkers :
       \/ \E c \in Campaigns : ReadSend(w, c)
       \/ \E n \in Notifications : ReadPublish(w, n)
       \/ \E t \in Tickets, status \in TicketStatuses : ReadTicket(w, t, status)
       \/ CommitSend(w)
       \/ CommitPublish(w)
       \/ CommitTicket(w)
       \/ AbortAdmin(w)

AdminConsoleSpec == AdminConsoleInit /\ [][AdminConsoleNext]_adminVars

----------------------------------------------------------------------------
(* Properties *)

\* A campaign reaches nobody twice and its recipient_count is the number of its recipients,
\* unless two sends of it were open at once: the router calls the send idempotent against
\* re-send, which send_campaign's test of the status ensures for one after the other.
SentOnce ==
  \A c \in Campaigns \ raced :
    /\ \A u \in Recipients : recipient[c][u] <= 1
    /\ campaign[c].recipient_count = Cardinality({u \in Recipients : recipient[c][u] = 1})
=============================================================================
