---------------------------- MODULE AlertDispatch ----------------------------
(***************************************************************************)
(* Alerts: the first dispatch of an alert claims its window of 60 s in     *)
(* Redis and sends it to every active channel of the organization; further *)
(* dispatches in the window are suppressed.                                *)
(*                                                                         *)
(* app/modules/notifications/service.py, repository.py, router.py,         *)
(* tasks.py, models.py and safe_redis_set_nx of                            *)
(* app/infrastructure/redis_client.py.                                     *)
(*                                                                         *)
(* An alert stands for its fingerprint: organization, severity, title and  *)
(* incident.  The dispatches run inside checks, evidence generation and    *)
(* dispatch_notification tasks; nothing of them is undone when the         *)
(* transaction around them is rolled back.                                 *)
(***************************************************************************)
EXTENDS Integers, FiniteSets

CONSTANTS
  Dispatchers,  \* dispatches at a time
  Alerts,       \* fingerprints
  Channels,     \* alert configurations of one organization
  NoAlert

ASSUME AlertDispatchAssumption == NoAlert \notin Alerts

VARIABLES
  config,      \* alert_configs rows: absent, inactive or active
  claimed,     \* the windows held in Redis
  dispatch,    \* what each dispatcher is doing
  inWindow,    \* history: channels that received each alert since its window was claimed, and twice
  outlived     \* history: alerts whose window ended while a dispatch was sending them

alertDispatchVars == <<config, claimed, dispatch, inWindow, outlived>>

AlertDispatchTypeOK ==
  /\ config \in [Channels -> {"absent", "inactive", "active"}]
  /\ claimed \subseteq Alerts
  /\ dispatch \in [Dispatchers -> [alert : Alerts \cup {NoAlert}, listed : BOOLEAN,
                                   left : SUBSET Channels]]
  /\ inWindow \in [Alerts -> [Channels -> 0..2]]
  /\ outlived \subseteq Alerts

NoDispatch == [alert |-> NoAlert, listed |-> FALSE, left |-> {}]

AlertDispatchInit ==
  /\ config = [c \in Channels |-> "absent"]
  /\ claimed = {}
  /\ dispatch = [w \in Dispatchers |-> NoDispatch]
  /\ inWindow = [a \in Alerts |-> [c \in Channels |-> 0]]
  /\ outlived = {}

----------------------------------------------------------------------------
(* Configurations *)

create_config(c, state) ==
  /\ config[c] = "absent"
  /\ config' = [config EXCEPT ![c] = state]
  /\ UNCHANGED <<claimed, dispatch, inWindow, outlived>>

update_config(c, state) ==
  /\ config[c] # "absent"
  /\ config' = [config EXCEPT ![c] = state]
  /\ UNCHANGED <<claimed, dispatch, inWindow, outlived>>

delete_config(c) ==
  /\ config[c] # "absent"
  /\ config' = [config EXCEPT ![c] = "absent"]
  /\ UNCHANGED <<claimed, dispatch, inWindow, outlived>>

----------------------------------------------------------------------------
(* Dispatches *)

\* The answers of SET NX: set, refused because it is set, or an error, before or after the
\* command took effect.
SetNx == {"set", "exists", "failed", "lost"}

\* A test that fails open.
OpenOnError(answer) == answer = "exists"

\* safe_redis_set_nx returns False for an error, as for a key that exists.
_is_duplicate_alert(answer) == answer # "set"

dispatch_alert(w, a, answer) ==
  /\ dispatch[w] = NoDispatch
  /\ answer \in {"set", "lost"} => a \notin claimed
  /\ answer = "exists" => a \in claimed
  /\ claimed' = IF answer \in {"set", "lost"} THEN claimed \cup {a} ELSE claimed
  /\ dispatch' = IF _is_duplicate_alert(answer) THEN dispatch
                 ELSE [dispatch EXCEPT ![w].alert = a]
  /\ UNCHANGED <<config, inWindow, outlived>>

\* Without an active channel there is nothing to send, and the window stays claimed.
list_for_org(w) ==
  /\ dispatch[w].alert # NoAlert
  /\ ~dispatch[w].listed
  /\ dispatch' = [dispatch EXCEPT ![w].listed = TRUE,
                                  ![w].left = {c \in Channels : config[c] = "active"}]
  /\ UNCHANGED <<config, claimed, inWindow, outlived>>

\* A channel that fails is logged and skipped.
send_to_channel(w, c, success) ==
  LET a == dispatch[w].alert IN
  /\ c \in dispatch[w].left
  /\ dispatch' = [dispatch EXCEPT ![w].left = @ \ {c}]
  /\ inWindow' = IF success /\ inWindow[a][c] < 2 THEN [inWindow EXCEPT ![a][c] = @ + 1]
                                                  ELSE inWindow
  /\ UNCHANGED <<config, claimed, outlived>>

\* All channels served, or the task died: nothing sends the rest.
EndDispatch(w) ==
  /\ dispatch[w] # NoDispatch
  /\ dispatch' = [dispatch EXCEPT ![w] = NoDispatch]
  /\ UNCHANGED <<config, claimed, inWindow, outlived>>

\* The key expires, also under a dispatch that is still sending.
WindowExpires(a) ==
  /\ a \in claimed
  /\ claimed' = claimed \ {a}
  /\ inWindow' = [inWindow EXCEPT ![a] = [c \in Channels |-> 0]]
  /\ outlived' = IF \E w \in Dispatchers : dispatch[w].alert = a THEN outlived \cup {a}
                                                                 ELSE outlived
  /\ UNCHANGED <<config, dispatch>>

AlertDispatchNext ==
  \/ \E c \in Channels :
       \/ \E state \in {"inactive", "active"} : create_config(c, state) \/ update_config(c, state)
       \/ delete_config(c)
  \/ \E w \in Dispatchers :
       \/ \E a \in Alerts, answer \in SetNx : dispatch_alert(w, a, answer)
       \/ list_for_org(w)
       \/ \E c \in Channels, success \in BOOLEAN : send_to_channel(w, c, success)
       \/ EndDispatch(w)
  \/ \E a \in Alerts : WindowExpires(a)

AlertDispatchSpec == AlertDispatchInit /\ [][AlertDispatchNext]_alertDispatchVars

----------------------------------------------------------------------------
(* Properties *)

\* Within one window a channel receives an alert once, whatever dispatches run, Redis errors
\* included, unless an earlier dispatch of the alert was still sending when its window ended.
OncePerWindow ==
  \A a \in Alerts \ outlived : \A c \in Channels : inWindow[a][c] <= 1
=============================================================================
