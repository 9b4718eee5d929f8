-------------------------- MODULE MonitoringProofs --------------------------
(***************************************************************************)
(* Theorems about CheckDispatch, AlertDispatch, EvidencePipeline and       *)
(* EvidenceGate for any number of workers, dependencies, alerts, channels, *)
(* incidents, resolutions, faults and publications, and about the four     *)
(* side by side.                                                           *)
(***************************************************************************)
EXTENDS MCMonitoring, FiniteSums, SequenceTheorems, TLAPS

----------------------------------------------------------------------------
(* AlertDispatch: the inductive invariant *)

\* A dispatcher without an alert does nothing, and one that has not listed the channels
\* has none left.
IdleOK ==
  \A w \in Dispatchers :
    /\ dispatch[w].alert = NoAlert => dispatch[w] = NoDispatch
    /\ ~dispatch[w].listed => dispatch[w].left = {}

\* Unless a window ended under a dispatch, the window of an alert that is being sent is
\* claimed, and one dispatcher sends it.
WindowsOK ==
  \A w \in Dispatchers : dispatch[w].alert \in Alerts \ outlived =>
    /\ dispatch[w].alert \in claimed
    /\ \A v \in Dispatchers \ {w} : dispatch[v].alert # dispatch[w].alert

\* Nobody has received an alert whose window is not claimed, and a channel that received
\* one is not among those that are left.
ReceivedOK ==
  \A a \in Alerts \ outlived, c \in Channels :
    /\ a \notin claimed => inWindow[a][c] = 0
    /\ inWindow[a][c] <= 1
    /\ inWindow[a][c] = 1 =>
         \A w \in Dispatchers : dispatch[w].alert = a => dispatch[w].listed /\ c \notin dispatch[w].left

AlertDispatchInv ==
  /\ AlertDispatchTypeOK
  /\ IdleOK
  /\ WindowsOK
  /\ ReceivedOK

----------------------------------------------------------------------------
(* AlertDispatch: it holds *)

\* What a dispatcher may be doing.
LEMMA DispatcherOK ==
  ASSUME AlertDispatchTypeOK, NEW w \in Dispatchers
  PROVE  /\ dispatch[w] \in [alert : Alerts \cup {NoAlert}, listed : BOOLEAN,
                             left : SUBSET Channels]
         /\ dispatch[w].alert \in Alerts \cup {NoAlert}
         /\ dispatch[w].left \subseteq Channels
BY DEF AlertDispatchTypeOK

\* Initially nothing is configured, claimed or sent.
LEMMA AlertDispatchInitOK == AlertDispatchInit => AlertDispatchInv
BY AlertDispatchAssumption
   DEF AlertDispatchInit, AlertDispatchInv, AlertDispatchTypeOK, NoDispatch, IdleOK,
       WindowsOK, ReceivedOK

\* Changes of the configuration touch nothing else.
LEMMA ConfigPreserves ==
  ASSUME AlertDispatchInv, NEW c \in Channels,
         \/ \E state \in {"inactive", "active"} : create_config(c, state) \/ update_config(c, state)
         \/ delete_config(c)
  PROVE  AlertDispatchInv'
<1>1. /\ UNCHANGED <<claimed, dispatch, inWindow, outlived>>
      /\ config' \in [Channels -> {"absent", "inactive", "active"}]
  BY DEF create_config, update_config, delete_config, AlertDispatchInv, AlertDispatchTypeOK
<1>2. QED
  BY <1>1
     DEF AlertDispatchInv, AlertDispatchTypeOK, IdleOK, WindowsOK, ReceivedOK, NoDispatch

\* A dispatch starts only on a window that was free, or does nothing.
LEMMA DispatchPreserves ==
  ASSUME AlertDispatchInv, NEW w \in Dispatchers, NEW a \in Alerts, NEW answer \in SetNx,
         dispatch_alert(w, a, answer)
  PROVE  AlertDispatchInv'
<1> USE DEF AlertDispatchInv
<1>1. CASE answer # "set"
  <2>1. dispatch' = dispatch /\ claimed \subseteq claimed' /\ claimed' \subseteq claimed \cup {a}
        /\ UNCHANGED <<config, inWindow, outlived>>
    BY <1>1 DEF dispatch_alert, _is_duplicate_alert
  <2>2. AlertDispatchTypeOK'
    BY <2>1 DEF AlertDispatchTypeOK
  <2>3. IdleOK'
    BY <2>1 DEF IdleOK
  <2>4. WindowsOK'
    BY <2>1 DEF WindowsOK
  <2>5. ReceivedOK'
    BY <2>1 DEF ReceivedOK
  <2>6. QED
    BY <2>2, <2>3, <2>4, <2>5
<1>2. CASE answer = "set"
  <2>1. /\ dispatch[w] = NoDispatch
        /\ a \notin claimed
        /\ claimed' = claimed \cup {a}
        /\ dispatch' = [dispatch EXCEPT ![w].alert = a]
        /\ UNCHANGED <<config, inWindow, outlived>>
    BY <1>2 DEF dispatch_alert, _is_duplicate_alert
  <2>2. /\ dispatch'[w] = [alert |-> a, listed |-> FALSE, left |-> {}]
        /\ \A v \in Dispatchers \ {w} : dispatch'[v] = dispatch[v]
    <3>1. dispatch[w].listed = FALSE /\ dispatch[w].left = {}
      BY <2>1 DEF NoDispatch
    <3>5. dispatch'[w] = [alert |-> a, listed |-> dispatch[w].listed,
                          left |-> dispatch[w].left]
      BY <2>1 DEF AlertDispatchTypeOK
    <3>2. dispatch'[w] = [alert |-> a, listed |-> FALSE, left |-> {}]
      BY <3>1, <3>5
    <3>3. \A v \in Dispatchers \ {w} : dispatch'[v] = dispatch[v]
      BY <2>1 DEF AlertDispatchTypeOK
    <3>4. QED
      BY <3>2, <3>3
  <2>3. AlertDispatchTypeOK'
    <3>1. dispatch' \in [Dispatchers -> [alert : Alerts \cup {NoAlert}, listed : BOOLEAN,
                                         left : SUBSET Channels]]
      BY <2>1, <2>2 DEF AlertDispatchTypeOK
    <3>2. QED
      BY <2>1, <3>1 DEF AlertDispatchTypeOK
  <2>4. IdleOK'
    BY <2>2, AlertDispatchAssumption DEF IdleOK
  <2>5. a \notin outlived => \A v \in Dispatchers : dispatch[v].alert # a
    BY <2>1 DEF WindowsOK
  <2>6. WindowsOK'
    BY <2>1, <2>2, <2>5 DEF WindowsOK
  <2>7. a \notin outlived => \A c \in Channels : inWindow[a][c] = 0
    BY <2>1 DEF ReceivedOK
  <2>8. ReceivedOK'
    BY <2>1, <2>2, <2>7 DEF ReceivedOK
  <2>9. QED
    BY <2>3, <2>4, <2>6, <2>8
<1>3. QED
  BY <1>1, <1>2

\* The channels are listed before any of them has received the alert.
LEMMA ListPreserves ==
  ASSUME AlertDispatchInv, NEW w \in Dispatchers, list_for_org(w)
  PROVE  AlertDispatchInv'
<1> USE DEF AlertDispatchInv
<1> DEFINE active == {c \in Channels : config[c] = "active"}
<1>1. /\ dispatch[w].alert \in Alerts
      /\ ~dispatch[w].listed
      /\ dispatch'[w] = [alert |-> dispatch[w].alert, listed |-> TRUE, left |-> active]
      /\ \A v \in Dispatchers \ {w} : dispatch'[v] = dispatch[v]
      /\ dispatch' = [dispatch EXCEPT ![w].listed = TRUE, ![w].left = active]
      /\ UNCHANGED <<config, claimed, inWindow, outlived>>
  BY DispatcherOK DEF list_for_org, AlertDispatchTypeOK
<1>2. AlertDispatchTypeOK'
  <2>1. dispatch'[w] \in [alert : Alerts \cup {NoAlert}, listed : BOOLEAN,
                          left : SUBSET Channels]
    BY <1>1
  <2>2. QED
    BY <1>1, <2>1 DEF AlertDispatchTypeOK
<1>3. /\ dispatch'[w].alert = dispatch[w].alert
      /\ dispatch'[w].listed
      /\ \A v \in Dispatchers : dispatch'[v].alert = dispatch[v].alert
  <2>1. dispatch'[w] = [alert |-> dispatch[w].alert, listed |-> TRUE, left |-> active]
    BY <1>1
  <2>2. \A v \in Dispatchers \ {w} : dispatch'[v] = dispatch[v]
    BY <1>1
  <2>3. dispatch'[w].alert = dispatch[w].alert /\ dispatch'[w].listed
    BY <2>1
  <2>4. QED
    BY <2>2, <2>3
<1>6. IdleOK'
  <2>1. dispatch'[w].alert # NoAlert /\ dispatch'[w].listed
    BY <1>1, <1>3, AlertDispatchAssumption
  <2>2. \A v \in Dispatchers \ {w} : dispatch'[v] = dispatch[v]
    BY <1>1
  <2>3. IdleOK
    OBVIOUS
  <2>4. QED
    BY <2>1, <2>2, <2>3 DEF IdleOK
<1>7. WindowsOK'
  <2>1. UNCHANGED <<claimed, outlived>> /\ WindowsOK
    BY <1>1
  <2>2. QED
    BY <1>3, <2>1 DEF WindowsOK
<1>8. \A c \in Channels : dispatch[w].alert \notin outlived => inWindow[dispatch[w].alert][c] # 1
  BY <1>1 DEF ReceivedOK
<1>4. ReceivedOK'
  <2>0. UNCHANGED <<claimed, inWindow, outlived>>
    BY <1>1
  <2> SUFFICES ASSUME NEW b \in Alerts \ outlived, NEW d \in Channels
               PROVE  /\ b \notin claimed => inWindow[b][d] = 0
                      /\ inWindow[b][d] <= 1
                      /\ inWindow[b][d] = 1 =>
                           \A v \in Dispatchers : dispatch'[v].alert = b =>
                             dispatch'[v].listed /\ d \notin dispatch'[v].left
    BY <2>0 DEF ReceivedOK
  <2>1. (b \notin claimed => inWindow[b][d] = 0) /\ inWindow[b][d] <= 1
    BY DEF ReceivedOK
  <2>2. ASSUME inWindow[b][d] = 1, NEW v \in Dispatchers, dispatch'[v].alert = b
        PROVE  dispatch'[v].listed /\ d \notin dispatch'[v].left
    <3>1. v # w
      BY <1>3, <1>8, <2>2
    <3>2. QED
      BY <1>1, <2>2, <3>1 DEF ReceivedOK
  <2>3. QED
    BY <2>1, <2>2
<1>5. QED
  BY <1>2, <1>4, <1>6, <1>7

\* A channel leaves the list when it receives the alert.
LEMMA SendPreserves ==
  ASSUME AlertDispatchInv, NEW w \in Dispatchers, NEW c \in Channels, NEW success \in BOOLEAN,
         send_to_channel(w, c, success)
  PROVE  AlertDispatchInv'
<1> USE DEF AlertDispatchInv
<1> DEFINE a == dispatch[w].alert
<1>1. /\ c \in dispatch[w].left
      /\ dispatch' = [dispatch EXCEPT ![w].left = @ \ {c}]
      /\ UNCHANGED <<config, claimed, outlived>>
  BY DEF send_to_channel
<1>2. a \in Alerts /\ dispatch[w].listed
  BY <1>1, DispatcherOK, AlertDispatchAssumption DEF IdleOK, NoDispatch
<1>3. /\ dispatch'[w] = [alert |-> a, listed |-> TRUE, left |-> dispatch[w].left \ {c}]
      /\ \A v \in Dispatchers \ {w} : dispatch'[v] = dispatch[v]
  BY <1>1, <1>2, DispatcherOK DEF AlertDispatchTypeOK
<1>4. /\ inWindow' \in [Alerts -> [Channels -> 0..2]]
      /\ \A b \in Alerts, d \in Channels :
           \/ inWindow'[b][d] = inWindow[b][d]
           \/ b = a /\ d = c /\ inWindow'[b][d] = inWindow[b][d] + 1
  <2>0. inWindow \in [Alerts -> [Channels -> 0..2]]
    BY DEF AlertDispatchTypeOK
  <2>1. CASE success /\ inWindow[a][c] < 2
    <3>1. inWindow' = [inWindow EXCEPT ![a][c] = @ + 1]
      BY <2>1 DEF send_to_channel
    <3>2. inWindow[a][c] + 1 \in 0..2 /\ inWindow[a] \in [Channels -> 0..2]
      BY <1>2, <2>0, <2>1
    <3>3. /\ inWindow'[a] = [inWindow[a] EXCEPT ![c] = @ + 1]
          /\ \A b \in Alerts \ {a} : inWindow'[b] = inWindow[b]
          /\ inWindow' = [inWindow EXCEPT ![a] = [inWindow[a] EXCEPT ![c] = @ + 1]]
      BY <1>2, <2>0, <3>1
    <3>4. inWindow'[a] \in [Channels -> 0..2]
      BY <3>2, <3>3
    <3>5. inWindow' \in [Alerts -> [Channels -> 0..2]]
      BY <2>0, <3>3, <3>4
    <3>6. inWindow'[a][c] = inWindow[a][c] + 1
          /\ \A d \in Channels \ {c} : inWindow'[a][d] = inWindow[a][d]
      BY <3>2, <3>3
    <3>7. ASSUME NEW b \in Alerts, NEW d \in Channels
          PROVE  \/ inWindow'[b][d] = inWindow[b][d]
                 \/ b = a /\ d = c /\ inWindow'[b][d] = inWindow[b][d] + 1
      BY <3>3, <3>6
    <3>8. QED
      BY <3>5, <3>7
  <2>2. CASE ~(success /\ inWindow[a][c] < 2)
    <3>1. inWindow' = inWindow
      BY <2>2 DEF send_to_channel
    <3>2. \A b \in Alerts, d \in Channels : inWindow'[b][d] = inWindow[b][d]
      BY <3>1
    <3>3. inWindow' \in [Alerts -> [Channels -> 0..2]]
      BY <2>0, <3>1
    <3>4. QED
      BY <3>2, <3>3
  <2>3. QED
    BY <2>1, <2>2
<1>5. AlertDispatchTypeOK'
  <2>1. dispatch'[w] \in [alert : Alerts \cup {NoAlert}, listed : BOOLEAN,
                          left : SUBSET Channels]
    BY <1>2, <1>3, DispatcherOK
  <2>2. QED
    BY <1>1, <1>4, <2>1 DEF AlertDispatchTypeOK
<1>6. IdleOK' /\ WindowsOK'
  <2>1. \A v \in Dispatchers : dispatch'[v].alert = dispatch[v].alert
    BY <1>3
  <2>2. IdleOK'
    BY <1>2, <1>3, AlertDispatchAssumption DEF IdleOK
  <2>3. WindowsOK'
    BY <1>1, <2>1 DEF WindowsOK
  <2>4. QED
    BY <2>2, <2>3
<1>7. a \notin outlived => inWindow[a][c] = 0
  BY <1>1, <1>2 DEF ReceivedOK, AlertDispatchTypeOK
<1>8. ReceivedOK'
  <2> SUFFICES ASSUME NEW b \in Alerts \ outlived, NEW d \in Channels
               PROVE  /\ b \notin claimed => inWindow'[b][d] = 0
                      /\ inWindow'[b][d] <= 1
                      /\ inWindow'[b][d] = 1 =>
                           \A v \in Dispatchers : dispatch'[v].alert = b =>
                             dispatch'[v].listed /\ d \notin dispatch'[v].left
    BY <1>1 DEF ReceivedOK
  <2>1. CASE inWindow'[b][d] = inWindow[b][d]
    BY <1>2, <1>3, <2>1 DEF ReceivedOK
  <2>2. CASE b = a /\ d = c /\ inWindow'[b][d] = inWindow[b][d] + 1
    <3>1. inWindow'[b][d] = 1
      BY <1>7, <2>2
    <3>2. a \in claimed /\ \A v \in Dispatchers \ {w} : dispatch[v].alert # a
      BY <1>2, <2>2 DEF WindowsOK
    <3>3. QED
      BY <1>3, <2>2, <3>1, <3>2
  <2>3. QED
    BY <1>4, <2>1, <2>2
<1>9. QED
  BY <1>5, <1>6, <1>8

\* A dispatch that ends leaves its window claimed.
LEMMA EndPreserves ==
  ASSUME AlertDispatchInv, NEW w \in Dispatchers, EndDispatch(w)
  PROVE  AlertDispatchInv'
<1> USE DEF AlertDispatchInv
<1>1. /\ dispatch' = [dispatch EXCEPT ![w] = NoDispatch]
      /\ UNCHANGED <<config, claimed, inWindow, outlived>>
  BY DEF EndDispatch
<1>2. /\ dispatch'[w] = NoDispatch
      /\ \A v \in Dispatchers \ {w} : dispatch'[v] = dispatch[v]
  BY <1>1 DEF AlertDispatchTypeOK
<1>3. AlertDispatchTypeOK'
  BY <1>1 DEF AlertDispatchTypeOK, NoDispatch
<1>4. dispatch'[w].alert \notin Alerts /\ dispatch'[w].left = {}
  BY <1>2, AlertDispatchAssumption DEF NoDispatch
<1>5. IdleOK'
  BY <1>2, <1>4 DEF IdleOK
<1>6. WindowsOK'
  BY <1>1, <1>2, <1>4 DEF WindowsOK
<1>7. ReceivedOK'
  BY <1>1, <1>2, <1>4 DEF ReceivedOK
<1>8. QED
  BY <1>3, <1>5, <1>6, <1>7

\* A window that ends is empty, and outlived by the dispatch that claimed it.
LEMMA WindowExpiryPreserves ==
  ASSUME AlertDispatchInv, NEW a \in Alerts, WindowExpires(a)
  PROVE  AlertDispatchInv'
<1> USE DEF AlertDispatchInv
<1>1. /\ claimed' = claimed \ {a}
      /\ inWindow' = [inWindow EXCEPT ![a] = [c \in Channels |-> 0]]
      /\ outlived \subseteq outlived' /\ outlived' \subseteq outlived \cup {a}
      /\ (\E w \in Dispatchers : dispatch[w].alert = a) => a \in outlived'
      /\ UNCHANGED <<config, dispatch>>
  BY DEF WindowExpires
<1>2. /\ \A c \in Channels : inWindow'[a][c] = 0
      /\ \A b \in Alerts \ {a} : inWindow'[b] = inWindow[b]
      /\ inWindow' \in [Alerts -> [Channels -> 0..2]]
  BY <1>1 DEF AlertDispatchTypeOK
<1>3. AlertDispatchTypeOK'
  BY <1>1, <1>2 DEF AlertDispatchTypeOK
<1>4. IdleOK' /\ WindowsOK'
  BY <1>1 DEF IdleOK, WindowsOK, NoDispatch
<1>5. ReceivedOK'
  BY <1>1, <1>2 DEF ReceivedOK
<1>6. QED
  BY <1>3, <1>4, <1>5

\* The invariant holds throughout.
THEOREM AlertDispatchInvariant == AlertDispatchSpec => []AlertDispatchInv
<1>1. AlertDispatchInv /\ [AlertDispatchNext]_alertDispatchVars => AlertDispatchInv'
  <2> SUFFICES ASSUME AlertDispatchInv, [AlertDispatchNext]_alertDispatchVars
               PROVE  AlertDispatchInv'
    OBVIOUS
  <2>1. CASE AlertDispatchNext
    BY <2>1, ConfigPreserves, DispatchPreserves, ListPreserves, SendPreserves, EndPreserves,
       WindowExpiryPreserves DEF AlertDispatchNext
  <2>2. CASE UNCHANGED alertDispatchVars
    BY <2>2
       DEF alertDispatchVars, AlertDispatchInv, AlertDispatchTypeOK, IdleOK, WindowsOK,
           ReceivedOK, NoDispatch
  <2>3. QED
    BY <2>1, <2>2
<1>2. QED
  BY AlertDispatchInitOK, <1>1, PTL DEF AlertDispatchSpec

\* Type correctness of configurations, windows and dispatches.
THEOREM AlertDispatchTypes == AlertDispatchSpec => []AlertDispatchTypeOK
<1>1. AlertDispatchInv => AlertDispatchTypeOK
  BY DEF AlertDispatchInv
<1>2. QED
  BY AlertDispatchInvariant, <1>1, PTL

\* A channel receives an alert once per window, unless the window ended while the alert was
\* being sent (dispatch_alert, _is_duplicate_alert).
THEOREM AlertOncePerWindow == AlertDispatchSpec => []OncePerWindow
<1>1. AlertDispatchInv => OncePerWindow
  BY DEF AlertDispatchInv, ReceivedOK, OncePerWindow
<1>2. QED
  BY AlertDispatchInvariant, <1>1, PTL

----------------------------------------------------------------------------
(* EvidencePipeline: the inductive invariant *)

\* A worker that is not idle works on an incident.
WorkersOK ==
  \A w \in EvidenceWorkers :
    /\ resolution[w].step # "idle" => resolution[w].incident \in Incidents
    /\ generation[w].step # "idle" => generation[w].incident \in Incidents

\* A generation has stored what its step says.
UploadsOK ==
  \A w \in EvidenceWorkers :
    /\ generation[w].step \in {"pdf", "json"} => <<generation[w].key, "pdf">> \in objects
    /\ generation[w].step = "json" => <<generation[w].key, "json">> \in objects

\* A report has both of its objects.
RowsOK ==
  \A row \in evidence : <<row.key, "pdf">> \in objects /\ <<row.key, "json">> \in objects

\* An object has a report, or its generation failed or is running.
ObjectsOK ==
  \A object \in objects :
    \/ \E row \in evidence : row.key = object[1]
    \/ object[1] \in aborted
    \/ \E w \in EvidenceWorkers : generation[w].key = object[1] /\ generation[w].step # "idle"

EvidenceInv ==
  /\ EvidencePipelineTypeOK
  /\ WorkersOK
  /\ UploadsOK
  /\ RowsOK
  /\ ObjectsOK

----------------------------------------------------------------------------
(* EvidencePipeline: it holds *)

\* Initially every incident is open and nothing is stored.
LEMMA EvidenceInitOK == EvidencePipelineInit => EvidenceInv
<1> SUFFICES ASSUME EvidencePipelineInit PROVE EvidenceInv
  OBVIOUS
<1>1. NoResolution \in Resolving /\ NoGeneration \in Generating
  BY EvidencePipelineAssumption
     DEF NoResolution, Resolving, NoGeneration, Generating, Resolutions
<1>2. EvidencePipelineTypeOK
  BY <1>1, EvidencePipelineAssumption
     DEF EvidencePipelineInit, EvidencePipelineTypeOK, IncidentRow, Resolutions
<1>3. WorkersOK /\ UploadsOK /\ RowsOK /\ ObjectsOK
  BY DEF EvidencePipelineInit, WorkersOK, UploadsOK, RowsOK, ObjectsOK, NoResolution,
         NoGeneration
<1>4. QED
  BY <1>2, <1>3 DEF EvidenceInv

\* Steps that touch neither generations nor reports nor objects.
LEMMA OutsideGeneration ==
  ASSUME UploadsOK, RowsOK, ObjectsOK,
         UNCHANGED <<generation, objects, evidence, aborted>>
  PROVE  UploadsOK' /\ RowsOK' /\ ObjectsOK'
BY DEF UploadsOK, RowsOK, ObjectsOK

\* A resolution starts.
LEMMA ResolvePreserves ==
  ASSUME EvidenceInv, NEW w \in EvidenceWorkers, NEW i \in Incidents, resolve_incident(w, i)
  PROVE  EvidenceInv'
<1> USE DEF EvidenceInv
<1>2. [step |-> "read", incident |-> i, resolved_at |-> 0, attributed |-> FALSE] \in Resolving
  BY EvidencePipelineAssumption DEF Resolving, Resolutions
<1>3. EvidencePipelineTypeOK'
  BY <1>2 DEF resolve_incident, EvidencePipelineTypeOK
<1>4. WorkersOK'
  BY DEF resolve_incident, WorkersOK, EvidencePipelineTypeOK
<1>5. UploadsOK' /\ RowsOK' /\ ObjectsOK'
  BY OutsideGeneration DEF resolve_incident
<1>6. QED
  BY <1>3, <1>4, <1>5

\* A resolution is written, with its task or without.
LEMMA WritePreserves ==
  ASSUME EvidenceInv, NEW w \in EvidenceWorkers, NEW attributed \in BOOLEAN,
         WriteResolution(w, attributed) \/ WriteUndispatched(w, attributed)
  PROVE  EvidenceInv'
<1> USE DEF EvidenceInv
<1> DEFINE i == resolution[w].incident
<1>1. /\ resolution[w].step = "read"
      /\ stamps < MaxResolutions
      /\ stamps' = stamps + 1
      /\ resolution' = [resolution EXCEPT ![w].step = "written", ![w].resolved_at = stamps + 1,
                                          ![w].attributed = attributed]
      /\ UNCHANGED <<incident, generation, objects, evidence, keys, requests, aborted>>
  BY DEF WriteResolution, WriteUndispatched
<1>2. i \in Incidents /\ stamps + 1 \in Resolutions
  BY <1>1, EvidencePipelineAssumption DEF WorkersOK, EvidencePipelineTypeOK, Resolutions
<1>3. /\ resolution'[w] = [step |-> "written", incident |-> i, resolved_at |-> stamps + 1,
                           attributed |-> attributed]
      /\ \A v \in EvidenceWorkers \ {w} : resolution'[v] = resolution[v]
      /\ resolution' \in [EvidenceWorkers -> Resolving]
  <2>1. resolution \in [EvidenceWorkers -> Resolving]
    BY DEF EvidencePipelineTypeOK
  <2>2. /\ resolution'[w] = [step |-> "written", incident |-> i, resolved_at |-> stamps + 1,
                             attributed |-> attributed]
        /\ \A v \in EvidenceWorkers \ {w} : resolution'[v] = resolution[v]
    BY <1>1, <2>1 DEF Resolving
  <2>3. resolution'[w] \in Resolving
    BY <1>2, <2>2 DEF Resolving
  <2>4. resolution' \in [EvidenceWorkers -> Resolving]
    BY <1>1, <2>1, <2>2, <2>3
  <2>5. QED
    BY <2>2, <2>4
<1>4. tasks' \in [Incidents -> [0..TaskRetries -> Nat]] /\ upsets' \in 0..MaxUpsets
      /\ missed' \subseteq Incidents
  <2>1. CASE WriteResolution(w, attributed)
    <3>1. /\ tasks' = [tasks EXCEPT ![i][0] = @ + 1]
          /\ UNCHANGED <<upsets, missed>>
      BY <2>1 DEF WriteResolution
    <3>2. tasks[i] \in [0..TaskRetries -> Nat] /\ 0 \in 0..TaskRetries
      BY <1>2, EvidencePipelineAssumption DEF EvidencePipelineTypeOK
    <3>6. tasks[i][0] \in Nat /\ tasks[i][0] + 1 \in Nat
      <4>1. \A f \in [0..TaskRetries -> Nat] : f[0] \in Nat
        BY <3>2
      <4>2. tasks[i][0] \in Nat
        BY <3>2, <4>1
      <4>3. QED
        BY <4>2
    <3>3. [tasks[i] EXCEPT ![0] = tasks[i][0] + 1] \in [0..TaskRetries -> Nat]
      BY <3>2, <3>6
    <3>4. tasks' \in [Incidents -> [0..TaskRetries -> Nat]]
      BY <3>1, <3>3 DEF EvidencePipelineTypeOK
    <3>5. QED
      BY <3>1, <3>4 DEF EvidencePipelineTypeOK
  <2>2. CASE WriteUndispatched(w, attributed)
    BY <1>2, <2>2, EvidencePipelineAssumption DEF WriteUndispatched, EvidencePipelineTypeOK
  <2>3. QED
    BY <2>1, <2>2
<1>5. EvidencePipelineTypeOK'
  BY <1>1, <1>2, <1>3, <1>4 DEF EvidencePipelineTypeOK
<1>6. WorkersOK'
  BY <1>1, <1>2, <1>3 DEF WorkersOK
<1>7. UploadsOK' /\ RowsOK' /\ ObjectsOK'
  BY <1>1, OutsideGeneration
<1>8. QED
  BY <1>5, <1>6, <1>7

\* A resolution ends.
LEMMA EndResolutionPreserves ==
  ASSUME EvidenceInv, NEW w \in EvidenceWorkers, CommitResolution(w) \/ RollbackResolution(w)
  PROVE  EvidenceInv'
<1> USE DEF EvidenceInv
<1>1. /\ resolution' = [resolution EXCEPT ![w] = NoResolution]
      /\ UNCHANGED <<stamps, generation, tasks, objects, evidence, keys, requests, upsets,
                     aborted, missed>>
  BY DEF CommitResolution, RollbackResolution
<1>2. NoResolution \in Resolving /\ NoResolution.step = "idle"
  BY EvidencePipelineAssumption DEF NoResolution, Resolving, Resolutions
<1>3. incident' \in [Incidents -> IncidentRow]
  <2>1. CASE CommitResolution(w)
    <3>1. [open |-> FALSE, resolved_at |-> resolution[w].resolved_at,
           attributed |-> resolution[w].attributed] \in IncidentRow
      BY DEF EvidencePipelineTypeOK, Resolving, IncidentRow
    <3>2. QED
      BY <2>1, <3>1 DEF CommitResolution, EvidencePipelineTypeOK
  <2>2. CASE RollbackResolution(w)
    BY <2>2 DEF RollbackResolution, EvidencePipelineTypeOK
  <2>3. QED
    BY <2>1, <2>2
<1>4. EvidencePipelineTypeOK'
  BY <1>1, <1>2, <1>3 DEF EvidencePipelineTypeOK
<1>5. WorkersOK'
  BY <1>1, <1>2 DEF WorkersOK, EvidencePipelineTypeOK
<1>6. UploadsOK' /\ RowsOK' /\ ObjectsOK'
  BY <1>1, OutsideGeneration
<1>7. QED
  BY <1>4, <1>5, <1>6

\* An incident is opened again.
LEMMA ReopenPreserves ==
  ASSUME EvidenceInv, NEW i \in Incidents, update_incident(i)
  PROVE  EvidenceInv'
<1> USE DEF EvidenceInv
<1>1. EvidencePipelineTypeOK'
  BY DEF update_incident, EvidencePipelineTypeOK, IncidentRow
<1>2. WorkersOK'
  BY DEF update_incident, WorkersOK
<1>3. UploadsOK' /\ RowsOK' /\ ObjectsOK'
  BY OutsideGeneration DEF update_incident
<1>4. QED
  BY <1>1, <1>2, <1>3

\* One more or one fewer message of an incident.
LEMMA TaskCounted ==
  ASSUME EvidencePipelineTypeOK, NEW i \in Incidents, NEW r \in 0..TaskRetries, NEW n \in Nat
  PROVE  [tasks EXCEPT ![i][r] = n] \in [Incidents -> [0..TaskRetries -> Nat]]
<1>1. tasks \in [Incidents -> [0..TaskRetries -> Nat]]
  BY DEF EvidencePipelineTypeOK
<1>2. [tasks[i] EXCEPT ![r] = n] \in [0..TaskRetries -> Nat]
  BY <1>1
<1>3. QED
  BY <1>1, <1>2

\* How many messages there are.
LEMMA TaskCount ==
  ASSUME EvidencePipelineTypeOK, NEW i \in Incidents, NEW r \in 0..TaskRetries
  PROVE  tasks[i][r] \in Nat
<1>1. \A f \in [0..TaskRetries -> Nat] : f[r] \in Nat
  OBVIOUS
<1>2. tasks[i] \in [0..TaskRetries -> Nat]
  BY DEF EvidencePipelineTypeOK
<1>3. QED
  BY <1>1, <1>2

\* What a generation may be.
LEMMA GenerationOK ==
  ASSUME EvidencePipelineTypeOK, NEW w \in EvidenceWorkers
  PROVE  /\ generation[w] \in Generating
         /\ generation[w].key \in Nat
         /\ generation[w].retries \in -1..TaskRetries
         /\ generation[w].resolved_at \in Resolutions
BY DEF EvidencePipelineTypeOK, Generating

\* A generation starts: of a task, or of a request.
LEMMA BeginPreserves ==
  ASSUME EvidenceInv, NEW w \in EvidenceWorkers, NEW i \in Incidents, NEW r \in -1..TaskRetries,
         Begin(w, i, r),
         UNCHANGED <<incident, stamps, resolution, objects, evidence, upsets, aborted>>,
         tasks' \in [Incidents -> [0..TaskRetries -> Nat]],
         requests' \in 0..MaxRequests,
         missed' \subseteq Incidents
  PROVE  EvidenceInv'
<1> USE DEF EvidenceInv
<1>1. generation[w].step = "idle" /\ keys' = keys + 1
  BY DEF Begin, IdleWorker
<1>2. generation' = [generation EXCEPT ![w] =
        [step |-> "read", incident |-> i, resolved_at |-> incident[i].resolved_at,
         key |-> keys + 1, retries |-> r]]
  BY DEF Begin
<1>3. [step |-> "read", incident |-> i, resolved_at |-> incident[i].resolved_at,
       key |-> keys + 1, retries |-> r] \in Generating
  <2>1. incident[i].resolved_at \in Resolutions /\ keys + 1 \in Nat
    BY DEF EvidencePipelineTypeOK, IncidentRow
  <2>2. QED
    BY <2>1 DEF Generating
<1>4. generation' \in [EvidenceWorkers -> Generating]
  BY <1>2, <1>3 DEF EvidencePipelineTypeOK
<1>5. /\ generation'[w].step = "read" /\ generation'[w].incident = i
      /\ \A v \in EvidenceWorkers \ {w} : generation'[v] = generation[v]
  BY <1>2 DEF EvidencePipelineTypeOK
<1>6. EvidencePipelineTypeOK'
  BY <1>1, <1>4 DEF EvidencePipelineTypeOK
<1>7. WorkersOK'
  BY <1>5 DEF WorkersOK
<1>8. UploadsOK' /\ RowsOK'
  BY <1>5 DEF UploadsOK, RowsOK
<1>9. ObjectsOK'
  BY <1>1, <1>5 DEF ObjectsOK
<1>10. QED
  BY <1>6, <1>7, <1>8, <1>9

\* A task starts a generation.
LEMMA TaskPreserves ==
  ASSUME EvidenceInv, NEW w \in EvidenceWorkers, NEW i \in Incidents, NEW r \in 0..TaskRetries,
         generate_evidence_report(w, i, r)
  PROVE  EvidenceInv'
<1>1. /\ tasks[i][r] > 0 /\ tasks' = [tasks EXCEPT ![i][r] = tasks[i][r] - 1]
      /\ missed' \in {missed, missed \cup {i}}
      /\ UNCHANGED <<incident, stamps, resolution, objects, evidence, requests, upsets, aborted>>
      /\ Begin(w, i, r)
  BY DEF generate_evidence_report
<1>2. tasks[i][r] - 1 \in Nat
  BY <1>1, TaskCount DEF EvidenceInv
<1>3. tasks' \in [Incidents -> [0..TaskRetries -> Nat]]
  BY <1>1, <1>2, TaskCounted DEF EvidenceInv
<1>4. missed' \subseteq Incidents /\ requests' \in 0..MaxRequests /\ r \in -1..TaskRetries
  BY <1>1, EvidencePipelineAssumption DEF EvidenceInv, EvidencePipelineTypeOK
<1>5. QED
  BY <1>1, <1>3, <1>4, BeginPreserves

\* A user starts a generation.
LEMMA RequestEvidencePreserves ==
  ASSUME EvidenceInv, NEW w \in EvidenceWorkers, NEW i \in Incidents, RequestEvidence(w, i)
  PROVE  EvidenceInv'
<1>1. /\ requests < MaxRequests /\ requests' = requests + 1
      /\ UNCHANGED <<incident, stamps, resolution, tasks, objects, evidence, upsets, aborted,
                     missed>>
      /\ Begin(w, i, -1)
  BY DEF RequestEvidence
<1>2. /\ tasks' \in [Incidents -> [0..TaskRetries -> Nat]] /\ missed' \subseteq Incidents
      /\ requests' \in 0..MaxRequests /\ -1 \in -1..TaskRetries
  BY <1>1, EvidencePipelineAssumption DEF EvidenceInv, EvidencePipelineTypeOK
<1>3. QED
  BY <1>1, <1>2, BeginPreserves

\* An upload leaves an object of the generation that made it.
LEMMA UploadPreserves ==
  ASSUME EvidenceInv, NEW w \in EvidenceWorkers, NEW kind \in {"pdf", "json"},
         upload_bytes(w, kind)
  PROVE  EvidenceInv'
<1> USE DEF EvidenceInv
<1> DEFINE g == generation[w]
<1>1. /\ g.step = IF kind = "pdf" THEN "read" ELSE "pdf"
      /\ objects' = objects \cup {<<g.key, kind>>}
      /\ generation' = [generation EXCEPT ![w].step = kind]
      /\ UNCHANGED <<incident, stamps, resolution, tasks, evidence, keys, requests, upsets,
                     aborted, missed>>
  BY DEF upload_bytes
<1>2. /\ generation'[w].step = kind /\ generation'[w].key = g.key
      /\ generation'[w].incident = g.incident
      /\ \A v \in EvidenceWorkers \ {w} : generation'[v] = generation[v]
      /\ generation' \in [EvidenceWorkers -> Generating]
  BY <1>1 DEF EvidencePipelineTypeOK, Generating
<1>3. EvidencePipelineTypeOK'
  BY <1>1, <1>2, GenerationOK DEF EvidencePipelineTypeOK
<1>4. WorkersOK'
  BY <1>1, <1>2 DEF WorkersOK
<1>5. UploadsOK'
  BY <1>1, <1>2 DEF UploadsOK
<1>6. RowsOK'
  BY <1>1 DEF RowsOK
<1>7. ObjectsOK'
  <2> SUFFICES ASSUME NEW object \in objects'
               PROVE  \/ \E row \in evidence : row.key = object[1]
                      \/ object[1] \in aborted
                      \/ \E v \in EvidenceWorkers :
                           generation'[v].key = object[1] /\ generation'[v].step # "idle"
    BY <1>1 DEF ObjectsOK
  <2>1. CASE object \in objects
    BY <1>1, <1>2, <2>1 DEF ObjectsOK
  <2>2. CASE object = <<g.key, kind>>
    BY <1>2, <2>2
  <2>3. QED
    BY <1>1, <2>1, <2>2
<1>8. QED
  BY <1>3, <1>4, <1>5, <1>6, <1>7

\* A generation commits with both of its objects.
LEMMA CommitGenerationPreserves ==
  ASSUME EvidenceInv, NEW w \in EvidenceWorkers,
         CommitGeneration(w) \/ CommitUnacknowledged(w)
  PROVE  EvidenceInv'
<1> USE DEF EvidenceInv
<1> DEFINE g == generation[w]
<1>1. /\ g.step = "json"
      /\ evidence' = evidence \cup {Row(g)}
      /\ generation' = [generation EXCEPT ![w] = NoGeneration]
      /\ UNCHANGED <<incident, stamps, resolution, objects, keys, requests, aborted, missed>>
  BY DEF CommitGeneration, CommitUnacknowledged
<1>2. g.incident \in Incidents
  BY <1>1 DEF WorkersOK
<1>3. Row(g) \in EvidenceRow /\ Row(g).key = g.key
  BY <1>2, GenerationOK DEF Row, EvidenceRow
<1>4. NoGeneration \in Generating /\ NoGeneration.step = "idle"
  BY EvidencePipelineAssumption DEF NoGeneration, Generating, Resolutions
<1>5. /\ generation'[w].step = "idle"
      /\ \A v \in EvidenceWorkers \ {w} : generation'[v] = generation[v]
      /\ generation' \in [EvidenceWorkers -> Generating]
  BY <1>1, <1>4 DEF EvidencePipelineTypeOK
<1>6. tasks' \in [Incidents -> [0..TaskRetries -> Nat]] /\ upsets' \in 0..MaxUpsets
  <2>1. CASE CommitGeneration(w)
    BY <2>1 DEF CommitGeneration, EvidencePipelineTypeOK
  <2>2. CASE CommitUnacknowledged(w)
    <3>1. /\ g.retries >= 0 /\ upsets < MaxUpsets /\ upsets' = upsets + 1
          /\ tasks' = [tasks EXCEPT ![g.incident][g.retries] = tasks[g.incident][g.retries] + 1]
      BY <2>2 DEF CommitUnacknowledged
    <3>2. g.retries \in 0..TaskRetries
      BY <3>1, GenerationOK, EvidencePipelineAssumption
    <3>3. tasks[g.incident][g.retries] + 1 \in Nat
      BY <1>2, <3>2, TaskCount
    <3>4. tasks' \in [Incidents -> [0..TaskRetries -> Nat]]
      BY <1>2, <3>1, <3>2, <3>3, TaskCounted
    <3>5. QED
      BY <3>1, <3>4, EvidencePipelineAssumption DEF EvidencePipelineTypeOK
  <2>3. QED
    BY <2>1, <2>2
<1>7. EvidencePipelineTypeOK'
  BY <1>1, <1>3, <1>5, <1>6 DEF EvidencePipelineTypeOK
<1>8. WorkersOK' /\ UploadsOK'
  BY <1>1, <1>5 DEF WorkersOK, UploadsOK
<1>9. RowsOK'
  BY <1>1, <1>3 DEF RowsOK, UploadsOK
<1>10. ObjectsOK'
  <2> SUFFICES ASSUME NEW object \in objects
               PROVE  \/ \E row \in evidence' : row.key = object[1]
                      \/ object[1] \in aborted
                      \/ \E v \in EvidenceWorkers :
                           generation'[v].key = object[1] /\ generation'[v].step # "idle"
    BY <1>1 DEF ObjectsOK
  <2>1. CASE object[1] = g.key
    BY <1>1, <1>3, <2>1
  <2>2. CASE object[1] # g.key
    BY <1>1, <1>5, <2>2 DEF ObjectsOK
  <2>3. QED
    BY <2>1, <2>2
<1>11. QED
  BY <1>7, <1>8, <1>9, <1>10

\* A generation that fails leaves its objects behind, and its key among the aborted.
LEMMA FailPreserves ==
  ASSUME EvidenceInv, NEW w \in EvidenceWorkers, FailGeneration(w)
  PROVE  EvidenceInv'
<1> USE DEF EvidenceInv
<1> DEFINE g == generation[w]
<1>1. /\ g.step # "idle"
      /\ upsets < MaxUpsets /\ upsets' = upsets + 1
      /\ aborted' = aborted \cup {g.key}
      /\ generation' = [generation EXCEPT ![w] = NoGeneration]
      /\ tasks' = Retried(g)
      /\ missed' \in {missed, missed \cup {g.incident}}
      /\ UNCHANGED <<incident, stamps, resolution, objects, evidence, keys, requests>>
  BY DEF FailGeneration
<1>2. g.incident \in Incidents
  BY <1>1 DEF WorkersOK
<1>4. NoGeneration \in Generating /\ NoGeneration.step = "idle"
  BY EvidencePipelineAssumption DEF NoGeneration, Generating, Resolutions
<1>5. /\ generation'[w].step = "idle"
      /\ \A v \in EvidenceWorkers \ {w} : generation'[v] = generation[v]
      /\ generation' \in [EvidenceWorkers -> Generating]
  BY <1>1, <1>4 DEF EvidencePipelineTypeOK
<1>6. tasks' \in [Incidents -> [0..TaskRetries -> Nat]]
  <2>1. CASE g.retries \in 0..TaskRetries - 1
    <3>1. tasks' = [tasks EXCEPT ![g.incident][g.retries + 1]
                      = tasks[g.incident][g.retries + 1] + 1]
      BY <1>1, <2>1 DEF Retried
    <3>2. g.retries + 1 \in 0..TaskRetries
      BY <2>1, EvidencePipelineAssumption
    <3>3. tasks[g.incident][g.retries + 1] + 1 \in Nat
      BY <1>2, <3>2, TaskCount
    <3>4. QED
      BY <1>2, <3>1, <3>2, <3>3, TaskCounted
  <2>2. CASE g.retries \notin 0..TaskRetries - 1
    BY <1>1, <2>2 DEF Retried, EvidencePipelineTypeOK
  <2>3. QED
    BY <2>1, <2>2
<1>7. EvidencePipelineTypeOK'
  <2>1. upsets' \in 0..MaxUpsets
    BY <1>1, EvidencePipelineAssumption DEF EvidencePipelineTypeOK
  <2>2. aborted' \subseteq Nat /\ missed' \subseteq Incidents
    BY <1>1, <1>2, GenerationOK DEF EvidencePipelineTypeOK
  <2>3. QED
    BY <1>1, <1>5, <1>6, <2>1, <2>2 DEF EvidencePipelineTypeOK
<1>8. WorkersOK' /\ UploadsOK' /\ RowsOK'
  BY <1>1, <1>5 DEF WorkersOK, UploadsOK, RowsOK
<1>9. ObjectsOK'
  BY <1>1, <1>5 DEF ObjectsOK
<1>10. QED
  BY <1>7, <1>8, <1>9

\* Every step keeps the invariant.
LEMMA EvidenceStep ==
  ASSUME EvidenceInv, [EvidencePipelineNext]_evidenceVars
  PROVE  EvidenceInv'
<1>1. CASE EvidencePipelineNext
  BY <1>1, ResolvePreserves, WritePreserves, EndResolutionPreserves, ReopenPreserves,
     TaskPreserves, RequestEvidencePreserves, UploadPreserves, CommitGenerationPreserves,
     FailPreserves DEF EvidencePipelineNext
<1>2. CASE UNCHANGED evidenceVars
  <2>1. EvidencePipelineTypeOK' /\ WorkersOK'
    BY <1>2 DEF evidenceVars, EvidenceInv, EvidencePipelineTypeOK, WorkersOK
  <2>2. UploadsOK' /\ RowsOK' /\ ObjectsOK'
    BY <1>2, OutsideGeneration DEF evidenceVars, EvidenceInv
  <2>3. QED
    BY <2>1, <2>2 DEF EvidenceInv
<1>3. QED
  BY <1>1, <1>2

\* The invariant holds throughout: outside a transaction no write is pending, and what a
\* task uploaded belongs to the generation it runs.
THEOREM EvidenceInvariant == EvidencePipelineSpec => []EvidenceInv
BY EvidenceInitOK, EvidenceStep, PTL DEF EvidencePipelineSpec

\* Type correctness of incidents, transactions, tasks and evidence.
THEOREM EvidenceTypes == EvidencePipelineSpec => []EvidencePipelineTypeOK
<1>1. EvidenceInv => EvidencePipelineTypeOK
  BY DEF EvidenceInv
<1>2. QED
  BY EvidenceInvariant, <1>1, PTL

\* A committed report has both of its objects, and an object without a report is of a
\* generation that is running or failed (generate_for_incident).
THEOREM CommittedEvidenceIsComplete == EvidencePipelineSpec => []EvidenceIsComplete
<1>1. EvidenceInv => EvidenceIsComplete
  <2> SUFFICES ASSUME EvidenceInv PROVE EvidenceIsComplete
    OBVIOUS
  <2>1. \A row \in evidence : {<<row.key, "pdf">>, <<row.key, "json">>} \subseteq objects
    BY DEF EvidenceInv, RowsOK
  <2>2. QED
    BY <2>1 DEF EvidenceInv, ObjectsOK, EvidenceIsComplete
<1>2. QED
  BY EvidenceInvariant, <1>1, PTL

----------------------------------------------------------------------------
(* CheckDispatch: the queue of due dependencies *)

\* A run has read finitely many dependencies.
PickedFinite == \A w \in Schedulers : IsFiniteSet(run[w].picked)

CheckDispatchInv == CheckDispatchTypeOK /\ PickedFinite

\* A queue without repetitions lists finitely many dependencies.
LEMMA QueueFinite ==
  ASSUME CheckDispatchTypeOK
  PROVE  ToSet(due) \subseteq DueDeps /\ IsFiniteSet(ToSet(due))
<1>1. Len(due) \in Nat /\ due \in [1..Len(due) -> DueDeps] /\ DOMAIN due = 1..Len(due)
  BY LenProperties DEF CheckDispatchTypeOK
<1>2. due \in Surjection(1..Len(due), ToSet(due))
  BY <1>1 DEF ToSet, Surjection
<1>3. IsFiniteSet(1..Len(due))
  BY <1>1, FS_Interval
<1>4. QED
  BY <1>1, <1>2, <1>3, FS_Surjection DEF ToSet

\* A sequence that lists a finite set of dependencies once each.
LEMMA QueueOf ==
  ASSUME NEW S \in SUBSET DueDeps, IsFiniteSet(S), NEW q \in SetToSeqs(S)
  PROVE  q \in Seq(DueDeps) /\ IsInjective(q)
<1>1. Cardinality(S) \in Nat
  BY FS_CardinalityType
<1>2. /\ q \in [1..Cardinality(S) -> S]
      /\ \A i, j \in 1..Cardinality(S) : i # j => q[i] # q[j]
  BY DEF SetToSeqs
<1>3. q \in [1..Cardinality(S) -> DueDeps]
  BY <1>2
<1>4. q \in Seq(DueDeps)
  BY <1>1, <1>3, IsASeq
<1>5. QED
  BY <1>2, <1>4 DEF IsInjective

\* Every step of a scheduler, a check task or an administrator keeps the types, and what a
\* run has read finite.
LEMMA CheckDispatchStep ==
  CheckDispatchInv /\ [CheckDispatchNext]_checkDispatchVars => CheckDispatchInv'
<1> SUFFICES ASSUME CheckDispatchInv, [CheckDispatchNext]_checkDispatchVars
             PROVE  CheckDispatchInv'
  OBVIOUS
<1> USE CheckDispatchAssumption DEF CheckDispatchInv
<1>1. ASSUME NEW d \in DueDeps, BecomesDue(d) PROVE CheckDispatchInv'
  <2>1. due' = Append(due, d) /\ d \notin ToSet(due)
    BY <1>1 DEF BecomesDue, IsDue
  <2>2. due' \in Seq(DueDeps) /\ IsInjective(due')
    <3>1. /\ due' \in Seq(DueDeps)
          /\ Len(due') = Len(due) + 1
          /\ \A i \in 1..Len(due) : due'[i] = due[i]
          /\ due'[Len(due) + 1] = d
      BY <2>1, AppendProperties DEF CheckDispatchTypeOK
    <3>2. Len(due) \in Nat /\ DOMAIN due = 1..Len(due) /\ DOMAIN due' = 1..Len(due) + 1
      BY <3>1, LenProperties DEF CheckDispatchTypeOK
    <3>3. \A i \in 1..Len(due) : due[i] # d
      BY <2>1, <3>2 DEF ToSet
    <3>4. QED
      BY <3>1, <3>2, <3>3 DEF CheckDispatchTypeOK, IsInjective
  <2>3. QED
    BY <1>1, <2>2 DEF BecomesDue, CheckDispatchTypeOK, PickedFinite
<1>2. ASSUME NEW d \in DueDeps, NEW active \in BOOLEAN, SetMonitored(d, active)
      PROVE  CheckDispatchInv'
  BY <1>2 DEF SetMonitored, CheckDispatchTypeOK, PickedFinite
<1>3. ASSUME NEW w \in Schedulers, StartRun(w) PROVE CheckDispatchInv'
  <2> DEFINE r == [open |-> TRUE, picked |-> get_due_dependencies,
                   unsent |-> get_due_dependencies, seen |-> ToSet(due)]
  <2>1. get_due_dependencies \in SUBSET ToSet(due)
    BY DEF get_due_dependencies, ActiveDue
  <2>2. r \in Run /\ IsFiniteSet(r.picked)
    BY <2>1, QueueFinite, FS_Subset DEF Run
  <2> HIDE DEF r
  <2>3. run' = [run EXCEPT ![w] = r]
    BY <1>3 DEF StartRun, r
  <2>4. run' \in [Schedulers -> Run] /\ PickedFinite'
    BY <2>2, <2>3 DEF CheckDispatchTypeOK, PickedFinite
  <2>5. QED
    BY <1>3, <2>4 DEF StartRun, CheckDispatchTypeOK
<1>4. ASSUME NEW w \in Schedulers, NEW d \in DueDeps, SendChecks(w, d)
      PROVE  CheckDispatchInv'
  <2>1. run[w] \in Run
    BY DEF CheckDispatchTypeOK
  <2>2. run' = [run EXCEPT ![w] = [run[w] EXCEPT !.unsent = run[w].unsent \ {d}]]
    BY <1>4 DEF SendChecks
  <2>3. /\ [run[w] EXCEPT !.unsent = run[w].unsent \ {d}] \in Run
        /\ [run[w] EXCEPT !.unsent = run[w].unsent \ {d}].picked = run[w].picked
    BY <2>1 DEF Run
  <2>4. run' \in [Schedulers -> Run] /\ PickedFinite'
    BY <2>2, <2>3 DEF CheckDispatchTypeOK, PickedFinite
  <2>5. attempts' \in [DueDeps \X Regions -> 0..CheckRetries + 1]
    BY <1>4 DEF SendChecks, CheckDispatchTypeOK
  <2>6. QED
    BY <1>4, <2>4, <2>5 DEF SendChecks, CheckDispatchTypeOK
<1>5. ASSUME NEW w \in Schedulers, NEW late \in SUBSET DueDeps, CommitRun(w, late)
      PROVE  CheckDispatchInv'
  <2> DEFINE queued == (ToSet(due) \ run[w].picked) \cup late
  <2>1. queued \in SUBSET DueDeps /\ IsFiniteSet(queued)
    <3>1. IsFiniteSet(late)
      BY <1>5, FS_Subset DEF CommitRun, PickedFinite
    <3>2. IsFiniteSet(ToSet(due) \ run[w].picked)
      BY QueueFinite, FS_Subset
    <3>3. QED
      BY <3>1, <3>2, QueueFinite, FS_Union
  <2>2. due' \in SetToSeqs(queued)
    BY <1>5 DEF CommitRun, Rescheduled
  <2>3. due' \in Seq(DueDeps) /\ IsInjective(due')
    <3> HIDE DEF queued
    <3>1. QED
      BY <2>1, <2>2, QueueOf
  <2>4. run' \in [Schedulers -> Run] /\ PickedFinite'
    <3>1. \A v \in Schedulers : run[v] \in Run
      BY DEF CheckDispatchTypeOK
    <3>2. ASSUME NEW v \in Schedulers
          PROVE  /\ [run[v] EXCEPT !.seen = run[v].seen \ run[w].picked] \in Run
                 /\ [run[v] EXCEPT !.seen = run[v].seen \ run[w].picked].picked = run[v].picked
      BY <3>1 DEF Run
    <3>3. NoRun \in Run /\ IsFiniteSet(NoRun.picked)
      BY FS_EmptySet DEF NoRun, Run
    <3>4. run' = [v \in Schedulers |->
                    IF v = w THEN NoRun
                    ELSE [run[v] EXCEPT !.seen = run[v].seen \ run[w].picked]]
      BY <1>5 DEF CommitRun
    <3>5. QED
      BY <3>2, <3>3, <3>4 DEF PickedFinite
  <2>5. owed' \subseteq DueDeps \X Regions
    BY <1>5 DEF CommitRun, CheckDispatchTypeOK
  <2>6. QED
    BY <1>5, <2>3, <2>4, <2>5 DEF CommitRun, CheckDispatchTypeOK
<1>6. ASSUME NEW w \in Schedulers, RollbackRun(w) PROVE CheckDispatchInv'
  <2>1. NoRun \in Run /\ IsFiniteSet(NoRun.picked)
    BY FS_EmptySet DEF NoRun, Run
  <2>2. run' \in [Schedulers -> Run] /\ PickedFinite'
    BY <1>6, <2>1 DEF RollbackRun, CheckDispatchTypeOK, PickedFinite
  <2>3. mishaps' \in 0..MaxFaults
    BY <1>6 DEF RollbackRun, CheckDispatchTypeOK
  <2>4. QED
    BY <1>6, <2>2, <2>3 DEF RollbackRun, CheckDispatchTypeOK
<1>7. ASSUME NEW t \in DueDeps \X Regions, execute_check(t) PROVE CheckDispatchInv'
  BY <1>7 DEF execute_check, CheckDispatchTypeOK, PickedFinite
<1>8. ASSUME NEW t \in DueDeps \X Regions, CheckRaises(t) PROVE CheckDispatchInv'
  BY <1>8 DEF CheckRaises, CheckDispatchTypeOK, PickedFinite
<1>9. CASE UNCHANGED checkDispatchVars
  BY <1>9 DEF checkDispatchVars, CheckDispatchTypeOK, PickedFinite
<1>10. QED
  BY <1>1, <1>2, <1>3, <1>4, <1>5, <1>6, <1>7, <1>8, <1>9 DEF CheckDispatchNext

\* It holds at the start: the queue lists the dependencies that are monitored.
LEMMA CheckDispatchInitOK == CheckDispatchInit => CheckDispatchInv
<1> SUFFICES ASSUME CheckDispatchInit PROVE CheckDispatchInv
  OBVIOUS
<1> USE CheckDispatchAssumption DEF CheckDispatchInit
<1>1. NoRun \in Run /\ IsFiniteSet(NoRun.picked)
  BY FS_EmptySet DEF NoRun, Run
<1>2. due \in Seq(DueDeps) /\ IsInjective(due)
  BY EmptySeq DEF IsInjective
<1>3. PickedFinite
  BY <1>1 DEF PickedFinite
<1>4. QED
  BY <1>1, <1>2, <1>3 DEF CheckDispatchInv, CheckDispatchTypeOK

\* Type correctness of the queue of due dependencies, the runs and the checks sent.
THEOREM CheckDispatchTypes == CheckDispatchSpec => []CheckDispatchTypeOK
<1>1. CheckDispatchInv => CheckDispatchTypeOK
  BY DEF CheckDispatchInv
<1>2. QED
  BY <1>1, CheckDispatchInitOK, CheckDispatchStep, PTL DEF CheckDispatchSpec

\* No two dependencies stand before each other, and of two that are queued one does.
LEMMA BeforeIsOrder ==
  ASSUME NEW q \in Seq(DueDeps), IsInjective(q), NEW a, NEW b
  PROVE  /\ ~(Before(q, a, b) /\ Before(q, b, a))
         /\ a \in ToSet(q) /\ b \in ToSet(q) /\ a # b => Before(q, a, b) \/ Before(q, b, a)
         /\ Before(q, a, b) => a \in ToSet(q) /\ b \in ToSet(q)
<1>1. Len(q) \in Nat /\ DOMAIN q = 1..Len(q)
  BY LenProperties
<1>2. QED
  BY <1>1 DEF Before, ToSet, IsInjective

\* Every run that is open has counted d among what was due when it started.
Waiting(d) == d \in ToSet(due) /\ \A w \in Schedulers : run[w].open => d \in run[w].seen

Ahead(d) == {e \in DueDeps : Before(due, e, d)}

\* The step ends a run that has picked d.
Served(d) == \E w \in Schedulers : run[w].open /\ ~run'[w].open /\ d \in run[w].picked

\* get_due_dependencies and schedule_due_checks: no step lets another dependency overtake
\* one that waits, until a run that has picked it ends.
NotOvertaken ==
  \A d \in DueDeps : Waiting(d) /\ ~Served(d) => Waiting(d)' /\ Ahead(d)' \subseteq Ahead(d)

\* A step serves the dependency, or leaves it waiting behind none that was not ahead of it.
LEMMA NotOvertakenStep ==
  CheckDispatchInv /\ [CheckDispatchNext]_checkDispatchVars => NotOvertaken
<1> SUFFICES ASSUME CheckDispatchInv, [CheckDispatchNext]_checkDispatchVars,
                    NEW d \in DueDeps, Waiting(d), ~Served(d)
             PROVE  Waiting(d)' /\ Ahead(d)' \subseteq Ahead(d)
  BY DEF NotOvertaken
<1> USE DEF CheckDispatchInv
<1>0. due \in Seq(DueDeps) /\ IsInjective(due)
  BY DEF CheckDispatchTypeOK
<1>1. CheckDispatchInv'
  BY CheckDispatchStep
<1>2. due' \in Seq(DueDeps) /\ IsInjective(due')
  BY <1>1 DEF CheckDispatchTypeOK
<1>3. ASSUME NEW e \in DueDeps, BecomesDue(e) PROVE Waiting(d)' /\ Ahead(d)' \subseteq Ahead(d)
  <2>1. due' = Append(due, e) /\ e \notin ToSet(due) /\ UNCHANGED run
    BY <1>3 DEF BecomesDue, IsDue
  <2>2. /\ Len(due) \in Nat /\ DOMAIN due = 1..Len(due)
        /\ DOMAIN due' = 1..Len(due) + 1
        /\ \A i \in 1..Len(due) : due'[i] = due[i]
        /\ due'[Len(due) + 1] = e
    BY <1>0, <1>2, <2>1, AppendProperties, LenProperties
  <2>3. d # e /\ d \in ToSet(due')
    BY <2>1, <2>2 DEF Waiting, ToSet
  <2>4. \A a : Before(due', a, d) => Before(due, a, d)
    BY <2>2, <2>3 DEF Before
  <2>5. QED
    BY <2>1, <2>3, <2>4 DEF Waiting, Ahead
<1>4. ASSUME NEW w \in Schedulers, NEW late \in SUBSET DueDeps, CommitRun(w, late)
      PROVE  Waiting(d)' /\ Ahead(d)' \subseteq Ahead(d)
  <2> DEFINE kept == ToSet(due) \ run[w].picked
  <2>1. /\ late \subseteq run[w].picked
        /\ due' \in SetToSeqs(kept \cup late)
        /\ \A a, b \in kept : Before(due, a, b) => Before(due', a, b)
        /\ \A a \in run[w].seen \cap kept, b \in late : Before(due', a, b)
    BY <1>4 DEF CommitRun, Rescheduled
  <2>2. /\ run[w].open
        /\ \A v \in Schedulers : /\ v = w => run'[v] = NoRun
                                 /\ v # w => /\ run'[v].open = run[v].open
                                             /\ run'[v].seen = run[v].seen \ run[w].picked
    BY <1>4 DEF CommitRun, CheckDispatchTypeOK, Run
  <2>3. d \notin run[w].picked /\ d \in kept /\ d \in run[w].seen
    BY <2>2 DEF Served, Waiting, NoRun
  <2>4. ToSet(due') \subseteq kept \cup late
    BY <2>1 DEF SetToSeqs, ToSet
  <2>5. d \in ToSet(due')
    <3>1. IsFiniteSet(kept \cup late)
      <4>1. IsFiniteSet(kept) /\ IsFiniteSet(run[w].picked)
        BY QueueFinite, FS_Subset DEF PickedFinite
      <4>2. IsFiniteSet(late)
        BY <2>1, <4>1, FS_Subset
      <4> HIDE DEF kept
      <4>3. QED
        BY <4>1, <4>2, FS_Union
    <3> DEFINE S == kept \cup late
    <3>2. due' \in Injection(1..Cardinality(S), S) /\ Cardinality(S) \in Nat
      BY <2>1, <3>1, FS_CardinalityType DEF SetToSeqs, Injection, IsInjective
    <3> HIDE DEF S, kept
    <3>3. IsFiniteSet(1..Cardinality(S)) /\ Cardinality(1..Cardinality(S)) = Cardinality(S)
      BY <3>2, FS_Interval
    <3>4. due' \in Surjection(1..Cardinality(S), S)
      BY <3>1, <3>2, <3>3, FS_Injection DEF S
    <3>5. QED
      BY <2>3, <3>2, <3>4 DEF S, Surjection, ToSet
  <2>6. ASSUME NEW e \in DueDeps, Before(due', e, d) PROVE Before(due, e, d)
    <3>1. ~Before(due', d, e) /\ e # d /\ e \in kept \cup late
      BY <1>2, <2>4, <2>6, BeforeIsOrder
    <3>2. e \in kept
      BY <2>1, <2>3, <3>1
    <3>3. ~Before(due, d, e)
      BY <2>1, <2>3, <3>1, <3>2
    <3>4. QED
      BY <1>0, <2>3, <3>1, <3>2, <3>3, BeforeIsOrder
  <2>7. \A v \in Schedulers : run'[v].open => d \in run'[v].seen
    BY <2>2, <2>3 DEF Waiting, NoRun
  <2>8. QED
    BY <2>5, <2>6, <2>7 DEF Waiting, Ahead
<1>5. CASE UNCHANGED due
  <2>1. ASSUME NEW w \in Schedulers, StartRun(w)
        PROVE  \A v \in Schedulers : run'[v].open => d \in run'[v].seen
    BY <2>1 DEF StartRun, Waiting, CheckDispatchTypeOK
  <2>2. ASSUME NEW w \in Schedulers, RollbackRun(w)
        PROVE  \A v \in Schedulers : run'[v].open => d \in run'[v].seen
    BY <2>2 DEF RollbackRun, Waiting, NoRun, CheckDispatchTypeOK
  <2>3. ASSUME NEW w \in Schedulers, NEW e \in DueDeps, SendChecks(w, e)
        PROVE  \A v \in Schedulers : run'[v].open => d \in run'[v].seen
    BY <2>3 DEF SendChecks, Waiting, CheckDispatchTypeOK, Run
  <2>4. ASSUME UNCHANGED run
        PROVE  \A v \in Schedulers : run'[v].open => d \in run'[v].seen
    BY <2>4 DEF Waiting
  <2>5. \A v \in Schedulers : run'[v].open => d \in run'[v].seen
    BY <1>3, <1>4, <2>1, <2>2, <2>3, <2>4
       DEF CheckDispatchNext, SetMonitored, execute_check, CheckRaises, checkDispatchVars, Waiting
  <2>6. QED
    BY <1>5, <2>5 DEF Waiting, Ahead
<1>6. QED
  BY <1>3, <1>4, <1>5
     DEF CheckDispatchNext, SetMonitored, StartRun, SendChecks, RollbackRun, execute_check,
         CheckRaises, checkDispatchVars

\* get_due_dependencies serves the oldest due date first and schedule_due_checks moves what
\* it serves behind all it saw: nothing overtakes a dependency that waits.
THEOREM WaitingIsNotOvertaken == CheckDispatchSpec => [][NotOvertaken]_checkDispatchVars
<1>1. CheckDispatchSpec => []CheckDispatchInv
  BY CheckDispatchInitOK, CheckDispatchStep, PTL DEF CheckDispatchSpec
<1>2. QED
  BY <1>1, NotOvertakenStep, PTL DEF CheckDispatchSpec

----------------------------------------------------------------------------
(* EvidenceGate: publication and withdrawal *)

\* A request works on a row of its incident, or on one it is about to insert and nobody
\* else has.
PublicationOK(p) ==
  /\ p.open => p.incident \in Evidenced /\ p.report \in 1..created
  /\ p.new => p.open
  /\ p.open /\ ~p.new => p.report \in RowsOf(p.incident)
  /\ p.new => publicReport[p.report].status = "none"

PublicationsOK ==
  /\ \A w \in GateWorkers : PublicationOK(publication[w])
  /\ \A v, w \in GateWorkers :
       publication[v].new /\ publication[w].new
         /\ publication[v].report = publication[w].report => v = w

\* Unless two requests have inserted a row at the same time, an incident has one row at
\* most, and while a request is inserting one, none.
Undoubled(i) ==
  /\ \A r, s \in RowsOf(i) : r = s
  /\ \A w \in GateWorkers :
       publication[w].new /\ publication[w].incident = i => RowsOf(i) = {}
  /\ \A v, w \in GateWorkers :
       /\ publication[v].new /\ publication[v].incident = i
       /\ publication[w].new /\ publication[w].incident = i
       => v = w

UndoubledOK == \A i \in Evidenced \ doubled : Undoubled(i)

RowsNumbered == \A r \in Reports : publicReport[r].status # "none" => r <= created

EvidenceGateInv ==
  /\ EvidenceGateTypeOK
  /\ RowsNumbered
  /\ PublicationsOK
  /\ UndoubledOK

\* It holds at the start: no row, no request.
LEMMA EvidenceGateInitOK == EvidenceGateInit => EvidenceGateInv
BY EvidenceGateAssumption
   DEF EvidenceGateInit, EvidenceGateInv, EvidenceGateTypeOK, PublicReport, Publication,
       NoPublication, PublicationsOK, PublicationOK, UndoubledOK, Undoubled, RowsOf, RowsNumbered

\* The newest row of an incident is one of its rows, if it has any.
LEMMA NewestRow ==
  ASSUME NEW i
  PROVE  /\ RowsOf(i) # {} => /\ get_by_incident(i) \in RowsOf(i)
                              /\ \A r \in RowsOf(i) : r <= get_by_incident(i)
         /\ RowsOf(i) = {} => get_by_incident(i) = 0
<1> DEFINE S == {0} \cup RowsOf(i)
<1>1. S \in SUBSET (0..MaxReports) /\ S # {} /\ 0 \in S /\ \A r \in RowsOf(i) : r > 0
  BY EvidenceGateAssumption DEF RowsOf, Reports
<1>2. \E m \in S : \A n \in S : m >= n
  <2> HIDE DEF S
  <2>1. QED
    BY <1>1, EvidenceGateAssumption, GreatestIsReached
<1>3. Max(S) \in S /\ \A n \in S : Max(S) >= n
  <2> HIDE DEF S
  <2>1. QED
    BY <1>2 DEF Max
<1>4. get_by_incident(i) = Max(S)
  BY DEF get_by_incident
<1>5. QED
  <2>1. Max(S) \in Nat
    BY <1>1, <1>3
  <2>2. RowsOf(i) # {} => Max(S) # 0
    BY <1>1, <1>3
  <2>3. QED
    BY <1>1, <1>3, <1>4, <2>1, <2>2

\* publicize_evidence, the row exists.
LEMMA ReadExistingPreserves ==
  ASSUME EvidenceGateInv, NEW w \in GateWorkers, NEW i \in Evidenced,
         NEW make_public \in BOOLEAN, ReadExisting(w, i, make_public)
  PROVE  EvidenceGateInv'
<1> USE DEF EvidenceGateInv
<1>0. PICK r, p :
        /\ r = get_by_incident(i)
        /\ p = [open |-> TRUE, incident |-> i, report |-> r, new |-> FALSE,
                wasPublic |-> publicReport[r].status = "public", make_public |-> make_public]
  OBVIOUS
<1>1. r \in RowsOf(i) /\ r \in Reports
  BY <1>0, NewestRow DEF ReadExisting, RowsOf
<1>2. publication' = [publication EXCEPT ![w] = p] /\ UNCHANGED <<publicReport, created, doubled>>
  BY <1>0 DEF ReadExisting
<1>3. r \in 1..created
  BY <1>1, EvidenceGateAssumption DEF RowsOf, RowsNumbered, Reports, EvidenceGateTypeOK
<1>4. p \in Publication
  BY <1>1, <1>0 DEF Publication, Reports
<1>5. \A v \in GateWorkers : publication'[v] = IF v = w THEN p ELSE publication[v]
  BY <1>2 DEF EvidenceGateTypeOK
<1>6. EvidenceGateTypeOK'
  BY <1>2, <1>4 DEF EvidenceGateTypeOK
<1>7. \A j : RowsOf(j)' = RowsOf(j)
  BY <1>2 DEF RowsOf
<1>8. PublicationsOK'
  <2>1. PublicationOK(p)'
    BY <1>1, <1>2, <1>3, <1>7, <1>0 DEF PublicationOK
  <2>2. \A v \in GateWorkers : PublicationOK(publication[v])'
    BY <1>2, <1>5, <1>7, <2>1 DEF PublicationOK, PublicationsOK
  <2>3. QED
    BY <1>5, <1>0, <2>2 DEF PublicationsOK
<1>9. UndoubledOK'
  BY <1>2, <1>5, <1>7, <1>0 DEF UndoubledOK, Undoubled
<1>10. RowsNumbered'
  BY <1>2 DEF RowsNumbered
<1>11. QED
  BY <1>6, <1>8, <1>9, <1>10

\* publicize_evidence, there is no row yet.
LEMMA ReadMissingPreserves ==
  ASSUME EvidenceGateInv, NEW w \in GateWorkers, NEW i \in Evidenced, ReadMissing(w, i)
  PROVE  EvidenceGateInv'
<1> USE EvidenceGateAssumption DEF EvidenceGateInv
<1>0. PICK p : p = [open |-> TRUE, incident |-> i, report |-> created + 1, new |-> TRUE,
                   wasPublic |-> FALSE, make_public |-> TRUE]
  OBVIOUS
<1>1. RowsOf(i) = {}
  BY NewestRow DEF ReadMissing, RowsOf, Reports
<1>2. /\ publication' = [publication EXCEPT ![w] = p]
      /\ created \in Nat /\ created < MaxReports /\ created' = created + 1
      /\ UNCHANGED publicReport
  BY <1>0 DEF ReadMissing, EvidenceGateTypeOK
<1>3. doubled' = IF \E v \in GateWorkers : publication[v].new /\ publication[v].incident = i
                   THEN doubled \cup {i} ELSE doubled
  BY DEF ReadMissing
<1>4. p \in Publication
  BY <1>2, <1>0 DEF Publication
<1>5. \A v \in GateWorkers : publication'[v] = IF v = w THEN p ELSE publication[v]
  BY <1>2 DEF EvidenceGateTypeOK
<1>6. EvidenceGateTypeOK'
  BY <1>2, <1>3, <1>4 DEF EvidenceGateTypeOK
<1>7. \A j : RowsOf(j)' = RowsOf(j)
  BY <1>2 DEF RowsOf
<1>8. PublicationsOK'
  <2>1. publicReport[created + 1].status = "none"
    BY <1>2 DEF RowsNumbered, Reports, EvidenceGateTypeOK, PublicReport
  <2>2. PublicationOK(p)'
    BY <1>2, <1>0, <2>1 DEF PublicationOK
  <2>3. \A v \in GateWorkers : PublicationOK(publication[v])'
    BY <1>2, <1>5, <1>7, <2>2 DEF PublicationOK, PublicationsOK
  <2>4. \A v \in GateWorkers : publication[v].new => publication[v].report # created + 1
    BY <1>2 DEF PublicationOK, PublicationsOK
  <2>5. QED
    BY <1>5, <1>0, <2>3, <2>4 DEF PublicationsOK
<1>9. UndoubledOK'
  <2> SUFFICES ASSUME NEW j \in Evidenced, j \notin doubled' PROVE Undoubled(j)'
    BY DEF UndoubledOK
  <2>1. Undoubled(j)
    BY <1>3 DEF UndoubledOK
  <2>2. j = i => ~\E v \in GateWorkers : publication[v].new /\ publication[v].incident = i
    BY <1>3
  <2>3. QED
    BY <1>1, <1>5, <1>7, <1>0, <2>1, <2>2 DEF Undoubled
<1>10. RowsNumbered'
  BY <1>2 DEF RowsNumbered, Reports
<1>11. QED
  BY <1>6, <1>8, <1>9, <1>10

\* A request that ends writing nothing.
LEMMA PublicationEnds ==
  ASSUME EvidenceGateInv, NEW w \in GateWorkers,
         publication' = [publication EXCEPT ![w] = NoPublication],
         UNCHANGED <<publicReport, created, doubled>>
  PROVE  EvidenceGateInv'
<1> USE DEF EvidenceGateInv
<1>1. NoPublication \in Publication
  BY EvidenceGateAssumption DEF NoPublication, Publication
<1>2. \A v \in GateWorkers : publication'[v] = IF v = w THEN NoPublication ELSE publication[v]
  BY DEF EvidenceGateTypeOK
<1>3. EvidenceGateTypeOK'
  BY <1>1 DEF EvidenceGateTypeOK
<1>4. \A j : RowsOf(j)' = RowsOf(j)
  BY DEF RowsOf
<1>5. ~NoPublication.open /\ ~NoPublication.new
  BY DEF NoPublication
<1>6. PublicationsOK'
  BY <1>2, <1>4, <1>5 DEF PublicationsOK, PublicationOK
<1>7. UndoubledOK'
  BY <1>2, <1>4, <1>5 DEF UndoubledOK, Undoubled
<1>8. RowsNumbered'
  BY DEF RowsNumbered
<1>9. QED
  BY <1>3, <1>6, <1>7, <1>8

\* update_publicity and create, committed.
LEMMA CommitPublicationPreserves ==
  ASSUME EvidenceGateInv, NEW w \in GateWorkers, CommitPublication(w)
  PROVE  EvidenceGateInv'
<1> USE EvidenceGateAssumption DEF EvidenceGateInv
<1> DEFINE p == publication[w]
           row == [status |-> IF p.make_public THEN "public" ELSE "private",
                   incident |-> p.incident]
<1>1. CASE p.make_public = p.wasPublic
  BY <1>1, PublicationEnds DEF CommitPublication
<1>2. CASE p.make_public # p.wasPublic
  <2>1. /\ publicReport' = [publicReport EXCEPT ![p.report] = row]
        /\ publication' = [publication EXCEPT ![w] = NoPublication]
        /\ UNCHANGED <<created, doubled>>
    BY <1>2 DEF CommitPublication
  <2>2. p \in Publication /\ p.open /\ PublicationOK(p)
    BY DEF CommitPublication, EvidenceGateTypeOK, PublicationsOK
  <2>3. p.incident \in Evidenced /\ p.report \in 1..created /\ p.report \in Reports
    BY <2>2 DEF PublicationOK, Reports, EvidenceGateTypeOK
  <2>4. row \in PublicReport /\ row.status # "none" /\ row.incident = p.incident
    BY <2>3 DEF PublicReport
  <2>5. NoPublication \in Publication /\ ~NoPublication.open /\ ~NoPublication.new
    BY DEF NoPublication, Publication
  <2>6. \A v \in GateWorkers : publication'[v] = IF v = w THEN NoPublication ELSE publication[v]
    BY <2>1 DEF EvidenceGateTypeOK
  <2> HIDE DEF row
  <2>7. \A r \in Reports : publicReport'[r] = IF r = p.report THEN row ELSE publicReport[r]
    BY <2>1 DEF EvidenceGateTypeOK
  <2>8. EvidenceGateTypeOK'
    BY <2>1, <2>4, <2>5 DEF EvidenceGateTypeOK
  <2>9. RowsNumbered'
    BY <2>1, <2>3, <2>7 DEF RowsNumbered, EvidenceGateTypeOK
  \* What is written is the row that was read, or one nobody else inserts.
  <2>10. ~p.new => p.report \in RowsOf(p.incident)
    BY <2>2 DEF PublicationOK
  <2>11. p.new => publicReport[p.report].status = "none"
    BY <2>2 DEF PublicationOK
  <2>12. \A j : RowsOf(j)' = IF j = p.incident THEN RowsOf(j) \cup {p.report} ELSE RowsOf(j)
    BY <2>3, <2>4, <2>7, <2>10, <2>11 DEF RowsOf
  <2>13. PublicationsOK'
    <3>1. ASSUME NEW v \in GateWorkers PROVE PublicationOK(publication[v])'
      <4>1. CASE v = w
        BY <2>5, <2>6, <4>1 DEF PublicationOK
      <4>2. CASE v # w
        <5>1. publication'[v] = publication[v] /\ PublicationOK(publication[v])
          BY <2>6, <4>2 DEF PublicationsOK
        <5>2. publication[v].new => publication[v].report # p.report
          <6>1. CASE p.new
            BY <4>2, <6>1 DEF PublicationsOK
          <6>2. CASE ~p.new
            BY <2>10, <5>1, <6>2 DEF PublicationOK, RowsOf
          <6>3. QED
            BY <6>1, <6>2
        <5>3. publication[v].new => publicReport'[publication[v].report].status = "none"
          BY <2>1, <2>7, <5>1, <5>2 DEF PublicationOK, EvidenceGateTypeOK, Reports
        <5>4. QED
          BY <2>1, <2>12, <5>1, <5>3 DEF PublicationOK
      <4>3. QED
        BY <4>1, <4>2
    <3>2. QED
      BY <2>5, <2>6, <3>1 DEF PublicationsOK
  <2>14. UndoubledOK'
    <3> SUFFICES ASSUME NEW j \in Evidenced, j \notin doubled' PROVE Undoubled(j)'
      BY DEF UndoubledOK
    <3>1. Undoubled(j)
      BY <2>1 DEF UndoubledOK
    <3>2. CASE j # p.incident
      BY <2>5, <2>6, <2>12, <3>1, <3>2 DEF Undoubled
    <3>3. CASE j = p.incident /\ p.new
      BY <2>5, <2>6, <2>12, <3>1, <3>3 DEF Undoubled
    <3>4. CASE j = p.incident /\ ~p.new
      BY <2>5, <2>6, <2>10, <2>12, <3>1, <3>4 DEF Undoubled
    <3>5. QED
      BY <3>2, <3>3, <3>4
  <2>15. QED
    BY <2>8, <2>9, <2>13, <2>14
<1>3. QED
  BY <1>1, <1>2

\* Publications keep their inductive invariant, however requests for the same incident
\* interleave.
THEOREM EvidenceGateInvariant == EvidenceGateSpec => []EvidenceGateInv
<1>1. EvidenceGateInv /\ [EvidenceGateNext]_evidenceGateVars => EvidenceGateInv'
  <2> SUFFICES ASSUME EvidenceGateInv, [EvidenceGateNext]_evidenceGateVars
               PROVE  EvidenceGateInv'
    OBVIOUS
  <2>1. CASE UNCHANGED evidenceGateVars
    BY <2>1 DEF evidenceGateVars, EvidenceGateInv, EvidenceGateTypeOK, RowsNumbered,
                PublicationsOK, PublicationOK, UndoubledOK, Undoubled, RowsOf
  <2>2. ASSUME NEW w \in GateWorkers, RollbackPublication(w) PROVE EvidenceGateInv'
    BY <2>2, PublicationEnds DEF RollbackPublication
  <2>3. QED
    BY <2>1, <2>2, ReadExistingPreserves, ReadMissingPreserves, CommitPublicationPreserves
       DEF EvidenceGateNext
<1>2. QED
  BY EvidenceGateInitOK, <1>1, PTL DEF EvidenceGateSpec

\* Publications keep their types.
THEOREM EvidenceGateTypes == EvidenceGateSpec => []EvidenceGateTypeOK
<1>1. EvidenceGateInv => EvidenceGateTypeOK
  BY DEF EvidenceGateInv
<1>2. QED
  BY <1>1, EvidenceGateInvariant, PTL

\* publicize_evidence changes the newest row only; that hides the incident, unless two
\* requests inserted a row at the same time, because the newest is the only one.
THEOREM WithdrawnEvidenceIsHidden == EvidenceGateSpec => []UnpublishedIsHidden
<1>1. EvidenceGateInv => UnpublishedIsHidden
  BY NewestRow DEF EvidenceGateInv, UndoubledOK, Undoubled, UnpublishedIsHidden
<1>2. QED
  BY <1>1, EvidenceGateInvariant, PTL

----------------------------------------------------------------------------
(* The components side by side *)

\* A step of the monitoring is a step of one component, and of the others a stutter.
LEMMA MonitoringSteps ==
  [MonitoringNext]_componentVars =>
    /\ [CheckDispatchNext]_checkDispatchVars
    /\ [AlertDispatchNext]_alertDispatchVars
    /\ [EvidencePipelineNext]_evidenceVars
    /\ [EvidenceGateNext]_evidenceGateVars
BY DEF MonitoringNext, CheckDispatchMove, AlertDispatchMove, EvidencePipelineMove,
       EvidenceGateMove, componentVars

\* Scheduling, alerting, generation and publication run at the same time; each behaves as
\* specified alone (its fairness apart), because none writes a variable of another.
THEOREM MonitoringComposes ==
  MonitoringSpec => /\ CheckDispatchInit /\ [][CheckDispatchNext]_checkDispatchVars
                    /\ AlertDispatchSpec
                    /\ EvidencePipelineInit /\ [][EvidencePipelineNext]_evidenceVars
                    /\ EvidenceGateSpec
<1>1. MonitoringInit => /\ CheckDispatchInit
                        /\ AlertDispatchInit
                        /\ EvidencePipelineInit
                        /\ EvidenceGateInit
  BY DEF MonitoringInit
<1>2. QED
  BY <1>1, MonitoringSteps, PTL DEF MonitoringSpec, AlertDispatchSpec, EvidenceGateSpec

\* What TLC explores are behaviours of the monitoring.
LEMMA ExploredIsMonitoring == MCSpec => MonitoringSpec
<1>1. MCInit => MonitoringInit
  BY DEF MCInit
<1>2. [MCNext]_<<componentVars, focus>> => [MonitoringNext]_componentVars
  BY DEF MCNext, MonitoringNext
<1>3. QED
  BY <1>1, <1>2, PTL DEF MCSpec, MonitoringSpec

\* Beat, workers and requests together keep the types of all components.
THEOREM MonitoringTypes ==
  /\ MonitoringSpec => []MonitoringTypeOK
  /\ MCSpec => []MonitoringTypeOK
<1>1. CheckDispatchInv => CheckDispatchTypeOK
  BY DEF CheckDispatchInv
<1>2. EvidenceInv => EvidencePipelineTypeOK
  BY DEF EvidenceInv
<1>3. /\ CheckDispatchTypeOK
      /\ AlertDispatchTypeOK
      /\ EvidencePipelineTypeOK
      /\ EvidenceGateTypeOK
      => MonitoringTypeOK
  BY DEF MonitoringTypeOK
<1>4. QED
  BY <1>1, <1>2, <1>3, MonitoringComposes, ExploredIsMonitoring, CheckDispatchInitOK,
     CheckDispatchStep, AlertDispatchTypes, EvidenceInitOK, EvidenceStep, EvidenceGateTypes,
     PTL
=============================================================================
