---------------------------- MODULE IncidentLog ----------------------------
(***************************************************************************)
(* What the monitoring core promises to a reader of the tables of one      *)
(* dependency: a check is recorded together with its verdict in one step,  *)
(* and a verdict names results of two regions that are recorded by then.   *)
(* Locks, transactions, retries and the time window do not show.           *)
(***************************************************************************)
CONSTANTS
  Checks,      \* identities of check results
  Regions,     \* probe regions of the dependency
  Incidents    \* identities of incidents

VARIABLES
  recorded,  \* the results in the tables
  shown,     \* the incidents in the tables
  tasks      \* incidents whose evidence generation was handed over

vars == <<recorded, shown, tasks>>

Outcome == [check : Checks, region : Regions, up : BOOLEAN]

\* cause and cure: the results on which it was opened, and recovered last.
Hidden == [status |-> "none", cause |-> {}, cure |-> {}]

Init ==
  /\ recorded = {}
  /\ shown = [i \in Incidents |-> Hidden]
  /\ tasks = {}

\* Each check is recorded once.
Record(r) ==
  /\ \A q \in recorded : q.check # r.check
  /\ recorded' = recorded \cup {r}

\* Recorded results that agree with r, r among them, of two regions.
Verdict(r, S) ==
  /\ r \in S
  /\ \A q \in S : q.up = r.up
  /\ \E q \in S : q.region # r.region

\* The row of incident i is written.
Show(i, status, cause, cure) ==
  shown' = [shown EXCEPT ![i] = [status |-> status, cause |-> cause, cure |-> cure]]

NoneOpenBut(i) == \A j \in Incidents \ {i} : shown[j].status # "open"

\* A check without a verdict.
RecordOnly(r) == Record(r) /\ UNCHANGED <<shown, tasks>>

\* A failure that completes the quorum opens a new incident.
OpenIncident(r, i) ==
  /\ Record(r) /\ ~r.up
  /\ shown[i] = Hidden /\ NoneOpenBut(i)
  /\ \E S \in SUBSET recorded' : Verdict(r, S) /\ Show(i, "open", S, {})
  /\ UNCHANGED tasks

\* A success that completes the quorum ends an incident that no other recovery
\* has ended; its evidence has been asked for.
Recover(r, i) ==
  /\ Record(r) /\ r.up
  /\ shown[i].status \notin {"none", "recovered"} /\ i \in tasks
  /\ \E S \in SUBSET recorded' : Verdict(r, S) /\ Show(i, "recovered", shown[i].cause, S)
  /\ UNCHANGED tasks

\* Evidence generation is handed over, of an incident that can be seen.
HandOver(i) ==
  /\ shown[i] # Hidden
  /\ tasks' = tasks \cup {i}
  /\ UNCHANGED <<recorded, shown>>

\* A user sets the status; resolving asks for the evidence in the same step.
Patch(i, to) ==
  /\ shown[i] # Hidden
  /\ to = "open" => NoneOpenBut(i)
  /\ Show(i, to, shown[i].cause, shown[i].cure)
  /\ tasks' = IF to = "resolved" THEN tasks \cup {i} ELSE tasks
  /\ UNCHANGED recorded

Next ==
  \/ \E r \in Outcome :
       \/ RecordOnly(r)
       \/ \E i \in Incidents : OpenIncident(r, i) \/ Recover(r, i)
  \/ \E i \in Incidents :
       \/ HandOver(i)
       \/ \E to \in {"open", "resolved", "false_positive"} : Patch(i, to)

Spec == Init /\ [][Next]_vars
=============================================================================
