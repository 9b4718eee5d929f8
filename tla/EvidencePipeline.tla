--------------------------- MODULE EvidencePipeline ---------------------------
(***************************************************************************)
(* From a resolved incident to its evidence: the resolving transaction     *)
(* attributes the incident and sends a task, and the task writes a report, *)
(* its two objects and an immutable snapshot.                              *)
(*                                                                         *)
(* app/modules/incidents/service.py (resolve_incident, update_incident,    *)
(* get_or_trigger_evidence), app/modules/evidence/service.py,              *)
(* repository.py, tasks.py, models.py, router.py,                          *)
(* app/modules/attribution/service.py, repository.py, models.py,           *)
(* app/infrastructure/storage.py.                                          *)
(*                                                                         *)
(* The task is sent, with a countdown of 5 s, before the resolution        *)
(* commits: it may start first, or find that it was rolled back.  Uploads  *)
(* happen inside the generating transaction and survive its rollback.      *)
(***************************************************************************)
EXTENDS Integers, FiniteSets

CONSTANTS
  EvidenceWorkers,  \* requests, checks and tasks at a time
  Incidents,
  MaxResolutions,   \* bound: values of resolved_at written in a behaviour
  MaxRequests,      \* bound: generations asked for by users
  TaskRetries,      \* max_retries of generate_evidence_report
  MaxUpsets,        \* bound: failed or repeated generations and lost dispatches
  NoIncident

ASSUME EvidencePipelineAssumption ==
  /\ MaxResolutions \in Nat
  /\ MaxRequests \in Nat
  /\ TaskRetries \in Nat
  /\ MaxUpsets \in Nat
  /\ NoIncident \notin Incidents

VARIABLES
  incident,     \* incidents rows: open, the time of resolution, and attribution_results
  stamps,       \* values of resolved_at taken so far
  resolution,   \* the resolving transaction of each worker
  generation,   \* the generating transaction of each worker
  tasks,        \* generate_evidence_report messages by retries used
  objects,      \* objects in storage
  evidence,     \* evidence_reports rows, each with its evidence_snapshots row
  keys,         \* generation keys drawn so far
  requests,     \* generations asked for by users
  upsets,       \* how many faults have happened
  aborted,      \* history: keys of generations that were rolled back
  missed        \* history: incidents a task of which was lost, or read them before the commit

evidenceVars == <<incident, stamps, resolution, generation, tasks, objects, evidence,
                  keys, requests, upsets, aborted, missed>>

\* resolved_at: 0 is NULL, n the n-th time written.  attributed: an attribution_results row.
Resolutions == 0..MaxResolutions
IncidentRow == [open : BOOLEAN, resolved_at : Resolutions, attributed : BOOLEAN]

Resolving == [step : {"idle", "read", "written"}, incident : Incidents \cup {NoIncident},
              resolved_at : Resolutions, attributed : BOOLEAN]
NoResolution == [step |-> "idle", incident |-> NoIncident, resolved_at |-> 0,
                 attributed |-> FALSE]

\* resolved_at: what the generation read.  retries: of its task, -1 for a user's request.
Generating == [step : {"idle", "read", "pdf", "json"}, incident : Incidents \cup {NoIncident},
               resolved_at : Resolutions, key : Nat, retries : -1..TaskRetries]
NoGeneration == [step |-> "idle", incident |-> NoIncident, resolved_at |-> 0, key |-> 0,
                 retries |-> -1]

EvidenceRow == [key : Nat, incident : Incidents, resolved_at : Resolutions]

EvidencePipelineTypeOK ==
  /\ incident \in [Incidents -> IncidentRow]
  /\ stamps \in Resolutions
  /\ resolution \in [EvidenceWorkers -> Resolving]
  /\ generation \in [EvidenceWorkers -> Generating]
  /\ tasks \in [Incidents -> [0..TaskRetries -> Nat]]
  /\ objects \subseteq Nat \X {"pdf", "json"}
  /\ evidence \subseteq EvidenceRow
  /\ keys \in Nat
  /\ requests \in 0..MaxRequests
  /\ upsets \in 0..MaxUpsets
  /\ aborted \subseteq Nat
  /\ missed \subseteq Incidents

EvidencePipelineInit ==
  /\ incident = [i \in Incidents |-> [open |-> TRUE, resolved_at |-> 0, attributed |-> FALSE]]
  /\ stamps = 0
  /\ resolution = [w \in EvidenceWorkers |-> NoResolution]
  /\ generation = [w \in EvidenceWorkers |-> NoGeneration]
  /\ tasks = [i \in Incidents |-> [r \in 0..TaskRetries |-> 0]]
  /\ objects = {}
  /\ evidence = {}
  /\ keys = 0
  /\ requests = 0
  /\ upsets = 0
  /\ aborted = {}
  /\ missed = {}

----------------------------------------------------------------------------
(* Resolution *)

IdleWorker(w) == resolution[w].step = "idle" /\ generation[w].step = "idle"

\* A resolved incident is returned as it is: only an open one goes on.
resolve_incident(w, i) ==
  /\ IdleWorker(w)
  /\ incident[i].open
  /\ resolution' = [resolution EXCEPT ![w] =
       [step |-> "read", incident |-> i, resolved_at |-> 0, attributed |-> FALSE]]
  /\ UNCHANGED <<incident, stamps, generation, tasks, objects, evidence, keys,
                 requests, upsets, aborted, missed>>

\* The update waits for another resolution of the row.  Attribution is computed once per
\* incident, in a savepoint whose failure is swallowed.
WriteResolution(w, attributed) ==
  LET i == resolution[w].incident IN
  /\ resolution[w].step = "read"
  /\ \A v \in EvidenceWorkers : ~(resolution[v].step = "written" /\ resolution[v].incident = i)
  /\ stamps < MaxResolutions
  /\ incident[i].attributed => attributed
  /\ stamps' = stamps + 1
  /\ resolution' = [resolution EXCEPT ![w].step = "written", ![w].resolved_at = stamps + 1,
                                      ![w].attributed = attributed]
  /\ tasks' = [tasks EXCEPT ![i][0] = @ + 1]
  /\ UNCHANGED <<incident, generation, objects, evidence, keys, requests, upsets,
                 aborted, missed>>

\* The broker refuses the task: logged, and the incident stays without one.
WriteUndispatched(w, attributed) ==
  LET i == resolution[w].incident IN
  /\ resolution[w].step = "read"
  /\ \A v \in EvidenceWorkers : ~(resolution[v].step = "written" /\ resolution[v].incident = i)
  /\ stamps < MaxResolutions
  /\ upsets < MaxUpsets
  /\ incident[i].attributed => attributed
  /\ stamps' = stamps + 1
  /\ upsets' = upsets + 1
  /\ resolution' = [resolution EXCEPT ![w].step = "written", ![w].resolved_at = stamps + 1,
                                      ![w].attributed = attributed]
  /\ missed' = missed \cup {i}
  /\ UNCHANGED <<incident, generation, tasks, objects, evidence, keys, requests, aborted>>

CommitResolution(w) ==
  LET r == resolution[w] IN
  /\ r.step = "written"
  /\ incident' = [incident EXCEPT ![r.incident] =
       [open |-> FALSE, resolved_at |-> r.resolved_at, attributed |-> r.attributed]]
  /\ resolution' = [resolution EXCEPT ![w] = NoResolution]
  /\ UNCHANGED <<stamps, generation, tasks, objects, evidence, keys, requests,
                 upsets, aborted, missed>>

RollbackResolution(w) ==
  /\ resolution[w].step # "idle"
  /\ resolution' = [resolution EXCEPT ![w] = NoResolution]
  /\ UNCHANGED <<incident, stamps, generation, tasks, objects, evidence, keys,
                 requests, upsets, aborted, missed>>

\* PATCH of the status: resolved_at and the attribution stay.
update_incident(i) ==
  /\ ~incident[i].open
  /\ \A v \in EvidenceWorkers : ~(resolution[v].step = "written" /\ resolution[v].incident = i)
  /\ incident' = [incident EXCEPT ![i].open = TRUE]
  /\ UNCHANGED <<stamps, resolution, generation, tasks, objects, evidence, keys,
                 requests, upsets, aborted, missed>>

----------------------------------------------------------------------------
(* Generation *)

Begin(w, i, retries) ==
  /\ IdleWorker(w)
  /\ keys' = keys + 1
  /\ generation' = [generation EXCEPT ![w] =
       [step |-> "read", incident |-> i, resolved_at |-> incident[i].resolved_at,
        key |-> keys + 1, retries |-> retries]]

\* A resolution of the incident has sent its task and not committed.
Uncommitted(i) ==
  \E v \in EvidenceWorkers : resolution[v].step = "written" /\ resolution[v].incident = i

generate_evidence_report(w, i, r) ==
  /\ tasks[i][r] > 0
  /\ Begin(w, i, r)
  /\ tasks' = [tasks EXCEPT ![i][r] = @ - 1]
  /\ missed' = IF Uncommitted(i) THEN missed \cup {i} ELSE missed
  /\ UNCHANGED <<incident, stamps, resolution, objects, evidence, requests, upsets,
                 aborted>>

\* get_or_trigger_evidence of an incident without a report, regenerate_report of one with.
RequestEvidence(w, i) ==
  /\ requests < MaxRequests
  /\ Begin(w, i, -1)
  /\ requests' = requests + 1
  /\ UNCHANGED <<incident, stamps, resolution, tasks, objects, evidence, upsets,
                 aborted, missed>>

\* The report row is flushed, then the PDF and the JSON document are uploaded.
upload_bytes(w, kind) ==
  LET g == generation[w] IN
  /\ g.step = IF kind = "pdf" THEN "read" ELSE "pdf"
  /\ objects' = objects \cup {<<g.key, kind>>}
  /\ generation' = [generation EXCEPT ![w].step = kind]
  /\ UNCHANGED <<incident, stamps, resolution, tasks, evidence, keys, requests,
                 upsets, aborted, missed>>

Row(g) == [key |-> g.key, incident |-> g.incident, resolved_at |-> g.resolved_at]

\* A generation that commits without its second object.
CommitPartial(w) ==
  /\ generation[w].step \in {"pdf", "json"}
  /\ evidence' = evidence \cup {Row(generation[w])}
  /\ generation' = [generation EXCEPT ![w] = NoGeneration]
  /\ UNCHANGED <<incident, stamps, resolution, tasks, objects, keys, requests, upsets,
                 aborted, missed>>

\* Snapshot, audit event and alert, then the commit.
CommitGeneration(w) ==
  /\ generation[w].step = "json"
  /\ evidence' = evidence \cup {Row(generation[w])}
  /\ generation' = [generation EXCEPT ![w] = NoGeneration]
  /\ UNCHANGED <<incident, stamps, resolution, tasks, objects, keys, requests, upsets,
                 aborted, missed>>

\* The worker dies after the commit and before the acknowledgement: the task runs again.
CommitUnacknowledged(w) ==
  LET g == generation[w] IN
  /\ g.step = "json"
  /\ g.retries >= 0
  /\ upsets < MaxUpsets
  /\ evidence' = evidence \cup {Row(g)}
  /\ tasks' = [tasks EXCEPT ![g.incident][g.retries] = @ + 1]
  /\ generation' = [generation EXCEPT ![w] = NoGeneration]
  /\ upsets' = upsets + 1
  /\ UNCHANGED <<incident, stamps, resolution, objects, keys, requests, aborted, missed>>

\* A task whose failure is not retried.
NotRetried(g) == tasks

Retried(g) ==
  IF g.retries \in 0..TaskRetries - 1
    THEN [tasks EXCEPT ![g.incident][g.retries + 1] = @ + 1] ELSE tasks

\* Rendering, an upload or a flush raises: rollback, and the task is retried while it may be.
FailGeneration(w) ==
  LET g == generation[w] IN
  /\ g.step # "idle"
  /\ upsets < MaxUpsets
  /\ upsets' = upsets + 1
  /\ aborted' = aborted \cup {g.key}
  /\ generation' = [generation EXCEPT ![w] = NoGeneration]
  /\ tasks' = Retried(g)
  /\ missed' = IF g.retries = TaskRetries THEN missed \cup {g.incident} ELSE missed
  /\ UNCHANGED <<incident, stamps, resolution, objects, evidence, keys, requests>>

----------------------------------------------------------------------------

EvidencePipelineNext ==
  \/ \E w \in EvidenceWorkers, i \in Incidents :
       \/ resolve_incident(w, i)
       \/ \E r \in 0..TaskRetries : generate_evidence_report(w, i, r)
       \/ RequestEvidence(w, i)
  \/ \E w \in EvidenceWorkers :
       \/ \E attributed \in BOOLEAN :
            WriteResolution(w, attributed) \/ WriteUndispatched(w, attributed)
       \/ CommitResolution(w) \/ RollbackResolution(w)
       \/ \E kind \in {"pdf", "json"} : upload_bytes(w, kind)
       \/ CommitGeneration(w) \/ CommitUnacknowledged(w) \/ FailGeneration(w)
  \/ \E i \in Incidents : update_incident(i)

\* Transactions end, a waiting task is run, and a started generation proceeds.
EvidencePipelineFairness ==
  /\ \A w \in EvidenceWorkers :
       /\ WF_evidenceVars(CommitResolution(w) \/ RollbackResolution(w))
       /\ WF_evidenceVars(\E kind \in {"pdf", "json"} : upload_bytes(w, kind))
       /\ WF_evidenceVars(CommitGeneration(w))
  /\ \A i \in Incidents :
       SF_evidenceVars(\E w \in EvidenceWorkers, r \in 0..TaskRetries :
                         generate_evidence_report(w, i, r))

EvidencePipelineSpec ==
  EvidencePipelineInit /\ [][EvidencePipelineNext]_evidenceVars /\ EvidencePipelineFairness

----------------------------------------------------------------------------
(* Properties *)

\* A report and its snapshot are committed together and only with both of their objects
\* stored; an object without them belongs to a generation that is running or failed
\* (generate_for_incident: row, uploads, snapshot, in one transaction).
EvidenceIsComplete ==
  /\ \A row \in evidence : {<<row.key, "pdf">>, <<row.key, "json">>} \subseteq objects
  /\ \A object \in objects :
       \/ \E row \in evidence : row.key = object[1]
       \/ object[1] \in aborted
       \/ \E w \in EvidenceWorkers : generation[w].key = object[1]

Covered(i, n) == \E row \in evidence : row.incident = i /\ row.resolved_at >= n

\* Every committed resolution is reported: evidence that has read it is committed in the end,
\* although uploads fail and tasks are repeated, unless the broker refused the task, a task
\* ran out of retries, or one read the incident before the resolution was committed.
ResolutionIsReported ==
  \A i \in Incidents, n \in 1..MaxResolutions :
    incident[i].resolved_at = n ~> (Covered(i, n) \/ i \in missed)
=============================================================================
