---------------------------- MODULE CheckQuorum ----------------------------
(***************************************************************************)
(* The monitoring core for one dependency: Celery workers probe it from    *)
(* several regions, record the result, evaluate the failure and recovery   *)
(* quorums, and open or resolve its incident, while administrators change  *)
(* the incident through the API.                                           *)
(*                                                                         *)
(* app/modules/checks/service.py (execute_check), the repositories it      *)
(* calls, app/modules/incidents/service.py (check_and_create_incident,     *)
(* resolve_incident, update_incident) and the session wrapper of           *)
(* app/infrastructure/async_tasks.py.                                      *)
(*                                                                         *)
(* A check is one PostgreSQL transaction at READ COMMITTED.  Its rows are  *)
(* invisible to the others until it commits and vanish when it aborts.     *)
(* Inserting a result takes FOR KEY SHARE on the dependency row (foreign   *)
(* key), the quorum evaluation takes FOR UPDATE on the same row.           *)
(* Dependencies share no row here, so one dependency is modelled.          *)
(***************************************************************************)
EXTENDS Naturals, FiniteSets

CONSTANTS
  Workers,       \* Celery worker processes
  Users,         \* API requests that PATCH an incident
  Regions,       \* probe regions of the dependency
  MaxChecks,     \* bound: check results recorded in a behaviour
  MaxIncidents   \* bound: incidents created in a behaviour

ASSUME ConstantsAssumption ==
  /\ IsFiniteSet(Regions) /\ Regions # {}
  /\ MaxChecks \in Nat
  /\ MaxIncidents \in Nat

QUORUM_MIN_REGIONS == 2
CONSECUTIVE_RECOVERY_CHECKS == 2

Slots == 1..MaxChecks            \* check results in the order of executed_at
Incidents == 1..MaxIncidents
NoIncident == 0
HomeRegion == CHOOSE r \in Regions : TRUE

VARIABLES
  deleted,    \* Dependency.is_deleted (soft delete also clears is_active)
  result,     \* check_results rows
  last,       \* number of result rows inserted so far
  check,      \* the transaction of each worker
  incident,   \* incidents rows
  request,    \* the transaction of each API request
  evidence    \* <<incident, requester, outcome>>: evidence tasks handed to Celery

vars == <<deleted, result, last, check, incident, request, evidence>>

----------------------------------------------------------------------------
(* Rows *)

\* state: "open" while the inserting transaction runs, "old" once committed
\* and out of the 60 s quorum window.
ResultRow == [state : {"none", "open", "committed", "aborted", "old"},
              region : Regions, up : BOOLEAN, blocked : BOOLEAN, quorum : BOOLEAN]

\* "opening" is the uncommitted INSERT of a check.  closer, cause and cure are
\* history: who resolved it last, and the results the verdicts rest on.
IncidentRow == [status : {"none", "opening", "open", "resolved", "false_positive"},
                resolvedAt : BOOLEAN, closer : {"nobody", "check", "user"},
                cause : SUBSET Slots, cure : SUBSET Slots]

NoRow == [status |-> "none", resolvedAt |-> FALSE, closer |-> "nobody",
          cause |-> {}, cure |-> {}]

NoResult == [state |-> "none", region |-> HomeRegion, up |-> FALSE,
             blocked |-> FALSE, quorum |-> FALSE]

\* plan: what the evaluation decided; target: the incident it read or created;
\* basis: history, the results the decision counted.
CheckTx == [pc : {"idle", "probing", "blocked", "inserted", "evaluated", "applied"},
            slot : 0..MaxChecks,
            plan : {"nothing", "open", "resolve"},
            target : 0..MaxIncidents, basis : SUBSET Slots]

IdleTx == [pc |-> "idle", slot |-> 0, plan |-> "nothing",
           target |-> NoIncident, basis |-> {}]

RequestTx == [pc : {"idle", "read", "done"}, target : 0..MaxIncidents,
              to : {"open", "resolved", "false_positive"},
              seen : {"none", "open", "resolved", "false_positive"},
              seenAt : BOOLEAN]

NoRequest == [pc |-> "idle", target |-> NoIncident, to |-> "open",
              seen |-> "none", seenAt |-> FALSE]

TypeOK ==
  /\ deleted \in BOOLEAN
  /\ result \in [Slots -> ResultRow]
  /\ last \in 0..MaxChecks
  /\ check \in [Workers -> CheckTx]
  /\ incident \in [Incidents -> IncidentRow]
  /\ request \in [Users -> RequestTx]
  /\ evidence \subseteq Incidents \X {"check", "user"} \X {"sent", "lost"}

Init ==
  /\ deleted = FALSE
  /\ result = [s \in Slots |-> NoResult]
  /\ last = 0
  /\ check = [w \in Workers |-> IdleTx]
  /\ incident = [i \in Incidents |-> NoRow]
  /\ request = [u \in Users |-> NoRequest]
  /\ evidence = {}

----------------------------------------------------------------------------
(* Locks on the dependency row *)

HoldsKeyShare(w) == check[w].pc \in {"blocked", "inserted", "evaluated", "applied"}
HoldsForUpdate(w) == check[w].pc \in {"evaluated", "applied"}
WaitsForUpdate(w) == check[w].pc = "inserted"

\* Row lock a check holds on the incident its UPDATE touched.
IncidentLocked(i) == \E w \in Workers : check[w].pc = "applied" /\ check[w].target = i
                                        /\ check[w].plan = "resolve"

OpenIncidents == {i \in Incidents : incident[i].status = "open"}

----------------------------------------------------------------------------
(* execute_check, one action per point where other transactions interleave *)

\* The broker delivers execute_check: first delivery, retry and redelivery
\* alike.  An inactive dependency ends the task at once.
StartCheck(w) ==
  /\ check[w].pc = "idle"
  /\ ~deleted
  /\ last + Cardinality({v \in Workers : check[v].pc = "probing"}) < MaxChecks
  /\ check' = [check EXCEPT ![w] = [@ EXCEPT !.pc = "probing"]]
  /\ UNCHANGED <<deleted, result, last, incident, request, evidence>>

\* The probe of region r ended; the result row is inserted and flushed.  A URL
\* refused by the address policy is recorded as a failure and not evaluated.
InsertResult(w, r, up, blocked) ==
  /\ check[w].pc = "probing"
  /\ blocked => ~up
  /\ last < MaxChecks
  /\ \A v \in Workers \ {w} : ~HoldsForUpdate(v)
  /\ last' = last + 1
  /\ result' = [result EXCEPT ![last + 1] =
                  [state |-> "open", region |-> r, up |-> up,
                   blocked |-> blocked, quorum |-> FALSE]]
  /\ check' = [check EXCEPT ![w] =
                  [@ EXCEPT !.pc = IF blocked THEN "blocked" ELSE "inserted",
                            !.slot = last + 1]]
  /\ UNCHANGED <<deleted, incident, request, evidence>>

\* Faulty: the evaluation runs without the row lock.
FaultyLockDependency(w) == TRUE

\* SELECT ... FOR UPDATE waits for every other holder of a lock on the row.
LockDependency(w) == \A v \in Workers \ {w} : ~HoldsKeyShare(v)

\* list_recent_for_dependency: rows of the window this transaction can see.
Recent(w) == {s \in Slots : /\ ~deleted
                            /\ \/ result[s].state = "committed"
                               \/ s = check[w].slot}

\* recent_results[: CONSECUTIVE_RECOVERY_CHECKS * 2], newest first.
Newest(S) == {s \in S : Cardinality({t \in S : t > s}) < CONSECUTIVE_RECOVERY_CHECKS * 2}

RegionsOf(S) == {result[s].region : s \in S}

IsQuorum(S) == Cardinality(RegionsOf(S)) >= QUORUM_MIN_REGIONS

\* Faulty: the filter on is_up is missing.
FaultyFailing(w) == Recent(w) \cup {check[w].slot}

\* Failing (succeeding) results counted for the check of w, its own included.
Failing(w) == {s \in Recent(w) : ~result[s].up} \cup {check[w].slot}
Succeeding(w) == {s \in Newest(Recent(w)) : result[s].up} \cup {check[w].slot}

\* Lock, read the recent results and the open incident, decide.
EvaluateFailure(w) ==
  /\ check[w].pc = "inserted"
  /\ ~result[check[w].slot].up
  /\ LockDependency(w)
  /\ result' = [result EXCEPT ![check[w].slot].quorum = IsQuorum(Failing(w))]
  /\ check' = [check EXCEPT ![w] =
                 [@ EXCEPT !.pc = "evaluated",
                           !.plan = IF IsQuorum(Failing(w)) /\ OpenIncidents = {}
                                    THEN "open" ELSE "nothing",
                           !.basis = Failing(w)]]
  /\ UNCHANGED <<deleted, last, incident, request, evidence>>

EvaluateSuccess(w) ==
  /\ check[w].pc = "inserted"
  /\ result[check[w].slot].up
  /\ LockDependency(w)
  /\ \/ /\ OpenIncidents = {} \/ ~IsQuorum(Succeeding(w))
        /\ check' = [check EXCEPT ![w] = [@ EXCEPT !.pc = "evaluated"]]
     \/ /\ IsQuorum(Succeeding(w))
        /\ \E i \in OpenIncidents :
             check' = [check EXCEPT ![w] =
                         [@ EXCEPT !.pc = "evaluated", !.plan = "resolve",
                                   !.target = i, !.basis = Succeeding(w)]]
  /\ UNCHANGED <<deleted, result, last, incident, request, evidence>>

\* Nothing to write beyond the result (and its quorum flag).
ApplyNothing(w) ==
  /\ check[w].pc = "evaluated"
  /\ check[w].plan = "nothing"
  /\ check' = [check EXCEPT ![w].pc = "applied"]
  /\ UNCHANGED <<deleted, result, last, incident, request, evidence>>

\* Faulty: no look for an open incident and no unique index.
FaultyApplyOpen(w) ==
  /\ check[w].pc = "evaluated"
  /\ check[w].plan = "open"
  /\ \E i \in Incidents :
       /\ incident[i].status = "none"
       /\ incident' = [incident EXCEPT ![i] =
                         [NoRow EXCEPT !.status = "opening", !.cause = check[w].basis]]
       /\ check' = [check EXCEPT ![w] = [@ EXCEPT !.pc = "applied", !.target = i]]
  /\ UNCHANGED <<deleted, result, last, request, evidence>>

\* check_and_create_incident: the INSERT runs in a savepoint under the partial
\* unique index; an incident opened meanwhile is reused.
ApplyOpen(w) ==
  /\ check[w].pc = "evaluated"
  /\ check[w].plan = "open"
  /\ \/ /\ OpenIncidents # {}
        /\ check' = [check EXCEPT ![w] = [@ EXCEPT !.pc = "applied", !.plan = "nothing"]]
        /\ UNCHANGED incident
     \/ /\ OpenIncidents = {}
        /\ \E i \in Incidents :
             /\ incident[i].status = "none"
             /\ \A j \in Incidents : j < i => incident[j].status # "none"
             /\ incident' = [incident EXCEPT ![i] =
                               [NoRow EXCEPT !.status = "opening", !.cause = check[w].basis]]
             /\ check' = [check EXCEPT ![w] = [@ EXCEPT !.pc = "applied", !.target = i]]
  /\ UNCHANGED <<deleted, result, last, request, evidence>>

\* resolve_incident on the incident read under the lock: the session still
\* holds it as open, so the UPDATE is issued, and the evidence task is sent
\* before the commit (a broker failure is logged and swallowed).
ApplyResolve(w) ==
  /\ check[w].pc = "evaluated"
  /\ check[w].plan = "resolve"
  /\ \E outcome \in {"sent", "lost"} :
       evidence' = evidence \cup {<<check[w].target, "check", outcome>>}
  /\ check' = [check EXCEPT ![w].pc = "applied"]
  /\ UNCHANGED <<deleted, result, last, incident, request>>

\* Faulty: a status outside the incident vocabulary.
FaultyCommittedIncident(w) ==
  IF check[w].plan = "resolve"
  THEN [incident EXCEPT ![check[w].target].status = "closed"]
  ELSE IF check[w].plan = "open"
  THEN [incident EXCEPT ![check[w].target].status = "open"]
  ELSE incident

\* The rows the transaction of w leaves in incidents when it commits.
CommittedIncident(w) ==
  CASE check[w].plan = "open" ->
         [incident EXCEPT ![check[w].target].status = "open"]
    [] check[w].plan = "resolve" ->
         [incident EXCEPT ![check[w].target] =
            [@ EXCEPT !.status = "resolved", !.resolvedAt = TRUE,
                      !.closer = "check", !.cure = check[w].basis]]
    [] OTHER -> incident

\* Faulty: the early return of a blocked check leaves its session open.
FaultyCommitCheck(w) ==
  /\ check[w].pc = "applied"
  /\ result' = [result EXCEPT ![check[w].slot].state = "committed"]
  /\ incident' = CommittedIncident(w)
  /\ check' = [check EXCEPT ![w] = IdleTx]
  /\ UNCHANGED <<deleted, last, request, evidence>>

CommitCheck(w) ==
  /\ check[w].pc \in {"applied", "blocked"}
  /\ result' = [result EXCEPT ![check[w].slot].state = "committed"]
  /\ incident' = CommittedIncident(w)
  /\ check' = [check EXCEPT ![w] = IdleTx]
  /\ UNCHANGED <<deleted, last, request, evidence>>

\* Faulty: the incident is written in a transaction of its own.
FaultyRollback(w) ==
  /\ result' = [s \in Slots |-> IF s = check[w].slot
                                THEN [NoResult EXCEPT !.state = "aborted"]
                                ELSE result[s]]
  /\ incident' = CommittedIncident(w)
  /\ check' = [check EXCEPT ![w] = IdleTx]
  /\ UNCHANGED <<deleted, last, request, evidence>>

Rollback(w) ==
  /\ result' = [s \in Slots |-> IF s = check[w].slot
                                THEN [NoResult EXCEPT !.state = "aborted"]
                                ELSE result[s]]
  /\ incident' = [i \in Incidents |-> IF incident[i].status = "opening"
                                         /\ check[w].target = i
                                      THEN NoRow ELSE incident[i]]
  /\ check' = [check EXCEPT ![w] = IdleTx]
  /\ UNCHANGED <<deleted, last, request, evidence>>

\* Worker crash, soft time limit or database error: the transaction is rolled
\* back and the task is delivered again later.
AbortCheck(w) ==
  /\ check[w].pc # "idle"
  /\ Rollback(w)

\* PostgreSQL's deadlock detector cancels one of two checks that hold the key
\* share lock and both wait for the other one to release it.
CancelDeadlocked(w) ==
  /\ WaitsForUpdate(w)
  /\ \E v \in Workers \ {w} : WaitsForUpdate(v)
  /\ Rollback(w)

----------------------------------------------------------------------------
(* The environment: time, soft delete, PATCH /incidents/{id} *)

\* The oldest row of the window turns 60 s old.  A transaction never outlives
\* its own row's window (soft_time_limit = 60).
AgeOut(s) ==
  /\ result[s].state = "committed"
  /\ \A t \in Slots : t < s => result[t].state \notin {"open", "committed"}
  /\ result' = [result EXCEPT ![s].state = "old"]
  /\ UNCHANGED <<deleted, last, check, incident, request, evidence>>

\* delete_dependency: the UPDATE waits for a check that holds FOR UPDATE.
DeleteDependency ==
  /\ ~deleted
  /\ \A w \in Workers : ~HoldsForUpdate(w)
  /\ deleted' = TRUE
  /\ UNCHANGED <<result, last, check, incident, request, evidence>>

\* update_incident: load the row.
ReadIncident(u, i, to) ==
  /\ request[u].pc = "idle"
  /\ incident[i].status \notin {"none", "opening"}
  /\ request' = [request EXCEPT ![u] = [pc |-> "read", target |-> i, to |-> to,
                                        seen |-> incident[i].status,
                                        seenAt |-> incident[i].resolvedAt]]
  /\ UNCHANGED <<deleted, result, last, check, incident, evidence>>

Answer(u) == request' = [request EXCEPT ![u] = [NoRequest EXCEPT !.pc = "done"]]

\* No UPDATE is issued: a resolved row is returned as it is, and the session
\* writes only columns that differ from what it loaded.
PatchNothing(u) ==
  /\ request[u].pc = "read"
  /\ \/ request[u].to = request[u].seen /\ request[u].to # "resolved"
     \/ request[u].to = "resolved" /\ request[u].seen = "resolved" /\ request[u].seenAt
  /\ Answer(u)
  /\ UNCHANGED <<deleted, result, last, check, incident, evidence>>

\* Reopening runs into the unique index when another incident is open.
PatchStatus(u) ==
  LET i == request[u].target
      clash == request[u].to = "open" /\ OpenIncidents \ {i} # {}
  IN /\ request[u].pc = "read"
     /\ request[u].to \in {"open", "false_positive"} \ {request[u].seen}
     /\ ~IncidentLocked(i)
     /\ request[u].to = "open" => \A j \in Incidents : incident[j].status # "opening"
     /\ incident' = IF clash THEN incident
                    ELSE [incident EXCEPT ![i].status = request[u].to,
                                          ![i].closer = "user"]
     /\ Answer(u)
     /\ UNCHANGED <<deleted, result, last, check, evidence>>

\* Faulty: the API writes the status itself and sends no evidence task.
FaultyPatchResolve(u) ==
  /\ request[u].pc = "read"
  /\ request[u].to = "resolved"
  /\ ~IncidentLocked(request[u].target)
  /\ incident' = [incident EXCEPT ![request[u].target].status = "resolved",
                                  ![request[u].target].closer = "user"]
  /\ Answer(u)
  /\ UNCHANGED <<deleted, result, last, check, evidence>>

PatchResolve(u) ==
  LET i == request[u].target
  IN /\ request[u].pc = "read"
     /\ request[u].to = "resolved"
     /\ ~(request[u].seen = "resolved" /\ request[u].seenAt)
     /\ ~IncidentLocked(i)
     /\ incident' = [incident EXCEPT ![i].status = "resolved", ![i].resolvedAt = TRUE,
                                     ![i].closer = "user"]
     /\ \E outcome \in {"sent", "lost"} : evidence' = evidence \cup {<<i, "user", outcome>>}
     /\ Answer(u)
     /\ UNCHANGED <<deleted, result, last, check>>

----------------------------------------------------------------------------
CheckStep(w) ==
  \/ \E r \in Regions, up, blocked \in BOOLEAN : InsertResult(w, r, up, blocked)
  \/ EvaluateFailure(w)
  \/ EvaluateSuccess(w)
  \/ ApplyNothing(w)
  \/ ApplyOpen(w)
  \/ ApplyResolve(w)
  \/ CommitCheck(w)

RequestStep(u) ==
  \/ \E i \in Incidents, to \in {"open", "resolved", "false_positive"} : ReadIncident(u, i, to)
  \/ PatchNothing(u)
  \/ PatchStatus(u)
  \/ PatchResolve(u)

Next ==
  \/ \E w \in Workers :
       \/ StartCheck(w)
       \/ CheckStep(w)
       \/ AbortCheck(w)
       \/ CancelDeadlocked(w)
  \/ \E u \in Users : RequestStep(u)
  \/ \E s \in Slots : AgeOut(s)
  \/ DeleteDependency

\* A running check goes on, and PostgreSQL breaks deadlocks.  Deliveries,
\* failures, time and users owe nothing.
Fairness == \A w \in Workers : WF_vars(CheckStep(w)) /\ WF_vars(CancelDeadlocked(w))

Spec == Init /\ [][Next]_vars /\ Fairness

----------------------------------------------------------------------------
(* What a reader of the tables finds *)

\* Results of transactions that committed.
Recorded == {s \in Slots : result[s].state \in {"committed", "old"}}

Outcomes(S) == {[check |-> s, region |-> result[s].region, up |-> result[s].up] : s \in S}

\* An incident as the tables show it: not while the check that opens it runs.
Shown(i) ==
  IF incident[i].status \in {"none", "opening"} THEN [status |-> "none", cause |-> {}, cure |-> {}]
  ELSE [status |-> IF incident[i].status = "resolved" /\ incident[i].closer = "check"
                   THEN "recovered" ELSE incident[i].status,
        cause |-> Outcomes(incident[i].cause),
        cure |-> Outcomes(incident[i].cure)]

ShownIncidents == [i \in Incidents |-> Shown(i)]

Tasks == {e[1] : e \in evidence}

Log == INSTANCE IncidentLog WITH Checks <- Slots, recorded <- Outcomes(Recorded),
                                 shown <- ShownIncidents, tasks <- Tasks

----------------------------------------------------------------------------
(* What the monitoring core promises *)

\* FIX 3 (checks/service.py execute_check): the lock makes the quorum
\* evaluation atomic.  Two evaluated failures of different regions that are
\* both in the window never both miss the quorum, whatever the interleaving.
QuorumNotMissed ==
  ~deleted =>
    \A s, t \in Slots :
      (/\ result[s].state = "committed" /\ ~result[s].up /\ ~result[s].blocked
       /\ result[t].state = "committed" /\ ~result[t].up /\ ~result[t].blocked
       /\ result[s].region # result[t].region)
      => result[s].quorum \/ result[t].quorum

\* check_and_create_incident against update_incident: checks that open an
\* incident and users that reopen an old one never leave two open at once.
OneOpenIncident == \A i, j \in OpenIncidents : i = j

\* The verdicts of execute_check: an incident was opened because of committed
\* failures from two regions and resolved by checks because of committed
\* successes from two regions, never because of a check that was rolled back.
VerdictsRestOnCommittedChecks ==
  \A i \in Incidents :
    /\ incident[i].status \notin {"none", "opening"} =>
         /\ IsQuorum(incident[i].cause)
         /\ \A s \in incident[i].cause :
              ~result[s].up /\ result[s].state \in {"committed", "old"}
    /\ incident[i].closer = "check" =>
         /\ IsQuorum(incident[i].cure)
         /\ \A s \in incident[i].cure :
              result[s].up /\ result[s].state \in {"committed", "old"}

\* resolve_incident: whoever resolves an incident, evidence generation has been
\* handed to Celery (or the broker refused it) before anybody can see it
\* resolved.
EvidenceFollowsResolution ==
  \A i \in Incidents : incident[i].status = "resolved" => \E e \in evidence : e[1] = i

\* resolve_incident: "prevents duplicate attribution and evidence tasks when
\* recovery checks arrive concurrently".  No recovery check resolves an
\* incident that another recovery check has resolved.
RecoveredOnce ==
  [][\A i \in Incidents :
       incident'[i].cure # incident[i].cure =>
         ~(incident[i].status = "resolved" /\ incident[i].closer = "check")]_vars

\* The locks, the savepoint and the single transaction of execute_check: whatever
\* checks and users interleave, the tables change as if each check recorded its
\* result and opened or resolved the incident in one step (IncidentLog).
VerdictsAreAtomic == [][Log!Next]_(Log!vars)

\* Every check that was started commits or rolls back: lock waits in
\* execute_check end, by the other's commit or by the deadlock detector.
ChecksEnd == \A w \in Workers : check[w].pc # "idle" ~> check[w].pc = "idle"

\* The comment on the lock in execute_check: "concurrent checks for the same
\* dependency serialize here".  No two checks wait for each other.
ChecksSerialize ==
  \A v, w \in Workers : v # w => ~(WaitsForUpdate(v) /\ WaitsForUpdate(w))
=============================================================================
