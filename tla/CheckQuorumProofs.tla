------------------------- MODULE CheckQuorumProofs -------------------------
(***************************************************************************)
(* Theorems about CheckQuorum for any numbers of workers, users, regions,  *)
(* check results and incidents.                                            *)
(***************************************************************************)
EXTENDS CheckQuorum, FiniteSetTheorems, TLAPS

----------------------------------------------------------------------------
(* The inductive invariant *)

\* A check that has inserted its result owns the row until its transaction
\* ends; rows are inserted in order.
SlotOK(w) ==
  IF HoldsKeyShare(w)
  THEN /\ check[w].slot \in Slots
       /\ check[w].slot <= last
       /\ result[check[w].slot].state = "open"
       /\ check[w].pc = "blocked" <=> result[check[w].slot].blocked
  ELSE check[w].slot = 0

SlotsOK ==
  /\ \A w \in Workers : SlotOK(w)
  /\ \A v, w \in Workers :
       HoldsKeyShare(v) /\ HoldsKeyShare(w) /\ check[v].slot = check[w].slot => v = w
  /\ \A s \in Slots : s > last => result[s].state = "none"

\* FOR UPDATE excludes every other holder of a lock on the dependency row.
LocksOK == \A v, w \in Workers : HoldsForUpdate(w) /\ HoldsKeyShare(v) => v = w

\* Before the evaluation there is no plan.
PlanOK(w) ==
  /\ ~HoldsForUpdate(w) => check[w].plan = "nothing" /\ check[w].target = NoIncident
  /\ check[w].pc = "evaluated" /\ check[w].plan = "open" => check[w].target = NoIncident
  /\ check[w].plan = "nothing" => check[w].target = NoIncident
  /\ check[w].plan = "resolve" => check[w].target \in Incidents

\* A request works on an incident it has loaded.
RequestsOK == \A u \in Users : request[u].pc = "read" => request[u].target \in Incidents

CoreInv ==
  /\ TypeOK
  /\ RequestsOK
  /\ SlotsOK
  /\ LocksOK
  /\ \A w \in Workers : PlanOK(w)

\* A failure that has been evaluated: by a transaction that is still open, or
\* committed.
Evaluated(s) ==
  /\ result[s].state = "committed" \/ \E w \in Workers : HoldsForUpdate(w) /\ check[w].slot = s
  /\ ~result[s].up
  /\ ~result[s].blocked

QuorumInv ==
  ~deleted =>
    \A s, t \in Slots :
      Evaluated(s) /\ Evaluated(t) /\ result[s].region # result[t].region
        => result[s].quorum \/ result[t].quorum

\* Who is opening the incident i.
Opening(w, i) ==
  check[w].pc = "applied" /\ check[w].plan = "open" /\ check[w].target = i

Visible(i) == incident[i].status \notin {"none", "opening"}

IncidentInv ==
  /\ \A i \in Incidents : incident[i].status = "opening" <=> \E w \in Workers : Opening(w, i)
  /\ \A i, j \in Incidents :
       incident[i].status \in {"opening", "open"} /\ incident[j].status \in {"opening", "open"}
         => i = j
  /\ \A w \in Workers : check[w].plan = "resolve" => Visible(check[w].target)
  /\ \A u \in Users : request[u].pc = "read" => Visible(request[u].target)

\* In the table rows, S are results of two regions, all up or all failing, and
\* committed except the result s.
RestsOn(rows, S, s, up) ==
  /\ Cardinality({rows[t].region : t \in S}) >= QUORUM_MIN_REGIONS
  /\ \A t \in S : /\ rows[t].up = up
                  /\ t = s \/ rows[t].state \in {"committed", "old"}

\* The verdict that a check has decided.
PlansRest ==
  \A v \in Workers :
    /\ check[v].plan = "open" => RestsOn(result, check[v].basis, check[v].slot, FALSE)
    /\ check[v].plan = "resolve" => RestsOn(result, check[v].basis, check[v].slot, TRUE)

\* The verdicts that checks left in the tables, or are writing there.
IncidentsRest ==
  \A i \in Incidents :
    /\ Visible(i) => RestsOn(result, incident[i].cause, 0, FALSE)
    /\ \A v \in Workers : Opening(v, i) => incident[i].cause = check[v].basis
    /\ incident[i].closer = "check" => RestsOn(result, incident[i].cure, 0, TRUE)

VerdictInv == PlansRest /\ IncidentsRest

EvidenceInv ==
  /\ EvidenceFollowsResolution
  /\ \A w \in Workers : check[w].pc = "applied" /\ check[w].plan = "resolve" =>
       \E e \in evidence : e[1] = check[w].target

\* An incident that a check is about to resolve has not been resolved by
\* another one.
RecoveryInv ==
  \A w \in Workers : check[w].plan = "resolve" =>
    ~(incident[check[w].target].status = "resolved"
        /\ incident[check[w].target].closer = "check")

----------------------------------------------------------------------------
(* Types, rows and locks *)

\* A step of one worker leaves the others' transactions alone.
LEMMA OthersKeep ==
  ASSUME TypeOK, NEW w \in Workers, NEW tx, check' = [check EXCEPT ![w] = tx]
  PROVE  check'[w] = tx /\ \A v \in Workers \ {w} : check'[v] = check[v]
BY DEF TypeOK

\* Initially nothing runs.
LEMMA CoreInit == Init => CoreInv
<1> SUFFICES ASSUME Init PROVE CoreInv
  OBVIOUS
<1>1. NoResult \in ResultRow
  BY ConstantsAssumption DEF NoResult, ResultRow, HomeRegion
<1>2. IdleTx \in CheckTx /\ NoRow \in IncidentRow /\ NoRequest \in RequestTx
  BY ConstantsAssumption
     DEF IdleTx, CheckTx, NoRow, IncidentRow, NoRequest, RequestTx, NoIncident
<1>3. TypeOK
  <2>1. last \in 0..MaxChecks
    BY ConstantsAssumption DEF Init
  <2>2. evidence \subseteq Incidents \X {"check", "user"} \X {"sent", "lost"}
    BY DEF Init
  <2>3. check \in [Workers -> CheckTx] /\ request \in [Users -> RequestTx]
    BY <1>2 DEF Init
  <2>4. result \in [Slots -> ResultRow] /\ incident \in [Incidents -> IncidentRow]
    BY <1>1, <1>2 DEF Init
  <2>5. QED
    BY <2>1, <2>2, <2>3, <2>4 DEF Init, TypeOK
<1>4. SlotsOK /\ LocksOK /\ \A w \in Workers : PlanOK(w)
  BY ConstantsAssumption DEF Init, IdleTx, NoResult, NoIncident, SlotsOK, SlotOK, LocksOK,
     PlanOK, HoldsKeyShare, HoldsForUpdate, Slots
<1>5. QED
  BY <1>3, <1>4 DEF CoreInv, Init, RequestsOK, NoRequest

\* The results a check counts are result rows.
LEMMA CountedAreSlots ==
  ASSUME CoreInv, NEW w \in Workers, HoldsKeyShare(w)
  PROVE  Failing(w) \subseteq Slots /\ Succeeding(w) \subseteq Slots
BY DEF CoreInv, SlotsOK, SlotOK, Failing, Succeeding, Recent, Newest

\* A step that changes only the transaction of w and keeps its slot and its
\* locks.
LEMMA SameLocks ==
  ASSUME CoreInv, NEW w \in Workers, NEW tx, check' = [check EXCEPT ![w] = tx],
         last' = last,
         tx.slot = check[w].slot,
         HoldsKeyShare(w) <=> tx.pc \in {"blocked", "inserted", "evaluated", "applied"},
         HoldsKeyShare(w) => (check[w].pc = "blocked" <=> tx.pc = "blocked"),
         \A s \in Slots : result'[s].state = result[s].state
                          /\ result'[s].blocked = result[s].blocked
  PROVE  SlotsOK'
<1> USE DEF CoreInv
<1>1. check'[w] = tx /\ \A v \in Workers \ {w} : check'[v] = check[v]
  BY OthersKeep
<1>2. \A v \in Workers : (HoldsKeyShare(v))' <=> HoldsKeyShare(v)
  BY <1>1 DEF HoldsKeyShare
<1>3. \A v \in Workers : check'[v].slot = check[v].slot
  BY <1>1
<1>4. \A v \in Workers : SlotOK(v)'
  BY <1>1, <1>2, <1>3 DEF SlotsOK, SlotOK
<1>5. QED
  BY <1>2, <1>3, <1>4 DEF SlotsOK

\* The end of a transaction releases its row and its locks.
LEMMA Released ==
  ASSUME CoreInv, NEW w \in Workers, check' = [check EXCEPT ![w] = IdleTx], last' = last,
         \A s \in Slots \ {check[w].slot} : result'[s] = result[s],
         HoldsKeyShare(w) => result'[check[w].slot].state # "none"
  PROVE  SlotsOK' /\ LocksOK' /\ \A v \in Workers : PlanOK(v)'
<1> USE DEF CoreInv
<1>1. check'[w] = IdleTx /\ \A v \in Workers \ {w} : check'[v] = check[v]
  BY OthersKeep
<1>2. ~(HoldsKeyShare(w))' /\ \A v \in Workers \ {w} : (HoldsKeyShare(v))' <=> HoldsKeyShare(v)
  BY <1>1 DEF HoldsKeyShare, IdleTx
<1>3. \A v \in Workers \ {w} : HoldsKeyShare(v) => check[v].slot # check[w].slot
  <2>1. ~HoldsKeyShare(w) => check[w].slot = 0
    BY DEF SlotsOK, SlotOK
  <2>2. QED
    BY <2>1 DEF SlotsOK, SlotOK, Slots
<1>4. \A v \in Workers : SlotOK(v)'
  BY <1>1, <1>2, <1>3 DEF SlotsOK, SlotOK, IdleTx
<1>5. \A s \in Slots : s > last' => result'[s].state = "none"
  <2>1. HoldsKeyShare(w) => ~(check[w].slot > last)
    BY DEF SlotsOK, SlotOK, TypeOK, Slots
  <2>2. ~HoldsKeyShare(w) => check[w].slot \notin Slots
    BY DEF SlotsOK, SlotOK, Slots
  <2>3. QED
    BY <2>1, <2>2 DEF SlotsOK
<1>6. SlotsOK'
  BY <1>1, <1>2, <1>4, <1>5 DEF SlotsOK
<1>7. LocksOK'
  BY <1>1, <1>2 DEF LocksOK, HoldsForUpdate, HoldsKeyShare, IdleTx
<1>8. \A v \in Workers : PlanOK(v)'
  BY <1>1 DEF PlanOK, HoldsForUpdate, IdleTx
<1>9. QED
  BY <1>6, <1>7, <1>8

\* Delivery and the first insert of execute_check.
LEMMA CoreBegin ==
  ASSUME CoreInv, NEW w \in Workers,
         StartCheck(w) \/ \E r \in Regions, up, blocked \in BOOLEAN : InsertResult(w, r, up, blocked)
  PROVE  CoreInv'
<1> USE DEF CoreInv
<1>1. CASE StartCheck(w)
  <2> DEFINE tx == [check[w] EXCEPT !.pc = "probing"]
  <2>1. check' = [check EXCEPT ![w] = tx] /\ check[w].pc = "idle"
    BY <1>1 DEF StartCheck
  <2>2. tx \in CheckTx /\ tx.pc = "probing" /\ tx.slot = check[w].slot
        /\ tx.plan = check[w].plan /\ tx.target = check[w].target
    BY DEF TypeOK, CheckTx
  <2> HIDE DEF tx
  <2>3. check'[w] = tx /\ \A v \in Workers \ {w} : check'[v] = check[v]
    BY <2>1, OthersKeep
  <2>4. TypeOK'
    BY <1>1, <2>1, <2>2 DEF StartCheck, TypeOK
  <2>5. SlotsOK'
    <3>1. result' = result /\ last' = last
      BY <1>1 DEF StartCheck
    <3>2. QED
      BY <2>1, <2>2, <3>1, SameLocks DEF HoldsKeyShare
  <2>6. LocksOK' /\ \A v \in Workers : PlanOK(v)'
    BY <2>1, <2>2, <2>3 DEF LocksOK, PlanOK, HoldsKeyShare, HoldsForUpdate
  <2>7. QED
    BY <1>1, <2>4, <2>5, <2>6 DEF StartCheck, RequestsOK
<1>2. ASSUME NEW r \in Regions, NEW up \in BOOLEAN, NEW blocked \in BOOLEAN,
             InsertResult(w, r, up, blocked)
      PROVE  CoreInv'
  <2> DEFINE pc == IF blocked THEN "blocked" ELSE "inserted"
             tx == [check[w] EXCEPT !.pc = pc, !.slot = last + 1]
             row == [state |-> "open", region |-> r, up |-> up,
                     blocked |-> blocked, quorum |-> FALSE]
  <2>1. /\ check' = [check EXCEPT ![w] = tx] /\ check[w].pc = "probing"
        /\ result' = [result EXCEPT ![last + 1] = row]
        /\ last' = last + 1 /\ last < MaxChecks
        /\ \A v \in Workers \ {w} : ~HoldsForUpdate(v)
        /\ UNCHANGED <<deleted, incident, request, evidence>>
    BY <1>2 DEF InsertResult
  <2>2. last \in Nat /\ last + 1 \in Slots
    BY <2>1, ConstantsAssumption DEF TypeOK, Slots
  <2>0. pc \in {"blocked", "inserted"} /\ (pc = "blocked" <=> blocked)
    OBVIOUS
  <2> HIDE DEF pc
  <2>3. /\ tx \in CheckTx /\ tx.slot = last + 1 /\ tx.pc = pc
        /\ tx.plan = check[w].plan /\ tx.target = check[w].target
    <3>1. check[w] \in CheckTx /\ last + 1 \in 0..MaxChecks
      BY <2>2, ConstantsAssumption DEF TypeOK, Slots
    <3>2. QED
      BY <3>1, <2>0 DEF CheckTx
  <2>4. row \in ResultRow /\ row.state = "open" /\ row.blocked = blocked
    BY DEF ResultRow
  <2> HIDE DEF tx, row
  <2>5. check'[w] = tx /\ \A v \in Workers \ {w} : check'[v] = check[v]
    BY <2>1, OthersKeep
  <2>6. result'[last + 1] = row /\ \A s \in Slots \ {last + 1} : result'[s] = result[s]
    BY <2>1, <2>2 DEF TypeOK
  <2>7. TypeOK'
    BY <2>1, <2>2, <2>3, <2>4, ConstantsAssumption DEF TypeOK, Slots
  <2>8. \A v \in Workers \ {w} : (HoldsKeyShare(v))' <=> HoldsKeyShare(v)
    BY <2>5 DEF HoldsKeyShare
  <2>9. \A v \in Workers \ {w} : HoldsKeyShare(v) =>
           check[v].slot \in Slots /\ check[v].slot # last + 1 /\ check[v].slot <= last + 1
    BY <2>2 DEF SlotsOK, SlotOK, Slots
  <2>10. \A v \in Workers : SlotOK(v)'
    BY <2>0, <2>1, <2>2, <2>3, <2>4, <2>5, <2>6, <2>8, <2>9 DEF SlotsOK, SlotOK, HoldsKeyShare
  <2>11. \A s \in Slots : s > last' => result'[s].state = "none"
    BY <2>1, <2>2, <2>6 DEF SlotsOK, Slots
  <2>12. SlotsOK'
    BY <2>3, <2>5, <2>8, <2>9, <2>10, <2>11 DEF SlotsOK
  <2>13. LocksOK' /\ \A v \in Workers : PlanOK(v)'
    BY <2>0, <2>1, <2>3, <2>5 DEF LocksOK, PlanOK, HoldsKeyShare, HoldsForUpdate
  <2>14. QED
    BY <2>1, <2>7, <2>12, <2>13 DEF RequestsOK
<1>3. QED
  BY <1>1, <1>2

\* What the evaluation of the check of w leaves in its transaction.
Decided(w, tx) ==
  /\ tx \in CheckTx
  /\ tx.pc = "evaluated"
  /\ tx.slot = check[w].slot
  /\ tx.plan # "resolve" => tx.target = NoIncident
  /\ tx.plan = "open" =>
       /\ ~result[tx.slot].up
       /\ tx.basis = Failing(w)
       /\ IsQuorum(Failing(w))
  /\ tx.plan = "resolve" =>
       /\ result[tx.slot].up
       /\ tx.basis = Succeeding(w)
       /\ IsQuorum(Succeeding(w))
       /\ tx.target \in OpenIncidents

\* Both quorum evaluations of execute_check decide in this way.
LEMMA EvaluationDecides ==
  ASSUME CoreInv, NEW w \in Workers, EvaluateFailure(w) \/ EvaluateSuccess(w)
  PROVE  \E tx : check' = [check EXCEPT ![w] = tx] /\ Decided(w, tx)
<1> USE DEF CoreInv
<1>1. /\ HoldsKeyShare(w) /\ check[w] \in CheckTx
      /\ check[w].plan = "nothing" /\ check[w].target = NoIncident
  BY DEF EvaluateFailure, EvaluateSuccess, HoldsKeyShare, HoldsForUpdate, TypeOK, PlanOK
<1>2. Failing(w) \in SUBSET Slots /\ Succeeding(w) \in SUBSET Slots
  BY <1>1, CountedAreSlots
<1>3. CASE EvaluateFailure(w)
  <2> DEFINE plan == IF IsQuorum(Failing(w)) /\ OpenIncidents = {} THEN "open" ELSE "nothing"
             tx == [check[w] EXCEPT !.pc = "evaluated", !.plan = plan, !.basis = Failing(w)]
  <2>1. plan \in {"open", "nothing"} /\ (plan = "open" => IsQuorum(Failing(w)))
    OBVIOUS
  <2>2. check' = [check EXCEPT ![w] = tx] /\ ~result[check[w].slot].up
    BY <1>3 DEF EvaluateFailure
  <2> HIDE DEF plan
  <2>3. /\ tx \in CheckTx /\ tx.pc = "evaluated" /\ tx.slot = check[w].slot
        /\ tx.plan = plan /\ tx.target = check[w].target /\ tx.basis = Failing(w)
    BY <1>1, <1>2, <2>1 DEF CheckTx
  <2> HIDE DEF tx
  <2>4. Decided(w, tx)
    BY <1>1, <2>1, <2>2, <2>3 DEF Decided
  <2>5. QED
    BY <2>2, <2>4
<1>4. CASE EvaluateSuccess(w)
  <2>1. CASE check' = [check EXCEPT ![w] = [@ EXCEPT !.pc = "evaluated"]]
    <3> DEFINE tx == [check[w] EXCEPT !.pc = "evaluated"]
    <3>1. /\ tx \in CheckTx /\ tx.pc = "evaluated" /\ tx.slot = check[w].slot
          /\ tx.plan = check[w].plan /\ tx.target = check[w].target
      BY <1>1 DEF CheckTx
    <3>2. check' = [check EXCEPT ![w] = tx]
      BY <2>1
    <3> HIDE DEF tx
    <3>3. Decided(w, tx)
      BY <1>1, <3>1 DEF Decided
    <3>4. QED
      BY <3>2, <3>3
  <2>2. ASSUME NEW i \in OpenIncidents, IsQuorum(Succeeding(w)),
               check' = [check EXCEPT ![w] =
                           [@ EXCEPT !.pc = "evaluated", !.plan = "resolve",
                                     !.target = i, !.basis = Succeeding(w)]]
        PROVE  \E tx : check' = [check EXCEPT ![w] = tx] /\ Decided(w, tx)
    <3> DEFINE tx == [check[w] EXCEPT !.pc = "evaluated", !.plan = "resolve",
                                      !.target = i, !.basis = Succeeding(w)]
    <3>1. i \in 0..MaxIncidents
      BY ConstantsAssumption DEF OpenIncidents, Incidents
    <3>2. /\ tx \in CheckTx /\ tx.pc = "evaluated" /\ tx.slot = check[w].slot
          /\ tx.plan = "resolve" /\ tx.target = i /\ tx.basis = Succeeding(w)
      BY <1>1, <1>2, <3>1 DEF CheckTx
    <3>3. check' = [check EXCEPT ![w] = tx] /\ result[check[w].slot].up
      BY <1>4, <2>2 DEF EvaluateSuccess
    <3> HIDE DEF tx
    <3>4. Decided(w, tx)
      BY <2>2, <3>2, <3>3 DEF Decided
    <3>5. QED
      BY <3>3, <3>4
  <2>3. QED
    BY <1>4, <2>1, <2>2 DEF EvaluateSuccess
<1>5. QED
  BY <1>3, <1>4

\* Evaluation takes FOR UPDATE when nobody else holds a lock.
LEMMA CoreEvaluate ==
  ASSUME CoreInv, NEW w \in Workers, EvaluateFailure(w) \/ EvaluateSuccess(w)
  PROVE  CoreInv'
<1> USE DEF CoreInv
<1>1. PICK tx : check' = [check EXCEPT ![w] = tx] /\ Decided(w, tx)
  BY EvaluationDecides
<1>2. check'[w] = tx /\ \A v \in Workers \ {w} : check'[v] = check[v]
  BY <1>1, OthersKeep
<1>3. check[w].pc = "inserted" /\ LockDependency(w) /\ last' = last
      /\ UNCHANGED <<deleted, incident, request, evidence>>
  BY DEF EvaluateFailure, EvaluateSuccess
<1>4. check[w].slot \in Slots
  BY <1>3 DEF SlotsOK, SlotOK, HoldsKeyShare
<1>5. /\ result' \in [Slots -> ResultRow]
      /\ \A s \in Slots : result'[s].state = result[s].state
                          /\ result'[s].blocked = result[s].blocked
  <2>1. CASE EvaluateSuccess(w)
    BY <2>1 DEF EvaluateSuccess, TypeOK
  <2>2. CASE EvaluateFailure(w)
    <3> DEFINE q == IsQuorum(Failing(w))
    <3>1. q \in BOOLEAN
      BY DEF IsQuorum
    <3>2. result' = [result EXCEPT ![check[w].slot].quorum = q]
      BY <2>2 DEF EvaluateFailure
    <3> HIDE DEF q
    <3>3. result \in [Slots -> ResultRow]
      BY DEF TypeOK
    <3>4. QED
      BY <1>4, <3>1, <3>2, <3>3 DEF ResultRow
  <2>3. QED
    BY <2>1, <2>2
<1>6. TypeOK'
  <2>1. check' \in [Workers -> CheckTx]
    BY <1>1 DEF TypeOK, Decided
  <2>2. QED
    BY <1>3, <1>5, <2>1 DEF TypeOK
<1>7. SlotsOK'
  BY <1>1, <1>3, <1>5, SameLocks DEF Decided, HoldsKeyShare
<1>8. LocksOK'
  BY <1>2, <1>3 DEF LocksOK, LockDependency, HoldsKeyShare, HoldsForUpdate
<1>9. \A v \in Workers : PlanOK(v)'
  BY <1>1, <1>2 DEF PlanOK, Decided, HoldsForUpdate, OpenIncidents
<1>10. QED
  BY <1>3, <1>6, <1>7, <1>8, <1>9 DEF RequestsOK

\* The row that check_and_create_incident inserts for the check of w.
NewIncident(w) == [NoRow EXCEPT !.status = "opening", !.cause = check[w].basis]

\* What the write of the check of w leaves in its transaction.
Written(w, tx) ==
  /\ tx \in CheckTx
  /\ tx.pc = "applied"
  /\ tx.slot = check[w].slot
  /\ tx.basis = check[w].basis
  /\ tx.plan = "nothing" => tx.target = NoIncident
  /\ tx.plan = "open" => /\ check[w].plan = "open"
                         /\ OpenIncidents = {}
                         /\ tx.target \in Incidents
                         /\ incident[tx.target].status = "none"
  /\ tx.plan = "resolve" => check[w].plan = "resolve" /\ tx.target = check[w].target

\* What it writes besides: the new incident, or the evidence task.
Effects(w, tx) ==
  /\ incident' = IF tx.plan = "open"
                 THEN [incident EXCEPT ![tx.target] = NewIncident(w)]
                 ELSE incident
  /\ evidence \subseteq evidence'
  /\ tx.plan = "resolve" => \E e \in evidence' : e[1] = tx.target
  /\ UNCHANGED <<deleted, result, last, request>>

\* ApplyNothing, check_and_create_incident and resolve_incident write in this way.
LEMMA ApplyWrites ==
  ASSUME CoreInv, NEW w \in Workers, ApplyNothing(w) \/ ApplyOpen(w) \/ ApplyResolve(w)
  PROVE  \E tx : check' = [check EXCEPT ![w] = tx] /\ Written(w, tx) /\ Effects(w, tx)
<1> USE DEF CoreInv
<1>1. check[w] \in CheckTx /\ PlanOK(w) /\ check[w].pc = "evaluated"
  BY DEF ApplyNothing, ApplyOpen, ApplyResolve, TypeOK
<1>2. CASE ApplyNothing(w)
  <2> DEFINE tx == [check[w] EXCEPT !.pc = "applied"]
  <2>1. /\ tx \in CheckTx /\ tx.pc = "applied" /\ tx.slot = check[w].slot
        /\ tx.plan = check[w].plan /\ tx.target = check[w].target /\ tx.basis = check[w].basis
    BY <1>1 DEF CheckTx
  <2>2. check' = [check EXCEPT ![w] = tx] /\ check[w].plan = "nothing"
        /\ UNCHANGED <<deleted, result, last, incident, request, evidence>>
    BY <1>2 DEF ApplyNothing
  <2> HIDE DEF tx
  <2>3. Written(w, tx) /\ Effects(w, tx)
    BY <1>1, <2>1, <2>2 DEF Written, Effects, PlanOK
  <2>4. QED
    BY <2>2, <2>3
<1>3. CASE ApplyResolve(w)
  <2> DEFINE tx == [check[w] EXCEPT !.pc = "applied"]
  <2>1. /\ tx \in CheckTx /\ tx.pc = "applied" /\ tx.slot = check[w].slot
        /\ tx.plan = check[w].plan /\ tx.target = check[w].target /\ tx.basis = check[w].basis
    BY <1>1 DEF CheckTx
  <2>2. check' = [check EXCEPT ![w] = tx] /\ check[w].plan = "resolve"
        /\ UNCHANGED <<deleted, result, last, incident, request>>
    BY <1>3 DEF ApplyResolve
  <2>3. PICK outcome : evidence' = evidence \cup {<<check[w].target, "check", outcome>>}
    BY <1>3 DEF ApplyResolve
  <2>4. <<check[w].target, "check", outcome>>[1] = check[w].target
    OBVIOUS
  <2> HIDE DEF tx
  <2>5. Written(w, tx) /\ Effects(w, tx)
    BY <2>1, <2>2, <2>3, <2>4 DEF Written, Effects
  <2>6. QED
    BY <2>2, <2>5
<1>4. CASE ApplyOpen(w)
  <2>1. CASE check' = [check EXCEPT ![w] = [@ EXCEPT !.pc = "applied", !.plan = "nothing"]]
             /\ UNCHANGED incident
    <3> DEFINE tx == [check[w] EXCEPT !.pc = "applied", !.plan = "nothing"]
    <3>1. /\ tx \in CheckTx /\ tx.pc = "applied" /\ tx.slot = check[w].slot
          /\ tx.plan = "nothing" /\ tx.target = check[w].target /\ tx.basis = check[w].basis
      BY <1>1 DEF CheckTx
    <3>2. check' = [check EXCEPT ![w] = tx] /\ check[w].plan = "open"
          /\ UNCHANGED <<deleted, result, last, request, evidence>>
      BY <1>4, <2>1 DEF ApplyOpen
    <3> HIDE DEF tx
    <3>3. Written(w, tx) /\ Effects(w, tx)
      BY <1>1, <2>1, <3>1, <3>2 DEF Written, Effects, PlanOK
    <3>4. QED
      BY <3>2, <3>3
  <2>2. ASSUME NEW i \in Incidents, OpenIncidents = {}, incident[i].status = "none",
               incident' = [incident EXCEPT ![i] = NewIncident(w)],
               check' = [check EXCEPT ![w] = [@ EXCEPT !.pc = "applied", !.target = i]]
        PROVE  \E tx : check' = [check EXCEPT ![w] = tx] /\ Written(w, tx) /\ Effects(w, tx)
    <3> DEFINE tx == [check[w] EXCEPT !.pc = "applied", !.target = i]
    <3>1. i \in 0..MaxIncidents
      BY ConstantsAssumption DEF Incidents
    <3>2. /\ tx \in CheckTx /\ tx.pc = "applied" /\ tx.slot = check[w].slot
          /\ tx.plan = check[w].plan /\ tx.target = i /\ tx.basis = check[w].basis
      BY <1>1, <3>1 DEF CheckTx
    <3>3. check' = [check EXCEPT ![w] = tx] /\ check[w].plan = "open"
          /\ UNCHANGED <<deleted, result, last, request, evidence>>
      BY <1>4, <2>2 DEF ApplyOpen
    <3> HIDE DEF tx
    <3>4. Written(w, tx) /\ Effects(w, tx)
      BY <2>2, <3>2, <3>3 DEF Written, Effects
    <3>5. QED
      BY <3>3, <3>4
  <2>3. QED
    BY <1>4, <2>1, <2>2 DEF ApplyOpen, NewIncident
<1>5. QED
  BY <1>2, <1>3, <1>4

\* A new incident row is a row.
LEMMA NewIncidentType ==
  ASSUME TypeOK, NEW w \in Workers
  PROVE  NewIncident(w) \in IncidentRow
BY DEF TypeOK, CheckTx, NewIncident, NoRow, IncidentRow

\* Writing keeps the locks.
LEMMA CoreApply ==
  ASSUME CoreInv, NEW w \in Workers, ApplyNothing(w) \/ ApplyOpen(w) \/ ApplyResolve(w)
  PROVE  CoreInv'
<1> USE DEF CoreInv
<1>1. PICK tx : check' = [check EXCEPT ![w] = tx] /\ Written(w, tx) /\ Effects(w, tx)
  BY ApplyWrites
<1>2. check'[w] = tx /\ \A v \in Workers \ {w} : check'[v] = check[v]
  BY <1>1, OthersKeep
<1>3. check[w].pc = "evaluated" /\ UNCHANGED <<deleted, result, last, request>>
  BY DEF ApplyNothing, ApplyOpen, ApplyResolve
<1>4. TypeOK'
  <2>1. check' \in [Workers -> CheckTx]
    BY <1>1 DEF TypeOK, Written
  <2>2. incident' \in [Incidents -> IncidentRow]
    BY <1>1, NewIncidentType DEF TypeOK, Effects
  <2>3. evidence' \subseteq Incidents \X {"check", "user"} \X {"sent", "lost"}
    <3>1. CASE ApplyResolve(w)
      <4>1. PICK outcome \in {"sent", "lost"} :
              evidence' = evidence \cup {<<check[w].target, "check", outcome>>}
        BY <3>1 DEF ApplyResolve
      <4>2. check[w].target \in Incidents
        BY <3>1 DEF ApplyResolve, PlanOK
      <4>3. QED
        BY <4>1, <4>2 DEF TypeOK
    <3>2. CASE ~ApplyResolve(w)
      BY <3>2 DEF ApplyNothing, ApplyOpen, TypeOK
    <3>3. QED
      BY <3>1, <3>2
  <2>4. QED
    BY <1>3, <2>1, <2>2, <2>3 DEF TypeOK
<1>5. SlotsOK'
  BY <1>1, <1>3, SameLocks DEF Written, HoldsKeyShare
<1>6. LocksOK'
  BY <1>1, <1>2, <1>3 DEF LocksOK, Written, HoldsKeyShare, HoldsForUpdate
<1>7. \A v \in Workers : PlanOK(v)'
  BY <1>1, <1>2 DEF PlanOK, Written, HoldsForUpdate
<1>8. QED
  BY <1>3, <1>4, <1>5, <1>6, <1>7 DEF RequestsOK

\* The incident rows after a commit.
LEMMA CommittedIncidentType ==
  ASSUME CoreInv, NEW w \in Workers
  PROVE  CommittedIncident(w) \in [Incidents -> IncidentRow]
<1>1. incident \in [Incidents -> IncidentRow] /\ check[w] \in CheckTx
  BY DEF CoreInv, TypeOK
<1>2. CASE check[w].plan = "open"
  <2>1. \A r \in IncidentRow : [r EXCEPT !.status = "open"] \in IncidentRow
    BY DEF IncidentRow
  <2>2. CommittedIncident(w) =
          [i \in Incidents |-> IF i = check[w].target
                               THEN [incident[i] EXCEPT !.status = "open"] ELSE incident[i]]
    BY <1>1, <1>2 DEF CommittedIncident
  <2>3. \A i \in Incidents : incident[i] \in IncidentRow
    BY <1>1
  <2>4. QED
    BY <2>1, <2>2, <2>3
<1>3. CASE check[w].plan = "resolve"
  <2> DEFINE i == check[w].target
             row == [incident[i] EXCEPT !.status = "resolved", !.resolvedAt = TRUE,
                                        !.closer = "check", !.cure = check[w].basis]
  <2>1. check[w].basis \in SUBSET Slots
    BY <1>1 DEF CheckTx
  <2>2. i \in Incidents
    BY <1>3 DEF CoreInv, PlanOK
  <2>3. row \in IncidentRow
    BY <1>1, <2>1, <2>2 DEF IncidentRow
  <2>4. CommittedIncident(w) = [incident EXCEPT ![i] = row]
    BY <1>3 DEF CommittedIncident
  <2>5. QED
    BY <1>1, <2>3, <2>4
<1>4. CASE check[w].plan = "nothing"
  BY <1>1, <1>4 DEF CommittedIncident
<1>5. QED
  BY <1>1, <1>2, <1>3, <1>4 DEF CheckTx

\* Commit, rollback and the deadlock detector end a transaction.
LEMMA CoreEnd ==
  ASSUME CoreInv, NEW w \in Workers,
         CommitCheck(w) \/ AbortCheck(w) \/ CancelDeadlocked(w)
  PROVE  CoreInv'
<1> USE DEF CoreInv
<1>1. /\ check' = [check EXCEPT ![w] = IdleTx] /\ last' = last
      /\ UNCHANGED <<deleted, request, evidence>>
  BY DEF CommitCheck, AbortCheck, CancelDeadlocked, Rollback
<1>2. IdleTx \in CheckTx
  BY ConstantsAssumption DEF IdleTx, CheckTx, NoIncident
<1>3. check' \in [Workers -> CheckTx]
  BY <1>1, <1>2 DEF TypeOK
<1>4. CASE CommitCheck(w)
  <2>1. result' = [result EXCEPT ![check[w].slot].state = "committed"]
        /\ incident' = CommittedIncident(w) /\ HoldsKeyShare(w)
    BY <1>4 DEF CommitCheck, HoldsKeyShare
  <2>2. result \in [Slots -> ResultRow] /\ check[w].slot \in Slots
    BY <2>1 DEF TypeOK, SlotsOK, SlotOK
  <2>3. /\ result' \in [Slots -> ResultRow]
        /\ result'[check[w].slot].state = "committed"
        /\ \A s \in Slots \ {check[w].slot} : result'[s] = result[s]
    BY <2>1, <2>2 DEF ResultRow
  <2>4. TypeOK'
    BY <1>1, <1>3, <2>1, <2>3, CommittedIncidentType DEF TypeOK
  <2>5. QED
    BY <1>1, <2>3, <2>4, Released DEF RequestsOK
<1>5. CASE Rollback(w)
  <2>1. NoResult \in ResultRow /\ NoRow \in IncidentRow
    BY ConstantsAssumption DEF NoResult, ResultRow, HomeRegion, NoRow, IncidentRow
  <2>2. [NoResult EXCEPT !.state = "aborted"] \in ResultRow
        /\ [NoResult EXCEPT !.state = "aborted"].state = "aborted"
    BY <2>1 DEF NoResult, ResultRow
  <2>3. result \in [Slots -> ResultRow] /\ incident \in [Incidents -> IncidentRow]
    BY DEF TypeOK
  <2>4. /\ result' \in [Slots -> ResultRow]
        /\ \A s \in Slots \ {check[w].slot} : result'[s] = result[s]
        /\ check[w].slot \in Slots => result'[check[w].slot].state = "aborted"
    BY <1>5, <2>2, <2>3 DEF Rollback
  <2>5. incident' \in [Incidents -> IncidentRow]
    BY <1>5, <2>1, <2>3 DEF Rollback
  <2>6. TypeOK'
    BY <1>1, <1>3, <2>4, <2>5 DEF TypeOK
  <2>7. HoldsKeyShare(w) => check[w].slot \in Slots
    BY DEF SlotsOK, SlotOK
  <2>8. QED
    BY <1>1, <2>4, <2>6, <2>7, Released DEF RequestsOK
<1>6. QED
  BY <1>4, <1>5 DEF AbortCheck, CancelDeadlocked

\* The steps of users and of time leave the checks and their locks alone.
Environment ==
  \/ \E u \in Users : RequestStep(u)
  \/ \E s \in Slots : AgeOut(s)
  \/ DeleteDependency

\* update_incident keeps the types of its tables.
LEMMA RequestType ==
  ASSUME TypeOK, RequestsOK, NEW u \in Users, RequestStep(u)
  PROVE  TypeOK'
<1> DEFINE Statuses == {"open", "resolved", "false_positive"}
<1>1. /\ incident \in [Incidents -> IncidentRow] /\ request \in [Users -> RequestTx]
      /\ evidence \subseteq Incidents \X {"check", "user"} \X {"sent", "lost"}
  BY DEF TypeOK
<1>2. [NoRequest EXCEPT !.pc = "done"] \in RequestTx
  <2>1. NoRequest \in RequestTx
    BY ConstantsAssumption DEF NoRequest, RequestTx, NoIncident
  <2>2. QED
    BY <2>1 DEF RequestTx
<1>3. request[u].pc = "read" => request[u].target \in Incidents
  BY DEF RequestsOK
<1>4. ASSUME NEW i \in Incidents, NEW to \in Statuses, ReadIncident(u, i, to)
      PROVE  TypeOK'
  <2> DEFINE tx == [pc |-> "read", target |-> i, to |-> to, seen |-> incident[i].status,
                    seenAt |-> incident[i].resolvedAt]
  <2>1. i \in 0..MaxIncidents
    BY ConstantsAssumption DEF Incidents
  <2>2. /\ incident[i].status \in {"none", "open", "resolved", "false_positive"}
        /\ incident[i].resolvedAt \in BOOLEAN
    BY <1>1, <1>4 DEF ReadIncident, IncidentRow
  <2>3. tx \in RequestTx
    BY <2>1, <2>2 DEF RequestTx
  <2>4. request' = [request EXCEPT ![u] = tx]
    BY <1>4 DEF ReadIncident
  <2> HIDE DEF tx
  <2>5. request' \in [Users -> RequestTx]
    BY <1>1, <2>3, <2>4
  <2>6. QED
    BY <1>4, <2>5 DEF ReadIncident, TypeOK
<1>5. CASE PatchNothing(u)
  BY <1>1, <1>2, <1>5 DEF PatchNothing, Answer, TypeOK
<1>6. CASE PatchStatus(u)
  <2>1. request' \in [Users -> RequestTx]
    BY <1>1, <1>2, <1>6 DEF PatchStatus, Answer
  <2>2. incident' \in [Incidents -> IncidentRow]
    <3> DEFINE i == request[u].target
               row == [incident[i] EXCEPT !.status = request[u].to, !.closer = "user"]
    <3>1. request[u].to \in {"open", "false_positive"} /\ i \in Incidents
      BY <1>6, <1>3 DEF PatchStatus
    <3>2. row \in IncidentRow
      <4>1. \A r \in IncidentRow, to \in {"open", "false_positive"} :
              [r EXCEPT !.status = to, !.closer = "user"] \in IncidentRow
        BY DEF IncidentRow
      <4>2. QED
        BY <1>1, <3>1, <4>1
    <3>3. incident' = incident \/ incident' = [incident EXCEPT ![i] = row]
      BY <1>1, <1>6, <3>1 DEF PatchStatus
    <3>4. QED
      BY <1>1, <3>1, <3>2, <3>3
  <2>3. QED
    BY <1>6, <2>1, <2>2 DEF PatchStatus, TypeOK
<1>7. CASE PatchResolve(u)
  <2>1. request' \in [Users -> RequestTx]
    BY <1>1, <1>2, <1>7 DEF PatchResolve, Answer
  <2>2. incident' \in [Incidents -> IncidentRow]
    BY <1>1, <1>7, <1>3 DEF PatchResolve, IncidentRow
  <2>3. PICK outcome \in {"sent", "lost"} :
          evidence' = evidence \cup {<<request[u].target, "user", outcome>>}
    BY <1>7 DEF PatchResolve
  <2>4. evidence' \subseteq Incidents \X {"check", "user"} \X {"sent", "lost"}
    BY <1>1, <1>7, <1>3, <2>3 DEF PatchResolve
  <2>5. QED
    BY <1>7, <2>1, <2>2, <2>4 DEF PatchResolve, TypeOK
<1>8. QED
  BY <1>4, <1>5, <1>6, <1>7 DEF RequestStep

\* Requests, ageing and deletion.
LEMMA CoreEnvironment == ASSUME CoreInv, Environment PROVE CoreInv'
<1> USE DEF CoreInv
<1>1. UNCHANGED <<check, last>>
  BY DEF Environment, RequestStep, ReadIncident, PatchNothing, PatchStatus, PatchResolve,
         AgeOut, DeleteDependency
<1>2. LocksOK' /\ \A v \in Workers : PlanOK(v)'
  BY <1>1 DEF LocksOK, PlanOK, HoldsKeyShare, HoldsForUpdate
<1>3. ASSUME NEW u \in Users, RequestStep(u) PROVE CoreInv'
  <2>1. result' = result
    BY <1>3 DEF RequestStep, ReadIncident, PatchNothing, PatchStatus, PatchResolve
  <2>2. SlotsOK'
    BY <1>1, <2>1 DEF SlotsOK, SlotOK, HoldsKeyShare
  <2>3. RequestsOK'
    <3>1. ASSUME NEW i \in Incidents, NEW to, ReadIncident(u, i, to) PROVE RequestsOK'
      BY <3>1 DEF ReadIncident, RequestsOK, TypeOK
    <3>2. CASE Answer(u)
      <4>1. [NoRequest EXCEPT !.pc = "done"].pc = "done"
        BY DEF NoRequest
      <4>2. QED
        BY <3>2, <4>1 DEF Answer, RequestsOK, TypeOK
    <3>3. QED
      BY <1>3, <3>1, <3>2 DEF RequestStep, PatchNothing, PatchStatus, PatchResolve
  <2>4. QED
    BY <1>2, <1>3, <2>2, <2>3, RequestType
<1>4. ASSUME NEW s \in Slots, AgeOut(s) PROVE CoreInv'
  <2>1. result \in [Slots -> ResultRow]
    BY DEF TypeOK
  <2>2. result' = [result EXCEPT ![s].state = "old"] /\ result[s].state = "committed"
        /\ UNCHANGED <<deleted, incident, request, evidence>>
    BY <1>4 DEF AgeOut
  <2>3. result' \in [Slots -> ResultRow]
    BY <2>1, <2>2 DEF ResultRow
  <2>4. \A t \in Slots : t # s => result'[t] = result[t]
    BY <2>1, <2>2
  <2>5. SlotsOK'
    <3>1. \A t \in Slots : result[t].state \in {"none", "open"} => result'[t] = result[t]
      BY <2>2, <2>4
    <3>2. QED
      BY <1>1, <3>1 DEF SlotsOK, SlotOK, HoldsKeyShare
  <2>6. QED
    BY <1>1, <1>2, <2>2, <2>3, <2>5 DEF TypeOK, RequestsOK
<1>5. CASE DeleteDependency
  <2>1. deleted' = TRUE /\ UNCHANGED <<result, incident, request, evidence>>
    BY <1>5 DEF DeleteDependency
  <2>2. TypeOK'
    BY <1>1, <2>1 DEF TypeOK
  <2>3. QED
    BY <1>1, <1>2, <2>1, <2>2 DEF SlotsOK, SlotOK, HoldsKeyShare, RequestsOK
<1>6. QED
  BY <1>3, <1>4, <1>5 DEF Environment

\* Every step belongs to one of five groups.
LEMMA StepGroups ==
  ASSUME Next
  PROVE  \/ \E w \in Workers :
              \/ StartCheck(w)
                 \/ \E r \in Regions, up, blocked \in BOOLEAN : InsertResult(w, r, up, blocked)
              \/ EvaluateFailure(w) \/ EvaluateSuccess(w)
              \/ ApplyNothing(w) \/ ApplyOpen(w) \/ ApplyResolve(w)
              \/ CommitCheck(w) \/ AbortCheck(w) \/ CancelDeadlocked(w)
         \/ Environment
BY DEF Next, CheckStep, Environment

\* Types, rows and locks survive every step.
LEMMA CoreStep == ASSUME CoreInv, [Next]_vars PROVE CoreInv'
<1>1. CASE Next
  BY <1>1, StepGroups, CoreBegin, CoreEvaluate, CoreApply, CoreEnd, CoreEnvironment
<1>2. CASE UNCHANGED vars
  BY <1>2 DEF vars, CoreInv, TypeOK, RequestsOK, SlotsOK, SlotOK, LocksOK, PlanOK,
              HoldsKeyShare, HoldsForUpdate
<1>3. QED
  BY <1>1, <1>2

\* Each result row has one owner, and the lock on the dependency row is exclusive.
THEOREM LocksAndRows == Spec => []CoreInv
<1>1. Init => CoreInv
  BY CoreInit
<1>2. CoreInv /\ [Next]_vars => CoreInv'
  BY CoreStep
<1>3. QED
  BY <1>1, <1>2, PTL DEF Spec

\* execute_check and update_incident keep the types of all tables, for any
\* numbers of workers, users and rows.
THEOREM CheckTypeCorrect == Spec => []TypeOK
<1>1. CoreInv => TypeOK
  BY DEF CoreInv
<1>2. QED
  BY <1>1, LocksAndRows, PTL

----------------------------------------------------------------------------
(* The failure quorum *)

\* QUORUM_MIN_REGIONS: results of two regions are a quorum.
LEMMA TwoRegions ==
  ASSUME TypeOK, NEW S \in SUBSET Slots, NEW s \in S, NEW t \in S,
         result[s].region # result[t].region
  PROVE  IsQuorum(S)
<1> DEFINE a == result[s].region
           b == result[t].region
<1>1. RegionsOf(S) \in SUBSET Regions /\ a \in RegionsOf(S) /\ b \in RegionsOf(S)
  BY DEF TypeOK, ResultRow, RegionsOf
<1>2. IsFiniteSet(RegionsOf(S))
  BY <1>1, ConstantsAssumption, FS_Subset
<1>3. IsFiniteSet({a}) /\ Cardinality({a}) = 1
  BY FS_Singleton
<1>4. Cardinality({a} \cup {b}) = 2
  <2>1. b \notin {a}
    OBVIOUS
  <2>2. Cardinality({a} \cup {b}) = Cardinality({a}) + 1
    BY ONLY <1>3, <2>1, FS_AddElement
  <2>3. QED
    BY <1>3, <2>2
<1>5. {a} \cup {b} \in SUBSET RegionsOf(S)
  BY <1>1
<1>6. Cardinality({a} \cup {b}) <= Cardinality(RegionsOf(S))
  BY <1>2, <1>5, FS_Subset
<1>7. Cardinality(RegionsOf(S)) \in Nat
  BY <1>2, FS_CardinalityType
<1>8. QED
  BY <1>4, <1>6, <1>7 DEF IsQuorum, QUORUM_MIN_REGIONS

\* A step after which no failure is evaluated that was not before.
LEMMA QuorumFrame ==
  ASSUME QuorumInv, ~deleted' => ~deleted,
         \A s \in Slots : Evaluated(s)' => /\ Evaluated(s)
                                           /\ result'[s].region = result[s].region
                                           /\ result'[s].quorum = result[s].quorum
  PROVE  QuorumInv'
BY DEF QuorumInv

\* The evaluation of a failure sees every failure evaluated before.
LEMMA QuorumEvaluate ==
  ASSUME CoreInv, CoreInv', QuorumInv, NEW w \in Workers,
         EvaluateFailure(w) \/ EvaluateSuccess(w)
  PROVE  QuorumInv'
<1> DEFINE own == check[w].slot
<1>1. PICK tx : check' = [check EXCEPT ![w] = tx] /\ Decided(w, tx)
  BY EvaluationDecides
<1>2. check'[w] = tx /\ \A v \in Workers \ {w} : check'[v] = check[v]
  BY <1>1, OthersKeep DEF CoreInv
<1>3. check'[w].slot = own /\ (HoldsForUpdate(w))' /\ HoldsKeyShare(w)' /\ deleted' = deleted
  BY <1>1, <1>2
     DEF Decided, HoldsForUpdate, HoldsKeyShare, EvaluateFailure, EvaluateSuccess
<1>4. \A v \in Workers : (HoldsForUpdate(v))' => v = w
  BY <1>3 DEF CoreInv, LocksOK, HoldsForUpdate, HoldsKeyShare
<1>5. own \in Slots /\ result \in [Slots -> ResultRow]
  BY DEF EvaluateFailure, EvaluateSuccess, CoreInv, SlotsOK, SlotOK, HoldsKeyShare, TypeOK
<1>6. CASE EvaluateSuccess(w)
  <2>1. result' = result /\ result[own].up
    BY <1>6 DEF EvaluateSuccess
  <2>2. \A s \in Slots : Evaluated(s)' => Evaluated(s)
    BY <1>3, <1>4, <2>1 DEF Evaluated
  <2>3. QED
    BY <1>3, <2>1, <2>2, QuorumFrame
<1>7. CASE EvaluateFailure(w)
  <2> DEFINE q == IsQuorum(Failing(w))
  <2>1. result' = [result EXCEPT ![own].quorum = q]
    BY <1>7 DEF EvaluateFailure
  <2> HIDE DEF q
  <2>2. /\ \A s \in Slots \ {own} : result'[s] = result[s]
        /\ result'[own].quorum = q /\ result'[own].region = result[own].region
    BY <1>5, <2>1 DEF ResultRow
  <2>3. \A s \in Slots \ {own} : Evaluated(s)' => /\ Evaluated(s) /\ result[s].state = "committed"
                                                  /\ ~result[s].up
    BY <1>3, <1>4, <2>2 DEF Evaluated
  <2>4. ASSUME NEW s \in Slots, ~deleted, s # own, Evaluated(s)',
               result[s].region # result[own].region
        PROVE  q
    <3>1. s \in Failing(w) /\ own \in Failing(w)
      BY <2>3, <2>4 DEF Failing, Recent
    <3>2. Failing(w) \in SUBSET Slots
      BY <1>7, CountedAreSlots DEF EvaluateFailure, HoldsKeyShare
    <3>3. QED
      BY <2>4, <3>1, <3>2, TwoRegions DEF CoreInv, q
  <2>5. SUFFICES ASSUME ~deleted, NEW s \in Slots, NEW t \in Slots, Evaluated(s)', Evaluated(t)',
                        result'[s].region # result'[t].region
                 PROVE  result'[s].quorum \/ result'[t].quorum
    BY <1>3 DEF QuorumInv
  <2>6. CASE s = own
    BY <2>2, <2>4, <2>5, <2>6
  <2>7. CASE t = own
    BY <2>2, <2>4, <2>5, <2>7
  <2>8. CASE s # own /\ t # own
    BY <2>2, <2>3, <2>5, <2>8 DEF QuorumInv
  <2>9. QED
    BY <2>6, <2>7, <2>8
<1>8. QED
  BY <1>6, <1>7

\* Steps that change no result row and give nobody FOR UPDATE.
LEMMA QuorumSame ==
  ASSUME QuorumInv, result' = result, ~deleted' => ~deleted,
         \A v \in Workers : (HoldsForUpdate(v))' => /\ HoldsForUpdate(v)
                                                    /\ check'[v].slot = check[v].slot
  PROVE  QuorumInv'
<1>1. \A s \in Slots : Evaluated(s)' => Evaluated(s)
  BY DEF Evaluated
<1>2. QED
  BY <1>1, QuorumFrame

\* execute_check keeps the quorum at every step, although its transactions
\* interleave, and so do users and time.
LEMMA QuorumStep ==
  ASSUME CoreInv, CoreInv', QuorumInv, [Next]_vars
  PROVE  QuorumInv'
<1>1. ASSUME NEW w \in Workers, StartCheck(w) PROVE QuorumInv'
  <2>1. /\ check' = [check EXCEPT ![w] = [@ EXCEPT !.pc = "probing"]]
        /\ result' = result /\ deleted' = deleted /\ check[w] \in CheckTx
    BY <1>1 DEF StartCheck, CoreInv, TypeOK
  <2>2. [check[w] EXCEPT !.pc = "probing"].pc = "probing"
    BY <2>1 DEF CheckTx
  <2>3. check'[w].pc = "probing" /\ \A v \in Workers \ {w} : check'[v] = check[v]
    BY <2>1, <2>2, OthersKeep DEF CoreInv
  <2>4. QED
    BY <2>1, <2>3, QuorumSame DEF HoldsForUpdate
<1>2. ASSUME NEW w \in Workers, NEW r \in Regions, NEW up \in BOOLEAN, NEW blocked \in BOOLEAN,
             InsertResult(w, r, up, blocked)
      PROVE  QuorumInv'
  <2>1. last + 1 \in Slots /\ last' = last + 1 /\ deleted' = deleted
    BY <1>2, ConstantsAssumption DEF InsertResult, CoreInv, TypeOK, Slots
  <2>2. \A s \in Slots \ {last + 1} : result'[s] = result[s]
    BY <1>2 DEF InsertResult, CoreInv, TypeOK
  <2>3. result'[last + 1].state = "open"
    BY <1>2, <2>1 DEF InsertResult, CoreInv, TypeOK
  <2>4. \A v \in Workers : ~(HoldsForUpdate(v))'
    <3> DEFINE pc == IF blocked THEN "blocked" ELSE "inserted"
               tx == [check[w] EXCEPT !.pc = pc, !.slot = last + 1]
    <3>1. check' = [check EXCEPT ![w] = tx] /\ \A v \in Workers \ {w} : ~HoldsForUpdate(v)
      BY <1>2 DEF InsertResult
    <3>2. tx.pc = pc
      BY DEF CoreInv, TypeOK, CheckTx
    <3> HIDE DEF tx
    <3>3. check'[w] = tx /\ \A v \in Workers \ {w} : check'[v] = check[v]
      BY <3>1, OthersKeep DEF CoreInv
    <3>4. QED
      BY <3>1, <3>2, <3>3 DEF HoldsForUpdate
  <2>5. \A s \in Slots : Evaluated(s)' => Evaluated(s) /\ s # last + 1
    BY <2>2, <2>3, <2>4 DEF Evaluated
  <2>6. QED
    BY <2>1, <2>2, <2>5, QuorumFrame
<1>3. ASSUME NEW w \in Workers, ApplyNothing(w) \/ ApplyOpen(w) \/ ApplyResolve(w)
      PROVE  QuorumInv'
  <2>1. PICK tx : check' = [check EXCEPT ![w] = tx] /\ Written(w, tx) /\ Effects(w, tx)
    BY <1>3, ApplyWrites
  <2>2. check'[w] = tx /\ \A v \in Workers \ {w} : check'[v] = check[v]
    BY <2>1, OthersKeep DEF CoreInv
  <2>3. HoldsForUpdate(w)
    BY <1>3 DEF ApplyNothing, ApplyOpen, ApplyResolve, HoldsForUpdate
  <2>4. QED
    BY <2>1, <2>2, <2>3, QuorumSame DEF Written, Effects, HoldsForUpdate
<1>4. ASSUME NEW w \in Workers, CommitCheck(w) \/ AbortCheck(w) \/ CancelDeadlocked(w)
      PROVE  QuorumInv'
  <2> DEFINE own == check[w].slot
  <2>1. check' = [check EXCEPT ![w] = IdleTx] /\ deleted' = deleted
    BY <1>4 DEF CommitCheck, AbortCheck, CancelDeadlocked, Rollback
  <2>2. check'[w] = IdleTx /\ \A v \in Workers \ {w} : check'[v] = check[v]
    BY <2>1, OthersKeep DEF CoreInv
  <2>3. \A v \in Workers : (HoldsForUpdate(v))' => HoldsForUpdate(v) /\ check'[v].slot = check[v].slot
    BY <2>2 DEF HoldsForUpdate, IdleTx
  <2>4. CASE CommitCheck(w)
    <3>1. /\ HoldsKeyShare(w) /\ own \in Slots /\ result \in [Slots -> ResultRow]
          /\ ~HoldsForUpdate(w) => result[own].blocked
      BY <2>4 DEF CommitCheck, CoreInv, TypeOK, SlotsOK, SlotOK, HoldsKeyShare, HoldsForUpdate
    <3>2. result' = [result EXCEPT ![own].state = "committed"]
      BY <2>4 DEF CommitCheck
    <3>3. \A s \in Slots : /\ result'[s].up = result[s].up
                           /\ result'[s].blocked = result[s].blocked
                           /\ result'[s].region = result[s].region
                           /\ result'[s].quorum = result[s].quorum
                           /\ s # own => result'[s].state = result[s].state
      BY <3>1, <3>2 DEF ResultRow
    <3>4. \A s \in Slots : Evaluated(s)' => Evaluated(s)
      BY <2>3, <3>1, <3>3 DEF Evaluated
    <3>5. QED
      BY <2>1, <3>3, <3>4, QuorumFrame
  <2>5. CASE Rollback(w)
    <3>1. \A s \in Slots : result'[s] = IF s = own THEN [NoResult EXCEPT !.state = "aborted"]
                                                   ELSE result[s]
      BY <2>5 DEF Rollback
    <3>2. [NoResult EXCEPT !.state = "aborted"].state = "aborted"
      BY DEF NoResult
    <3>3. \A v \in Workers : (HoldsForUpdate(v))' => check'[v].slot # own
      <4>1. \A v \in Workers : (HoldsForUpdate(v))' => v # w /\ HoldsKeyShare(v)
        BY <2>2, <2>3 DEF HoldsForUpdate, HoldsKeyShare, IdleTx
      <4>2. \A v \in Workers \ {w} : HoldsKeyShare(v) => check[v].slot # own
        BY DEF CoreInv, SlotsOK, SlotOK, Slots
      <4>3. QED
        BY <2>2, <4>1, <4>2
    <3>4. \A s \in Slots : Evaluated(s)' => s # own /\ Evaluated(s)
      BY <2>3, <3>1, <3>2, <3>3 DEF Evaluated
    <3>5. QED
      BY <2>1, <3>1, <3>4, QuorumFrame
  <2>6. QED
    BY <1>4, <2>4, <2>5 DEF AbortCheck, CancelDeadlocked
<1>5. CASE Environment
  <2>1. CASE \E u \in Users : RequestStep(u)
    <3>1. UNCHANGED <<check, result, deleted>>
      BY <2>1 DEF RequestStep, ReadIncident, PatchNothing, PatchStatus, PatchResolve
    <3>2. QED
      BY <3>1, QuorumSame DEF HoldsForUpdate
  <2>2. CASE DeleteDependency
    BY <2>2, QuorumSame DEF DeleteDependency, HoldsForUpdate
  <2>3. ASSUME NEW s \in Slots, AgeOut(s) PROVE QuorumInv'
    <3>1. result' = [result EXCEPT ![s].state = "old"] /\ result \in [Slots -> ResultRow]
          /\ UNCHANGED <<check, deleted>> /\ result[s].state = "committed"
      BY <2>3 DEF AgeOut, CoreInv, TypeOK
    <3>2. \A t \in Slots : /\ result'[t].up = result[t].up
                           /\ result'[t].blocked = result[t].blocked
                           /\ result'[t].region = result[t].region
                           /\ result'[t].quorum = result[t].quorum
                           /\ result'[t].state = "committed" => result[t].state = "committed"
      BY <3>1 DEF ResultRow
    <3>3. \A t \in Slots : Evaluated(t)' => Evaluated(t)
      BY <3>1, <3>2 DEF Evaluated, HoldsForUpdate
    <3>4. QED
      BY <3>1, <3>2, <3>3, QuorumFrame
  <2>4. QED
    BY <1>5, <2>1, <2>2, <2>3 DEF Environment
<1>6. CASE UNCHANGED vars
  BY <1>6, QuorumSame DEF vars, HoldsForUpdate
<1>7. QED
  BY <1>1, <1>2, <1>3, <1>4, <1>5, <1>6, StepGroups, QuorumEvaluate

\* FIX 3, for any numbers of workers and regions: two evaluated failures of
\* different regions in the window never both miss the quorum.
THEOREM QuorumIsNotMissed == Spec => []QuorumNotMissed
<1>1. Init => QuorumInv
  BY DEF Init, IdleTx, NoResult, QuorumInv, Evaluated, HoldsForUpdate
<1>2. CoreInv /\ CoreInv' /\ QuorumInv /\ [Next]_vars => QuorumInv'
  BY QuorumStep
<1>3. QuorumInv => QuorumNotMissed
  BY DEF QuorumInv, QuorumNotMissed, Evaluated
<1>4. QED
  BY <1>1, <1>2, <1>3, LocksAndRows, PTL DEF Spec

----------------------------------------------------------------------------
(* One open incident *)

\* A check that has not written yet opens nothing; the tables stay as they are.
LEMMA IncidentSame ==
  ASSUME CoreInv, IncidentInv, NEW w \in Workers, NEW tx, check' = [check EXCEPT ![w] = tx],
         check[w].pc # "applied", tx.pc # "applied",
         tx.plan = "resolve" => Visible(tx.target),
         UNCHANGED <<incident, request>>
  PROVE  IncidentInv'
<1>1. check'[w] = tx /\ \A v \in Workers \ {w} : check'[v] = check[v]
  BY OthersKeep DEF CoreInv
<1>2. \A v \in Workers, i \in Incidents : Opening(v, i)' <=> Opening(v, i)
  BY <1>1 DEF Opening
<1>3. QED
  BY <1>1, <1>2 DEF IncidentInv, Visible

\* check_and_create_incident inserts when no incident is open or being opened.
LEMMA IncidentApply ==
  ASSUME CoreInv, IncidentInv, NEW w \in Workers,
         ApplyNothing(w) \/ ApplyOpen(w) \/ ApplyResolve(w)
  PROVE  IncidentInv'
<1>1. PICK tx : check' = [check EXCEPT ![w] = tx] /\ Written(w, tx) /\ Effects(w, tx)
  BY ApplyWrites
<1>2. check'[w] = tx /\ \A v \in Workers \ {w} : check'[v] = check[v]
  BY <1>1, OthersKeep DEF CoreInv
<1>3. check[w].pc = "evaluated" /\ request' = request /\ incident \in [Incidents -> IncidentRow]
  BY DEF ApplyNothing, ApplyOpen, ApplyResolve, CoreInv, TypeOK
<1>4. CASE tx.plan # "open"
  <2>1. incident' = incident
    BY <1>1, <1>4 DEF Effects
  <2>2. \A v \in Workers, i \in Incidents : Opening(v, i)' <=> Opening(v, i)
    BY <1>2, <1>3, <1>4 DEF Opening
  <2>3. tx.plan = "resolve" => Visible(tx.target)
    BY <1>1 DEF Written, IncidentInv
  <2>4. QED
    BY <1>2, <1>3, <2>1, <2>2, <2>3 DEF IncidentInv, Visible
<1>5. CASE tx.plan = "open"
  <2> DEFINE new == tx.target
  <2>1. /\ new \in Incidents /\ incident[new].status = "none" /\ OpenIncidents = {}
        /\ incident' = [incident EXCEPT ![new] = NewIncident(w)] /\ tx.pc = "applied"
    BY <1>1, <1>5 DEF Written, Effects
  <2>2. NewIncident(w).status = "opening"
    BY DEF NewIncident, NoRow
  <2>3. incident'[new].status = "opening" /\ \A i \in Incidents \ {new} : incident'[i] = incident[i]
    BY <1>3, <2>1, <2>2
  <2>4. \A v \in Workers, i \in Incidents : ~Opening(v, i)
    BY <1>3 DEF Opening, CoreInv, LocksOK, HoldsForUpdate, HoldsKeyShare
  <2>5. \A i \in Incidents : incident[i].status \notin {"opening", "open"}
    BY <2>1, <2>4 DEF IncidentInv, OpenIncidents
  <2>6. \A v \in Workers, i \in Incidents : Opening(v, i)' <=> v = w /\ i = new
    BY <1>2, <1>5, <2>1, <2>4 DEF Opening
  <2>7. \A i \in Incidents : Visible(i) => Visible(i)' /\ i # new
    BY <2>1, <2>3 DEF Visible
  <2>8. \A v \in Workers : check'[v].plan = "resolve" =>
           check[v].plan = "resolve" /\ check'[v].target = check[v].target
    BY <1>2, <1>5
  <2>9. QED
    BY <1>3, <2>3, <2>5, <2>6, <2>7, <2>8 DEF IncidentInv, CoreInv, PlanOK, RequestsOK
<1>6. QED
  BY <1>4, <1>5

\* The three fates of an incident row when the transaction of w ends.
Untouched(w, i) == incident'[i] = incident[i] /\ ~Opening(w, i)

Opened(w, i) ==
  /\ Opening(w, i)
  /\ incident[i].status = "opening"
  /\ \/ incident'[i] = NoRow
     \/ /\ CommitCheck(w)
        /\ incident'[i].status = "open"
        /\ incident'[i].closer = incident[i].closer
        /\ incident'[i].cause = incident[i].cause
        /\ incident'[i].cure = incident[i].cure

Recovered(w, i) ==
  /\ CommitCheck(w)
  /\ check[w].pc = "applied" /\ check[w].plan = "resolve" /\ check[w].target = i
  /\ Visible(i)
  /\ incident'[i].status = "resolved"
  /\ incident'[i].closer = "check"
  /\ incident'[i].cause = incident[i].cause
  /\ incident'[i].cure = check[w].basis

\* Commit, rollback and the deadlock detector touch only the incident of the check.
LEMMA EndWrites ==
  ASSUME CoreInv, IncidentInv, NEW w \in Workers,
         CommitCheck(w) \/ AbortCheck(w) \/ CancelDeadlocked(w)
  PROVE  \A i \in Incidents : Untouched(w, i) \/ Opened(w, i) \/ Recovered(w, i)
<1> DEFINE own == check[w].target
<1>1. incident \in [Incidents -> IncidentRow] /\ check[w] \in CheckTx
  BY DEF CoreInv, TypeOK
<1>2. \A i \in Incidents : Opening(w, i) => i = own /\ incident[i].status = "opening"
  BY DEF Opening, IncidentInv
<1>3. CASE CommitCheck(w)
  <2>1. incident' = CommittedIncident(w) /\ check[w].pc \in {"applied", "blocked"}
    BY <1>3 DEF CommitCheck
  <2>2. CASE check[w].plan = "nothing"
    BY <2>1, <2>2 DEF CommittedIncident, Opening, Untouched
  <2>3. CASE check[w].plan = "open"
    <3> DEFINE row == [incident[own] EXCEPT !.status = "open"]
    <3>1. incident' = [incident EXCEPT ![own] = row] /\ check[w].pc = "applied"
      BY <1>1, <2>1, <2>3 DEF CommittedIncident, CoreInv, PlanOK, HoldsForUpdate
    <3>2. own \in Incidents => /\ row.status = "open" /\ row.closer = incident[own].closer
                               /\ row.cause = incident[own].cause
                               /\ row.cure = incident[own].cure
      BY <1>1 DEF IncidentRow
    <3> HIDE DEF row
    <3>3. \A i \in Incidents : incident'[i] = IF i = own THEN row ELSE incident[i]
      BY <1>1, <3>1
    <3>4. Opening(w, own)
      BY <2>3, <3>1 DEF Opening
    <3>5. QED
      BY <1>2, <1>3, <3>2, <3>3, <3>4 DEF Untouched, Opened
  <2>4. CASE check[w].plan = "resolve"
    <3> DEFINE row == [incident[own] EXCEPT !.status = "resolved", !.resolvedAt = TRUE,
                                            !.closer = "check", !.cure = check[w].basis]
    <3>1. /\ incident' = [incident EXCEPT ![own] = row] /\ check[w].pc = "applied"
          /\ own \in Incidents /\ Visible(own)
      BY <2>1, <2>4 DEF CommittedIncident, CoreInv, PlanOK, HoldsForUpdate, IncidentInv
    <3>2. /\ row.status = "resolved" /\ row.closer = "check"
          /\ row.cause = incident[own].cause /\ row.cure = check[w].basis
      BY <1>1, <3>1 DEF IncidentRow
    <3> HIDE DEF row
    <3>3. \A i \in Incidents : incident'[i] = IF i = own THEN row ELSE incident[i]
      BY <1>1, <3>1
    <3>4. \A i \in Incidents : ~Opening(w, i)
      BY <2>4 DEF Opening
    <3>5. QED
      BY <1>3, <2>4, <3>1, <3>2, <3>3, <3>4 DEF Untouched, Recovered
  <2>5. QED
    BY <1>1, <2>2, <2>3, <2>4 DEF CheckTx
<1>4. CASE Rollback(w)
  <2>1. \A i \in Incidents : incident'[i] = IF incident[i].status = "opening" /\ own = i
                                            THEN NoRow ELSE incident[i]
    BY <1>4 DEF Rollback
  <2>2. ASSUME NEW i \in Incidents, incident[i].status = "opening", own = i
        PROVE  Opening(w, i)
    <3>1. PICK v \in Workers : Opening(v, i)
      BY <2>2 DEF IncidentInv
    <3>2. HoldsForUpdate(v) /\ HoldsForUpdate(w)
      BY <2>2, <3>1 DEF Opening, CoreInv, PlanOK, HoldsForUpdate, NoIncident, Incidents
    <3>3. QED
      BY <3>1, <3>2 DEF CoreInv, LocksOK, HoldsForUpdate, HoldsKeyShare
  <2>3. QED
    BY <1>2, <2>1, <2>2 DEF Untouched, Opened
<1>5. QED
  BY <1>3, <1>4 DEF AbortCheck, CancelDeadlocked

\* The end of a check makes its incident visible or removes it.
LEMMA IncidentEnd ==
  ASSUME CoreInv, IncidentInv, NEW w \in Workers,
         CommitCheck(w) \/ AbortCheck(w) \/ CancelDeadlocked(w)
  PROVE  IncidentInv'
<1> DEFINE own == check[w].target
<1>1. check' = [check EXCEPT ![w] = IdleTx] /\ request' = request
  BY DEF CommitCheck, AbortCheck, CancelDeadlocked, Rollback
<1>2. check'[w] = IdleTx /\ \A v \in Workers \ {w} : check'[v] = check[v]
  BY <1>1, OthersKeep DEF CoreInv
<1>3. IdleTx.pc = "idle" /\ IdleTx.plan = "nothing"
  BY DEF IdleTx
<1>4. incident \in [Incidents -> IncidentRow] /\ check[w] \in CheckTx
  BY DEF CoreInv, TypeOK
<1>5. \A v \in Workers, i \in Incidents : Opening(v, i)' <=> v # w /\ Opening(v, i)
  BY <1>2, <1>3 DEF Opening
<1>6. \A v \in Workers \ {w}, i \in Incidents : Opening(v, i) => i # own
  <2>1. \A v \in Workers \ {w}, i \in Incidents : Opening(v, i) => ~HoldsForUpdate(w)
    BY DEF Opening, CoreInv, LocksOK, HoldsForUpdate, HoldsKeyShare
  <2>2. ~HoldsForUpdate(w) => own \notin Incidents
    BY DEF CoreInv, PlanOK, NoIncident, Incidents
  <2>3. QED
    BY <2>1, <2>2
<1>7. \A i \in Incidents : Opening(w, i) => i = own
  BY DEF Opening
\* What an ended transaction does to each row.
<1>8. \A i \in Incidents :
        \/ incident'[i].status = incident[i].status /\ ~Opening(w, i)
        \/ incident[i].status = "opening" /\ i = own /\ incident'[i].status \in {"none", "open"}
        \/ Visible(i) /\ i = own /\ incident'[i].status = "resolved"
  BY EndWrites DEF Untouched, Opened, Recovered, NoRow, Opening
<1>9. \A i \in Incidents : incident'[i].status = "opening" <=> \E v \in Workers : Opening(v, i)'
  BY <1>5, <1>6, <1>8 DEF IncidentInv, Visible
<1>10. \A i \in Incidents : Visible(i) => Visible(i)'
  BY <1>8 DEF Visible
<1>11. \A i \in Incidents : incident'[i].status \in {"opening", "open"} =>
                              incident[i].status \in {"opening", "open"}
  BY <1>8
<1>12. \A v \in Workers : check'[v].plan = "resolve" =>
         check[v].plan = "resolve" /\ check'[v].target = check[v].target
  BY <1>2, <1>3
<1>13. QED
  BY <1>1, <1>9, <1>10, <1>11, <1>12 DEF IncidentInv, CoreInv, PlanOK, RequestsOK

\* What update_incident does to each row.
LEMMA RequestWrites ==
  ASSUME CoreInv, IncidentInv, NEW u \in Users, RequestStep(u)
  PROVE  /\ UNCHANGED <<check, result, last, deleted>>
         /\ evidence \subseteq evidence'
         /\ \A i \in Incidents :
              \/ incident'[i] = incident[i]
              \/ /\ Visible(i) /\ Visible(i)'
                 /\ incident'[i].closer = "user"
                 /\ incident'[i].cause = incident[i].cause
                 /\ incident'[i].cure = incident[i].cure
                 /\ incident'[i].status = "resolved" => \E e \in evidence' : e[1] = i
                 /\ incident'[i].status = "open" =>
                      \A j \in Incidents \ {i} : incident[j].status \notin {"opening", "open"}
         /\ \A i, j \in Incidents :
              incident'[i] # incident[i] /\ incident'[j] # incident[j] => i = j
<1> DEFINE own == request[u].target
<1>1. /\ UNCHANGED <<check, result, last, deleted>> /\ evidence \subseteq evidence'
  BY DEF RequestStep, ReadIncident, PatchNothing, PatchStatus, PatchResolve
<1>2. incident \in [Incidents -> IncidentRow]
  BY DEF CoreInv, TypeOK
<1>3. request[u].pc = "read" => own \in Incidents /\ Visible(own)
  BY DEF CoreInv, RequestsOK, IncidentInv
<1>4. CASE incident' = incident
  BY <1>1, <1>4
<1>5. CASE PatchStatus(u) /\ incident' # incident
  <2> DEFINE row == [incident[own] EXCEPT !.status = request[u].to, !.closer = "user"]
  <2>1. own \in Incidents /\ Visible(own) /\ request[u].to \in {"open", "false_positive"}
    BY <1>3, <1>5 DEF PatchStatus
  <2>2. incident' = [incident EXCEPT ![own] = row]
    BY <1>2, <1>5, <2>1 DEF PatchStatus
  <2>3. request[u].to = "open" =>
          \A j \in Incidents \ {own} : incident[j].status \notin {"opening", "open"}
    BY <1>5 DEF PatchStatus, OpenIncidents
  <2>4. /\ row.status = request[u].to /\ row.closer = "user"
        /\ row.cause = incident[own].cause /\ row.cure = incident[own].cure
    BY <1>2, <2>1 DEF IncidentRow
  <2> HIDE DEF row
  <2>5. incident'[own] = row /\ \A i \in Incidents \ {own} : incident'[i] = incident[i]
    BY <1>2, <2>1, <2>2
  <2>6. QED
    BY <1>1, <2>1, <2>3, <2>4, <2>5 DEF Visible
<1>6. CASE PatchResolve(u)
  <2> DEFINE row == [incident[own] EXCEPT !.status = "resolved", !.resolvedAt = TRUE,
                                          !.closer = "user"]
  <2>1. own \in Incidents /\ Visible(own)
    BY <1>3, <1>6 DEF PatchResolve
  <2>2. incident' = [incident EXCEPT ![own] = row]
    BY <1>2, <1>6, <2>1 DEF PatchResolve
  <2>3. PICK outcome : evidence' = evidence \cup {<<own, "user", outcome>>}
    BY <1>6 DEF PatchResolve
  <2>4. <<own, "user", outcome>>[1] = own
    OBVIOUS
  <2>5. /\ row.status = "resolved" /\ row.closer = "user"
        /\ row.cause = incident[own].cause /\ row.cure = incident[own].cure
    BY <1>2, <2>1 DEF IncidentRow
  <2> HIDE DEF row
  <2>6. incident'[own] = row /\ \A i \in Incidents \ {own} : incident'[i] = incident[i]
    BY <1>2, <2>1, <2>2
  <2>7. QED
    BY <1>1, <2>1, <2>3, <2>4, <2>5, <2>6 DEF Visible
<1>7. QED
  BY <1>4, <1>5, <1>6 DEF RequestStep, ReadIncident, PatchNothing

\* Users reopen an incident only when no other is open or being opened.
LEMMA IncidentRequest ==
  ASSUME CoreInv, IncidentInv, NEW u \in Users, RequestStep(u)
  PROVE  IncidentInv'
<1> DEFINE Live(i) == incident[i].status \in {"opening", "open"}
<1>1. \A v \in Workers, i \in Incidents : Opening(v, i)' <=> Opening(v, i)
  BY RequestWrites DEF Opening
<1>2. \A i \in Incidents : Visible(i) => Visible(i)'
  BY RequestWrites DEF Visible
<1>3. \A i \in Incidents : incident'[i].status = "opening" <=> incident[i].status = "opening"
  BY RequestWrites DEF Visible
<1>4. \A i, j \in Incidents :
        incident'[i].status \in {"opening", "open"} /\ incident'[j].status \in {"opening", "open"}
          => i = j
  <2> SUFFICES ASSUME NEW i \in Incidents, NEW j \in Incidents, i # j,
                      incident'[i].status \in {"opening", "open"},
                      incident'[j].status \in {"opening", "open"}
               PROVE  FALSE
    OBVIOUS
  <2>1. incident'[i] = incident[i] \/ incident'[j] = incident[j]
    BY RequestWrites
  <2>2. CASE incident'[i] = incident[i] /\ incident'[j] = incident[j]
    BY <2>2 DEF IncidentInv
  <2>3. CASE incident'[i] # incident[i] /\ incident'[j] = incident[j]
    BY <2>3, RequestWrites DEF Visible
  <2>4. CASE incident'[i] = incident[i] /\ incident'[j] # incident[j]
    BY <2>4, RequestWrites DEF Visible
  <2>5. QED
    BY <2>1, <2>2, <2>3, <2>4
<1>5. \A v \in Users : request'[v].pc = "read" =>
        incident'[request'[v].target].status \notin {"none", "opening"}
  <2>1. request \in [Users -> RequestTx]
    BY DEF CoreInv, TypeOK
  <2>2. \A v \in Users : request[v].pc = "read" =>
          incident'[request[v].target].status \notin {"none", "opening"}
    BY <1>2 DEF CoreInv, RequestsOK, IncidentInv, Visible
  <2>3. CASE Answer(u)
    <3>1. [NoRequest EXCEPT !.pc = "done"].pc = "done"
      BY DEF NoRequest
    <3>2. request'[u].pc = "done" /\ \A v \in Users \ {u} : request'[v] = request[v]
      BY <2>1, <2>3, <3>1 DEF Answer
    <3>3. QED
      BY <2>2, <3>2
  <2>4. ASSUME NEW i \in Incidents, NEW to, ReadIncident(u, i, to)
        PROVE  \A v \in Users : request'[v].pc = "read" =>
                 incident'[request'[v].target].status \notin {"none", "opening"}
    <3>1. request'[u].target = i /\ \A v \in Users \ {u} : request'[v] = request[v]
      BY <2>1, <2>4 DEF ReadIncident
    <3>2. incident'[i].status \notin {"none", "opening"}
      BY <2>4 DEF ReadIncident
    <3>3. QED
      BY <2>2, <3>1, <3>2
  <2>5. QED
    BY <2>3, <2>4 DEF RequestStep, PatchNothing, PatchStatus, PatchResolve
<1>6. \A v \in Workers : check'[v].plan = "resolve" =>
        incident'[check'[v].target].status \notin {"none", "opening"}
  BY <1>2, RequestWrites DEF CoreInv, PlanOK, IncidentInv, Visible
<1>7. QED
  BY <1>1, <1>3, <1>4, <1>5, <1>6 DEF IncidentInv, Visible

\* Delivery, insert and evaluation write no incident; only the evaluation leaves
\* a plan.
LEMMA QuietStep ==
  ASSUME CoreInv, NEW w \in Workers,
         \/ StartCheck(w)
         \/ \E r \in Regions, up, blocked \in BOOLEAN : InsertResult(w, r, up, blocked)
         \/ EvaluateFailure(w) \/ EvaluateSuccess(w)
  PROVE  /\ UNCHANGED <<deleted, incident, request, evidence>>
         /\ check[w].pc # "applied"
         /\ \E tx : /\ check' = [check EXCEPT ![w] = tx]
                    /\ tx.pc # "applied"
                    /\ tx.plan # "nothing" => HoldsKeyShare(w) /\ Decided(w, tx)
<1>1. check[w] \in CheckTx /\ (~HoldsForUpdate(w) => check[w].plan = "nothing")
  BY DEF CoreInv, TypeOK, PlanOK
<1>2. CASE StartCheck(w)
  <2> DEFINE tx == [check[w] EXCEPT !.pc = "probing"]
  <2>1. check' = [check EXCEPT ![w] = tx] /\ check[w].pc = "idle"
        /\ UNCHANGED <<deleted, incident, request, evidence>>
    BY <1>2 DEF StartCheck
  <2>2. tx.pc = "probing" /\ tx.plan = "nothing"
    BY <1>1, <2>1 DEF CheckTx, HoldsForUpdate
  <2> HIDE DEF tx
  <2>3. QED
    BY <2>1, <2>2
<1>3. ASSUME NEW r \in Regions, NEW up \in BOOLEAN, NEW blocked \in BOOLEAN,
             InsertResult(w, r, up, blocked)
      PROVE  /\ UNCHANGED <<deleted, incident, request, evidence>>
             /\ check[w].pc # "applied"
             /\ \E tx : /\ check' = [check EXCEPT ![w] = tx]
                        /\ tx.pc # "applied"
                        /\ tx.plan = "nothing"
  <2> DEFINE pc == IF blocked THEN "blocked" ELSE "inserted"
             tx == [check[w] EXCEPT !.pc = pc, !.slot = last + 1]
  <2>1. check' = [check EXCEPT ![w] = tx] /\ check[w].pc = "probing"
        /\ UNCHANGED <<deleted, incident, request, evidence>>
    BY <1>3 DEF InsertResult
  <2>2. pc # "applied"
    OBVIOUS
  <2> HIDE DEF pc
  <2>3. tx.pc = pc /\ tx.plan = "nothing"
    BY <1>1, <2>1 DEF CheckTx, HoldsForUpdate
  <2> HIDE DEF tx
  <2>4. QED
    BY <2>1, <2>2, <2>3
<1>4. CASE EvaluateFailure(w) \/ EvaluateSuccess(w)
  <2>1. PICK tx : check' = [check EXCEPT ![w] = tx] /\ Decided(w, tx)
    BY <1>4, EvaluationDecides
  <2>2. tx.pc # "applied"
    BY <2>1 DEF Decided
  <2>3. check[w].pc = "inserted" /\ UNCHANGED <<deleted, incident, request, evidence>>
    BY <1>4 DEF EvaluateFailure, EvaluateSuccess
  <2>4. QED
    BY <2>1, <2>2, <2>3 DEF HoldsKeyShare
<1>5. QED
  BY <1>2, <1>3, <1>4

\* Checks and users together leave at most one incident open or being opened.
LEMMA IncidentStep == ASSUME CoreInv, IncidentInv, [Next]_vars PROVE IncidentInv'
<1>1. ASSUME NEW w \in Workers,
             \/ StartCheck(w)
             \/ \E r \in Regions, up, blocked \in BOOLEAN : InsertResult(w, r, up, blocked)
             \/ EvaluateFailure(w) \/ EvaluateSuccess(w)
      PROVE  IncidentInv'
  <2>1. PICK tx : /\ check' = [check EXCEPT ![w] = tx] /\ tx.pc # "applied"
                  /\ tx.plan # "nothing" => Decided(w, tx)
    BY <1>1, QuietStep
  <2>2. tx.plan = "resolve" => Visible(tx.target)
    BY <2>1 DEF Decided, OpenIncidents, Visible
  <2>3. QED
    BY <1>1, <2>1, <2>2, QuietStep, IncidentSame
<1>2. CASE Environment
  <2>1. CASE \E u \in Users : RequestStep(u)
    BY <2>1, IncidentRequest
  <2>2. CASE UNCHANGED <<check, incident, request>>
    BY <2>2 DEF IncidentInv, Opening, Visible
  <2>3. QED
    BY <1>2, <2>1, <2>2 DEF Environment, AgeOut, DeleteDependency
<1>3. CASE UNCHANGED vars
  BY <1>3 DEF vars, IncidentInv, Opening, Visible
<1>4. QED
  BY <1>1, <1>2, <1>3, StepGroups, IncidentApply, IncidentEnd

\* The incidents a dependency can show.
THEOREM IncidentsConsistent == Spec => []IncidentInv
<1>1. Init => IncidentInv
  BY DEF Init, IdleTx, NoRow, NoRequest, IncidentInv, Opening, Visible
<1>2. CoreInv /\ IncidentInv /\ [Next]_vars => IncidentInv'
  BY IncidentStep
<1>3. QED
  BY <1>1, <1>2, LocksAndRows, PTL DEF Spec

\* However checks open incidents and users reopen them, at most one is open.
THEOREM AtMostOneOpenIncident == Spec => []OneOpenIncident
<1>1. IncidentInv => OneOpenIncident
  BY DEF IncidentInv, OneOpenIncident, OpenIncidents
<1>2. QED
  BY <1>1, IncidentsConsistent, PTL

----------------------------------------------------------------------------
(* Evidence and recovery *)

\* resolve_incident hands evidence over before its row can be seen resolved.
LEMMA EvidenceStep ==
  ASSUME CoreInv, IncidentInv, EvidenceInv, [Next]_vars
  PROVE  EvidenceInv'
<1> USE DEF EvidenceInv, EvidenceFollowsResolution
<1>1. ASSUME NEW w \in Workers,
             \/ StartCheck(w)
             \/ \E r \in Regions, up, blocked \in BOOLEAN : InsertResult(w, r, up, blocked)
             \/ EvaluateFailure(w) \/ EvaluateSuccess(w)
      PROVE  EvidenceInv'
  <2>1. PICK tx : check' = [check EXCEPT ![w] = tx] /\ tx.pc # "applied"
    BY <1>1, QuietStep
  <2>2. check'[w] = tx /\ \A v \in Workers \ {w} : check'[v] = check[v]
    BY <2>1, OthersKeep DEF CoreInv
  <2>3. QED
    BY <1>1, <2>1, <2>2, QuietStep
<1>2. ASSUME NEW w \in Workers, ApplyNothing(w) \/ ApplyOpen(w) \/ ApplyResolve(w)
      PROVE  EvidenceInv'
  <2>1. PICK tx : check' = [check EXCEPT ![w] = tx] /\ Written(w, tx) /\ Effects(w, tx)
    BY <1>2, ApplyWrites
  <2>2. check'[w] = tx /\ \A v \in Workers \ {w} : check'[v] = check[v]
    BY <2>1, OthersKeep DEF CoreInv
  <2>3. \A i \in Incidents : incident'[i].status = "resolved" => incident[i].status = "resolved"
    BY <2>1 DEF Effects, NewIncident, NoRow, CoreInv, TypeOK
  <2>4. QED
    BY <2>1, <2>2, <2>3 DEF Effects
<1>3. ASSUME NEW w \in Workers, CommitCheck(w) \/ AbortCheck(w) \/ CancelDeadlocked(w)
      PROVE  EvidenceInv'
  <2>1. check' = [check EXCEPT ![w] = IdleTx] /\ evidence' = evidence
    BY <1>3 DEF CommitCheck, AbortCheck, CancelDeadlocked, Rollback
  <2>2. check'[w] = IdleTx /\ \A v \in Workers \ {w} : check'[v] = check[v]
    BY <2>1, OthersKeep DEF CoreInv
  <2>3. \A i \in Incidents : incident'[i].status = "resolved" =>
          incident[i].status = "resolved" \/ Recovered(w, i)
    BY <1>3, EndWrites DEF Untouched, Opened, NoRow
  <2>4. QED
    BY <2>1, <2>2, <2>3 DEF Recovered, IdleTx
<1>4. CASE Environment
  <2>1. ASSUME NEW u \in Users, RequestStep(u) PROVE EvidenceInv'
    BY <2>1, RequestWrites
  <2>2. CASE UNCHANGED <<check, incident, evidence>>
    BY <2>2
  <2>3. QED
    BY <1>4, <2>1, <2>2 DEF Environment, AgeOut, DeleteDependency
<1>5. CASE UNCHANGED vars
  BY <1>5 DEF vars
<1>6. QED
  BY <1>1, <1>2, <1>3, <1>4, <1>5, StepGroups

\* Whoever resolves an incident, evidence has been handed to Celery before.
THEOREM EvidenceIsHandedOver == Spec => []EvidenceFollowsResolution
<1>1. Init => EvidenceInv
  BY DEF Init, IdleTx, NoRow, EvidenceInv, EvidenceFollowsResolution
<1>2. CoreInv /\ IncidentInv /\ EvidenceInv /\ [Next]_vars => EvidenceInv'
  BY EvidenceStep
<1>3. EvidenceInv => EvidenceFollowsResolution
  BY DEF EvidenceInv
<1>4. QED
  BY <1>1, <1>2, <1>3, LocksAndRows, IncidentsConsistent, PTL DEF Spec

\* While a check holds FOR UPDATE no other check can resolve the incident it
\* has decided to resolve; users leave their own name on it.
LEMMA RecoveryStep ==
  ASSUME CoreInv, IncidentInv, RecoveryInv, [Next]_vars
  PROVE  /\ RecoveryInv'
         /\ \A i \in Incidents :
              incident'[i].cure # incident[i].cure =>
                ~(incident[i].status = "resolved" /\ incident[i].closer = "check")
<1> DEFINE Same(i) == incident'[i].cure # incident[i].cure =>
                        ~(incident[i].status = "resolved" /\ incident[i].closer = "check")
<1>1. ASSUME NEW w \in Workers,
             \/ StartCheck(w)
             \/ \E r \in Regions, up, blocked \in BOOLEAN : InsertResult(w, r, up, blocked)
             \/ EvaluateFailure(w) \/ EvaluateSuccess(w)
      PROVE  RecoveryInv' /\ \A i \in Incidents : Same(i)
  <2>1. PICK tx : /\ check' = [check EXCEPT ![w] = tx]
                  /\ tx.plan # "nothing" => Decided(w, tx)
    BY <1>1, QuietStep
  <2>2. check'[w] = tx /\ \A v \in Workers \ {w} : check'[v] = check[v]
    BY <2>1, OthersKeep DEF CoreInv
  <2>3. incident' = incident
    BY <1>1, QuietStep
  <2>4. tx.plan = "resolve" => incident[tx.target].status = "open"
    BY <2>1 DEF Decided, OpenIncidents
  <2>5. QED
    BY <2>2, <2>3, <2>4 DEF RecoveryInv
<1>2. ASSUME NEW w \in Workers, ApplyNothing(w) \/ ApplyOpen(w) \/ ApplyResolve(w)
      PROVE  RecoveryInv' /\ \A i \in Incidents : Same(i)
  <2>1. PICK tx : check' = [check EXCEPT ![w] = tx] /\ Written(w, tx) /\ Effects(w, tx)
    BY <1>2, ApplyWrites
  <2>2. check'[w] = tx /\ \A v \in Workers \ {w} : check'[v] = check[v]
    BY <2>1, OthersKeep DEF CoreInv
  <2>3. \A i \in Incidents :
          \/ incident'[i] = incident[i]
          \/ incident[i].status = "none" /\ incident'[i].status = "opening"
    <3>1. NewIncident(w).status = "opening" /\ incident \in [Incidents -> IncidentRow]
      BY DEF NewIncident, NoRow, CoreInv, TypeOK
    <3>2. \A i \in Incidents : incident'[i] = IF tx.plan = "open" /\ i = tx.target
                                              THEN NewIncident(w) ELSE incident[i]
      BY <2>1, <3>1 DEF Effects
    <3>3. tx.plan = "open" => incident[tx.target].status = "none"
      BY <2>1 DEF Written
    <3>4. QED
      BY <3>1, <3>2, <3>3
  <2>4. \A v \in Workers : check'[v].plan = "resolve" =>
          check[v].plan = "resolve" /\ check'[v].target = check[v].target
    BY <2>1, <2>2 DEF Written
  <2>5. QED
    BY <2>3, <2>4 DEF RecoveryInv, CoreInv, PlanOK
<1>3. ASSUME NEW w \in Workers, CommitCheck(w) \/ AbortCheck(w) \/ CancelDeadlocked(w)
      PROVE  RecoveryInv' /\ \A i \in Incidents : Same(i)
  <2>1. check' = [check EXCEPT ![w] = IdleTx]
    BY <1>3 DEF CommitCheck, AbortCheck, CancelDeadlocked, Rollback
  <2>2. check'[w] = IdleTx /\ \A v \in Workers \ {w} : check'[v] = check[v]
    BY <2>1, OthersKeep DEF CoreInv
  <2>3. \A i \in Incidents : Same(i)
    BY <1>3, EndWrites DEF Untouched, Opened, Recovered, RecoveryInv
  <2>4. ASSUME NEW v \in Workers \ {w}, check[v].plan = "resolve"
        PROVE  incident'[check[v].target] = incident[check[v].target]
    <3>1. HoldsForUpdate(v) /\ ~HoldsForUpdate(w) /\ check[v].target \in Incidents
      BY <2>4 DEF CoreInv, PlanOK, LocksOK, HoldsForUpdate, HoldsKeyShare
    <3>2. \A i \in Incidents : ~Opened(w, i) /\ ~Recovered(w, i)
      BY <3>1 DEF Opened, Opening, Recovered, HoldsForUpdate
    <3>3. QED
      BY <1>3, <3>1, <3>2, EndWrites DEF Untouched
  <2>5. QED
    BY <2>2, <2>3, <2>4 DEF RecoveryInv, IdleTx
<1>4. CASE Environment
  <2>1. ASSUME NEW u \in Users, RequestStep(u) PROVE RecoveryInv' /\ \A i \in Incidents : Same(i)
    <3>1. check' = check
      BY <2>1, RequestWrites
    <3>2. \A i \in Incidents :
            \/ incident'[i] = incident[i]
            \/ incident'[i].closer = "user" /\ incident'[i].cure = incident[i].cure
      BY <2>1, RequestWrites
    <3>3. QED
      BY <3>1, <3>2 DEF RecoveryInv, CoreInv, PlanOK
  <2>2. CASE UNCHANGED <<check, incident>>
    BY <2>2 DEF RecoveryInv
  <2>3. QED
    BY <1>4, <2>1, <2>2 DEF Environment, AgeOut, DeleteDependency
<1>5. CASE UNCHANGED vars
  BY <1>5 DEF vars, RecoveryInv
<1>6. QED
  BY <1>1, <1>2, <1>3, <1>4, <1>5, StepGroups

\* Concurrent recovery checks never resolve the same incident twice.
THEOREM RecoversOnce == Spec => RecoveredOnce
<1>1. Init => RecoveryInv
  BY DEF Init, IdleTx, RecoveryInv
<1>2. CoreInv /\ IncidentInv /\ RecoveryInv /\ [Next]_vars =>
        /\ RecoveryInv'
        /\ [\A i \in Incidents :
              incident'[i].cure # incident[i].cure =>
                ~(incident[i].status = "resolved" /\ incident[i].closer = "check")]_vars
  BY RecoveryStep
<1>3. QED
  BY <1>1, <1>2, LocksAndRows, IncidentsConsistent, PTL DEF Spec, RecoveredOnce

----------------------------------------------------------------------------
(* Verdicts *)

\* A verdict outlives a change of the table that keeps its rows, and the
\* commit of the check that reached it.
LEMMA RestsOnFrame ==
  ASSUME NEW rows, NEW next, NEW S, NEW s, NEW z, NEW up, RestsOn(rows, S, s, up),
         \A t \in S : /\ next[t].up = rows[t].up
                      /\ next[t].region = rows[t].region
                      /\ t = z \/ next[t].state \in {"committed", "old"}
  PROVE  RestsOn(next, S, z, up)
<1>1. {next[t].region : t \in S} = {rows[t].region : t \in S}
  OBVIOUS
<1>2. QED
  BY <1>1 DEF RestsOn

\* Row t keeps what a verdict counted, and stays committed.
RowKept(t) ==
  /\ result'[t].up = result[t].up
  /\ result'[t].region = result[t].region
  /\ result[t].state \in {"committed", "old"} => result'[t].state \in {"committed", "old"}

\* Nobody changes a committed row, or the row of another check.
LEMMA RowsKept ==
  ASSUME CoreInv, [Next]_vars
  PROVE  /\ \A t \in Slots : result[t].state \in {"committed", "old"} => RowKept(t)
         /\ \A v \in Workers :
              HoldsKeyShare(v) /\ (HoldsKeyShare(v))' => RowKept(check[v].slot)
<1> USE DEF RowKept
<1>1. result \in [Slots -> ResultRow] /\ check \in [Workers -> CheckTx]
  BY DEF CoreInv, TypeOK
<1>2. \A v \in Workers : HoldsKeyShare(v) =>
        check[v].slot \in Slots /\ check[v].slot <= last /\ result[check[v].slot].state = "open"
  BY DEF CoreInv, SlotsOK, SlotOK
<1>3. CASE result' = result
  BY <1>3
<1>4. ASSUME NEW w \in Workers, NEW r \in Regions, NEW up \in BOOLEAN, NEW blocked \in BOOLEAN,
             InsertResult(w, r, up, blocked)
      PROVE  \A t \in Slots : result[t].state # "none" => RowKept(t)
  <2>1. last + 1 \in Slots /\ last + 1 > last
    BY <1>4, ConstantsAssumption DEF InsertResult, CoreInv, TypeOK, Slots
  <2>2. result[last + 1].state = "none"
    BY <2>1 DEF CoreInv, SlotsOK
  <2>3. \A t \in Slots \ {last + 1} : result'[t] = result[t]
    BY <1>1, <1>4 DEF InsertResult
  <2>4. QED
    BY <2>2, <2>3
<1>5. ASSUME NEW w \in Workers, EvaluateFailure(w)
      PROVE  \A t \in Slots : RowKept(t)
  <2> DEFINE q == IsQuorum(Failing(w))
  <2>1. result' = [result EXCEPT ![check[w].slot].quorum = q]
    BY <1>5 DEF EvaluateFailure
  <2> HIDE DEF q
  <2>2. QED
    BY <1>1, <2>1 DEF ResultRow
<1>6. ASSUME NEW w \in Workers, CommitCheck(w) \/ AbortCheck(w) \/ CancelDeadlocked(w)
      PROVE  /\ \A t \in Slots : t # check[w].slot => RowKept(t)
             /\ check[w].slot \in Slots => result[check[w].slot].state = "open"
             /\ \A v \in Workers : HoldsKeyShare(v) /\ (HoldsKeyShare(v))' =>
                                     check[v].slot # check[w].slot
  <2>1. check' = [check EXCEPT ![w] = IdleTx]
    BY <1>6 DEF CommitCheck, AbortCheck, CancelDeadlocked, Rollback
  <2>2. check'[w] = IdleTx
    BY <1>1, <2>1
  <2>3. ~(HoldsKeyShare(w))'
    BY <2>2 DEF HoldsKeyShare, IdleTx
  <2>4. ~HoldsKeyShare(w) => check[w].slot = 0
    BY DEF CoreInv, SlotsOK, SlotOK
  <2>5. \A t \in Slots : t # check[w].slot => result'[t] = result[t]
    BY <1>1, <1>6 DEF CommitCheck, AbortCheck, CancelDeadlocked, Rollback
  <2>6. \A v \in Workers : HoldsKeyShare(v) /\ (HoldsKeyShare(v))' =>
                             check[v].slot # check[w].slot
    <3>1. \A v \in Workers \ {w} : HoldsKeyShare(v) => check[v].slot # check[w].slot
      BY <1>2, <2>4 DEF CoreInv, SlotsOK, Slots
    <3>2. QED
      BY <2>3, <3>1
  <2>7. QED
    BY <1>2, <2>4, <2>5, <2>6 DEF Slots
<1>7. ASSUME NEW s \in Slots, AgeOut(s)
      PROVE  \A t \in Slots : RowKept(t)
  BY <1>1, <1>7 DEF AgeOut, ResultRow
<1>8. CASE Environment
  <2>1. (\E s \in Slots : AgeOut(s)) \/ result' = result
    BY <1>8 DEF Environment, RequestStep, ReadIncident, PatchNothing, PatchStatus, PatchResolve,
       DeleteDependency
  <2>2. QED
    BY <1>2, <1>3, <1>7, <2>1
<1>9. ASSUME NEW w \in Workers, \/ StartCheck(w) \/ EvaluateSuccess(w)
                                \/ ApplyNothing(w) \/ ApplyOpen(w) \/ ApplyResolve(w)
      PROVE  result' = result
  BY <1>9 DEF StartCheck, EvaluateSuccess, ApplyNothing, ApplyOpen, ApplyResolve
<1>10. CASE UNCHANGED vars
  BY <1>3, <1>10 DEF vars
<1>11. ASSUME NEW w \in Workers, CommitCheck(w) \/ AbortCheck(w) \/ CancelDeadlocked(w)
       PROVE  /\ \A t \in Slots : result[t].state \in {"committed", "old"} => RowKept(t)
              /\ \A v \in Workers :
                   HoldsKeyShare(v) /\ (HoldsKeyShare(v))' => RowKept(check[v].slot)
  <2>1. \A t \in Slots : result[t].state \in {"committed", "old"} => t # check[w].slot
    BY <1>6, <1>11
  <2>2. QED
    BY <1>2, <1>6, <1>11, <2>1
<1>12. QED
  BY <1>2, <1>3, <1>4, <1>5, <1>8, <1>9, <1>10, <1>11, StepGroups

\* What the tables prove stays proved; so does the verdict of a check that
\* keeps its lock.
LEMMA VerdictsKept ==
  ASSUME CoreInv, [Next]_vars
  PROVE  /\ \A S \in SUBSET Slots, up \in BOOLEAN :
              RestsOn(result, S, 0, up) => RestsOn(result', S, 0, up)
         /\ \A v \in Workers, S \in SUBSET Slots, up \in BOOLEAN :
              /\ HoldsKeyShare(v) /\ (HoldsKeyShare(v))'
              /\ RestsOn(result, S, check[v].slot, up)
              => RestsOn(result', S, check[v].slot, up)
<1>1. ASSUME NEW S \in SUBSET Slots, NEW up \in BOOLEAN, RestsOn(result, S, 0, up)
      PROVE  RestsOn(result', S, 0, up)
  <2>1. \A t \in S : result[t].state \in {"committed", "old"}
    BY <1>1 DEF RestsOn, Slots
  <2>2. \A t \in S : RowKept(t)
    BY <2>1, RowsKept
  <2>3. QED
    BY <1>1, <2>1, <2>2, RestsOnFrame DEF RowKept
<1>2. ASSUME NEW v \in Workers, NEW S \in SUBSET Slots, NEW up \in BOOLEAN,
             HoldsKeyShare(v), (HoldsKeyShare(v))', RestsOn(result, S, check[v].slot, up)
      PROVE  RestsOn(result', S, check[v].slot, up)
  <2>1. \A t \in S : t = check[v].slot \/ result[t].state \in {"committed", "old"}
    BY <1>2 DEF RestsOn
  <2>2. \A t \in S : RowKept(t)
    BY <1>2, <2>1, RowsKept
  <2>3. QED
    BY <1>2, <2>1, <2>2, RestsOnFrame DEF RowKept
<1>3. QED
  BY <1>1, <1>2

\* The evaluation counts committed rows and the row of its own check.
LEMMA DecisionRests ==
  ASSUME CoreInv, NEW w \in Workers, NEW tx, Decided(w, tx), HoldsKeyShare(w)
  PROVE  /\ tx.plan = "open" => RestsOn(result, tx.basis, tx.slot, FALSE)
         /\ tx.plan = "resolve" => RestsOn(result, tx.basis, tx.slot, TRUE)
<1>1. \A s \in Slots : result[s].up \in BOOLEAN
  BY DEF CoreInv, TypeOK, ResultRow
<1>2. check[w].slot \in Slots /\ tx.slot = check[w].slot
  BY DEF CoreInv, SlotsOK, SlotOK, Decided
<1>3. Recent(w) \subseteq Slots
      /\ \A s \in Recent(w) : s = tx.slot \/ result[s].state \in {"committed", "old"}
  BY <1>2 DEF Recent
<1>4. CASE tx.plan = "open"
  <2>1. tx.basis = Failing(w) /\ IsQuorum(Failing(w)) /\ ~result[tx.slot].up
    BY <1>4 DEF Decided
  <2>2. \A s \in Failing(w) : /\ result[s].up = FALSE
                              /\ s = tx.slot \/ result[s].state \in {"committed", "old"}
    BY <1>1, <1>2, <1>3, <2>1 DEF Failing
  <2>3. QED
    BY <1>4, <2>1, <2>2 DEF RestsOn, IsQuorum, RegionsOf
<1>5. CASE tx.plan = "resolve"
  <2>1. tx.basis = Succeeding(w) /\ IsQuorum(Succeeding(w)) /\ result[tx.slot].up
    BY <1>5 DEF Decided
  <2>2. \A s \in Succeeding(w) : /\ result[s].up = TRUE
                                 /\ s = tx.slot \/ result[s].state \in {"committed", "old"}
    BY <1>1, <1>2, <1>3, <2>1 DEF Succeeding, Newest
  <2>3. QED
    BY <1>5, <2>1, <2>2 DEF RestsOn, IsQuorum, RegionsOf
<1>6. QED
  BY <1>4, <1>5

\* The verdict of a transaction that commits needs no exception for its own row.
LEMMA CommitRests ==
  ASSUME CoreInv, NEW w \in Workers, CommitCheck(w), NEW up \in BOOLEAN,
         RestsOn(result, check[w].basis, check[w].slot, up)
  PROVE  RestsOn(result', check[w].basis, 0, up)
<1> DEFINE own == check[w].slot
<1>1. result' = [result EXCEPT ![own].state = "committed"]
      /\ result \in [Slots -> ResultRow] /\ check[w].basis \subseteq Slots
  BY DEF CommitCheck, CoreInv, TypeOK, CheckTx
<1>2. \A t \in check[w].basis :
        /\ result'[t].up = result[t].up
        /\ result'[t].region = result[t].region
        /\ result'[t].state \in {"committed", "old"}
  BY <1>1 DEF RestsOn, ResultRow
<1>3. QED
  BY <1>2, RestsOnFrame

\* A check that keeps its transaction keeps its verdict.
LEMMA PlanKept ==
  ASSUME CoreInv, CoreInv', PlansRest, [Next]_vars, NEW v \in Workers,
         check'[v].plan # "nothing" =>
           /\ check[v].plan = check'[v].plan
           /\ check[v].slot = check'[v].slot
           /\ check[v].basis = check'[v].basis
  PROVE  /\ check'[v].plan = "open" =>
              RestsOn(result', check'[v].basis, check'[v].slot, FALSE)
         /\ check'[v].plan = "resolve" =>
              RestsOn(result', check'[v].basis, check'[v].slot, TRUE)
<1>1. check'[v].plan # "nothing" =>
        HoldsKeyShare(v) /\ (HoldsKeyShare(v))' /\ check[v].basis \in SUBSET Slots
  BY DEF CoreInv, TypeOK, CheckTx, PlanOK, HoldsForUpdate, HoldsKeyShare
<1>2. QED
  BY <1>1, VerdictsKept DEF PlansRest

\* Incidents that a step leaves alone, or changes as a user does.
LEMMA IncidentKept ==
  ASSUME CoreInv, IncidentsRest, [Next]_vars, NEW i \in Incidents,
         incident'[i].status \notin {"none", "opening"} => Visible(i),
         Visible(i) => incident'[i].cause = incident[i].cause,
         incident'[i].closer = "check" =>
           incident[i].closer = "check" /\ incident'[i].cure = incident[i].cure
  PROVE  /\ incident'[i].status \notin {"none", "opening"} =>
              RestsOn(result', incident'[i].cause, 0, FALSE)
         /\ incident'[i].closer = "check" => RestsOn(result', incident'[i].cure, 0, TRUE)
<1>1. incident[i].cause \in SUBSET Slots /\ incident[i].cure \in SUBSET Slots
  BY DEF CoreInv, TypeOK, IncidentRow
<1>2. QED
  BY <1>1, VerdictsKept DEF IncidentsRest

\* The same for a step that changes no incident.
LEMMA IncidentsKept ==
  ASSUME CoreInv, IncidentsRest, [Next]_vars, incident' = incident,
         \A v \in Workers, i \in Incidents :
           Opening(v, i)' => Opening(v, i) /\ check'[v].basis = check[v].basis
  PROVE  IncidentsRest'
<1>1. ASSUME NEW i \in Incidents
      PROVE  /\ incident'[i].status \notin {"none", "opening"} =>
                  RestsOn(result', incident'[i].cause, 0, FALSE)
             /\ incident'[i].closer = "check" => RestsOn(result', incident'[i].cure, 0, TRUE)
  BY IncidentKept DEF Visible
<1>2. \A v \in Workers, i \in Incidents : Opening(v, i)' => incident'[i].cause = check'[v].basis
  BY DEF IncidentsRest
<1>3. QED
  BY <1>1, <1>2 DEF IncidentsRest, Visible

\* Verdicts rest on two regions at every step: of the check that decides, of
\* the check that commits, of the others and of the environment.
LEMMA VerdictStep ==
  ASSUME CoreInv, CoreInv', IncidentInv, VerdictInv, [Next]_vars
  PROVE  VerdictInv'
<1> USE DEF VerdictInv
<1>1. ASSUME NEW w \in Workers,
             \/ StartCheck(w)
             \/ \E r \in Regions, up, blocked \in BOOLEAN : InsertResult(w, r, up, blocked)
             \/ EvaluateFailure(w) \/ EvaluateSuccess(w)
      PROVE  VerdictInv'
  <2>1. PICK tx : /\ check' = [check EXCEPT ![w] = tx]
                  /\ tx.pc # "applied"
                  /\ tx.plan # "nothing" => HoldsKeyShare(w) /\ Decided(w, tx)
    BY <1>1, QuietStep
  <2>2. check'[w] = tx /\ \A v \in Workers \ {w} : check'[v] = check[v]
    BY <2>1, OthersKeep DEF CoreInv
  <2>3. incident' = incident /\ check[w].pc # "applied"
    BY <1>1, QuietStep
  <2>4. tx.plan # "nothing" =>
          HoldsKeyShare(w) /\ (HoldsKeyShare(w))' /\ tx.slot = check[w].slot
          /\ tx.basis \in SUBSET Slots
    BY <2>1, <2>2 DEF Decided, CheckTx, HoldsKeyShare
  <2>5. /\ tx.plan = "open" => RestsOn(result', tx.basis, tx.slot, FALSE)
        /\ tx.plan = "resolve" => RestsOn(result', tx.basis, tx.slot, TRUE)
    BY <2>1, <2>4, DecisionRests, VerdictsKept
  <2>6. PlansRest'
    BY <2>2, <2>5, PlanKept DEF PlansRest
  <2>7. \A v \in Workers, i \in Incidents : Opening(v, i)' => v # w /\ Opening(v, i)
    BY <2>1, <2>2 DEF Opening
  <2>8. IncidentsRest'
    BY <2>2, <2>3, <2>7, IncidentsKept
  <2>9. QED
    BY <2>6, <2>8
<1>2. ASSUME NEW w \in Workers, ApplyNothing(w) \/ ApplyOpen(w) \/ ApplyResolve(w)
      PROVE  VerdictInv'
  <2>1. PICK tx : check' = [check EXCEPT ![w] = tx] /\ Written(w, tx) /\ Effects(w, tx)
    BY <1>2, ApplyWrites
  <2>2. check'[w] = tx /\ \A v \in Workers \ {w} : check'[v] = check[v]
    BY <2>1, OthersKeep DEF CoreInv
  <2>3. tx.slot = check[w].slot /\ tx.basis = check[w].basis /\ tx.plan \in {"nothing", check[w].plan}
    BY <2>1 DEF Written, CheckTx
  <2>4. PlansRest'
    BY <2>2, <2>3, PlanKept DEF PlansRest
  <2>5. HoldsForUpdate(w) /\ check[w].pc = "evaluated"
    BY <1>2 DEF ApplyNothing, ApplyOpen, ApplyResolve, HoldsForUpdate
  <2>6. \A v \in Workers, i \in Incidents : Opening(v, i)' => v = w /\ tx.plan = "open" /\ i = tx.target
    BY <2>2, <2>5 DEF Opening, CoreInv, LocksOK, HoldsForUpdate, HoldsKeyShare
  <2>7. /\ NewIncident(w).status = "opening" /\ NewIncident(w).closer = "nobody"
        /\ NewIncident(w).cause = check[w].basis
    BY DEF NewIncident, NoRow
  <2>8. \A i \in Incidents : incident'[i] = IF tx.plan = "open" /\ i = tx.target
                                            THEN NewIncident(w) ELSE incident[i]
    BY <2>1 DEF Effects, CoreInv, TypeOK
  <2>9. tx.plan = "open" => ~Visible(tx.target)
    BY <2>1 DEF Written, Visible
  <2>10. ASSUME NEW i \in Incidents
         PROVE  /\ incident'[i].status \notin {"none", "opening"} =>
                     RestsOn(result', incident'[i].cause, 0, FALSE)
                /\ incident'[i].closer = "check" => RestsOn(result', incident'[i].cure, 0, TRUE)
    BY <2>7, <2>8, <2>9, IncidentKept DEF Visible
  <2>11. IncidentsRest'
    BY <2>2, <2>3, <2>6, <2>7, <2>8, <2>10 DEF IncidentsRest, Visible
  <2>12. QED
    BY <2>4, <2>11
<1>3. ASSUME NEW w \in Workers, CommitCheck(w) \/ AbortCheck(w) \/ CancelDeadlocked(w)
      PROVE  VerdictInv'
  <2>1. check' = [check EXCEPT ![w] = IdleTx]
    BY <1>3 DEF CommitCheck, AbortCheck, CancelDeadlocked, Rollback
  <2>2. check'[w] = IdleTx /\ \A v \in Workers \ {w} : check'[v] = check[v]
    BY <2>1, OthersKeep DEF CoreInv
  <2>3. IdleTx.plan = "nothing" /\ IdleTx.pc = "idle"
    BY DEF IdleTx
  <2>4. PlansRest'
    BY <2>2, <2>3, PlanKept DEF PlansRest
  <2>5. ASSUME NEW i \in Incidents
        PROVE  /\ incident'[i].status \notin {"none", "opening"} =>
                    RestsOn(result', incident'[i].cause, 0, FALSE)
               /\ incident'[i].closer = "check" => RestsOn(result', incident'[i].cure, 0, TRUE)
    <3>1. CASE Untouched(w, i)
      BY <3>1, IncidentKept DEF Untouched, Visible
    <3>2. CASE Opened(w, i)
      <4>1. CASE incident'[i] = NoRow
        BY <4>1 DEF NoRow
      <4>2. CASE CommitCheck(w) /\ incident'[i].cause = incident[i].cause
                 /\ incident'[i].closer = incident[i].closer /\ incident'[i].cure = incident[i].cure
        <5>1. incident[i].cause = check[w].basis
          BY <3>2 DEF Opened, IncidentsRest
        <5>2. RestsOn(result, check[w].basis, check[w].slot, FALSE)
          BY <3>2 DEF Opened, Opening, PlansRest
        <5>3. RestsOn(result', check[w].basis, 0, FALSE)
          BY <4>2, <5>2, CommitRests
        <5>4. incident[i].closer = "check" => RestsOn(result', incident[i].cure, 0, TRUE)
          BY VerdictsKept DEF IncidentsRest, CoreInv, TypeOK, IncidentRow
        <5>5. QED
          BY <4>2, <5>1, <5>3, <5>4
      <4>3. QED
        BY <3>2, <4>1, <4>2 DEF Opened
    <3>3. CASE Recovered(w, i)
      <4>1. RestsOn(result', check[w].basis, 0, TRUE)
        BY <3>3, CommitRests DEF Recovered, PlansRest
      <4>2. RestsOn(result', incident[i].cause, 0, FALSE)
        BY <3>3, VerdictsKept DEF Recovered, IncidentsRest, CoreInv, TypeOK, IncidentRow
      <4>3. QED
        BY <3>3, <4>1, <4>2 DEF Recovered
    <3>4. QED
      BY <1>3, <3>1, <3>2, <3>3, EndWrites
  <2>6. ASSUME NEW v \in Workers, NEW i \in Incidents, Opening(v, i)'
        PROVE  incident'[i].cause = check'[v].basis
    <3>1. v # w /\ Opening(v, i) /\ check'[v] = check[v]
      BY <2>2, <2>3, <2>6 DEF Opening
    <3>2. ~HoldsForUpdate(w)
      BY <3>1 DEF Opening, CoreInv, LocksOK, HoldsForUpdate, HoldsKeyShare
    <3>3. Untouched(w, i)
      BY <1>3, <3>2, EndWrites DEF Opened, Opening, Recovered, HoldsForUpdate
    <3>4. QED
      BY <3>1, <3>3 DEF Untouched, IncidentsRest
  <2>7. IncidentsRest'
    BY <2>5, <2>6 DEF IncidentsRest, Visible
  <2>8. QED
    BY <2>4, <2>7
<1>4. CASE Environment
  <2>1. check' = check
    BY <1>4 DEF Environment, RequestStep, ReadIncident, PatchNothing, PatchStatus, PatchResolve,
       AgeOut, DeleteDependency
  <2>2. PlansRest'
    BY <2>1, PlanKept DEF PlansRest
  <2>3. ASSUME NEW u \in Users, RequestStep(u) PROVE IncidentsRest'
    <3>1. \A i \in Incidents :
            \/ incident'[i] = incident[i]
            \/ /\ Visible(i) /\ incident'[i].closer = "user"
               /\ incident'[i].cause = incident[i].cause
      BY <2>3, RequestWrites
    <3>2. ASSUME NEW i \in Incidents
          PROVE  /\ incident'[i].status \notin {"none", "opening"} =>
                      RestsOn(result', incident'[i].cause, 0, FALSE)
                 /\ incident'[i].closer = "check" => RestsOn(result', incident'[i].cure, 0, TRUE)
      BY <3>1, IncidentKept DEF Visible
    <3>3. \A v \in Workers, i \in Incidents :
            Opening(v, i) => incident'[i].cause = incident[i].cause
      BY <3>1
    <3>4. QED
      BY <2>1, <3>2, <3>3 DEF IncidentsRest, Visible, Opening
  <2>4. CASE incident' = incident
    <3>1. \A v \in Workers, i \in Incidents :
            Opening(v, i)' => Opening(v, i) /\ check'[v].basis = check[v].basis
      BY <2>1 DEF Opening
    <3>2. QED
      BY <2>2, <2>4, <3>1, IncidentsKept
  <2>5. QED
    BY <1>4, <2>2, <2>3, <2>4 DEF Environment, AgeOut, DeleteDependency
<1>5. CASE UNCHANGED vars
  <2>1. UNCHANGED <<result, check, incident>>
    BY <1>5 DEF vars
  <2>2. PlansRest'
    BY <2>1, PlanKept DEF PlansRest
  <2>3. IncidentsRest'
    BY <2>1, IncidentsKept DEF Opening
  <2>4. QED
    BY <2>2, <2>3
<1>6. QED
  BY <1>1, <1>2, <1>3, <1>4, <1>5, StepGroups

\* Initially there is no verdict.
LEMMA VerdictInit == Init => VerdictInv
<1> SUFFICES ASSUME Init PROVE VerdictInv
  OBVIOUS
<1>1. \A v \in Workers : check[v].plan = "nothing" /\ check[v].pc = "idle"
  BY DEF Init, IdleTx
<1>2. \A i \in Incidents : incident[i].status = "none" /\ incident[i].closer = "nobody"
  BY DEF Init, NoRow
<1>3. PlansRest
  BY <1>1 DEF PlansRest
<1>4. IncidentsRest
  BY <1>1, <1>2 DEF IncidentsRest, Visible, Opening
<1>5. QED
  BY <1>3, <1>4 DEF VerdictInv

\* An incident is opened, and resolved by checks, because of committed results
\* of two regions.
THEOREM VerdictsRest == Spec => []VerdictsRestOnCommittedChecks
<1>1. Init => VerdictInv
  BY VerdictInit
<1>2. CoreInv /\ CoreInv' /\ IncidentInv /\ VerdictInv /\ [Next]_vars => VerdictInv'
  BY VerdictStep
<1>3. CoreInv /\ VerdictInv => VerdictsRestOnCommittedChecks
  <2> SUFFICES ASSUME CoreInv, VerdictInv PROVE VerdictsRestOnCommittedChecks
    OBVIOUS
  <2>1. ASSUME NEW S \in SUBSET Slots, NEW up \in BOOLEAN, RestsOn(result, S, 0, up)
        PROVE  IsQuorum(S) /\ \A s \in S : /\ result[s].up = up
                                           /\ result[s].state \in {"committed", "old"}
    BY <2>1 DEF RestsOn, IsQuorum, RegionsOf, Slots
  <2>2. \A i \in Incidents : incident[i].cause \in SUBSET Slots /\ incident[i].cure \in SUBSET Slots
    BY DEF CoreInv, TypeOK, IncidentRow
  <2>3. \A i \in Incidents : incident[i].status \notin {"none", "opening"} =>
          /\ IsQuorum(incident[i].cause)
          /\ \A s \in incident[i].cause :
               ~result[s].up /\ result[s].state \in {"committed", "old"}
    BY <2>1, <2>2 DEF VerdictInv, IncidentsRest, Visible
  <2>4. \A i \in Incidents : incident[i].closer = "check" =>
          /\ IsQuorum(incident[i].cure)
          /\ \A s \in incident[i].cure :
               result[s].up /\ result[s].state \in {"committed", "old"}
    BY <2>1, <2>2 DEF VerdictInv, IncidentsRest
  <2>5. QED
    BY <2>3, <2>4 DEF VerdictsRestOnCommittedChecks
<1>4. QED
  BY <1>1, <1>2, <1>3, LocksAndRows, IncidentsConsistent, PTL DEF Spec

----------------------------------------------------------------------------
(* The incident log *)

\* A check counts its own result and has named the incident it opens; what an
\* incident rests on is in the tables, and one that is not shown has not been recovered.
LogInv ==
  /\ \A w \in Workers :
       /\ check[w].plan # "nothing" => check[w].slot \in check[w].basis
       /\ check[w].pc = "applied" /\ check[w].plan = "open" => check[w].target \in Incidents
  /\ \A i \in Incidents : /\ incident[i].cure \subseteq Recorded
                          /\ ~Visible(i) => incident[i].cure = {}

\* Initially there are no incidents.
LEMMA LogInit == Init => LogInv
BY DEF Init, IdleTx, NoRow, LogInv

\* Rows that are in the tables stay there as they are.
LEMMA OutcomesKept ==
  ASSUME CoreInv, [Next]_vars, NEW S, S \subseteq Recorded
  PROVE  S \subseteq Recorded' /\ Outcomes(S)' = Outcomes(S)
<1>1. \A s \in S : RowKept(s) /\ s \in Slots /\ result[s].state \in {"committed", "old"}
  BY RowsKept DEF Recorded
<1>2. \A s \in S : /\ result'[s].state \in {"committed", "old"}
                   /\ result'[s].region = result[s].region
                   /\ result'[s].up = result[s].up
  BY <1>1 DEF RowKept
<1>3. S \subseteq Recorded'
  BY <1>1, <1>2 DEF Recorded
<1>4. QED
  BY <1>2, <1>3 DEF Outcomes

\* Short of a commit nothing enters or leaves the tables of results.
LEMMA RecordedSame ==
  ASSUME CoreInv, [Next]_vars,
         \/ UNCHANGED result
         \/ \E s \in Slots : AgeOut(s)
         \/ \E w \in Workers :
              \/ \E r \in Regions, up, blocked \in BOOLEAN : InsertResult(w, r, up, blocked)
              \/ EvaluateFailure(w)
              \/ Rollback(w)
  PROVE  Recorded' = Recorded
<1>1. result \in [Slots -> ResultRow] /\ Recorded \subseteq Recorded'
  BY OutcomesKept DEF CoreInv, TypeOK
<1>2. ASSUME NEW s \in Slots, result'[s].state \in {"committed", "old"}
      PROVE  result[s].state \in {"committed", "old"}
  <2>1. CASE UNCHANGED result
    BY <1>2, <2>1
  <2>2. ASSUME NEW w \in Workers, NEW r \in Regions, NEW up \in BOOLEAN, NEW blocked \in BOOLEAN,
               InsertResult(w, r, up, blocked)
        PROVE  result[s].state \in {"committed", "old"}
    BY <1>1, <1>2, <2>2 DEF InsertResult
  <2>3. ASSUME NEW w \in Workers, EvaluateFailure(w)
        PROVE  result[s].state \in {"committed", "old"}
    BY <1>1, <1>2, <2>3 DEF EvaluateFailure, ResultRow
  <2>4. ASSUME NEW w \in Workers, Rollback(w)
        PROVE  result[s].state \in {"committed", "old"}
    BY <1>1, <1>2, <2>4 DEF Rollback, NoResult
  <2>5. ASSUME NEW t \in Slots, AgeOut(t)
        PROVE  result[s].state \in {"committed", "old"}
    BY <1>1, <1>2, <2>5 DEF AgeOut
  <2>6. QED
    BY <2>1, <2>2, <2>3, <2>4, <2>5
<1>3. QED
  BY <1>1, <1>2 DEF Recorded

\* What incidents rest on is in the tables.
LEMMA CausesRecorded ==
  ASSUME CoreInv, VerdictInv, LogInv, NEW i \in Incidents, Visible(i)
  PROVE  incident[i].cause \subseteq Recorded /\ incident[i].cure \subseteq Recorded
<1>1. incident[i].cause \subseteq Slots
  BY DEF CoreInv, TypeOK, IncidentRow
<1>2. \A t \in incident[i].cause : t = 0 \/ result[t].state \in {"committed", "old"}
  BY DEF VerdictInv, IncidentsRest, RestsOn
<1>3. QED
  BY <1>1, <1>2 DEF Recorded, Slots, LogInv

\* An incident that keeps its row, or is hidden before and after a step, is shown as before.
LEMMA ShownSame ==
  ASSUME CoreInv, VerdictInv, LogInv, [Next]_vars, NEW i \in Incidents,
         \/ incident'[i] = incident[i]
         \/ ~Visible(i) /\ ~Visible(i)'
  PROVE  Shown(i)' = Shown(i)
<1>1. CASE ~Visible(i)
  BY <1>1 DEF Visible, Shown
<1>2. CASE Visible(i)
  <2>1. incident'[i] = incident[i]
    BY <1>2
  <2>2. PICK C, D : C = incident[i].cause /\ D = incident[i].cure
    OBVIOUS
  <2>3. Outcomes(C)' = Outcomes(C) /\ Outcomes(D)' = Outcomes(D)
    BY <1>2, <2>2, CausesRecorded, OutcomesKept
  <2>4. incident'[i].cause = C /\ incident'[i].cure = D
    BY <2>1, <2>2
  <2>5. QED
    BY <1>2, <2>1, <2>2, <2>3, <2>4 DEF Shown, Visible, Outcomes
<1>3. QED
  BY <1>1, <1>2

\* The verdict of a check that commits, its own result included, is in the tables.
LEMMA BasisRecorded ==
  ASSUME CoreInv, CoreInv', VerdictInv, NEW w \in Workers, CommitCheck(w),
         check[w].plan # "nothing"
  PROVE  /\ check[w].basis \subseteq Recorded'
         /\ \A t \in check[w].basis : result'[t].up <=> check[w].plan = "resolve"
         /\ Cardinality({result'[t].region : t \in check[w].basis}) >= QUORUM_MIN_REGIONS
<1>1. check[w].plan \in {"open", "resolve"} /\ check[w].basis \subseteq Slots
  BY DEF CoreInv, TypeOK, CheckTx
<1>2. \E up \in BOOLEAN : /\ up <=> check[w].plan = "resolve"
                          /\ RestsOn(result, check[w].basis, check[w].slot, up)
  BY <1>1 DEF VerdictInv, PlansRest
<1>3. PICK up \in BOOLEAN : /\ up <=> check[w].plan = "resolve"
                            /\ RestsOn(result', check[w].basis, 0, up)
  BY <1>2, CommitRests
<1>4. \A t \in check[w].basis : result'[t].state \in {"committed", "old"} /\ result'[t].up = up
  BY <1>1, <1>3 DEF RestsOn, Slots
<1>5. QED
  BY <1>1, <1>3, <1>4 DEF Recorded, RestsOn

\* Recoveries keep on resting on rows that are in the tables.
LEMMA LogInvStep ==
  ASSUME CoreInv, CoreInv', IncidentInv, VerdictInv, LogInv, [Next]_vars
  PROVE  LogInv'
<1> DEFINE Kept(i) == /\ incident'[i].cure = {} \/ incident'[i].cure = incident[i].cure
                      /\ ~Visible(i)' => ~Visible(i) \/ incident'[i].cure = {}
           Counts == \A w \in Workers :
             /\ check'[w].plan # "nothing" => check'[w].slot \in check'[w].basis
             /\ check'[w].pc = "applied" /\ check'[w].plan = "open" => check'[w].target \in Incidents
<1>1. ASSUME \A i \in Incidents : Kept(i)
      PROVE  \A i \in Incidents : /\ incident'[i].cure \subseteq Recorded'
                                  /\ ~Visible(i)' => incident'[i].cure = {}
  BY <1>1, OutcomesKept DEF LogInv
<1>2. ASSUME NEW w \in Workers,
             \/ StartCheck(w)
             \/ \E r \in Regions, up, blocked \in BOOLEAN : InsertResult(w, r, up, blocked)
             \/ EvaluateFailure(w) \/ EvaluateSuccess(w)
      PROVE  LogInv'
  <2>1. PICK tx : /\ check' = [check EXCEPT ![w] = tx] /\ tx.pc # "applied"
                  /\ tx.plan # "nothing" => HoldsKeyShare(w) /\ Decided(w, tx)
    BY <1>2, QuietStep
  <2>2. check'[w] = tx /\ \A v \in Workers \ {w} : check'[v] = check[v]
    BY <2>1, OthersKeep DEF CoreInv
  <2>3. tx.plan # "nothing" => tx.slot \in tx.basis
    BY <2>1 DEF Decided, CheckTx, Failing, Succeeding
  <2>4. Counts
    BY <2>1, <2>2, <2>3 DEF LogInv
  <2>5. \A i \in Incidents : Kept(i)
    BY <1>2, QuietStep DEF Visible
  <2>6. QED
    BY <1>1, <2>4, <2>5 DEF LogInv, Visible
<1>3. ASSUME NEW w \in Workers, ApplyNothing(w) \/ ApplyOpen(w) \/ ApplyResolve(w)
      PROVE  LogInv'
  <2>1. PICK tx : check' = [check EXCEPT ![w] = tx] /\ Written(w, tx) /\ Effects(w, tx)
    BY <1>3, ApplyWrites
  <2>2. check'[w] = tx /\ \A v \in Workers \ {w} : check'[v] = check[v]
    BY <2>1, OthersKeep DEF CoreInv
  <2>3. tx.slot = check[w].slot /\ tx.basis = check[w].basis /\ tx.plan \in {"nothing", check[w].plan}
    BY <2>1 DEF Written, CheckTx
  <2>4. Counts
    BY <2>1, <2>2, <2>3 DEF LogInv, Written
  <2>5. NewIncident(w).cure = {}
    BY DEF NewIncident, NoRow
  <2>6. \A i \in Incidents : \/ incident'[i] = incident[i]
                             \/ incident'[i] = NewIncident(w)
    BY <2>1 DEF Effects, CoreInv, TypeOK
  <2>7. \A i \in Incidents : Kept(i)
    BY <2>5, <2>6 DEF Visible
  <2>8. QED
    BY <1>1, <2>4, <2>7 DEF LogInv, Visible
<1>4. ASSUME NEW w \in Workers, CommitCheck(w) \/ AbortCheck(w) \/ CancelDeadlocked(w)
      PROVE  LogInv'
  <2>1. check' = [check EXCEPT ![w] = IdleTx] /\ IdleTx.plan = "nothing"
    BY <1>4 DEF CommitCheck, AbortCheck, CancelDeadlocked, Rollback, IdleTx
  <2>2. check'[w] = IdleTx /\ \A v \in Workers \ {w} : check'[v] = check[v]
    BY <2>1, OthersKeep DEF CoreInv
  <2>3. Counts
    BY <2>1, <2>2 DEF LogInv
  <2>4. ASSUME NEW i \in Incidents
        PROVE  /\ incident'[i].cure \subseteq Recorded'
               /\ ~Visible(i)' => incident'[i].cure = {}
    <3>1. CASE Untouched(w, i)
      BY <3>1, OutcomesKept DEF Untouched, LogInv, Visible
    <3>2. CASE Opened(w, i)
      <4>1. incident[i].cure = {}
        BY <3>2 DEF Opened, LogInv, Visible
      <4>2. QED
        BY <3>2, <4>1 DEF Opened, NoRow
    <3>3. CASE Recovered(w, i)
      BY <3>3, BasisRecorded DEF Recovered, Visible
    <3>4. QED
      BY <1>4, <3>1, <3>2, <3>3, EndWrites
  <2>5. QED
    BY <2>3, <2>4 DEF LogInv, Visible
<1>5. CASE Environment
  <2>1. check' = check
    BY <1>5 DEF Environment, RequestStep, ReadIncident, PatchNothing, PatchStatus, PatchResolve,
       AgeOut, DeleteDependency
  <2>2. ASSUME NEW u \in Users, RequestStep(u) PROVE \A i \in Incidents : Kept(i)
    BY <2>2, RequestWrites DEF Visible
  <2>3. ASSUME incident' = incident PROVE \A i \in Incidents : Kept(i)
    BY <2>3 DEF Visible
  <2>4. incident' = incident \/ \E u \in Users : RequestStep(u)
    BY <1>5 DEF Environment, AgeOut, DeleteDependency
  <2> HIDE DEF Kept
  <2>5. \A i \in Incidents : Kept(i)
    BY <2>2, <2>3, <2>4
  <2> USE DEF Kept
  <2>6. QED
    BY <1>1, <2>1, <2>5 DEF LogInv, Visible
<1>6. CASE UNCHANGED vars
  <2>1. check' = check /\ \A i \in Incidents : Kept(i)
    BY <1>6 DEF vars, Visible
  <2>2. QED
    BY <1>1, <2>1 DEF LogInv, Visible
<1>7. QED
  BY <1>2, <1>3, <1>4, <1>5, <1>6, StepGroups

\* The tables of results change only when a check commits.
LEMMA OutcomesSame ==
  ASSUME CoreInv, [Next]_vars, Recorded' = Recorded
  PROVE  Outcomes(Recorded)' = Outcomes(Recorded)
<1>1. PICK R : R = Recorded
  OBVIOUS
<1>2. Outcomes(R)' = Outcomes(R)
  BY <1>1, OutcomesKept
<1>3. QED
  BY <1>1, <1>2 DEF Outcomes

\* A reader finds nothing changed.
LEMMA LogSame ==
  ASSUME CoreInv, VerdictInv, LogInv, [Next]_vars, Recorded' = Recorded, Tasks' = Tasks,
         \A i \in Incidents : incident'[i] = incident[i] \/ (~Visible(i) /\ ~Visible(i)')
  PROVE  UNCHANGED Log!vars
<1>1. \A i \in Incidents : Shown(i)' = Shown(i)
  BY ShownSame
<1>2. ShownIncidents' = ShownIncidents
  BY <1>1 DEF ShownIncidents
<1>3. QED
  BY <1>2, OutcomesSame DEF Log!vars

\* What the check of w records.
OutcomeOf(w) == [check |-> check[w].slot, region |-> result[check[w].slot].region,
                 up |-> result[check[w].slot].up]

\* A commit records the result of the check, and nothing else.
LEMMA CommitRecords ==
  ASSUME CoreInv, NEW w \in Workers, CommitCheck(w)
  PROVE  /\ OutcomeOf(w) \in Log!Outcome
         /\ Log!Record(OutcomeOf(w))
         /\ result'[check[w].slot].up = result[check[w].slot].up
         /\ result'[check[w].slot].region = result[check[w].slot].region
<1> DEFINE own == check[w].slot
<1>1. result' = [result EXCEPT ![own].state = "committed"] /\ HoldsKeyShare(w)
  BY DEF CommitCheck, HoldsKeyShare
<1>2. own \in Slots /\ result \in [Slots -> ResultRow] /\ result[own].state = "open"
  BY <1>1 DEF CoreInv, TypeOK, SlotsOK, SlotOK
<1>3. /\ result'[own].state = "committed" /\ result'[own].up = result[own].up
      /\ result'[own].region = result[own].region
      /\ \A s \in Slots \ {own} : result'[s] = result[s]
  BY <1>1, <1>2 DEF ResultRow
<1>4. Recorded' = Recorded \cup {own} /\ own \notin Recorded
  BY <1>2, <1>3 DEF Recorded
<1>5. Outcomes(Recorded)' = Outcomes(Recorded) \cup {OutcomeOf(w)}
  <2>1. \A s \in Recorded : /\ result'[s].region = result[s].region
                            /\ result'[s].up = result[s].up
    BY <1>3, <1>4 DEF Recorded
  <2>2. QED
    BY <1>3, <1>4, <2>1 DEF Outcomes, OutcomeOf
<1>6. \A q \in Outcomes(Recorded) : q.check # OutcomeOf(w).check
  BY <1>4 DEF Outcomes, OutcomeOf
<1>7. OutcomeOf(w) \in Log!Outcome
  BY <1>2 DEF OutcomeOf, Log!Outcome, ResultRow
<1>8. QED
  BY <1>3, <1>5, <1>6, <1>7 DEF Log!Record

\* A set with two members has one beside any given.
LEMMA AnotherMember ==
  ASSUME NEW T, NEW x \in T, Cardinality(T) >= 2
  PROVE  \E y \in T : y # x
<1> SUFFICES ASSUME T = {x} PROVE FALSE
  OBVIOUS
<1>1. Cardinality({x}) = 1
  BY FS_Singleton
<1>2. QED
  BY <1>1

\* The verdict of a check that commits is one of the log.
LEMMA CommitVerdict ==
  ASSUME CoreInv, CoreInv', VerdictInv, LogInv, [Next]_vars, NEW w \in Workers, CommitCheck(w),
         check[w].plan # "nothing", NEW B, B = check[w].basis
  PROVE  /\ Outcomes(B)' \subseteq Outcomes(Recorded)'
         /\ Log!Verdict(OutcomeOf(w), Outcomes(B)')
         /\ OutcomeOf(w).up <=> check[w].plan = "resolve"
<1> DEFINE own == check[w].slot
<1>1. /\ B \subseteq Recorded' /\ own \in B
      /\ \A t \in B : result'[t].up <=> check[w].plan = "resolve"
      /\ Cardinality({result'[t].region : t \in B}) >= QUORUM_MIN_REGIONS
  BY BasisRecorded DEF LogInv
<1>2. \A t \in B : result'[t].up \in BOOLEAN
  BY <1>1 DEF CoreInv, TypeOK, ResultRow, Recorded
<1>3. /\ OutcomeOf(w) = [check |-> own, region |-> result'[own].region, up |-> result'[own].up]
      /\ OutcomeOf(w).up = result'[own].up /\ OutcomeOf(w).region = result'[own].region
  BY CommitRecords DEF OutcomeOf
<1>4. Outcomes(B)' \subseteq Outcomes(Recorded)'
  BY <1>1 DEF Outcomes
<1>5. OutcomeOf(w) \in Outcomes(B)'
  BY <1>1, <1>3 DEF Outcomes
<1>6. \A q \in Outcomes(B)' : q.up = OutcomeOf(w).up
  BY <1>1, <1>2, <1>3 DEF Outcomes
<1>7. \E q \in Outcomes(B)' : q.region # OutcomeOf(w).region
  <2>1. result'[own].region \in {result'[t].region : t \in B}
    BY <1>1
  <2>2. PICK y \in {result'[t].region : t \in B} : y # result'[own].region
    BY <1>1, <2>1, AnotherMember DEF QUORUM_MIN_REGIONS
  <2>3. PICK t \in B : result'[t].region # result'[own].region
    BY <2>2
  <2>4. [check |-> t, region |-> result'[t].region, up |-> result'[t].up] \in Outcomes(B)'
    BY <2>3 DEF Outcomes
  <2>5. QED
    BY <1>3, <2>3, <2>4
<1>8. QED
  BY <1>1, <1>3, <1>4, <1>5, <1>6, <1>7 DEF Log!Verdict

\* A commit is one step of the log: the result alone, with a new incident, or with a recovery.
LEMMA CommitIsLogged ==
  ASSUME CoreInv, CoreInv', IncidentInv, VerdictInv, EvidenceInv, RecoveryInv, LogInv,
         [Next]_vars, NEW w \in Workers, CommitCheck(w)
  PROVE  Log!Next
<1>0. PICK own, B, C :
        own = check[w].target /\ B = check[w].basis /\ C = incident[own].cause
  OBVIOUS
<1> DEFINE r == OutcomeOf(w)
<1>1. /\ incident' = CommittedIncident(w) /\ evidence' = evidence /\ Tasks' = Tasks
      /\ check[w] \in CheckTx /\ incident \in [Incidents -> IncidentRow] /\ PlanOK(w)
      /\ check[w].plan # "nothing" => check[w].pc = "applied"
  BY DEF CommitCheck, CoreInv, TypeOK, PlanOK, HoldsForUpdate, Tasks
<1>2. r \in Log!Outcome /\ Log!Record(r)
  BY CommitRecords
<1>3. CASE check[w].plan = "nothing"
  <2>1. \A i \in Incidents : Shown(i)' = Shown(i)
    BY <1>1, <1>3, ShownSame DEF CommittedIncident
  <2>2. Log!RecordOnly(r)
    BY <1>1, <1>2, <2>1 DEF Log!RecordOnly, ShownIncidents
  <2>3. QED
    BY <1>2, <2>2 DEF Log!Next
<1>4. ASSUME check[w].plan # "nothing", own \in Incidents
      PROVE  \A j \in Incidents \ {own} : Shown(j)' = Shown(j)
  <2>1. \A j \in Incidents \ {own} : incident'[j] = incident[j]
    BY <1>0, <1>1, <1>4 DEF CommittedIncident, CheckTx
  <2>2. QED
    BY <2>1, ShownSame
<1>6. CASE check[w].plan = "open"
  <2>1. Opening(w, own) /\ own \in Incidents /\ incident[own].status = "opening"
    BY <1>0, <1>1, <1>6 DEF LogInv, Opening, IncidentInv
  <2>2. incident[own].cause = B /\ incident[own].cure = {}
    BY <1>0, <2>1 DEF VerdictInv, IncidentsRest, LogInv, Visible
  <2>3. incident'[own].status = "open" /\ incident'[own].cause = B /\ incident'[own].cure = {}
    BY <1>0, <1>1, <1>6, <2>1, <2>2 DEF CommittedIncident, IncidentRow
  <2>4. Shown(own)' = [status |-> "open", cause |-> Outcomes(B)', cure |-> {}]
    BY <2>3 DEF Shown, Outcomes
  <2>5. Shown(own) = Log!Hidden
    BY <2>1 DEF Shown, Log!Hidden
  <2>6. \A j \in Incidents \ {own} : Shown(j).status # "open"
    BY <2>1 DEF IncidentInv, Shown
  <2>7. ShownIncidents' = [ShownIncidents EXCEPT ![own] = Shown(own)']
    BY <1>1, <1>4, <1>6, <2>1 DEF ShownIncidents
  <2>8. Log!Verdict(r, Outcomes(B)') /\ ~r.up /\ Outcomes(B)' \in SUBSET Outcomes(Recorded)'
    BY <1>0, <1>6, CommitVerdict
  <2>9. ShownIncidents[own] = Log!Hidden /\ Log!NoneOpenBut(own)
    BY <2>1, <2>5, <2>6 DEF Log!NoneOpenBut, ShownIncidents
  <2>10. Log!Show(own, "open", Outcomes(B)', {})
    BY <2>4, <2>7 DEF Log!Show
  <2>11. Log!OpenIncident(r, own)
    BY <1>1, <1>2, <2>8, <2>9, <2>10 DEF Log!OpenIncident
  <2>12. QED
    BY <1>2, <2>1, <2>11 DEF Log!Next
<1>7. CASE check[w].plan = "resolve"
  <2>1. own \in Incidents /\ Visible(own) /\ own \in Tasks
    BY <1>0, <1>1, <1>7 DEF PlanOK, IncidentInv, EvidenceInv, Tasks
  <2>2. Shown(own).status \notin {"none", "recovered"} /\ Shown(own).cause = Outcomes(C)
    <3>1. /\ incident[own].status \notin {"none", "opening", "recovered"}
          /\ ~(incident[own].status = "resolved" /\ incident[own].closer = "check")
      BY <1>0, <1>1, <1>7, <2>1 DEF Visible, RecoveryInv, IncidentRow
    <3>2. Shown(own) = [status |-> incident[own].status, cause |-> Outcomes(C),
                        cure |-> Outcomes(incident[own].cure)]
      BY <1>0, <3>1 DEF Shown
    <3>3. QED
      BY <3>1, <3>2
  <2>3. /\ incident'[own].status = "resolved" /\ incident'[own].closer = "check"
        /\ incident'[own].cause = C /\ incident'[own].cure = B
    BY <1>1, <1>0, <1>7, <2>1 DEF CommittedIncident, IncidentRow
  <2>4. Outcomes(C)' = Outcomes(C)
    BY <1>0, <2>1, CausesRecorded, OutcomesKept
  <2>5. Shown(own)' = [status |-> "recovered", cause |-> Outcomes(C)', cure |-> Outcomes(B)']
    BY <2>3 DEF Shown, Outcomes
  <2>6. ShownIncidents' = [ShownIncidents EXCEPT ![own] = Shown(own)']
    BY <1>1, <1>4, <1>7, <2>1 DEF ShownIncidents
  <2>7. Log!Verdict(r, Outcomes(B)') /\ r.up /\ Outcomes(B)' \in SUBSET Outcomes(Recorded)'
    BY <1>0, <1>7, CommitVerdict
  <2>8. ShownIncidents[own] = Shown(own)
    BY <2>1 DEF ShownIncidents
  <2>9. Log!Show(own, "recovered", ShownIncidents[own].cause, Outcomes(B)')
    BY <2>2, <2>4, <2>5, <2>6, <2>8 DEF Log!Show
  <2>10. Log!Recover(r, own)
    BY <1>1, <1>2, <2>1, <2>2, <2>7, <2>8, <2>9 DEF Log!Recover
  <2>11. QED
    BY <1>2, <2>1, <2>10 DEF Log!Next
<1>8. QED
  BY <1>1, <1>3, <1>6, <1>7 DEF CheckTx

\* A rolled back check leaves no trace.
LEMMA AbortIsSilent ==
  ASSUME CoreInv, CoreInv', IncidentInv, VerdictInv, LogInv, [Next]_vars,
         NEW w \in Workers, AbortCheck(w) \/ CancelDeadlocked(w)
  PROVE  UNCHANGED Log!vars
<1>1. Rollback(w) /\ Tasks' = Tasks
  BY DEF AbortCheck, CancelDeadlocked, Rollback, Tasks
<1>2. \A i \in Incidents : incident'[i] = incident[i] \/ (~Visible(i) /\ ~Visible(i)')
  BY <1>1 DEF Rollback, Visible, NoRow
<1>3. QED
  BY <1>1, <1>2, RecordedSame, LogSame

\* Delivery, insert and evaluation show nothing yet.
LEMMA QuietIsSilent ==
  ASSUME CoreInv, VerdictInv, LogInv, [Next]_vars, NEW w \in Workers,
         \/ StartCheck(w)
         \/ \E r \in Regions, up, blocked \in BOOLEAN : InsertResult(w, r, up, blocked)
         \/ EvaluateFailure(w) \/ EvaluateSuccess(w)
  PROVE  UNCHANGED Log!vars
<1>1. incident' = incident /\ Tasks' = Tasks
  BY QuietStep DEF Tasks
<1>2. StartCheck(w) \/ EvaluateSuccess(w) => UNCHANGED result
  BY DEF StartCheck, EvaluateSuccess
<1>3. QED
  BY <1>1, <1>2, RecordedSame, LogSame

\* Handing one task over.
LEMMA TaskHandedOver ==
  ASSUME NEW i, NEW requester, NEW outcome,
         evidence' = evidence \cup {<<i, requester, outcome>>}
  PROVE  Tasks' = Tasks \cup {i}
<1>1. <<i, requester, outcome>>[1] = i
  OBVIOUS
<1>2. PICK e : e = <<i, requester, outcome>>
  OBVIOUS
<1>3. e[1] = i /\ evidence' = evidence \cup {e}
  BY <1>1, <1>2
<1>4. QED
  BY <1>3 DEF Tasks

\* A check that writes shows nothing yet; one that resolves hands the evidence over.
LEMMA ApplyIsLogged ==
  ASSUME CoreInv, IncidentInv, VerdictInv, LogInv, [Next]_vars, NEW w \in Workers,
         ApplyNothing(w) \/ ApplyOpen(w) \/ ApplyResolve(w)
  PROVE  [Log!Next]_(Log!vars)
<1>1. UNCHANGED result
  BY DEF ApplyNothing, ApplyOpen, ApplyResolve
<1>2. CASE ApplyNothing(w)
  BY <1>1, <1>2, RecordedSame, LogSame DEF ApplyNothing, Tasks
<1>3. CASE ApplyOpen(w)
  <2>1. PICK tx : Written(w, tx) /\ Effects(w, tx)
    BY <1>3, ApplyWrites
  <2>2. NewIncident(w).status = "opening"
    BY DEF NewIncident, NoRow
  <2>3. \A i \in Incidents : incident'[i] = incident[i] \/ (~Visible(i) /\ ~Visible(i)')
    BY <2>1, <2>2 DEF Written, Effects, Visible, CoreInv, TypeOK
  <2>4. Tasks' = Tasks
    BY <1>3 DEF ApplyOpen, Tasks
  <2>5. QED
    BY <1>1, <2>3, <2>4, RecordedSame, LogSame
<1>4. CASE ApplyResolve(w)
  <2>1. PICK i : i = check[w].target
    OBVIOUS
  <2>2. i \in Incidents /\ Visible(i) /\ incident' = incident
    BY <1>4, <2>1 DEF ApplyResolve, CoreInv, PlanOK, IncidentInv
  <2>3. PICK outcome \in {"sent", "lost"} : evidence' = evidence \cup {<<i, "check", outcome>>}
    BY <1>4, <2>1 DEF ApplyResolve
  <2>4. Tasks' = Tasks \cup {i}
    BY <2>3, TaskHandedOver
  <2>5. Shown(i) # Log!Hidden
    BY <2>2 DEF Shown, Log!Hidden, Visible
  <2>6. ShownIncidents' = ShownIncidents
    BY <2>2, ShownSame DEF ShownIncidents
  <2>7. Log!HandOver(i)
    BY <1>1, <2>2, <2>4, <2>5, <2>6, RecordedSame, OutcomesSame DEF Log!HandOver, ShownIncidents
  <2>8. QED
    BY <2>2, <2>7 DEF Log!Next
<1>5. QED
  BY <1>2, <1>3, <1>4

\* What update_incident writes: nothing, or the row of one incident that can be seen.
LEMMA RequestRow ==
  ASSUME CoreInv, IncidentInv, NEW u \in Users, RequestStep(u)
  PROVE  \/ incident' = incident /\ Tasks' = Tasks
         \/ \E i \in Incidents, to \in {"open", "resolved", "false_positive"} :
              /\ Visible(i)
              /\ \A j \in Incidents \ {i} :
                   /\ incident'[j] = incident[j]
                   /\ to = "open" => incident[j].status # "open"
              /\ incident'[i].status = to /\ incident'[i].closer = "user"
              /\ incident'[i].cause = incident[i].cause
              /\ incident'[i].cure = incident[i].cure
              /\ Tasks' = IF to = "resolved" THEN Tasks \cup {i} ELSE Tasks
<1>1. PICK i, to : i = request[u].target /\ to = request[u].to
  OBVIOUS
<1>2. incident \in [Incidents -> IncidentRow]
  BY DEF CoreInv, TypeOK
<1>3. request[u].pc = "read" => i \in Incidents /\ Visible(i)
  BY <1>1 DEF CoreInv, RequestsOK, IncidentInv
<1>4. CASE ~(PatchStatus(u) \/ PatchResolve(u))
  BY <1>4 DEF RequestStep, ReadIncident, PatchNothing, Tasks
<1>5. CASE PatchStatus(u) /\ incident' # incident
  <2> DEFINE row == [incident[i] EXCEPT !.status = to, !.closer = "user"]
  <2>1. i \in Incidents /\ Visible(i) /\ to \in {"open", "false_positive"} /\ Tasks' = Tasks
    BY <1>1, <1>3, <1>5 DEF PatchStatus, Tasks
  <2>2. incident' = [incident EXCEPT ![i] = row]
    BY <1>1, <1>2, <1>5, <2>1 DEF PatchStatus
  <2>3. to = "open" => \A j \in Incidents \ {i} : incident[j].status # "open"
    BY <1>1, <1>5 DEF PatchStatus, OpenIncidents
  <2>4. /\ row.status = to /\ row.closer = "user"
        /\ row.cause = incident[i].cause /\ row.cure = incident[i].cure
    BY <1>2, <2>1 DEF IncidentRow
  <2> HIDE DEF row
  <2>5. incident'[i] = row /\ \A j \in Incidents \ {i} : incident'[j] = incident[j]
    BY <1>2, <2>1, <2>2
  <2>6. to # "resolved"
    BY <2>1
  <2>7. QED
    BY <2>1, <2>3, <2>4, <2>5, <2>6
<1>6. CASE PatchStatus(u) /\ incident' = incident
  BY <1>6 DEF PatchStatus, Tasks
<1>7. CASE PatchResolve(u)
  <2> DEFINE row == [incident[i] EXCEPT !.status = "resolved", !.resolvedAt = TRUE,
                                        !.closer = "user"]
  <2>1. i \in Incidents /\ Visible(i) /\ to = "resolved"
    BY <1>1, <1>3, <1>7 DEF PatchResolve
  <2>2. incident' = [incident EXCEPT ![i] = row]
    BY <1>1, <1>2, <1>7, <2>1 DEF PatchResolve
  <2>3. Tasks' = Tasks \cup {i}
    BY <1>1, <1>7, TaskHandedOver DEF PatchResolve
  <2>4. /\ row.status = "resolved" /\ row.closer = "user"
        /\ row.cause = incident[i].cause /\ row.cure = incident[i].cure
    BY <1>2, <2>1 DEF IncidentRow
  <2> HIDE DEF row
  <2>5. incident'[i] = row /\ \A j \in Incidents \ {i} : incident'[j] = incident[j]
    BY <1>2, <2>1, <2>2
  <2>6. QED
    BY <2>1, <2>3, <2>4, <2>5
<1>8. QED
  BY <1>4, <1>5, <1>6, <1>7

\* A user's change is one step of the log.
LEMMA RequestIsLogged ==
  ASSUME CoreInv, IncidentInv, VerdictInv, LogInv, [Next]_vars, NEW u \in Users, RequestStep(u)
  PROVE  [Log!Next]_(Log!vars)
<1>1. UNCHANGED result
  BY RequestWrites
<1>2. CASE incident' = incident /\ Tasks' = Tasks
  BY <1>1, <1>2, RecordedSame, LogSame
<1>3. ASSUME NEW i \in Incidents, NEW to \in {"open", "resolved", "false_positive"},
             /\ Visible(i)
             /\ \A j \in Incidents \ {i} :
                  /\ incident'[j] = incident[j]
                  /\ to = "open" => incident[j].status # "open"
             /\ incident'[i].status = to /\ incident'[i].closer = "user"
             /\ incident'[i].cause = incident[i].cause
             /\ incident'[i].cure = incident[i].cure
             /\ Tasks' = IF to = "resolved" THEN Tasks \cup {i} ELSE Tasks
      PROVE  Log!Next
  <2>1. PICK C, D : C = incident[i].cause /\ D = incident[i].cure
    OBVIOUS
  <2>2. Outcomes(C)' = Outcomes(C) /\ Outcomes(D)' = Outcomes(D)
    BY <1>3, <2>1, CausesRecorded, OutcomesKept
  <2>3. /\ Shown(i) # Log!Hidden
        /\ Shown(i).cause = Outcomes(C) /\ Shown(i).cure = Outcomes(D)
    BY <1>3, <2>1 DEF Shown, Log!Hidden, Visible
  <2>4. Shown(i)' = [status |-> to, cause |-> Outcomes(C)', cure |-> Outcomes(D)']
    BY <1>3, <2>1 DEF Shown, Outcomes
  <2>5. to = "open" => \A j \in Incidents \ {i} : Shown(j).status # "open"
    BY <1>3 DEF Shown
  <2>6. \A j \in Incidents \ {i} : Shown(j)' = Shown(j)
    BY <1>3, ShownSame
  <2>7. ShownIncidents' = [ShownIncidents EXCEPT ![i] = Shown(i)']
    BY <2>6 DEF ShownIncidents
  <2>8. Outcomes(Recorded)' = Outcomes(Recorded)
    BY <1>1, RecordedSame, OutcomesSame
  <2>9. ShownIncidents[i] = Shown(i) /\ (to = "open" => Log!NoneOpenBut(i))
    BY <1>3, <2>5 DEF Log!NoneOpenBut, ShownIncidents
  <2>10. Log!Show(i, to, ShownIncidents[i].cause, ShownIncidents[i].cure)
    BY <2>2, <2>3, <2>4, <2>7, <2>9 DEF Log!Show
  <2>11. Log!Patch(i, to)
    BY <1>3, <2>3, <2>8, <2>9, <2>10 DEF Log!Patch
  <2>12. QED
    BY <2>11 DEF Log!Next
<1>4. QED
  BY <1>2, <1>3, RequestRow

\* Each step of checks, users and time is a step of the log or none.
LEMMA LogStep ==
  ASSUME CoreInv, CoreInv', IncidentInv, VerdictInv, EvidenceInv, RecoveryInv, LogInv, [Next]_vars
  PROVE  [Log!Next]_(Log!vars)
<1>1. CASE Environment
  <2>1. ASSUME NEW s \in Slots, AgeOut(s) PROVE UNCHANGED Log!vars
    BY <2>1, RecordedSame, LogSame DEF AgeOut, Tasks
  <2>2. CASE DeleteDependency
    BY <2>2, RecordedSame, LogSame DEF DeleteDependency, Tasks
  <2>3. QED
    BY <1>1, <2>1, <2>2, RequestIsLogged DEF Environment
<1>2. CASE UNCHANGED vars
  BY <1>2, RecordedSame, LogSame DEF vars, Tasks
<1>3. QED
  BY <1>1, <1>2, StepGroups, QuietIsSilent, ApplyIsLogged, CommitIsLogged, AbortIsSilent

\* execute_check with its locks, transactions and failures, and update_incident beside it,
\* implement the incident log.
THEOREM CheckQuorumImplementsIncidentLog ==
  /\ Spec => Log!Spec
  /\ Spec => VerdictsAreAtomic
<1>1. Init => Log!Init
  <2> SUFFICES ASSUME Init PROVE Log!Init
    OBVIOUS
  <2>1. Recorded = {}
    BY DEF Init, NoResult, Recorded
  <2>2. \A i \in Incidents : Shown(i) = Log!Hidden
    BY DEF Init, NoRow, Shown, Log!Hidden
  <2>3. QED
    BY <2>1, <2>2 DEF Init, Log!Init, Outcomes, ShownIncidents, Tasks
<1>2. Init => EvidenceInv /\ RecoveryInv /\ LogInv
  BY LogInit DEF Init, IdleTx, NoRow, EvidenceInv, EvidenceFollowsResolution, RecoveryInv
<1>3. Init => VerdictInv
  BY VerdictInit
<1>4. CoreInv /\ CoreInv' /\ IncidentInv /\ VerdictInv /\ [Next]_vars => VerdictInv'
  BY VerdictStep
<1>5. CoreInv /\ IncidentInv /\ EvidenceInv /\ [Next]_vars => EvidenceInv'
  BY EvidenceStep
<1>6. CoreInv /\ IncidentInv /\ RecoveryInv /\ [Next]_vars => RecoveryInv'
  BY RecoveryStep
<1>7. CoreInv /\ CoreInv' /\ IncidentInv /\ VerdictInv /\ LogInv /\ [Next]_vars => LogInv'
  BY LogInvStep
<1>8. CoreInv /\ CoreInv' /\ IncidentInv /\ VerdictInv /\ EvidenceInv /\ RecoveryInv /\ LogInv
        /\ [Next]_vars => [Log!Next]_(Log!vars)
  BY LogStep
<1>9. QED
  BY <1>1, <1>2, <1>3, <1>4, <1>5, <1>6, <1>7, <1>8, LocksAndRows, IncidentsConsistent, PTL
     DEF Spec, Log!Spec, VerdictsAreAtomic
=============================================================================
