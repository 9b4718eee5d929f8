---------------------------- MODULE EvidenceGate ----------------------------
(***************************************************************************)
(* Publication of evidence: an organization makes the evidence of an       *)
(* incident public or private again.                                       *)
(*                                                                         *)
(* app/modules/evidence_gate/service.py (publicize_evidence,               *)
(* list_public_incidents), repository.py, models.py, router.py.            *)
(*                                                                         *)
(* A request reads the newest public_evidence_reports row of the incident  *)
(* and changes it, or inserts one.  No constraint makes the row of an      *)
(* incident unique, and the vendor's page lists every public row.  Rows    *)
(* are numbered by created_at.                                             *)
(***************************************************************************)
EXTENDS Integers, FiniteSets, FiniteSetsExt

CONSTANTS
  GateWorkers,    \* requests at a time
  Evidenced,      \* incidents with an evidence report
  MaxReports,     \* bound: rows inserted in a behaviour
  NoEvidence

ASSUME EvidenceGateAssumption == MaxReports \in Nat /\ NoEvidence \notin Evidenced

Reports == 1..MaxReports

VARIABLES
  publicReport,  \* public_evidence_reports rows
  created,       \* values of created_at taken so far
  publication,   \* the transaction of each worker
  doubled        \* history: incidents for which a row was inserted while another was

evidenceGateVars == <<publicReport, created, publication, doubled>>

PublicReport == [status : {"none", "private", "public"}, incident : Evidenced \cup {NoEvidence}]

\* report: the row to be written, inserted if new; wasPublic: is_public as it was loaded.
Publication == [open : BOOLEAN, incident : Evidenced \cup {NoEvidence}, report : 0..MaxReports,
                new : BOOLEAN, wasPublic : BOOLEAN, make_public : BOOLEAN]

NoPublication == [open |-> FALSE, incident |-> NoEvidence, report |-> 0, new |-> FALSE,
                  wasPublic |-> FALSE, make_public |-> FALSE]

EvidenceGateTypeOK ==
  /\ publicReport \in [Reports -> PublicReport]
  /\ created \in 0..MaxReports
  /\ publication \in [GateWorkers -> Publication]
  /\ doubled \subseteq Evidenced

EvidenceGateInit ==
  /\ publicReport = [r \in Reports |-> [status |-> "none", incident |-> NoEvidence]]
  /\ created = 0
  /\ publication = [w \in GateWorkers |-> NoPublication]
  /\ doubled = {}

----------------------------------------------------------------------------

RowsOf(i) == {r \in Reports : publicReport[r].status # "none" /\ publicReport[r].incident = i}

\* The newest row of the incident, 0 if there is none.
get_by_incident(i) == Max({0} \cup RowsOf(i))

list_public_for_vendor == {r \in Reports : publicReport[r].status = "public"}

\* The row exists: update_publicity.
ReadExisting(w, i, make_public) ==
  LET r == get_by_incident(i) IN
  /\ ~publication[w].open
  /\ r # 0
  /\ publication' = [publication EXCEPT ![w] =
       [open |-> TRUE, incident |-> i, report |-> r, new |-> FALSE,
        wasPublic |-> publicReport[r].status = "public", make_public |-> make_public]]
  /\ UNCHANGED <<publicReport, created, doubled>>

\* A request that inserts a row whether there is one or not.
InsertAlways(w, i) ==
  /\ ~publication[w].open
  /\ created < MaxReports
  /\ created' = created + 1
  /\ publication' = [publication EXCEPT ![w] =
       [open |-> TRUE, incident |-> i, report |-> created + 1, new |-> TRUE,
        wasPublic |-> FALSE, make_public |-> TRUE]]
  /\ doubled' = IF \E v \in GateWorkers : publication[v].new /\ publication[v].incident = i
                  THEN doubled \cup {i} ELSE doubled
  /\ UNCHANGED publicReport

\* There is none: create, if it is to be public; to unpublish nothing is refused.
ReadMissing(w, i) ==
  /\ ~publication[w].open
  /\ get_by_incident(i) = 0
  /\ created < MaxReports
  /\ created' = created + 1
  /\ publication' = [publication EXCEPT ![w] =
       [open |-> TRUE, incident |-> i, report |-> created + 1, new |-> TRUE,
        wasPublic |-> FALSE, make_public |-> TRUE]]
  /\ doubled' = IF \E v \in GateWorkers : publication[v].new /\ publication[v].incident = i
                  THEN doubled \cup {i} ELSE doubled
  /\ UNCHANGED publicReport

\* is_public is written only if it differs from what was loaded.
CommitPublication(w) ==
  LET p == publication[w] IN
  /\ p.open
  /\ publicReport' =
       IF p.make_public = p.wasPublic THEN publicReport
       ELSE [publicReport EXCEPT ![p.report] =
               [status |-> IF p.make_public THEN "public" ELSE "private",
                incident |-> p.incident]]
  /\ publication' = [publication EXCEPT ![w] = NoPublication]
  /\ UNCHANGED <<created, doubled>>

RollbackPublication(w) ==
  /\ publication[w].open
  /\ publication' = [publication EXCEPT ![w] = NoPublication]
  /\ UNCHANGED <<publicReport, created, doubled>>

EvidenceGateNext ==
  \E w \in GateWorkers :
    \/ \E i \in Evidenced :
         \/ \E make_public \in BOOLEAN : ReadExisting(w, i, make_public)
         \/ ReadMissing(w, i)
    \/ CommitPublication(w)
    \/ RollbackPublication(w)

EvidenceGateSpec == EvidenceGateInit /\ [][EvidenceGateNext]_evidenceGateVars

----------------------------------------------------------------------------
(* Properties *)

\* Once the row the organization sees is private, the vendor's page lists no row of the
\* incident, whatever publications and withdrawals overlapped, unless two of them inserted
\* a row at the same time: publicize_evidence changes one row.
UnpublishedIsHidden ==
  \A i \in Evidenced \ doubled :
    get_by_incident(i) \notin list_public_for_vendor => RowsOf(i) \cap list_public_for_vendor = {}
=============================================================================
