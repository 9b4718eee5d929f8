---------------------------- MODULE MCMonitoring ----------------------------
(***************************************************************************)
(* Instances of the components around a check: CheckDispatch,              *)
(* AlertDispatch, EvidencePipeline and EvidenceGate.                       *)
(*                                                                         *)
(* They share no variable, so what holds of each alone holds of them       *)
(* together (MonitoringSpec).  TLC explores the behaviours that move one   *)
(* of them, chosen by focus, under the fairness of that one; Explored      *)
(* bounds EvidencePipeline, which is explored with two resolutions, then   *)
(* with two faults and a request.                                          *)
(***************************************************************************)
EXTENDS CheckDispatch, AlertDispatch, EvidencePipeline, EvidenceGate, TLC

VARIABLE focus

EvidenceFoci == {"resolutions", "faults"}
Foci == {"checks", "alerts", "publication"} \cup EvidenceFoci

Explored ==
  /\ focus = "resolutions" => upsets <= 1 /\ requests = 0
  /\ focus = "faults" => stamps <= 1

----------------------------------------------------------------------------
(* The components side by side: each of them may move in any state *)

componentVars == <<checkDispatchVars, alertDispatchVars, evidenceVars, evidenceGateVars>>

MonitoringInit ==
  /\ CheckDispatchInit
  /\ AlertDispatchInit
  /\ EvidencePipelineInit
  /\ EvidenceGateInit

CheckDispatchMove ==
  CheckDispatchNext /\ UNCHANGED <<alertDispatchVars, evidenceVars, evidenceGateVars>>

AlertDispatchMove ==
  AlertDispatchNext /\ UNCHANGED <<checkDispatchVars, evidenceVars, evidenceGateVars>>

EvidencePipelineMove ==
  EvidencePipelineNext /\ UNCHANGED <<checkDispatchVars, alertDispatchVars, evidenceGateVars>>

EvidenceGateMove ==
  EvidenceGateNext /\ UNCHANGED <<checkDispatchVars, alertDispatchVars, evidenceVars>>

MonitoringNext ==
  \/ CheckDispatchMove
  \/ AlertDispatchMove
  \/ EvidencePipelineMove
  \/ EvidenceGateMove

MonitoringSpec == MonitoringInit /\ [][MonitoringNext]_componentVars

----------------------------------------------------------------------------
(* What is explored of them *)

MCInit == focus \in Foci /\ MonitoringInit

MCNext ==
  /\ \/ focus = "checks" /\ CheckDispatchMove
     \/ focus = "alerts" /\ AlertDispatchMove
     \/ focus \in EvidenceFoci /\ EvidencePipelineMove
     \/ focus = "publication" /\ EvidenceGateMove
  /\ UNCHANGED focus
  /\ Explored'

MCSpec ==
  /\ MCInit
  /\ [][MCNext]_<<componentVars, focus>>
  /\ IF focus = "checks" THEN CheckDispatchFairness ELSE EvidencePipelineFairness

MonitoringTypeOK ==
  /\ CheckDispatchTypeOK
  /\ AlertDispatchTypeOK
  /\ EvidencePipelineTypeOK
  /\ EvidenceGateTypeOK
=============================================================================
