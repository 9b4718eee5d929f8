--------------------------- MODULE MCCheckQuorum ---------------------------
(***************************************************************************)
(* CheckQuorum on small instances.  A behaviour starts from one of two     *)
(* reachable states, so that few further checks go all the way through an  *)
(* outage: a quiet dependency whose first three checks were rolled back,   *)
(* and an ongoing outage, just confirmed by the first two checks.          *)
(***************************************************************************)
EXTENDS CheckQuorum

OtherRegion == CHOOSE r \in Regions : r # HomeRegion

Failure(region, quorum) ==
  [state |-> "committed", region |-> region, up |-> FALSE, blocked |-> FALSE,
   quorum |-> quorum]

QuietInit ==
  /\ last = 3
  /\ result = [s \in Slots |-> IF s <= 3 THEN [NoResult EXCEPT !.state = "aborted"]
                                         ELSE NoResult]
  /\ incident = [i \in Incidents |-> NoRow]

OutageInit ==
  /\ last = 2
  /\ result = [s \in Slots |-> CASE s = 1 -> Failure(HomeRegion, FALSE)
                                 [] s = 2 -> Failure(OtherRegion, TRUE)
                                 [] OTHER -> NoResult]
  /\ incident = [i \in Incidents |->
                   IF i = 1 THEN [NoRow EXCEPT !.status = "open", !.cause = {1, 2}]
                            ELSE NoRow]

MCInit ==
  /\ QuietInit \/ OutageInit
  /\ deleted = FALSE
  /\ check = [w \in Workers |-> IdleTx]
  /\ request = [u \in Users |-> NoRequest]
  /\ evidence = {}

MCSpec == MCInit /\ [][Next]_vars /\ Fairness
=============================================================================
