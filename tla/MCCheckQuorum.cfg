\* Two workers, two regions, one administrator's request, five check results.
SPECIFICATION MCSpec
CONSTANTS
  Workers = {w1, w2}
  Users = {u1}
  Regions = {east, west}
  MaxChecks = 5
  MaxIncidents = 2
INVARIANTS
  TypeOK
  QuorumNotMissed
  OneOpenIncident
  VerdictsRestOnCommittedChecks
  EvidenceFollowsResolution
PROPERTIES
  VerdictsAreAtomic
  ChecksEnd
CHECK_DEADLOCK FALSE
