\* Two workers probing two regions of one dependency.
SPECIFICATION MCSpec
CONSTANTS
  Workers = {w1, w2}
  Users = {}
  Regions = {east, west}
  MaxChecks = 5
  MaxIncidents = 1
INVARIANT
  ChecksSerialize
CHECK_DEADLOCK FALSE
