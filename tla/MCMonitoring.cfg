SPECIFICATION MCSpec
CONSTANTS
  Schedulers = {s1, s2}
  DueDeps = {d1, d2}
  Regions = {r1}
  Limit = 1
  CheckRetries = 1
  MaxFaults = 2
  Dispatchers = {w1, w2}
  Alerts = {a1}
  Channels = {c1, c2}
  NoAlert = NoAlert
  EvidenceWorkers = {w1, w2}
  Incidents = {i1}
  MaxResolutions = 2
  MaxRequests = 1
  TaskRetries = 1
  MaxUpsets = 2
  NoIncident = NoIncident
  GateWorkers = {w1, w2}
  Evidenced = {i1, i2}
  MaxReports = 3
  NoEvidence = NoEvidence
INVARIANTS
  MonitoringTypeOK
  EvidenceIsComplete
  
  UnpublishedIsHidden
PROPERTIES
  DueIsProbed
  
CHECK_DEADLOCK FALSE
