\* Two checks, two overlapping processors, batches of two, four rows.
SPECIFICATION Spec
CONSTANTS
  Workers = {w1, w2}
  Processors = {d1, d2}
  MaxEvents = 4
  Leftover = 1
  BatchSize = 2
  MaxFaults = 2
INVARIANTS
  TypeOK
  NoneLostNoneDuplicated
PROPERTIES
  StreamSpec
  EveryResultObserved
CHECK_DEADLOCK FALSE
