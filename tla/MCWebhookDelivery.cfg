SPECIFICATION MCSpec
CONSTANTS
  d1 = d1
  test = test
  s1 = s1
  s2 = s2
  r1 = r1
  Deliveries <- RowAndTest
  Tests <- OneTest
  Sweeps <- TwoSweeps
  Requests <- OneRequest
  MaxAttempts = 2
  BatchLimit = 1
  MaxFaults = 2
  MaxInterventions = 1
INVARIANTS
  PendingHasBudget
  SuccessIsReal
  DuplicateNeedsCause
PROPERTIES
  DowngradeHolds
  EventuallySettled
