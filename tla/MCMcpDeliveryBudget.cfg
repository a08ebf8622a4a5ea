SPECIFICATION MCSpec
CONSTANTS
  w1 = w1
  w2 = w2
  Deliveries <- TwoRows
  Workers <- TwoWorkers
  MaxAttempts = 2
  BatchLimit = 2
  MaxEpochs = 1
  MaxFaults = 2
INVARIANT AttemptedAtMostMax
