SPECIFICATION MCSpec
CONSTANTS
  w1 = w1
  w2 = w2
  r1 = r1
  r2 = r2
  c1 = c1
  c2 = c2
  c3 = c3
  Events <- TwoEvents
  Workers <- TwoWorkers
  BatchLimit = 2
  MaxFaults = 1
  MaxInterventions = 1
  Cards <- FourCards
  Requests <- TwoRequests
  Workspaces = {1, 2}
  KeyPrefixes = {"ABC", "XYZ"}
  Places = {"here", "there"}
  Tokens = {"token"}
  Writers <- ThreeWriters
  Entries <- ThreeEntries
  Spacing = 4
  Eps = 2
  LiveCap = 2
  MaxPosition = 8
SYMMETRY Symmetry
INVARIANTS
  BoardTypeOK
  FlagsTellTheTruth
  NoNeedlessRebroadcast
  AcyclicBlocking
  PlainWritesNeverDeadlock
  KeysNeverChangeHands
  RetriesShareTheCard
PROPERTIES
  ImplementsSafely
  HandoffsAreTold
  OrderIsWhatWasSaid
CHECK_DEADLOCK FALSE
