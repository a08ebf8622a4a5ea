SPECIFICATION MCSpec
CONSTANTS
  Schedulers <- TheSchedulers
  RunImmediately <- StartAtOnce
  Listeners <- TheListeners
  ReleaseOnListenFailure <- KeepsNone
  card = card
  card2 = card2
  k1 = k1
  k2 = k2
  k3 = k3
  k4 = k4
  SourceCards <- TwoCards
  TailBatch = 1
  MaxDirty = 2
  MaxEdits = 2
  MaxMirrorActs = 2
  MaxMirrorFaults = 1
  Keys <- FourKeys
  Concurrency = 2
INVARIANTS
  WorkerTypeOK
  NeverOverlaps
  ReleaseIsFinal
  PoolOutlivesWork
  NothingIsMissed
PROPERTIES
  WakeIsServiced
  ShutdownCompletes
  MirrorConverges
  EveryKeyHasItsTurn
CHECK_DEADLOCK FALSE
