SPECIFICATION PushSpec
CONSTANTS
  s1 = s1
  push = push
  phone = phone
  Own = Own
  Pushes <- OnePush
  Personal <- NoPush
  Devices <- OneDevice
  PushSweeps <- OneSweep
  PushTries = 3
  PushLimit = 1
  MaxPushFaults = 1
  MaxPushActs = 0
INVARIANT SuccessfulAreNotRetried
CHECK_DEADLOCK FALSE
