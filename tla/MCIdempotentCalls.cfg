SPECIFICATION CallSpec
CONSTANTS
  c1 = c1
  c2 = c2
  same = same
  other = other
  NoRequest = NoRequest
  Calls <- TwoCalls
  MaxAttempts = 2
  Requests <- AllAttempts
  Payloads <- TwoPayloads
  Asks <- SecondDiffers
  MaxFaults = 2
CHECK_DEADLOCK FALSE
INVARIANTS
  OneHandler
  DoneOnce
  SuccessIsOurs
  LockHasCause
PROPERTY FirstOutcomeStays
