SPECIFICATION CallSpec
CONSTANTS
  c1 = c1
  c2 = c2
  same = same
  other = other
  NoRequest = NoRequest
  Calls <- OneCall
  MaxAttempts = 2
  Requests <- AllAttempts
  Payloads <- TwoPayloads
  Asks <- AllSame
  MaxFaults = 0
CHECK_DEADLOCK FALSE
PROPERTY LimitIsNotReplayed
