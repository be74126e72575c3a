SPECIFICATION LiveSpec
CONSTANTS
  Date = {1, 3}
  Legacy = {1}
  Builder = {b1}
  ClaimTTL = 2
  Backoff = 1
  MaxAttempts = 2
  Poll = 1
  MaxFaults = 2
  MaxTime = 7
  Span = 5
PROPERTIES ReportsSettle JobsFollow
