SPECIFICATION Spec
CONSTANTS
  Date = {1, 3}
  Legacy = {}
  Builder = {b1}
  ClaimTTL = 1
  Backoff = 1
  MaxAttempts = 2
  Poll = 1
  MaxFaults = 0
  MaxTime = 0
  Span = 0
INVARIANTS CoreFromFrozenPrevious
