SPECIFICATION Spec
CONSTANTS
  Date = {1, 3, 4}
  Legacy = {1}
  Builder = {b1, b2}
  ClaimTTL = 1
  Backoff = 1
  MaxAttempts = 2
  Poll = 1
  MaxFaults = 1
  MaxTime = 1
  Span = 0
SYMMETRY Interchangeable
INVARIANTS TypeOK ReadyIffStored FrozenPreviousUsed
PROPERTIES ClaimKept ReportFrozen
