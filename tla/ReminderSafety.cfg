SPECIFICATION Spec
CONSTANTS
  Cycle = {c1}
  NoCycle = NoCycle
  Worker = {w1, w2}
  Idle = 1
  Interval = 2
  Grace = 1
  MaxReminders = 2
  ClaimTTL = 3
  SendTimeout = 2
  Backoff = 1
  Poll = 1
  MaxFaults = 1
  MaxTime = 5
  Span = 0
SYMMETRY Interchangeable
INVARIANTS TypeOK CountedWasReceived SenderKeepsClaim
PROPERTIES RemindersSpaced ExpiredWasWarned
