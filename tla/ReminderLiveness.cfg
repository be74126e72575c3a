SPECIFICATION LiveSpec
CONSTANTS
  Cycle = {c1}
  NoCycle = NoCycle
  Worker = {w1}
  Idle = 1
  Interval = 1
  Grace = 1
  MaxReminders = 2
  ClaimTTL = 2
  SendTimeout = 1
  Backoff = 1
  Poll = 1
  MaxFaults = 1
  MaxTime = 10
  Span = 8
PROPERTIES SilentCyclesEnd
