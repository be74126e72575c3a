SPECIFICATION Spec
CONSTANTS
  old = old
  new = new
  v1 = v1
  v2 = v2
  Report = {1}
  Version = {v1, v2}
  Comment = {1, 2}
  Commented <- MCCommented
  Clear = {1}
  Answer = {"a"}
  Worker = {old, new}
  Settings <- MCSettings
  Supported <- MCSupported
  Keyed <- MCKeyed
  ClaimTTL = 2
  RunTimeout = 1
  Backoff = 1
  MaxAttempts = 2
  Batch = 1
  Poll = 1
  MaxStall = 2
  MaxFaults = 1
  MaxReopen = 1
  MaxTime = 4
INVARIANTS TypeOK NoConflict WorkbookComplete RevisionsInOrder
PROPERTIES WorkIsKept DueIsTried
