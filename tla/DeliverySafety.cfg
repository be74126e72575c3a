SPECIFICATION Spec
CONSTANTS
  AutoRow = {core}
  Handler = {manual}
  EnrichedRow = {}
  BadRow = {}
  Worker = {w1}
  NoRow = NoRow
  NumParts = 1
  ClaimTTL = 2
  SendTimeout = 1
  Backoff = 1
  MaxAttempts = 2
  BatchSize = 1
  Poll = 2
  MaxLoadDelay = 2
  MaxFaults = 1
  MaxTime = 3
  Span = 0
INVARIANTS TypeOK RecordedWasReceived CopiesBoundedByAttempts
PROPERTIES SendsUnderOwnClaim RecordedSummaryNotResent ScheduledDocumentNotResent PromiseKept
